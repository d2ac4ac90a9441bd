------------------------ MODULE PeekReaders_proofs ------------------------
(***************************************************************************)
(* Proofs about the readers that peek once, for every file, chunk sizes,   *)
(* masks, Gear table, sequence length and skip, and for every number of    *)
(* Peeker errors: what was not handed out is never lost, the hash of       *)
(* FastCDC runs on over blocks and regions, the chunks of SeqCDC have the  *)
(* sizes it promises, and either reader hands out the chunks of its rule.  *)
(* First the Gear hash, then SeqCDC, FastCDC, and both together.           *)
(***************************************************************************)
EXTENDS PeekReaders, FiniteSetTheorems, WellFoundedInduction, TLAPS

\* A set of natural numbers has a smallest member.
LEMMA LeastMember ==
    ASSUME NEW S \in SUBSET Nat, S # {}
    PROVE  \E x \in S : \A y \in S : x <= y
<1> DEFINE R == OpToRel(<, Nat)
<1>1. IsWellFoundedOn(R, Nat)
    BY NatLessThanWellFounded
<1>2. \A x, y \in Nat : <<y, x>> \in R <=> y < x
    BY DEF OpToRel
<1> HIDE DEF R
<1>3. PICK x \in S : \A y \in S : ~ (<<y, x>> \in R)
    BY <1>1, WFMin
<1>4. ASSUME NEW y \in S PROVE x <= y
  <2>1. x \in Nat /\ y \in Nat /\ ~ (y < x)
    BY <1>2, <1>3
  <2> QED
    BY <2>1
<1> QED
    BY <1>4

-----------------------------------------------------------------------------
\* Powers of two

\* A function that satisfies the recursion up to n.
Doubles(n, f) == f[0] = 1 /\ \A j \in 0 .. (n - 1) : f[j + 1] = 2 * f[j]

LEMMA DoublesExist == \A n \in Nat : \E f : Doubles(n, f)
<1> DEFINE bad == {n \in Nat : ~ \E f : Doubles(n, f)}
<1> SUFFICES ASSUME bad # {} PROVE FALSE
    OBVIOUS
<1>1. PICK n \in bad : \A m \in bad : n <= m
  <2>1. bad \in SUBSET Nat
    OBVIOUS
  <2> HIDE DEF bad
  <2> QED
    BY <2>1, LeastMember
<1>2. n # 0
  <2>1. Doubles(0, [j \in {0} |-> 1])
    BY DEF Doubles
  <2> QED
    BY <1>1, <2>1
<1>3. n - 1 \in Nat /\ n - 1 \notin bad
  <2>1. n - 1 \in Nat /\ ~ (n <= n - 1)
    BY <1>1, <1>2
  <2> QED
    BY <1>1, <2>1
<1>4. PICK g : Doubles(n - 1, g)
    BY <1>3
<1> DEFINE h == [j \in 0 .. n |-> IF j = n THEN 2 * g[n - 1] ELSE g[j]]
<1>5. Doubles(n, h)
  <2>1. h[0] = 1
    BY <1>1, <1>2, <1>4 DEF Doubles
  <2>2. ASSUME NEW j \in 0 .. (n - 1) PROVE h[j + 1] = 2 * h[j]
    <3>1. CASE j = n - 1
      BY <1>1, <3>1
    <3>2. CASE j # n - 1
      <4>1. j \in 0 .. (n - 1 - 1) /\ j + 1 # n /\ j # n /\ j \in 0 .. n /\ j + 1 \in 0 .. n
        BY <1>1, <3>2
      <4>2. h[j + 1] = g[j + 1] /\ h[j] = g[j]
        BY <4>1
      <4>3. g[j + 1] = 2 * g[j]
        BY <1>4, <4>1 DEF Doubles
      <4> HIDE DEF h
      <4> QED
        BY <4>2, <4>3
    <3> QED
      BY <3>1, <3>2
  <2> HIDE DEF h
  <2> QED
    BY <2>1, <2>2 DEF Doubles
<1> QED
    BY <1>1, <1>5

\* Two such functions agree as far as both go.
LEMMA DoublesAgree ==
    ASSUME NEW n \in Nat, NEW f, Doubles(n, f), NEW g, Doubles(n + 1, g)
    PROVE  g[n] = f[n]
<1> DEFINE bad == {j \in 0 .. n : g[j] # f[j]}
<1> SUFFICES ASSUME bad # {} PROVE FALSE
    OBVIOUS
<1>1. PICK j \in bad : \A m \in bad : j <= m
  <2>1. bad \in SUBSET Nat
    OBVIOUS
  <2> HIDE DEF bad
  <2> QED
    BY <2>1, LeastMember
<1>2. j # 0
    BY <1>1 DEF Doubles
<1>3. j - 1 \in 0 .. n /\ j - 1 \notin bad
  <2>1. j - 1 \in 0 .. n /\ ~ (j <= j - 1)
    BY <1>1, <1>2
  <2> QED
    BY <1>1, <2>1
<1>4. j - 1 \in 0 .. (n - 1) /\ j - 1 \in 0 .. (n + 1 - 1) /\ j = (j - 1) + 1
    BY <1>1, <1>2
<1>5. f[j] = 2 * f[j - 1] /\ g[j] = 2 * g[j - 1]
    BY <1>4 DEF Doubles
<1>6. g[j - 1] = f[j - 1]
    BY <1>3
<1> QED
    BY <1>1, <1>5, <1>6

\* The powers of two.
LEMMA TwoToDoubles ==
    Fast!TwoTo[0] = 1 /\ \A n \in Nat : Fast!TwoTo[n + 1] = 2 * Fast!TwoTo[n]
<1> DEFINE f(n) == CHOOSE f : Doubles(n, f)
           F == [n \in Nat |-> f(n)[n]]
           Body(g, n) == IF n = 0 THEN 1 ELSE 2 * g[n - 1]
<1>1. \A n \in Nat : Doubles(n, f(n))
    BY DoublesExist
<1> HIDE DEF f
<1>2. F[0] = 1
    BY <1>1 DEF Doubles
<1>3. ASSUME NEW n \in Nat PROVE F[n + 1] = 2 * F[n]
  <2>1. Doubles(n, f(n)) /\ Doubles(n + 1, f(n + 1))
    BY <1>1
  <2>2. f(n + 1)[n] = f(n)[n]
    BY <2>1, DoublesAgree
  <2>3. f(n + 1)[n + 1] = 2 * f(n + 1)[n]
    <3>1. n \in 0 .. (n + 1 - 1)
      OBVIOUS
    <3> QED
      BY <2>1, <3>1 DEF Doubles
  <2> QED
    BY <2>2, <2>3
<1>4. F = [n \in Nat |-> Body(F, n)]
  <2>1. ASSUME NEW n \in Nat PROVE F[n] = Body(F, n)
    <3>1. CASE n = 0
      BY <1>2, <3>1
    <3>2. CASE n # 0
      <4>1. n - 1 \in Nat /\ n = (n - 1) + 1
        BY <3>2
      <4>2. F[n] = 2 * F[n - 1]
        BY <1>3, <4>1
      <4> HIDE DEF F
      <4> QED
        BY <3>2, <4>2
    <3> QED
      BY <3>1, <3>2
  <2> HIDE DEF Body
  <2> QED
    BY <2>1
<1> DEFINE G == CHOOSE g : g = [n \in Nat |-> Body(g, n)]
<1>5. G = [n \in Nat |-> Body(G, n)]
  <2> HIDE DEF F, Body
  <2> QED
    BY <1>4
<1>6. Fast!TwoTo = G
    BY DEF Fast!TwoTo
<1> HIDE DEF G
<1>7. \A n \in Nat : G[n] = Body(G, n)
  <2> HIDE DEF Body
  <2> QED
    BY <1>5
<1>8. ASSUME NEW n \in Nat PROVE G[n + 1] = 2 * G[n]
  <2>1. n + 1 \in Nat /\ n + 1 # 0 /\ n + 1 - 1 = n
    OBVIOUS
  <2> QED
    BY <1>7, <2>1
<1> QED
    BY <1>6, <1>7, <1>8

LEMMA TwoToIsPositive == \A n \in Nat : Fast!TwoTo[n] \in Nat /\ Fast!TwoTo[n] > 0
<1> DEFINE bad == {n \in Nat : ~ (Fast!TwoTo[n] \in Nat /\ Fast!TwoTo[n] > 0)}
<1> SUFFICES ASSUME bad # {} PROVE FALSE
    OBVIOUS
<1>1. PICK n \in bad : \A m \in bad : n <= m
  <2>1. bad \in SUBSET Nat
    OBVIOUS
  <2> HIDE DEF bad
  <2> QED
    BY <2>1, LeastMember
<1>2. n # 0
    BY <1>1, TwoToDoubles
<1>3. n - 1 \in Nat /\ n - 1 \notin bad /\ n = (n - 1) + 1
  <2>1. n - 1 \in Nat /\ ~ (n <= n - 1) /\ n = (n - 1) + 1
    BY <1>1, <1>2
  <2> QED
    BY <1>1, <2>1
<1>4. Fast!TwoTo[n - 1] \in Nat /\ Fast!TwoTo[n - 1] > 0 /\ Fast!TwoTo[n] = 2 * Fast!TwoTo[n - 1]
    BY <1>3, TwoToDoubles
<1> QED
    BY <1>1, <1>4

-----------------------------------------------------------------------------
\* Numbers modulo a power of two

\* A product is a number, and takes one factor at a time.
LEMMA ProductAdds ==
    ASSUME NEW c \in Int, NEW x \in Int, NEW y \in Int
    PROVE  /\ c * x \in Int
           /\ c * (x + y) = c * x + c * y
           /\ c * x = x * c
           /\ c * (x + 1) = c * x + c
OBVIOUS

LEMMA ProductIsNatural ==
    ASSUME NEW c \in Nat, NEW x \in Nat
    PROVE  c * x \in Nat
OBVIOUS

\* Division with a remainder.
LEMMA Division ==
    ASSUME NEW m \in Nat, m > 0, NEW a \in Nat
    PROVE  \E q \in Nat, r \in 0 .. (m - 1) : a = m * q + r
<1> DEFINE divides(n) == \E q \in Nat, r \in 0 .. (m - 1) : n = m * q + r
           bad == {n \in Nat : ~ divides(n)}
<1> SUFFICES ASSUME bad # {} PROVE FALSE
    OBVIOUS
<1>1. PICK n \in bad : \A x \in bad : n <= x
  <2>1. bad \in SUBSET Nat
    OBVIOUS
  <2> HIDE DEF bad
  <2> QED
    BY <2>1, LeastMember
<1>2. n >= m
  <2> SUFFICES ASSUME n < m PROVE FALSE
    BY <1>1
  <2>1. n \in 0 .. (m - 1) /\ m * 0 = 0 /\ n = 0 + n
    BY <1>1
  <2>2. divides(n)
    BY <2>1
  <2> QED
    BY <1>1, <2>2
<1>3. n - m \in Nat /\ divides(n - m)
  <2>1. n - m \in Nat /\ ~ (n <= n - m)
    BY <1>1, <1>2
  <2> QED
    BY <1>1, <2>1
<1>4. PICK q \in Nat, r \in 0 .. (m - 1) : n - m = m * q + r
    BY <1>3
<1>5. m * (q + 1) = m * q + m /\ m * q \in Int
    BY ProductAdds
<1>6. n = m * (q + 1) + r
  <2> DEFINE p == m * q
             t == m * (q + 1)
  <2>1. t = p + m /\ p \in Int /\ n - m = p + r
    BY <1>4, <1>5
  <2> HIDE DEF p, t
  <2>2. n = t + r
    BY <1>1, <2>1
  <2> QED
    BY <2>2 DEF t
<1>7. divides(n)
  <2>1. q + 1 \in Nat /\ r \in 0 .. (m - 1)
    OBVIOUS
  <2> QED
    BY <1>6, <2>1
<1> QED
    BY <1>1, <1>7

\* The remainder is the one that % computes.
LEMMA Remainder ==
    ASSUME NEW m \in Nat, m > 0, NEW q \in Nat, NEW r \in 0 .. (m - 1)
    PROVE  (m * q + r) % m = r
OBVIOUS

Modulus == Fast!TwoTo[Width]

LEMMA ModulusIsPositive == ASSUME Width \in Nat PROVE Modulus \in Nat /\ Modulus > 0
BY TwoToIsPositive DEF Modulus

\* What a number is without the multiples that wrapping drops.
LEMMA Wrapped ==
    ASSUME Width \in Nat, NEW a \in Nat
    PROVE  /\ Fast!Wrap(a) \in 0 .. (Modulus - 1)
           /\ \E q \in Nat : a = Modulus * q + Fast!Wrap(a)
<1>1. Modulus \in Nat /\ Modulus > 0
    BY ModulusIsPositive
<1>2. PICK q \in Nat, r \in 0 .. (Modulus - 1) : a = Modulus * q + r
    BY <1>1, Division
<1>3. (Modulus * q + r) % Modulus = r
    BY <1>1, Remainder
<1>4. Fast!Wrap(a) = r
    BY <1>2, <1>3 DEF Fast!Wrap, Modulus
<1> QED
    BY <1>2, <1>4

\* Multiples of the modulus do not count.
LEMMA WrapDrops ==
    ASSUME Width \in Nat, NEW a \in Nat, NEW c \in Nat, NEW b \in Nat, b = a + Modulus * c
    PROVE  Fast!Wrap(b) = Fast!Wrap(a)
<1>1. Modulus \in Nat /\ Modulus > 0
    BY ModulusIsPositive
<1>2. PICK q \in Nat : a = Modulus * q + Fast!Wrap(a)
    BY Wrapped
<1>3. Fast!Wrap(a) \in 0 .. (Modulus - 1)
    BY Wrapped
<1>4. Modulus * (q + c) = Modulus * q + Modulus * c
    BY <1>1, ProductAdds
<1>5. b = Modulus * (q + c) + Fast!Wrap(a)
  <2> DEFINE x == Modulus * q
             y == Modulus * c
             z == Modulus * (q + c)
  <2>1. x \in Nat /\ y \in Nat /\ z = x + y /\ a = x + Fast!Wrap(a) /\ b = a + y
    BY <1>1, <1>2, <1>4, ProductIsNatural
  <2> HIDE DEF x, y, z
  <2>2. b = z + Fast!Wrap(a)
    BY <1>3, <2>1
  <2> QED
    BY <2>2 DEF z
<1>6. (Modulus * (q + c) + Fast!Wrap(a)) % Modulus = Fast!Wrap(a)
    BY <1>1, <1>3, Remainder
<1> QED
    BY <1>5, <1>6 DEF Fast!Wrap, Modulus

\* Wrapping early does not change what a product and a sum wrap to.
LEMMA WrapOfWrapped ==
    ASSUME Width \in Nat, NEW a \in Nat, NEW t \in Nat, NEW c \in Nat
    PROVE  Fast!Wrap(Fast!Wrap(a) * t + c) = Fast!Wrap(a * t + c)
<1>1. Modulus \in Nat /\ Modulus > 0
    BY ModulusIsPositive
<1>2. PICK q \in Nat : a = Modulus * q + Fast!Wrap(a)
    BY Wrapped
<1>3. Fast!Wrap(a) \in Nat
    BY <1>1, Wrapped
<1> DEFINE w == Fast!Wrap(a)
           x == Modulus * q
           y == q * t
<1>4. x \in Nat /\ y \in Nat /\ a = x + w /\ w \in Nat
    BY <1>1, <1>2, <1>3, ProductIsNatural
<1>5. a * t = w * t + Modulus * y
  <2>1. x * t = Modulus * y
    BY <1>1
  <2> HIDE DEF x, y, w
  <2>2. t * (w + x) = t * w + t * x
    BY <1>4, ProductAdds
  <2>3. t * x = x * t /\ t * w = w * t /\ a * t = t * a
    BY <1>4, ProductAdds
  <2>4. t * (w + x) = t * a
    BY <1>4
  <2> QED
    BY <2>1, <2>2, <2>3, <2>4
<1>6. w * t \in Nat /\ a * t \in Nat /\ Modulus * y \in Nat
    BY <1>1, <1>3, <1>4, ProductIsNatural
<1>7. a * t + c = (w * t + c) + Modulus * y /\ w * t + c \in Nat /\ a * t + c \in Nat
  <2> DEFINE at == a * t
             wt == w * t
             my == Modulus * y
  <2>1. at = wt + my /\ wt \in Nat /\ my \in Nat
    BY <1>5, <1>6
  <2> HIDE DEF at, wt, my
  <2>2. at + c = (wt + c) + my /\ wt + c \in Nat /\ at + c \in Nat
    BY <2>1
  <2> QED
    BY <2>2 DEF at, wt, my
<1> HIDE DEF w, y
<1>8. Fast!Wrap(a * t + c) = Fast!Wrap(w * t + c)
    BY <1>4, <1>7, WrapDrops
<1> QED
    BY <1>8 DEF w

\* Nor does wrapping a term of a sum.
LEMMA WrapOfSum ==
    ASSUME Width \in Nat, NEW a \in Nat, NEW c \in Nat
    PROVE  Fast!Wrap(c + Fast!Wrap(a)) = Fast!Wrap(c + a)
<1>1. Fast!Wrap(Fast!Wrap(a) * 1 + c) = Fast!Wrap(a * 1 + c)
    BY WrapOfWrapped
<1>2. Fast!Wrap(a) \in Nat
  <2>1. Fast!Wrap(a) \in 0 .. (Modulus - 1) /\ Modulus \in Nat
    BY ModulusIsPositive, Wrapped
  <2> QED
    BY <2>1
<1>3. Fast!Wrap(a) * 1 + c = c + Fast!Wrap(a) /\ a * 1 + c = c + a
    BY <1>2
<1> QED
    BY <1>1, <1>3

\* A number below the modulus does not wrap.
LEMMA WrapOfSmall ==
    ASSUME Width \in Nat, NEW a \in 0 .. (Modulus - 1)
    PROVE  Fast!Wrap(a) = a
<1>1. Modulus \in Nat /\ Modulus > 0
    BY ModulusIsPositive
<1>2. (Modulus * 0 + a) % Modulus = a
    BY <1>1, Remainder
<1>3. Modulus * 0 + a = a
    BY <1>1
<1> QED
    BY <1>2, <1>3 DEF Fast!Wrap, Modulus

-----------------------------------------------------------------------------
\* The sum over a window

\* A function that adds terms from an index up to a last one.
Adds(term, first, top, t) ==
    t[top] = 0 /\ \A p \in first .. (top - 1) : t[p] = term[p] + t[p + 1]

\* Such sums exist.
LEMMA SumsExist ==
    ASSUME NEW top \in Int, NEW term
    PROVE  \A n \in Nat : \E t : Adds(term, top - n, top, t)
<1> DEFINE bad == {n \in Nat : ~ \E t : Adds(term, top - n, top, t)}
<1> SUFFICES ASSUME bad # {} PROVE FALSE
    OBVIOUS
<1>1. PICK n \in bad : \A m \in bad : n <= m
  <2>1. bad \in SUBSET Nat
    OBVIOUS
  <2> HIDE DEF bad
  <2> QED
    BY <2>1, LeastMember
<1>2. n # 0
  <2>1. Adds(term, top - 0, top, [p \in {top} |-> 0])
    BY DEF Adds
  <2> QED
    BY <1>1, <2>1
<1>3. n - 1 \in Nat /\ n - 1 \notin bad
  <2>1. n - 1 \in Nat /\ ~ (n <= n - 1)
    BY <1>1, <1>2
  <2> QED
    BY <1>1, <2>1
<1>4. PICK g : Adds(term, top - (n - 1), top, g)
    BY <1>3
<1> DEFINE a == top - n
           h == [p \in a .. top |-> IF p = a THEN term[a] + g[a + 1] ELSE g[p]]
<1>5. a \in Int /\ a < top /\ top - (n - 1) = a + 1
    BY <1>1, <1>2
<1> HIDE DEF a
<1>6. Adds(term, a, top, h)
  <2>1. h[top] = 0
    <3>1. h[top] = g[top]
      BY <1>5
    <3> QED
      BY <1>4, <3>1 DEF Adds
  <2>2. ASSUME NEW p \in a .. (top - 1) PROVE h[p] = term[p] + h[p + 1]
    <3>0. p + 1 \in a .. top /\ p + 1 # a /\ p \in a .. top
      BY <1>5
    <3>1. h[p + 1] = g[p + 1]
      BY <3>0
    <3>2. CASE p = a
      <4>1. h[p] = term[a] + g[a + 1]
        BY <3>0, <3>2
      <4> HIDE DEF h
      <4> QED
        BY <3>1, <3>2, <4>1
    <3>3. CASE p # a
      <4>1. h[p] = g[p]
        BY <3>0, <3>3
      <4>2. p \in (a + 1) .. (top - 1)
        BY <1>5, <3>3
      <4>3. g[p] = term[p] + g[p + 1]
        BY <1>4, <1>5, <4>2 DEF Adds
      <4> HIDE DEF h
      <4> QED
        BY <3>1, <4>1, <4>3
    <3> QED
      BY <3>2, <3>3
  <2> HIDE DEF h
  <2> QED
    BY <2>1, <2>2 DEF Adds
<1> HIDE DEF h
<1> QED
    BY <1>1, <1>6 DEF a

\* The byte at which the sum of a window begins: only the last Width count.
WindowStart(first, last) == IF last - first < Width THEN first ELSE last - Width + 1

\* What a byte of the window adds.
TermsOf(b, first, last) == [p \in first .. last |-> Gear[b[p]] * Fast!TwoTo[last - p]]

\* The sum that a window's hash wraps.
LEMMA GearWindowUnfolds ==
    ASSUME NEW b, NEW first \in Int, NEW last \in Int, first <= last + 1
    PROVE  \E t : /\ Fast!GearWindow(b, first, last) = Fast!Wrap(t[WindowStart(first, last)])
                  /\ Adds(TermsOf(b, first, last), first, last + 1, t)
<1> DEFINE top == last + 1
           dom == first .. top
           Body(f, p) == IF p = top THEN 0 ELSE Gear[b[p]] * Fast!TwoTo[last - p] + f[p + 1]
           term == TermsOf(b, first, last)
           sum == CHOOSE f : f = [p \in dom |-> Body(f, p)]
<1>1. PICK g : Adds(term, first, top, g)
  <2> DEFINE n == top - first
  <2>1. n \in Nat /\ top \in Int /\ top - n = first
    OBVIOUS
  <2> HIDE DEF n, top, term
  <2> QED
    BY <2>1, SumsExist
<1> DEFINE f0 == [p \in dom |-> g[p]]
<1>2. f0 = [p \in dom |-> Body(f0, p)]
  <2>1. ASSUME NEW p \in dom PROVE g[p] = Body(f0, p)
    <3>1. CASE p = top
      BY <1>1, <3>1 DEF Adds
    <3>2. CASE p # top
      <4>1. p \in first .. (top - 1) /\ p + 1 \in dom /\ p \in first .. last
        BY <3>2
      <4>2. f0[p + 1] = g[p + 1]
        BY <4>1
      <4>3. g[p] = term[p] + g[p + 1]
        BY <1>1, <4>1 DEF Adds
      <4>4. term[p] = Gear[b[p]] * Fast!TwoTo[last - p]
        BY <4>1 DEF TermsOf
      <4> HIDE DEF f0, top, term
      <4> QED
        BY <3>2, <4>2, <4>3, <4>4
    <3> QED
      BY <3>1, <3>2
  <2> HIDE DEF Body, dom
  <2> QED
    BY <2>1
<1>3. sum = [p \in dom |-> Body(sum, p)]
  <2> HIDE DEF f0, Body, dom
  <2> QED
    BY <1>2
<1>4. Fast!GearWindow(b, first, last) = Fast!Wrap(sum[WindowStart(first, last)])
    BY DEF Fast!GearWindow, WindowStart
<1> HIDE DEF sum
<1>5. \A p \in dom : sum[p] = Body(sum, p)
  <2> HIDE DEF Body, dom
  <2> QED
    BY <1>3
<1>6. Adds(term, first, top, sum)
  <2>1. sum[top] = 0
    <3>1. top \in dom
      OBVIOUS
    <3> QED
      BY <1>5, <3>1
  <2>2. ASSUME NEW p \in first .. (top - 1) PROVE sum[p] = term[p] + sum[p + 1]
    <3>1. p \in dom /\ p # top /\ p \in first .. last
      OBVIOUS
    <3>2. sum[p] = Gear[b[p]] * Fast!TwoTo[last - p] + sum[p + 1]
      BY <1>5, <3>1
    <3>3. term[p] = Gear[b[p]] * Fast!TwoTo[last - p]
      BY <3>1 DEF TermsOf
    <3> HIDE DEF term
    <3> QED
      BY <3>2, <3>3
  <2> HIDE DEF term, top
  <2> QED
    BY <2>1, <2>2 DEF Adds
<1> QED
    BY <1>4, <1>6

\* A window without bytes.
LEMMA EmptyWindow ==
    ASSUME Width \in Nat \ {0}, NEW b, NEW first \in Int, NEW last \in Int, last = first - 1
    PROVE  Fast!GearWindow(b, first, last) = 0
<1>1. PICK t : /\ Fast!GearWindow(b, first, last) = Fast!Wrap(t[WindowStart(first, last)])
               /\ Adds(TermsOf(b, first, last), first, last + 1, t)
    BY GearWindowUnfolds
<1>2. WindowStart(first, last) = last + 1
    BY DEF WindowStart
<1>3. Fast!Wrap(0) = 0
  <2>1. 0 \in 0 .. (Modulus - 1)
    BY ModulusIsPositive
  <2> QED
    BY <2>1, WrapOfSmall
<1> QED
    BY <1>1, <1>2, <1>3 DEF Adds

\* Sums of natural numbers are natural numbers.
LEMMA SumsAreNatural ==
    ASSUME NEW first \in Int, NEW top \in Int, NEW term, NEW t, Adds(term, first, top, t),
           \A p \in first .. (top - 1) : term[p] \in Nat
    PROVE  \A p \in first .. top : t[p] \in Nat
<1> DEFINE bad == {n \in Nat : n <= top - first /\ t[top - n] \notin Nat}
<1>1. bad = {}
  <2> SUFFICES ASSUME bad # {} PROVE FALSE
    OBVIOUS
  <2>1. PICK n \in bad : \A m \in bad : n <= m
    <3>1. bad \in SUBSET Nat
      OBVIOUS
    <3> HIDE DEF bad
    <3> QED
      BY <3>1, LeastMember
  <2>2. n # 0
    BY <2>1 DEF Adds
  <2>3. n - 1 \in Nat /\ n - 1 \notin bad /\ n - 1 <= top - first
    <3>1. n - 1 \in Nat /\ ~ (n <= n - 1) /\ n - 1 <= top - first
      BY <2>1, <2>2
    <3> QED
      BY <2>1, <3>1
  <2> DEFINE p == top - n
  <2>4. p \in first .. (top - 1) /\ top - (n - 1) = p + 1
    BY <2>1, <2>2
  <2>5. t[p + 1] \in Nat
    BY <2>3, <2>4
  <2>6. t[p] = term[p] + t[p + 1] /\ term[p] \in Nat
    BY <2>4 DEF Adds
  <2>7. t[p] \in Nat
    BY <2>5, <2>6
  <2> QED
    BY <2>1, <2>7
<1>2. ASSUME NEW p \in first .. top PROVE t[p] \in Nat
  <2>1. top - p \in Nat /\ top - p <= top - first /\ top - (top - p) = p
    OBVIOUS
  <2> QED
    BY <1>1, <2>1
<1> QED
    BY <1>2

\* The hash of a window and of one byte more.
LEMMA GearRolls ==
    ASSUME Width \in Nat \ {0}, NEW b, NEW first \in Int, NEW last \in Int, first <= last + 1,
           \A p \in first .. (last + 1) : Gear[b[p]] \in Nat
    PROVE  /\ Fast!GearWindow(b, first, last + 1)
                = Fast!GearStep(Fast!GearWindow(b, first, last), b[last + 1])
           /\ Fast!GearWindow(b, first, last) \in 0 .. (Modulus - 1)
<1> DEFINE g == Gear[b[last + 1]]
           termT == TermsOf(b, first, last)
           termU == TermsOf(b, first, last + 1)
<1>1. PICK t : /\ Fast!GearWindow(b, first, last) = Fast!Wrap(t[WindowStart(first, last)])
               /\ Adds(termT, first, last + 1, t)
    BY GearWindowUnfolds
<1>2. PICK u : /\ Fast!GearWindow(b, first, last + 1) = Fast!Wrap(u[WindowStart(first, last + 1)])
               /\ Adds(termU, first, (last + 1) + 1, u)
  <2> DEFINE next == last + 1
  <2>1. next \in Int /\ first <= next + 1
    OBVIOUS
  <2> HIDE DEF next
  <2>2. \E u : /\ Fast!GearWindow(b, first, next) = Fast!Wrap(u[WindowStart(first, next)])
               /\ Adds(TermsOf(b, first, next), first, next + 1, u)
    BY <2>1, GearWindowUnfolds
  <2> QED
    BY <2>2 DEF next
<1>3. ASSUME NEW p \in first .. last
      PROVE  /\ termT[p] \in Nat /\ termU[p] = 2 * termT[p]
             /\ termT[p] = Gear[b[p]] * Fast!TwoTo[last - p]
  <2> DEFINE c == Gear[b[p]]
             x == Fast!TwoTo[last - p]
             y == Fast!TwoTo[last + 1 - p]
  <2>1. termT[p] = c * x /\ termU[p] = c * y
    BY DEF TermsOf
  <2>2. c \in Nat /\ x \in Nat /\ y = 2 * x
    <3>1. last - p \in Nat /\ last + 1 - p = (last - p) + 1
      OBVIOUS
    <3>2. p \in first .. (last + 1)
      OBVIOUS
    <3> QED
      BY <3>1, <3>2, TwoToDoubles, TwoToIsPositive
  <2> HIDE DEF c, x, y
  <2>3. c * x \in Nat /\ c * y = 2 * (c * x)
    <3>1. c * x \in Nat
      BY <2>2, ProductIsNatural
    <3>2. c * (x + x) = c * x + c * x
      BY <2>2, ProductAdds
    <3>3. y = x + x
      BY <2>2
    <3> QED
      BY <3>1, <3>2, <3>3
  <2> QED
    BY <2>1, <2>3 DEF c, x
<1>4. termU[last + 1] = g /\ g \in Nat
  <2>1. last + 1 \in first .. (last + 1) /\ last + 1 - (last + 1) = 0
    OBVIOUS
  <2>2. termU[last + 1] = g * Fast!TwoTo[0] /\ g \in Nat
    BY <2>1 DEF TermsOf
  <2> HIDE DEF g
  <2> QED
    BY <2>2, TwoToDoubles
<1>5. \A p \in first .. (last + 1) : t[p] \in Nat
  <2>1. \A p \in first .. (last + 1 - 1) : termT[p] \in Nat
    BY <1>3
  <2>2. last + 1 \in Int
    OBVIOUS
  <2> HIDE DEF termT
  <2> QED
    BY <1>1, <2>1, <2>2, SumsAreNatural
<1> DEFINE ok(p) == u[p] = 2 * t[p] + g
<1>6. \A p \in first .. (last + 1) : ok(p)
  <2> DEFINE bad == {n \in Nat : n <= last + 1 - first /\ ~ ok(last + 1 - n)}
  <2>1. bad = {}
    <3> SUFFICES ASSUME bad # {} PROVE FALSE
      OBVIOUS
    <3>1. PICK n \in bad : \A m \in bad : n <= m
      <4>1. bad \in SUBSET Nat
        OBVIOUS
      <4> HIDE DEF bad
      <4> QED
        BY <4>1, LeastMember
    <3>2. n # 0
      <4>1. t[last + 1] = 0 /\ u[last + 1 + 1] = 0
        BY <1>1, <1>2 DEF Adds
      <4>2. u[last + 1] = termU[last + 1] + u[last + 1 + 1]
        BY <1>2 DEF Adds
      <4>3. ok(last + 1)
        <5> HIDE DEF termU, g
        <5> QED
          BY <1>4, <4>1, <4>2
      <4> QED
        BY <3>1, <4>3
    <3>3. n - 1 \in Nat /\ n - 1 \notin bad /\ n - 1 <= last + 1 - first
      <4>1. n - 1 \in Nat /\ ~ (n <= n - 1) /\ n - 1 <= last + 1 - first
        BY <3>1, <3>2
      <4> QED
        BY <3>1, <4>1
    <3> DEFINE p == last + 1 - n
    <3>4. p \in first .. last /\ last + 1 - (n - 1) = p + 1
      BY <3>1, <3>2
    <3>5. ok(p + 1)
      BY <3>3, <3>4
    <3> HIDE DEF p
    <3>6. t[p] = termT[p] + t[p + 1]
      <4>1. p \in first .. (last + 1 - 1)
        BY <3>4
      <4> QED
        BY <1>1, <4>1 DEF Adds
    <3>7. u[p] = termU[p] + u[p + 1]
      <4>1. p \in first .. (last + 1 + 1 - 1)
        BY <3>4
      <4> QED
        BY <1>2, <4>1 DEF Adds
    <3>8. termT[p] \in Nat /\ termU[p] = 2 * termT[p] /\ t[p + 1] \in Nat
      <4>1. p + 1 \in first .. (last + 1)
        BY <3>4
      <4> QED
        BY <1>3, <1>5, <3>4, <4>1
    <3>9. ok(p)
      <4> HIDE DEF termT, termU, g
      <4> QED
        BY <1>4, <3>5, <3>6, <3>7, <3>8
    <3> QED
      BY <3>1, <3>9 DEF p
  <2>2. ASSUME NEW p \in first .. (last + 1) PROVE ok(p)
    <3>1. last + 1 - p \in Nat /\ last + 1 - p <= last + 1 - first /\ last + 1 - (last + 1 - p) = p
      OBVIOUS
    <3> HIDE DEF ok
    <3> QED
      BY <2>1, <3>1
  <2> QED
    BY <2>2
<1> DEFINE o == WindowStart(first, last)
           o1 == WindowStart(first, last + 1)
<1>7. /\ o \in first .. (last + 1)
      /\ o1 = o \/ (o1 = o + 1 /\ o \in first .. last /\ last + 1 - o = Width)
    BY DEF WindowStart
<1>8. Fast!Wrap(u[o1]) = Fast!Wrap(u[o])
  <2>1. CASE o1 = o
    BY <2>1
  <2>2. CASE o1 # o
    <3>1. o1 = o + 1 /\ o \in first .. last /\ last + 1 - o = Width
      BY <1>7, <2>2
    <3> HIDE DEF o, o1
    <3>2. u[o] = termU[o] + u[o + 1]
      <4>1. o \in first .. (last + 1 + 1 - 1)
        BY <3>1
      <4> QED
        BY <1>2, <4>1 DEF Adds
    <3>3. termU[o] = Gear[b[o]] * Modulus /\ Gear[b[o]] \in Nat
      <4>1. o \in first .. (last + 1) /\ last + 1 - o = Width
        BY <3>1
      <4> QED
        BY <4>1 DEF TermsOf, Modulus
    <3> DEFINE c == Gear[b[o]]
    <3>4. u[o + 1] \in Nat /\ Modulus \in Nat /\ c * Modulus = Modulus * c /\ c * Modulus \in Nat
      <4>1. o + 1 \in first .. (last + 1)
        BY <3>1
      <4>2. u[o + 1] = 2 * t[o + 1] + g /\ t[o + 1] \in Nat
        BY <1>5, <1>6, <4>1
      <4>3. Modulus \in Nat /\ c \in Nat
        BY <3>3, ModulusIsPositive
      <4> HIDE DEF g, c
      <4> QED
        BY <1>4, <4>2, <4>3, ProductIsNatural, ProductAdds
    <3> HIDE DEF c, termU
    <3>5. u[o] \in Nat /\ u[o] = u[o + 1] + Modulus * c
      BY <3>2, <3>3, <3>4 DEF c
    <3>6. c \in Nat
      BY <3>3 DEF c
    <3>7. Fast!Wrap(u[o]) = Fast!Wrap(u[o + 1])
      <4> DEFINE x == u[o]
                 y == u[o + 1]
      <4>1. x \in Nat /\ y \in Nat /\ x = y + Modulus * c /\ Width \in Nat
        BY <3>4, <3>5
      <4> HIDE DEF x, y
      <4>2. Fast!Wrap(x) = Fast!Wrap(y)
        BY <3>6, <4>1, WrapDrops
      <4> QED
        BY <4>2 DEF x, y
    <3> QED
      BY <3>1, <3>7
  <2> QED
    BY <2>1, <2>2
<1>9. t[o] \in Nat /\ u[o] = 2 * t[o] + g
    BY <1>5, <1>6, <1>7
<1> HIDE DEF o, o1, g
<1>10. Fast!Wrap(2 * Fast!Wrap(t[o]) + g) = Fast!Wrap(2 * t[o] + g)
  <2>0. t[o] \in Nat /\ g \in Nat /\ 2 \in Nat /\ Width \in Nat
    BY <1>4, <1>9
  <2>1. Fast!Wrap(Fast!Wrap(t[o]) * 2 + g) = Fast!Wrap(t[o] * 2 + g)
    BY <2>0, WrapOfWrapped
  <2>2. Fast!Wrap(t[o]) \in 0 .. (Modulus - 1) /\ Modulus \in Nat
    BY <1>9, Wrapped, ModulusIsPositive
  <2>3. Fast!Wrap(t[o]) * 2 = 2 * Fast!Wrap(t[o]) /\ t[o] * 2 = 2 * t[o]
    BY <1>9, <2>2
  <2> QED
    BY <2>1, <2>3
<1>11. Fast!GearWindow(b, first, last) \in 0 .. (Modulus - 1)
    BY <1>1, <1>9, Wrapped DEF o
<1> QED
    BY <1>1, <1>2, <1>8, <1>9, <1>10, <1>11 DEF Fast!GearStep, o, o1, g

-----------------------------------------------------------------------------
\* The inductive invariant of SeqCDC

\* The data of a call begins where the last chunk ends, and ends with the file
\* unless it has room for a largest chunk.
DataIsAligned ==
    /\ pc \in {"peek", "data", "scan"} => previousChunkSizeBytes = 0
    /\ pc \in {"data", "scan"} => dataLen = Available(pos)

\* A sequence that is long enough is returned at once, and the bytes of it were
\* compared one after the other: it cannot end before the minimum size.
SequenceIsRecent ==
    pc = "scan" => /\ dataLen > MinimumChunkSize
                   /\ increasingLength < SequenceLength
                   /\ position >= FirstComparison + increasingLength - 1

IInv == TypeOK /\ NothingLost /\ DataIsAligned /\ SequenceIsRecent

USE PeekSizeAssumption, TopAssumption, MaxFaultsAssumption, SequenceAssumption,
    ChunkSizeAssumption

\* The constants and the arithmetic that every step needs.
LEMMA Constants ==
    /\ PeekSize \in Nat \ {0} /\ MaxFaults \in Nat
    /\ SequenceLength \in Nat /\ SequenceLength >= 2
    /\ SkipTrigger \in Nat \ {0} /\ SkipSize \in Nat
    /\ MinimumChunkSize \in Nat /\ SequenceLength <= MinimumChunkSize
    /\ MinimumChunkSize <= PeekSize
    /\ FirstComparison \in Nat /\ FirstComparison >= 1
BY DEF FirstComparison

\* What a call peeks at is in the file.
LEMMA AvailableBounds ==
    ASSUME TypeOK
    PROVE  /\ Available(pos) \in 0 .. PeekSize
           /\ pos + Available(pos) <= fileSize
           /\ Available(pos) = PeekSize \/ pos + Available(pos) = fileSize
BY DEF TypeOK, SingleTypeOK, Available

-----------------------------------------------------------------------------
\* The steps

LEMMA InitIInv == Init => IInv
<1> SUFFICES ASSUME Init PROVE IInv
    OBVIOUS
<1>1. /\ fileSize \in Nat /\ byte \in [0 .. (fileSize - 1) -> 0 .. Top]
    BY FilesAssumption DEF Init, InitSingle
<1> QED
    BY <1>1, Constants DEF Init, InitSingle, IInv, TypeOK, SingleTypeOK, NothingLost,
       DataIsAligned, SequenceIsRecent

\* The calls of the Peeker leave the scan as it is.
LEMMA PeekerIInv ==
    ASSUME IInv, PeekerStep, UNCHANGED scan
    PROVE  IInv'
<1> USE DEF IInv, TypeOK, SingleTypeOK, NothingLost, DataIsAligned, SequenceIsRecent,
            scan, file, peeker, Return, FirstComparison
<1>1. CASE Discard
    BY <1>1 DEF Discard
<1>2. CASE DiscardFails
  <2>1. PICK discarded \in 0 .. (previousChunkSizeBytes - 1) :
            /\ pos' = pos + discarded
            /\ previousChunkSizeBytes' = previousChunkSizeBytes - discarded
    BY <1>2 DEF DiscardFails, RemainderOf
  <2> QED
    BY <1>2, <2>1 DEF DiscardFails
<1>3. CASE PeekFails
    BY <1>3 DEF PeekFails
<1>4. CASE PeekData
  <2>1. dataLen' = Available(pos) /\ Available(pos) \in 0 .. PeekSize
    BY <1>4, AvailableBounds DEF PeekData
  <2>2. Available(pos)' = Available(pos)
    BY <1>4 DEF PeekData, Available
  <2> QED
    BY <1>4, <2>1, <2>2 DEF PeekData
<1>5. CASE ReturnEndOfFile
    BY <1>5 DEF ReturnEndOfFile
<1> QED
    BY <1>1, <1>2, <1>3, <1>4, <1>5 DEF PeekerStep

\* A chunk that ends within the data leaves the reader aligned.
LEMMA ReturnChunkIInv ==
    ASSUME IInv, pc \in {"data", "scan"}, NEW n \in 0 .. dataLen, ReturnChunk(n),
           UNCHANGED <<file, peeker, dataLen>>,
           position' \in Nat, increasingLength' \in 1 .. SequenceLength,
           opposingSlopeCount' \in 0 .. (SkipTrigger - 1)
    PROVE  IInv'
<1>1. pos + dataLen <= fileSize /\ dataLen <= PeekSize
    BY AvailableBounds DEF IInv, DataIsAligned
<1> QED
    BY <1>1 DEF IInv, TypeOK, SingleTypeOK, NothingLost, DataIsAligned, SequenceIsRecent,
       ReturnChunk, Return, file, peeker, FirstComparison

LEMMA NextIInv == IInv /\ [Next]_vars => IInv'
<1> SUFFICES ASSUME IInv, [Next]_vars PROVE IInv'
    OBVIOUS
<1>0. /\ dataLen \in Nat /\ dataLen <= PeekSize
      /\ position \in Nat /\ increasingLength \in 1 .. SequenceLength
      /\ opposingSlopeCount \in 0 .. (SkipTrigger - 1)
    BY DEF IInv, TypeOK, SingleTypeOK
<1>1. CASE PeekerStep /\ UNCHANGED scan
    BY <1>1, PeekerIInv
<1>2. CASE ReturnShort
    BY <1>0, <1>2, ReturnChunkIInv DEF ReturnShort, scan
<1>3. CASE StartScan
  <2>1. Available(pos)' = Available(pos)
    BY <1>3 DEF StartScan, Available, file, peeker
  <2> QED
    BY <1>3, <2>1, Constants DEF StartScan, IInv, TypeOK, SingleTypeOK, NothingLost,
       DataIsAligned, SequenceIsRecent, file, peeker, FirstComparison
<1>4. CASE Rise
  <2>1. position' = position + 1 /\ position < dataLen /\ pc = "scan"
    BY <1>4 DEF Rise, Comparing
  <2>2. increasingLength' = increasingLength + 1 /\ increasingLength < SequenceLength
    BY <1>4, <2>1 DEF Rise, IInv, SequenceIsRecent
  <2>3. CASE increasingLength' = SequenceLength
    <3>1. ReturnChunk(position')
        BY <1>4, <2>3 DEF Rise
    <3> QED
        BY <1>0, <1>4, <2>1, <2>2, <2>3, <3>1, ReturnChunkIInv DEF Rise
  <2>4. CASE increasingLength' # SequenceLength
    <3>1. Available(pos)' = Available(pos)
        BY <1>4 DEF Rise, Available, file, peeker
    <3>2. /\ UNCHANGED <<fileSize, byte, pos, faults, pc, result, previousChunkSizeBytes,
                         handedOut, dataLen, opposingSlopeCount>>
        BY <1>4, <2>4 DEF Rise, file, peeker, call
    <3>3. /\ position \in FirstComparison .. (dataLen + SkipSize + 1)
          /\ position >= FirstComparison + increasingLength - 1
        BY <2>1 DEF IInv, TypeOK, SequenceIsRecent
    <3>4. /\ position' \in FirstComparison .. (dataLen + SkipSize + 1)
          /\ position' >= FirstComparison + increasingLength' - 1
          /\ position' \in Nat /\ increasingLength' \in 1 .. SequenceLength
          /\ increasingLength' < SequenceLength
        BY <1>0, <2>1, <2>2, <2>4, <3>3, Constants
    <3> QED
        BY <3>1, <3>2, <3>4 DEF IInv, TypeOK, SingleTypeOK, NothingLost,
           DataIsAligned, SequenceIsRecent, FirstComparison
  <2> QED
    BY <2>3, <2>4
<1>5. CASE Fall
  <2>1. /\ position' \in Nat /\ position' > position
        /\ position' <= dataLen + SkipSize + 1
        /\ pc = "scan" /\ increasingLength' = 1
        /\ opposingSlopeCount' \in 0 .. (SkipTrigger - 1)
    BY <1>0, <1>5 DEF Fall, Comparing, AfterSkip
  <2>2. Available(pos)' = Available(pos)
    BY <1>5 DEF Fall, Available, file, peeker
  <2> QED
    BY <1>5, <2>1, <2>2 DEF Fall, IInv, TypeOK, SingleTypeOK, NothingLost,
       DataIsAligned, SequenceIsRecent, file, peeker, call, FirstComparison
<1>6. CASE Level
  <2>1. Available(pos)' = Available(pos)
    BY <1>6 DEF Level, Available, file, peeker
  <2> QED
    BY <1>6, <2>1 DEF Level, Comparing, IInv, TypeOK, SingleTypeOK, NothingLost,
       DataIsAligned, SequenceIsRecent, file, peeker, call, FirstComparison
<1>7. CASE ReturnAll
    BY <1>0, <1>7, ReturnChunkIInv DEF ReturnAll, scan
<1>8. CASE UNCHANGED vars
    BY <1>8 DEF vars, single, scan, file, peeker, call, IInv, TypeOK, SingleTypeOK,
       NothingLost, DataIsAligned, SequenceIsRecent, FirstComparison, Available
<1> QED
    BY <1>1, <1>2, <1>3, <1>4, <1>5, <1>6, <1>7, <1>8 DEF Next

\* No chunk exceeds the maximum size, and only the last one of a file falls
\* short of the minimum size: a sequence that began too early was not compared.
LEMMA NextBounded == IInv /\ [Next]_vars => BoundedChunk
<1> SUFFICES ASSUME IInv, [Next]_vars, handedOut' # handedOut PROVE BoundedChunk
    BY DEF BoundedChunk
<1>1. /\ dataLen \in Nat /\ dataLen <= PeekSize /\ handedOut \in Nat /\ fileSize \in Nat
      /\ position \in Nat
    BY DEF IInv, TypeOK, SingleTypeOK
<1>2. ASSUME pc \in {"data", "scan"}, NEW n \in Nat, ReturnChunk(n), n <= dataLen,
             n = dataLen \/ n >= MinimumChunkSize
      PROVE  BoundedChunk
  <2>1. handedOut' = handedOut + n
    BY <1>2 DEF ReturnChunk
  <2>2. /\ handedOut = pos /\ dataLen = Available(pos) /\ pos \in Nat
    BY <1>2 DEF IInv, TypeOK, SingleTypeOK, NothingLost, DataIsAligned
  <2>3. dataLen = PeekSize \/ pos + dataLen = fileSize
    BY <2>2, AvailableBounds DEF IInv
  <2> QED
    BY <1>1, <1>2, <2>1, <2>2, <2>3, Constants DEF BoundedChunk
<1>3. CASE PeekerStep /\ UNCHANGED scan
    BY <1>3 DEF PeekerStep, Discard, DiscardFails, PeekFails, PeekData, ReturnEndOfFile
<1>4. CASE ReturnShort
    BY <1>1, <1>2, <1>4 DEF ReturnShort
<1>5. CASE Rise
  <2>1. /\ position < dataLen /\ position' = position + 1 /\ pc = "scan"
        /\ increasingLength' = increasingLength + 1 /\ increasingLength \in Nat
        /\ position >= FirstComparison + increasingLength - 1
    BY <1>5 DEF Rise, Comparing, IInv, TypeOK, SequenceIsRecent
  <2>2. increasingLength' = SequenceLength /\ ReturnChunk(position')
    BY <1>5 DEF Rise, call
  <2>3. position' >= MinimumChunkSize
    BY <1>1, <2>1, <2>2, Constants DEF FirstComparison
  <2> QED
    BY <1>1, <1>2, <2>1, <2>2, <2>3
<1>6. CASE ReturnAll
    BY <1>1, <1>2, <1>6 DEF ReturnAll
<1>7. CASE StartScan \/ Fall \/ Level \/ UNCHANGED vars
    BY <1>7 DEF StartScan, Fall, Level, call, vars, single
<1> QED
    BY <1>3, <1>4, <1>5, <1>6, <1>7 DEF Next

-----------------------------------------------------------------------------
\* The stretches of the rule

\* The stretch that an offset is compared in, from that of the offset before it.
StretchAfter(start, p, stretch) ==
    IF stretch < p /\ Fallen(start + stretch, start + p - 1) = SkipTrigger
    THEN p + SkipSize + 1 ELSE stretch

\* A function that satisfies the recursion for n offsets after the first.
Stretches(start, n, f) ==
    /\ f[FirstComparison] = FirstComparison
    /\ \A p \in (FirstComparison + 1) .. (FirstComparison + n) :
          f[p] = StretchAfter(start, p, f[p - 1])

LEMMA StretchesExist ==
    ASSUME NEW start
    PROVE  \A n \in Nat : \E f : Stretches(start, n, f)
<1> DEFINE bad == {n \in Nat : ~ \E f : Stretches(start, n, f)}
<1> SUFFICES ASSUME bad # {} PROVE FALSE
    OBVIOUS
<1>0. FirstComparison \in Nat
    BY Constants
<1>1. PICK n \in bad : \A m \in bad : n <= m
  <2>1. bad \in SUBSET Nat
    OBVIOUS
  <2> HIDE DEF bad
  <2> QED
    BY <2>1, LeastMember
<1>2. n # 0
  <2>1. Stretches(start, 0, [p \in {FirstComparison} |-> FirstComparison])
    BY <1>0 DEF Stretches
  <2> QED
    BY <1>1, <2>1
<1>3. n - 1 \in Nat /\ n - 1 \notin bad
  <2>1. n - 1 \in Nat /\ ~ (n <= n - 1)
    BY <1>1, <1>2
  <2> QED
    BY <1>1, <2>1
<1>4. PICK g : Stretches(start, n - 1, g)
    BY <1>3
<1> DEFINE last == FirstComparison + n
           h == [p \in FirstComparison .. last |->
                   IF p = last THEN StretchAfter(start, last, g[last - 1]) ELSE g[p]]
<1>5. last \in Nat /\ FirstComparison < last /\ FirstComparison + (n - 1) = last - 1
    BY <1>0, <1>1, <1>2
<1> HIDE DEF last
<1>6. h[FirstComparison] = FirstComparison
  <2>1. h[FirstComparison] = g[FirstComparison]
    BY <1>0, <1>5
  <2> QED
    BY <1>4, <2>1 DEF Stretches
<1>7. ASSUME NEW p \in (FirstComparison + 1) .. last
      PROVE  h[p] = StretchAfter(start, p, h[p - 1])
  <2>1. p - 1 \in FirstComparison .. last /\ p - 1 # last /\ p \in FirstComparison .. last
    BY <1>0, <1>5
  <2>2. h[p - 1] = g[p - 1]
    BY <2>1
  <2>3. CASE p = last
    <3>1. h[p] = StretchAfter(start, last, g[last - 1])
      BY <2>1, <2>3
    <3> HIDE DEF h
    <3> QED
      BY <2>2, <2>3, <3>1
  <2>4. CASE p # last
    <3>1. h[p] = g[p] /\ p \in (FirstComparison + 1) .. (FirstComparison + (n - 1))
      BY <1>0, <1>5, <2>1, <2>4
    <3>2. g[p] = StretchAfter(start, p, g[p - 1])
      BY <1>4, <3>1 DEF Stretches
    <3> HIDE DEF h
    <3> QED
      BY <2>2, <3>1, <3>2
  <2> QED
    BY <2>3, <2>4
<1> HIDE DEF h
<1>8. Stretches(start, n, h)
    BY <1>6, <1>7 DEF Stretches, last
<1> QED
    BY <1>1, <1>8

\* The recursion of the rule.
LEMMA StretchUnfolds ==
    ASSUME NEW start, Available(start) \in Nat, FirstComparison < Available(start)
    PROVE  /\ StretchAt(start)[FirstComparison] = FirstComparison
           /\ \A p \in (FirstComparison + 1) .. (Available(start) - 1) :
                 StretchAt(start)[p] = StretchAfter(start, p, StretchAt(start)[p - 1])
<1> DEFINE dom == Offsets(start)
           Body(f, p) == IF p = FirstComparison THEN p ELSE StretchAfter(start, p, f[p - 1])
           st == CHOOSE f : f = [p \in dom |-> Body(f, p)]
           n == Available(start) - 1 - FirstComparison
<1>0. FirstComparison \in Nat
    BY Constants
<1>1. n \in Nat /\ FirstComparison + n = Available(start) - 1
    BY <1>0
<1> HIDE DEF n
<1>2. PICK g : Stretches(start, n, g)
    BY <1>1, StretchesExist
<1>3. dom = FirstComparison .. (Available(start) - 1)
    BY DEF Offsets
<1> DEFINE f0 == [p \in dom |-> g[p]]
<1>4. f0 = [p \in dom |-> Body(f0, p)]
  <2>1. ASSUME NEW p \in dom PROVE g[p] = Body(f0, p)
    <3>1. CASE p = FirstComparison
      BY <1>2, <3>1 DEF Stretches
    <3>2. CASE p # FirstComparison
      <4>1. p \in (FirstComparison + 1) .. (FirstComparison + n) /\ p - 1 \in dom
        BY <1>0, <1>1, <1>3, <3>2
      <4>2. f0[p - 1] = g[p - 1]
        BY <4>1
      <4>3. g[p] = StretchAfter(start, p, g[p - 1])
        BY <1>2, <4>1 DEF Stretches
      <4> HIDE DEF f0, dom
      <4> QED
        BY <3>2, <4>2, <4>3
    <3> QED
      BY <3>1, <3>2
  <2> HIDE DEF Body, dom
  <2> QED
    BY <2>1
<1>5. st = [p \in dom |-> Body(st, p)]
  <2> HIDE DEF f0, Body, dom
  <2> QED
    BY <1>4
<1>6. StretchAt(start) = st
    BY DEF StretchAt, StretchAfter
<1> HIDE DEF st
<1>7. \A p \in dom : st[p] = Body(st, p)
  <2> HIDE DEF Body, dom
  <2> QED
    BY <1>5
<1>8. FirstComparison \in dom
    BY <1>0, <1>3
<1>9. ASSUME NEW p \in (FirstComparison + 1) .. (Available(start) - 1)
      PROVE  st[p] = StretchAfter(start, p, st[p - 1])
  <2>1. p \in dom /\ p # FirstComparison
    BY <1>0, <1>3
  <2> HIDE DEF dom
  <2> QED
    BY <1>7, <2>1
<1> HIDE DEF dom
<1> QED
    BY <1>6, <1>7, <1>8, <1>9

\* A fall is counted when its byte is.
LEMMA FallenGrows ==
    ASSUME NEW from \in Int, NEW to \in Int, from <= to + 1
    PROVE  /\ Fallen(from, to) \in Nat
           /\ FallsAt(to + 1) => Fallen(from, to + 1) = Fallen(from, to) + 1
           /\ ~ FallsAt(to + 1) => Fallen(from, to + 1) = Fallen(from, to)
           /\ from = to + 1 => Fallen(from, to) = 0
<1> DEFINE S == {p \in from .. to : FallsAt(p)}
           T == {p \in from .. (to + 1) : FallsAt(p)}
<1>1. IsFiniteSet(S) /\ Cardinality(S) \in Nat
  <2>1. IsFiniteSet(from .. to)
    BY FS_Interval
  <2>2. IsFiniteSet(S)
    BY <2>1, FS_Subset
  <2> QED
    BY <2>2, FS_CardinalityType
<1>2. FallsAt(to + 1) => T = S \cup {to + 1}
    OBVIOUS
<1>3. to + 1 \notin S
    OBVIOUS
<1>4. ~ FallsAt(to + 1) => T = S
    OBVIOUS
<1>5. from = to + 1 => S = {}
    OBVIOUS
<1>6. Fallen(from, to) = Cardinality(S) /\ Fallen(from, to + 1) = Cardinality(T)
    BY DEF Fallen
<1> HIDE DEF S, T
<1>7. Cardinality(S \cup {to + 1}) = Cardinality(S) + 1
    BY <1>1, <1>3, FS_AddElement
<1> QED
    BY <1>1, <1>2, <1>4, <1>5, <1>6, <1>7, FS_EmptySet

-----------------------------------------------------------------------------
\* The scan and the rule

\* Where the stretch begins that an offset is compared in.
StretchOf(p) == StretchAt(pos)[p]
Rising(p) == byte[pos + p] > byte[pos + p - 1]

\* A sequence that ends a chunk ends at the offset.
IsSequence(p) ==
    /\ p - SequenceLength + 2 >= FirstComparison
    /\ StretchOf(p - SequenceLength + 2) <= p - SequenceLength + 2
    /\ StretchOf(p) = StretchOf(p - SequenceLength + 2)
    /\ \A q \in (p - SequenceLength + 2) .. p : Rising(q)

\* The scan is in the rule's stretch, and has counted its falls.
StretchIsCurrent ==
    pc = "scan" /\ position < dataLen =>
        /\ StretchOf(position) \in FirstComparison .. position
        /\ \A p \in StretchOf(position) .. position : StretchOf(p) = StretchOf(position)
        /\ opposingSlopeCount = Fallen(pos + StretchOf(position), pos + (position - 1))

\* The increasing sequence goes back to the beginning of the stretch, or to a byte
\* that does not rise.
FirstRising == position - (increasingLength - 1)
SequenceIsLongest ==
    pc = "scan" /\ position < dataLen =>
        /\ StretchOf(position) <= FirstRising
        /\ \A p \in FirstRising .. (position - 1) : Rising(p)
        /\ FirstRising = StretchOf(position) \/ ~ Rising(FirstRising - 1)

\* No sequence before the position is long enough.
NoSequenceYet ==
    pc = "scan" => \A p \in FirstComparison .. (position - 1) : p < dataLen => ~ IsSequence(p)

RuleInv == StretchIsCurrent /\ SequenceIsLongest /\ NoSequenceYet

\* The data of a scan.
LEMMA ScanData ==
    ASSUME IInv, pc = "scan"
    PROVE  /\ pos \in Nat /\ dataLen \in Nat /\ dataLen = Available(pos) /\ fileSize \in Nat
           /\ pos + dataLen <= fileSize /\ MinimumChunkSize < dataLen
           /\ FirstComparison \in Nat /\ FirstComparison >= 1 /\ FirstComparison < dataLen
           /\ position \in Nat /\ FirstComparison <= position
           /\ increasingLength \in Nat /\ increasingLength >= 1
           /\ increasingLength < SequenceLength
           /\ opposingSlopeCount \in Nat /\ opposingSlopeCount < SkipTrigger
           /\ FirstRising >= FirstComparison /\ FirstRising <= position /\ FirstRising \in Nat
           /\ StretchOf(FirstComparison) = FirstComparison
           /\ \A p \in (FirstComparison + 1) .. (dataLen - 1) :
                 StretchOf(p) = StretchAfter(pos, p, StretchOf(p - 1))
<1>1. /\ pos \in 0 .. fileSize /\ fileSize \in Nat /\ dataLen \in Nat
      /\ position \in FirstComparison .. (dataLen + SkipSize + 1) /\ position \in Nat
      /\ increasingLength \in 1 .. SequenceLength
      /\ opposingSlopeCount \in 0 .. (SkipTrigger - 1)
    BY DEF IInv, TypeOK, SingleTypeOK
<1>2. /\ dataLen > MinimumChunkSize /\ increasingLength < SequenceLength
      /\ position >= FirstComparison + increasingLength - 1
    BY DEF IInv, SequenceIsRecent
<1>3. dataLen = Available(pos) /\ pos + Available(pos) <= fileSize
    BY AvailableBounds DEF IInv, DataIsAligned
<1>4. /\ FirstComparison \in Nat /\ FirstComparison >= 1 /\ FirstComparison < dataLen
    BY <1>1, <1>2, Constants DEF FirstComparison
<1>5. /\ StretchAt(pos)[FirstComparison] = FirstComparison
      /\ \A p \in (FirstComparison + 1) .. (dataLen - 1) :
            StretchAt(pos)[p] = StretchAfter(pos, p, StretchAt(pos)[p - 1])
    BY <1>1, <1>3, <1>4, StretchUnfolds
<1> QED
    BY <1>1, <1>2, <1>3, <1>4, <1>5, Constants DEF FirstRising, StretchOf

\* While the file and the position in it stay, so does the rule.
LEMMA SameRule ==
    ASSUME UNCHANGED <<file, peeker>>
    PROVE  /\ \A p : StretchOf(p)' = StretchOf(p) /\ Rising(p)' = Rising(p)
                     /\ IsSequence(p)' = IsSequence(p)
           /\ \A from, to : Fallen(from, to)' = Fallen(from, to)
           /\ \A start : RuleChunkSize(start)' = RuleChunkSize(start)
           /\ Available(pos)' = Available(pos) /\ StretchAt(pos)' = StretchAt(pos)
<1>1. UNCHANGED <<fileSize, byte, pos>>
    BY DEF file, peeker
<1>2. \A from, to : Fallen(from, to)' = Fallen(from, to)
    BY <1>1 DEF Fallen, FallsAt
<1>3. \A start : StretchAt(start)' = StretchAt(start)
    BY <1>1 DEF StretchAt, Offsets, Available, Fallen, FallsAt
<1>4. \A start : RuleChunkSize(start)' = RuleChunkSize(start)
    BY <1>1 DEF RuleChunkSize, StretchAt, Offsets, Available, Fallen, FallsAt
<1>5. \A p : StretchOf(p)' = StretchOf(p) /\ Rising(p)' = Rising(p)
    BY <1>1, <1>3 DEF StretchOf, Rising
<1>6. \A p : IsSequence(p)' = IsSequence(p)
    BY <1>1, <1>3 DEF IsSequence, StretchOf, Rising
<1> QED
    BY <1>1, <1>2, <1>3, <1>4, <1>5, <1>6 DEF Available

\* The comparison of a step is that of the rule.
LEMMA ComparisonIsRules ==
    ASSUME IInv, Comparing
    PROVE  /\ Rises <=> Rising(position)
           /\ Falls <=> FallsAt(pos + position)
           /\ ~ (Rises /\ Falls)
<1>1. pc = "scan" /\ position < dataLen
    BY DEF Comparing
<1>2. /\ pos \in Nat /\ position \in Nat /\ position >= 1 /\ dataLen \in Nat
      /\ pos + dataLen <= fileSize /\ fileSize \in Nat
    BY <1>1, ScanData
<1>3. (pos + position) - 1 = pos + (position - 1)
    BY <1>2
<1>4. byte[pos + position] \in Nat /\ byte[pos + position - 1] \in Nat
  <2>1. pos + position \in 0 .. (fileSize - 1) /\ pos + position - 1 \in 0 .. (fileSize - 1)
    BY <1>1, <1>2
  <2>2. byte \in [0 .. (fileSize - 1) -> 0 .. Top]
    BY DEF IInv, TypeOK, SingleTypeOK
  <2> QED
    BY <2>1, <2>2
<1> QED
    BY <1>3, <1>4 DEF Rises, Falls, Rising, FallsAt, Data

\* No sequence ends at a position unless the scan has counted it.
LEMMA SequenceIsCounted ==
    ASSUME IInv, RuleInv, Comparing
    PROVE  IsSequence(position) <=> Rises /\ increasingLength + 1 = SequenceLength
<1>1. pc = "scan" /\ position < dataLen
    BY DEF Comparing
<1>2. /\ position \in Nat /\ increasingLength \in Nat /\ increasingLength >= 1
      /\ increasingLength < SequenceLength /\ FirstComparison \in Nat
      /\ FirstRising \in Nat /\ FirstRising <= position
    BY <1>1, ScanData
<1>3. /\ StretchOf(position) \in FirstComparison .. position
      /\ \A p \in StretchOf(position) .. position : StretchOf(p) = StretchOf(position)
      /\ StretchOf(position) <= FirstRising
      /\ \A p \in FirstRising .. (position - 1) : Rising(p)
      /\ FirstRising = StretchOf(position) \/ ~ Rising(FirstRising - 1)
    BY <1>1 DEF RuleInv, StretchIsCurrent, SequenceIsLongest
<1>4. Rises <=> Rising(position)
    BY ComparisonIsRules
<1> DEFINE first == position - SequenceLength + 2
           st == StretchOf(position)
<1>5. first \in Int /\ first <= position /\ st \in Nat /\ SequenceLength \in Nat
    BY <1>2, <1>3, Constants
<1>6. ASSUME Rises, increasingLength + 1 = SequenceLength PROVE IsSequence(position)
  <2>1. first = FirstRising
    BY <1>2, <1>5, <1>6 DEF FirstRising
  <2>2. st <= first /\ FirstComparison <= first
    BY <1>2, <1>3, <1>5, <2>1
  <2>3. StretchOf(first) = st
    BY <1>3, <1>5, <2>2
  <2>4. \A q \in first .. position : Rising(q)
    BY <1>2, <1>3, <1>4, <1>5, <1>6, <2>1
  <2> HIDE DEF first
  <2>5. first >= FirstComparison /\ StretchOf(first) <= first
    BY <1>2, <1>5, <2>2, <2>3
  <2> QED
    BY <2>3, <2>4, <2>5 DEF IsSequence, first
<1>7. ASSUME IsSequence(position) PROVE Rises /\ increasingLength + 1 = SequenceLength
  <2>1. /\ first >= FirstComparison /\ StretchOf(first) <= first /\ st = StretchOf(first)
        /\ \A q \in first .. position : Rising(q)
    BY <1>7 DEF IsSequence
  <2> HIDE DEF first
  <2>2. Rises
    BY <1>4, <1>5, <1>2, <2>1
  <2>3. FirstRising <= first
    <3>1. CASE first < FirstRising
      <4>1. FirstRising # st
        BY <1>2, <1>5, <2>1, <3>1
      <4>2. ~ Rising(FirstRising - 1)
        BY <1>3, <4>1
      <4>3. FirstRising - 1 \in first .. position
        BY <1>2, <1>5, <3>1
      <4> QED
        BY <2>1, <4>2, <4>3
    <3> QED
      BY <1>2, <1>5, <3>1
  <2> QED
    BY <1>2, <1>5, <2>2, <2>3 DEF FirstRising, first
<1> QED
    BY <1>6, <1>7

\* The offset after one that does not complete SkipTrigger falls is in its stretch.
LEMMA StretchGoesOn ==
    ASSUME IInv, RuleInv, Comparing, position + 1 < dataLen,
           NEW count \in Nat, count # SkipTrigger,
           Falls => count = opposingSlopeCount + 1,
           ~ Falls => count = opposingSlopeCount
    PROVE  /\ StretchOf(position + 1) = StretchOf(position)
           /\ count = Fallen(pos + StretchOf(position), pos + position)
<1>1. pc = "scan" /\ position < dataLen
    BY DEF Comparing
<1>2. /\ pos \in Nat /\ position \in Nat /\ FirstComparison \in Nat /\ dataLen \in Nat
      /\ FirstComparison <= position
      /\ \A p \in (FirstComparison + 1) .. (dataLen - 1) :
            StretchOf(p) = StretchAfter(pos, p, StretchOf(p - 1))
    BY <1>1, ScanData
<1> DEFINE st == StretchOf(position)
           from == pos + st
           to == pos + (position - 1)
<1>3. st \in FirstComparison .. position /\ opposingSlopeCount = Fallen(from, to)
    BY <1>1 DEF RuleInv, StretchIsCurrent
<1>4. from \in Int /\ to \in Int /\ from <= to + 1 /\ to + 1 = pos + position
    BY <1>2, <1>3
<1> HIDE DEF from, to
<1>5. /\ FallsAt(to + 1) => Fallen(from, to + 1) = Fallen(from, to) + 1
      /\ ~ FallsAt(to + 1) => Fallen(from, to + 1) = Fallen(from, to)
    BY <1>4, FallenGrows
<1>6. Falls <=> FallsAt(to + 1)
    BY <1>4, ComparisonIsRules
<1>7. count = Fallen(from, pos + position)
    BY <1>3, <1>4, <1>5, <1>6
<1>8. StretchOf(position + 1) = st
  <2>1. position + 1 \in (FirstComparison + 1) .. (dataLen - 1) /\ position + 1 - 1 = position
        /\ pos + (position + 1) - 1 = pos + position
    BY <1>2
  <2>2. StretchOf(position + 1) = StretchAfter(pos, position + 1, st)
    BY <1>2, <2>1
  <2>3. Fallen(pos + st, pos + (position + 1) - 1) = count
    BY <1>7, <2>1 DEF from
  <2> HIDE DEF st
  <2> QED
    BY <2>2, <2>3 DEF StretchAfter
<1> QED
    BY <1>7, <1>8 DEF from

\* The offsets after SkipTrigger falls are skipped, or begin the next stretch.
LEMMA StretchIsLeft ==
    ASSUME IInv, RuleInv, Comparing, Falls, opposingSlopeCount + 1 = SkipTrigger,
           NEW p \in (position + 1) .. (position + SkipSize + 2), p < dataLen
    PROVE  StretchOf(p) = position + SkipSize + 2
<1>1. pc = "scan" /\ position < dataLen
    BY DEF Comparing
<1>2. /\ pos \in Nat /\ position \in Nat /\ FirstComparison \in Nat /\ dataLen \in Nat
      /\ FirstComparison <= position
      /\ \A q \in (FirstComparison + 1) .. (dataLen - 1) :
            StretchOf(q) = StretchAfter(pos, q, StretchOf(q - 1))
    BY <1>1, ScanData
<1> DEFINE st == StretchOf(position)
           from == pos + st
           to == pos + (position - 1)
           n == position + SkipSize + 2
<1>3. st \in FirstComparison .. position /\ opposingSlopeCount = Fallen(from, to)
    BY <1>1 DEF RuleInv, StretchIsCurrent
<1>4. from \in Int /\ to \in Int /\ from <= to + 1 /\ to + 1 = pos + position
    BY <1>2, <1>3
<1> HIDE DEF from, to
<1>5. FallsAt(to + 1) => Fallen(from, to + 1) = Fallen(from, to) + 1
    BY <1>4, FallenGrows
<1>6. Fallen(from, pos + position) = SkipTrigger
    BY <1>3, <1>4, <1>5, ComparisonIsRules
<1>7. position + 1 < dataLen => StretchOf(position + 1) = n
  <2> SUFFICES ASSUME position + 1 < dataLen PROVE StretchOf(position + 1) = n
    OBVIOUS
  <2>1. position + 1 \in (FirstComparison + 1) .. (dataLen - 1) /\ position + 1 - 1 = position
        /\ pos + (position + 1) - 1 = pos + position
    BY <1>2
  <2>2. StretchOf(position + 1) = StretchAfter(pos, position + 1, st)
    BY <1>2, <2>1
  <2>3. Fallen(pos + st, pos + (position + 1) - 1) = SkipTrigger
    BY <1>6, <2>1 DEF from
  <2>4. st < position + 1
    BY <1>2, <1>3
  <2>5. (position + 1) + SkipSize + 1 = n
    BY <1>2, Constants
  <2> HIDE DEF st, n
  <2> QED
    BY <2>2, <2>3, <2>4, <2>5 DEF StretchAfter
<1>8. SkipSize \in Nat /\ n \in Nat
    BY <1>2, Constants
<1> DEFINE bad == {q \in Nat : /\ q \in (position + 1) .. n /\ q < dataLen
                               /\ StretchOf(q) # n}
<1> HIDE DEF n
<1>9. bad = {}
  <2> SUFFICES ASSUME bad # {} PROVE FALSE
    OBVIOUS
  <2>1. PICK q \in bad : \A r \in bad : q <= r
    <3>1. bad \in SUBSET Nat
      OBVIOUS
    <3> HIDE DEF bad
    <3> QED
      BY <3>1, LeastMember
  <2>2. q # position + 1
    BY <1>7, <2>1
  <2>3. q - 1 \in Nat /\ q - 1 \notin bad /\ q - 1 \in (position + 1) .. n /\ q - 1 < dataLen
    <3>1. q - 1 \in Nat /\ ~ (q <= q - 1) /\ q - 1 \in (position + 1) .. n /\ q - 1 < dataLen
      BY <1>2, <1>8, <2>1, <2>2
    <3> QED
      BY <2>1, <3>1
  <2>4. StretchOf(q - 1) = n
    BY <2>3
  <2>5. StretchOf(q) = StretchAfter(pos, q, n)
    <3>1. q \in (FirstComparison + 1) .. (dataLen - 1)
      BY <1>2, <2>1
    <3> QED
      BY <1>2, <2>4, <3>1
  <2>6. ~ (n < q)
    BY <1>8, <2>1
  <2>7. StretchOf(q) = n
    BY <2>5, <2>6 DEF StretchAfter
  <2> QED
    BY <2>1, <2>7
<1>10. p \in Nat /\ p \in (position + 1) .. n
    BY <1>2, <1>8 DEF n
<1> QED
    BY <1>9, <1>10 DEF n

-----------------------------------------------------------------------------
\* The chunk of the rule

Ends == {p \in Offsets(pos) : IsSequence(p)}

LEMMA RuleIsOfEnds ==
    ASSUME dataLen = Available(pos), dataLen > MinimumChunkSize, dataLen \in Nat
    PROVE  RuleChunkSize(pos) = Min({dataLen} \cup {p + 1 : p \in Ends})
<1>1. ~ (Available(pos) <= MinimumChunkSize)
    BY Constants
<1>2. Ends = {p \in Offsets(pos) :
                /\ p - SequenceLength + 2 >= FirstComparison
                /\ StretchAt(pos)[p - SequenceLength + 2] <= p - SequenceLength + 2
                /\ StretchAt(pos)[p] = StretchAt(pos)[p - SequenceLength + 2]
                /\ \A q \in (p - SequenceLength + 2) .. p : byte[pos + q] > byte[pos + q - 1]}
    BY DEF Ends, IsSequence, StretchOf, Rising
<1> QED
    BY <1>1, <1>2 DEF RuleChunkSize

\* The chunk ends with the first sequence that is long enough.
LEMMA RuleAtSequence ==
    ASSUME IInv, pc = "scan", NEW p \in FirstComparison .. (dataLen - 1), IsSequence(p),
           \A q \in FirstComparison .. (p - 1) : ~ IsSequence(q)
    PROVE  RuleChunkSize(pos) = p + 1
<1>1. /\ dataLen = Available(pos) /\ dataLen > MinimumChunkSize /\ dataLen \in Nat
      /\ FirstComparison \in Nat
    BY ScanData
<1> DEFINE S == {dataLen} \cup {q + 1 : q \in Ends}
<1>2. p + 1 \in S
    BY <1>1 DEF Ends, Offsets
<1>3. ASSUME NEW x \in S PROVE p + 1 <= x /\ x \in Int
  <2>1. CASE x = dataLen
    BY <1>1, <2>1
  <2>2. CASE x # dataLen
    <3>1. PICK q \in Ends : x = q + 1
      BY <2>2
    <3>2. q \in FirstComparison .. (dataLen - 1) /\ IsSequence(q)
      BY <1>1, <3>1 DEF Ends, Offsets
    <3>3. CASE q < p
      <4>1. q \in FirstComparison .. (p - 1)
        BY <1>1, <3>2, <3>3
      <4> QED
        BY <3>2, <4>1
    <3> QED
      BY <1>1, <3>1, <3>2, <3>3
  <2> QED
    BY <2>1, <2>2
<1> HIDE DEF S
<1>4. Min(S) = p + 1
  <2>1. \E x \in S : \A y \in S : x <= y
    BY <1>2, <1>3
  <2>2. Min(S) \in S /\ \A y \in S : Min(S) <= y
    BY <2>1 DEF Min
  <2>3. Min(S) <= p + 1 /\ p + 1 <= Min(S) /\ Min(S) \in Int
    BY <1>2, <1>3, <2>2
  <2> QED
    BY <1>1, <2>3
<1> QED
    BY <1>1, <1>4, RuleIsOfEnds DEF S

LEMMA RuleWithoutSequence ==
    ASSUME IInv, pc = "scan",
           \A q \in FirstComparison .. (dataLen - 1) : ~ IsSequence(q)
    PROVE  RuleChunkSize(pos) = dataLen
<1>1. dataLen = Available(pos) /\ dataLen > MinimumChunkSize /\ dataLen \in Nat
    BY ScanData
<1>2. Ends = {}
    BY <1>1 DEF Ends, Offsets
<1>3. {dataLen} \cup {p + 1 : p \in Ends} = {dataLen}
    BY <1>2
<1>4. Min({dataLen}) = dataLen
  <2>1. \E x \in {dataLen} : \A y \in {dataLen} : x <= y
    BY <1>1
  <2> QED
    BY <2>1 DEF Min
<1> QED
    BY <1>1, <1>3, <1>4, RuleIsOfEnds

-----------------------------------------------------------------------------
\* The steps keep the rule

\* A comparison that does not end the chunk or the stretch.
LEMMA ComparisonRuleInv ==
    ASSUME IInv, IInv', RuleInv, Comparing, pc' = "scan",
           UNCHANGED <<file, peeker, dataLen>>, position' = position + 1,
           ~ IsSequence(position),
           increasingLength' = (IF Rises THEN increasingLength + 1 ELSE 1),
           opposingSlopeCount' = (IF Falls THEN opposingSlopeCount + 1 ELSE opposingSlopeCount)
    PROVE  RuleInv'
<1>1. pc = "scan" /\ position < dataLen
    BY DEF Comparing
<1>2. /\ pos \in Nat /\ position \in Nat /\ FirstComparison \in Nat /\ dataLen \in Nat
      /\ FirstComparison <= position /\ FirstRising \in Nat /\ FirstRising <= position
      /\ increasingLength \in Nat /\ opposingSlopeCount \in Nat
    BY <1>1, ScanData
<1>3. /\ \A p : StretchOf(p)' = StretchOf(p) /\ Rising(p)' = Rising(p)
                 /\ IsSequence(p)' = IsSequence(p)
      /\ \A from, to : Fallen(from, to)' = Fallen(from, to)
      /\ pos' = pos /\ dataLen' = dataLen /\ FirstComparison' = FirstComparison
    BY SameRule DEF peeker, FirstComparison
<1>4. /\ StretchOf(position) \in FirstComparison .. position
      /\ \A p \in StretchOf(position) .. position : StretchOf(p) = StretchOf(position)
      /\ StretchOf(position) <= FirstRising
      /\ \A p \in FirstRising .. (position - 1) : Rising(p)
      /\ FirstRising = StretchOf(position) \/ ~ Rising(FirstRising - 1)
    BY <1>1 DEF RuleInv, StretchIsCurrent, SequenceIsLongest
<1>5. NoSequenceYet'
  <2>1. \A p \in FirstComparison .. position : p < dataLen => ~ IsSequence(p)
    BY <1>1, <1>2 DEF RuleInv, NoSequenceYet
  <2>2. position' - 1 = position
    BY <1>2
  <2> QED
    BY <1>3, <2>1, <2>2 DEF NoSequenceYet
<1>6. SUFFICES ASSUME position + 1 < dataLen PROVE StretchIsCurrent' /\ SequenceIsLongest'
  <2>1. position' \in Nat /\ (~ (position + 1 < dataLen) => ~ (position' < dataLen'))
    BY <1>2, <1>3
  <2>2. ~ (position + 1 < dataLen) => StretchIsCurrent' /\ SequenceIsLongest'
    BY <2>1 DEF StretchIsCurrent, SequenceIsLongest
  <2> QED
    BY <1>5, <2>2 DEF RuleInv
<1> DEFINE st == StretchOf(position)
<1>7. /\ StretchOf(position + 1) = st
      /\ opposingSlopeCount' = Fallen(pos + st, pos + position)
  <2>1. opposingSlopeCount' \in Nat /\ opposingSlopeCount' # SkipTrigger
    <3>1. opposingSlopeCount' \in 0 .. (SkipTrigger - 1)
      BY DEF IInv, TypeOK
    <3> QED
      BY <3>1, Constants
  <2>2. (Falls => opposingSlopeCount' = opposingSlopeCount + 1)
        /\ (~ Falls => opposingSlopeCount' = opposingSlopeCount)
    OBVIOUS
  <2> DEFINE count == opposingSlopeCount'
  <2>3. count \in Nat /\ count # SkipTrigger /\ (Falls => count = opposingSlopeCount + 1)
        /\ (~ Falls => count = opposingSlopeCount)
    BY <2>1, <2>2
  <2> HIDE DEF count
  <2>4. StretchOf(position + 1) = st /\ count = Fallen(pos + st, pos + position)
    BY <1>6, <2>3, StretchGoesOn
  <2> QED
    BY <2>4 DEF count
<1> DEFINE q == position + 1
<1>8. q \in Nat /\ q - 1 = position /\ position' = q
    BY <1>2
<1>9. StretchOf(position)' = st
  <2>1. StretchOf(position)' = StretchAt(pos)[position']
    BY SameRule DEF StretchOf
  <2> QED
    BY <1>7, <1>8, <2>1 DEF StretchOf
<1>10. StretchIsCurrent'
  <2>1. st \in FirstComparison .. q
    BY <1>2, <1>4
  <2>2. \A p \in st .. q : StretchOf(p) = st
    BY <1>2, <1>4, <1>7
  <2>3. opposingSlopeCount' = Fallen(pos + st, pos + (q - 1))
    BY <1>7, <1>8
  <2> HIDE DEF st, q
  <2> QED
    BY <1>3, <1>8, <1>9, <2>1, <2>2, <2>3 DEF StretchIsCurrent
<1>11. SequenceIsLongest'
  <2>1. CASE Rises
    <3>1. FirstRising' = FirstRising
      BY <1>2, <2>1 DEF FirstRising
    <3>2. \A p \in FirstRising .. position : Rising(p)
      BY <1>2, <1>4, <2>1, ComparisonIsRules
    <3>3. \A p \in FirstRising .. (q - 1) : Rising(p)
      BY <1>8, <3>2
    <3> HIDE DEF st, q
    <3> QED
      BY <1>3, <1>4, <1>8, <1>9, <3>1, <3>3 DEF SequenceIsLongest, st
  <2>2. CASE ~ Rises
    <3>1. FirstRising' = q
      BY <1>2, <2>2 DEF FirstRising
    <3>2. ~ Rising(q - 1) /\ q .. (q - 1) = {} /\ st <= q
      BY <1>2, <1>4, <1>8, <2>2, ComparisonIsRules
    <3> HIDE DEF st, q
    <3> QED
      BY <1>3, <1>8, <1>9, <3>1, <3>2 DEF SequenceIsLongest
  <2> QED
    BY <2>1, <2>2
<1> QED
    BY <1>10, <1>11

\* The comparison that ends a stretch.
LEMMA SkipRuleInv ==
    ASSUME IInv, IInv', RuleInv, Comparing, pc' = "scan",
           UNCHANGED <<file, peeker, dataLen>>, Falls,
           opposingSlopeCount + 1 = SkipTrigger, position' = AfterSkip(position),
           increasingLength' = 1, opposingSlopeCount' = 0
    PROVE  RuleInv'
<1>1. pc = "scan" /\ position < dataLen
    BY DEF Comparing
<1> DEFINE n == position + SkipSize + 2
<1>2. /\ pos \in Nat /\ position \in Nat /\ FirstComparison \in Nat /\ dataLen \in Nat
      /\ FirstComparison <= position /\ SkipSize \in Nat /\ n \in Nat /\ position < n
    BY <1>1, ScanData, Constants
<1>3. /\ \A p : StretchOf(p)' = StretchOf(p) /\ Rising(p)' = Rising(p)
                 /\ IsSequence(p)' = IsSequence(p)
      /\ \A from, to : Fallen(from, to)' = Fallen(from, to)
      /\ pos' = pos /\ dataLen' = dataLen /\ FirstComparison' = FirstComparison
    BY SameRule DEF peeker, FirstComparison
<1>4. position' = n
    BY <1>2 DEF AfterSkip
<1>5. ASSUME NEW p \in (position + 1) .. n, p < dataLen PROVE StretchOf(p) = n
    BY <1>5, StretchIsLeft
<1>6. NoSequenceYet'
  <2>1. ASSUME NEW p \in FirstComparison .. (n - 1), p < dataLen PROVE ~ IsSequence(p)
    <3>1. CASE p < position
      <4>1. p \in FirstComparison .. (position - 1)
        BY <1>2, <3>1
      <4> QED
        BY <1>1, <2>1, <4>1 DEF RuleInv, NoSequenceYet
    <3>2. CASE p = position
      BY <3>2, SequenceIsCounted, ComparisonIsRules
    <3>3. CASE p > position
      <4>1. p \in (position + 1) .. n /\ p < n /\ p \in Nat
        BY <1>2, <3>3
      <4>2. StretchOf(p) = n
        BY <1>5, <2>1, <4>1
      <4>3. SUFFICES ASSUME IsSequence(p) PROVE FALSE
        OBVIOUS
      <4> DEFINE first == p - SequenceLength + 2
      <4>4. StretchOf(first) <= first /\ StretchOf(p) = StretchOf(first) /\ first <= p
        <5>1. first <= p
          BY <4>1, Constants
        <5> QED
          BY <4>3, <5>1 DEF IsSequence
      <4>5. first \in Int
        BY <4>1, Constants
      <4> HIDE DEF first, n
      <4> QED
        BY <1>2, <4>1, <4>2, <4>4, <4>5
    <3> QED
      BY <1>2, <3>1, <3>2, <3>3
  <2> HIDE DEF n
  <2> QED
    BY <1>3, <1>4, <2>1 DEF NoSequenceYet
<1> HIDE DEF n
<1>7. SUFFICES ASSUME n < dataLen PROVE StretchIsCurrent' /\ SequenceIsLongest'
  <2>1. ~ (n < dataLen) => StretchIsCurrent' /\ SequenceIsLongest'
    BY <1>3, <1>4 DEF StretchIsCurrent, SequenceIsLongest
  <2> QED
    BY <1>6, <2>1 DEF RuleInv
<1>8. StretchOf(n) = n
  <2>1. n \in (position + 1) .. n
    BY <1>2
  <2> QED
    BY <1>5, <1>7, <2>1
<1>9. StretchOf(position)' = n
  <2>1. StretchOf(position)' = StretchAt(pos)[position']
    BY SameRule DEF StretchOf
  <2> QED
    BY <1>4, <1>8, <2>1 DEF StretchOf
<1>10. StretchIsCurrent'
  <2>1. n \in FirstComparison .. n /\ n .. n = {n}
    BY <1>2
  <2>2. Fallen(pos + n, pos + (n - 1)) = 0
    <3> DEFINE from == pos + n
               to == pos + (n - 1)
    <3>1. from \in Int /\ to \in Int /\ from = to + 1 /\ from <= to + 1
      BY <1>2
    <3> HIDE DEF from, to
    <3>2. Fallen(from, to) = 0
      BY <3>1, FallenGrows
    <3> QED
      BY <3>2 DEF from, to
  <2> QED
    BY <1>3, <1>4, <1>8, <1>9, <2>1, <2>2 DEF StretchIsCurrent
<1>11. SequenceIsLongest'
  <2>1. FirstRising' = n /\ n .. (n - 1) = {} /\ n <= n
    BY <1>2, <1>4 DEF FirstRising
  <2> QED
    BY <1>4, <1>9, <2>1 DEF SequenceIsLongest
<1> QED
    BY <1>10, <1>11

LEMMA StartRuleInv == ASSUME IInv, StartScan PROVE RuleInv'
<1>1. /\ position' = FirstComparison /\ increasingLength' = 1 /\ opposingSlopeCount' = 0
      /\ pc' = "scan" /\ UNCHANGED <<file, peeker, dataLen>>
      /\ pc = "data" /\ dataLen > MinimumChunkSize
    BY DEF StartScan
<1>2. /\ dataLen \in Nat /\ dataLen = Available(pos) /\ pos \in Nat
    BY <1>1 DEF IInv, TypeOK, SingleTypeOK, DataIsAligned
<1>3. FirstComparison \in Nat /\ FirstComparison < dataLen
    BY <1>1, <1>2, Constants DEF FirstComparison
<1>4. StretchAt(pos)[FirstComparison] = FirstComparison
    BY <1>2, <1>3, StretchUnfolds
<1>5. StretchOf(position)' = FirstComparison
  <2>1. StretchOf(position)' = StretchAt(pos)[position']
    BY <1>1, SameRule DEF StretchOf
  <2> QED
    BY <1>1, <1>4, <2>1
<1>6. /\ \A p : StretchOf(p)' = StretchOf(p) /\ Rising(p)' = Rising(p)
                 /\ IsSequence(p)' = IsSequence(p)
      /\ \A from, to : Fallen(from, to)' = Fallen(from, to)
      /\ pos' = pos /\ dataLen' = dataLen /\ FirstComparison' = FirstComparison
    BY <1>1, SameRule DEF peeker, FirstComparison
<1> DEFINE n == FirstComparison
<1>7. n \in n .. n /\ n .. n = {n} /\ n .. (n - 1) = {} /\ n <= n /\ StretchOf(n) = n
    BY <1>3, <1>4 DEF StretchOf
<1>8. Fallen(pos + n, pos + (n - 1)) = 0
  <2> DEFINE from == pos + n
             to == pos + (n - 1)
  <2>1. from \in Int /\ to \in Int /\ from = to + 1 /\ from <= to + 1
    BY <1>2, <1>3
  <2> HIDE DEF from, to
  <2>2. Fallen(from, to) = 0
    BY <2>1, FallenGrows
  <2> QED
    BY <2>2 DEF from, to
<1>9. FirstRising' = n
    BY <1>1, <1>3 DEF FirstRising
<1>10. StretchIsCurrent'
    BY <1>1, <1>5, <1>6, <1>7, <1>8 DEF StretchIsCurrent
<1>11. SequenceIsLongest'
    BY <1>1, <1>5, <1>7, <1>9 DEF SequenceIsLongest
<1>12. NoSequenceYet'
    BY <1>1, <1>6, <1>7 DEF NoSequenceYet
<1> QED
    BY <1>10, <1>11, <1>12 DEF RuleInv

LEMMA NextRuleInv == ASSUME IInv, IInv', RuleInv, [Next]_vars PROVE RuleInv'
<1>1. ASSUME pc' # "scan" PROVE RuleInv'
    BY <1>1 DEF RuleInv, StretchIsCurrent, SequenceIsLongest, NoSequenceYet
<1>2. CASE PeekerStep \/ ReturnShort \/ ReturnAll
  <2>1. pc' # "scan"
    BY <1>2 DEF PeekerStep, Discard, DiscardFails, PeekFails, PeekData, ReturnEndOfFile,
       ReturnShort, ReturnAll, ReturnChunk, Return
  <2> QED
    BY <1>1, <2>1
<1>3. CASE StartScan
    BY <1>3, StartRuleInv
<1>4. CASE Rise
  <2>1. /\ Comparing /\ Rises /\ pc = "scan" /\ position' = position + 1
        /\ increasingLength' = increasingLength + 1 /\ opposingSlopeCount' = opposingSlopeCount
        /\ UNCHANGED <<file, peeker, dataLen>>
        /\ \/ increasingLength' = SequenceLength /\ ReturnChunk(position')
           \/ increasingLength' # SequenceLength /\ UNCHANGED call
    BY <1>4 DEF Rise, Comparing
  <2>2. CASE increasingLength' = SequenceLength
    <3>1. pc' # "scan"
      BY <2>1, <2>2 DEF ReturnChunk, Return
    <3> QED
      BY <1>1, <3>1
  <2>3. CASE increasingLength' # SequenceLength
    <3>1. pc' = "scan"
      BY <2>1, <2>3 DEF call
    <3>2. ~ IsSequence(position)
      BY <2>1, <2>3, SequenceIsCounted
    <3>3. ~ Falls
      BY <2>1, ComparisonIsRules
    <3> QED
      BY <2>1, <3>1, <3>2, <3>3, ComparisonRuleInv
  <2> QED
    BY <2>2, <2>3
<1>5. CASE Fall
  <2>1. /\ Comparing /\ Falls /\ pc' = "scan" /\ increasingLength' = 1
        /\ UNCHANGED <<file, peeker, dataLen>>
        /\ \/ /\ opposingSlopeCount + 1 = SkipTrigger
              /\ position' = AfterSkip(position) /\ opposingSlopeCount' = 0
           \/ /\ opposingSlopeCount + 1 # SkipTrigger
              /\ position' = position + 1 /\ opposingSlopeCount' = opposingSlopeCount + 1
    BY <1>5 DEF Fall, Comparing, call
  <2>2. ~ Rises /\ ~ IsSequence(position)
    BY <2>1, ComparisonIsRules, SequenceIsCounted
  <2>3. CASE opposingSlopeCount + 1 = SkipTrigger
    BY <2>1, <2>3, SkipRuleInv
  <2>4. CASE opposingSlopeCount + 1 # SkipTrigger
    BY <2>1, <2>2, <2>4, ComparisonRuleInv
  <2> QED
    BY <2>3, <2>4
<1>6. CASE Level
  <2>1. /\ Comparing /\ ~ Falls /\ ~ Rises /\ pc' = "scan" /\ increasingLength' = 1
        /\ UNCHANGED <<file, peeker, dataLen>> /\ position' = position + 1
        /\ opposingSlopeCount' = opposingSlopeCount
    BY <1>6 DEF Level, Comparing, call
  <2>2. ~ IsSequence(position)
    BY <2>1, SequenceIsCounted
  <2> QED
    BY <2>1, <2>2, ComparisonRuleInv
<1>7. CASE UNCHANGED vars
  <2>1. UNCHANGED <<file, peeker, pc, dataLen, position, increasingLength, opposingSlopeCount>>
    BY <1>7 DEF vars, single, scan, call
  <2>2. StretchAt(pos)' = StretchAt(pos) /\ pos' = pos /\ FirstComparison' = FirstComparison
    BY <2>1, SameRule DEF peeker, FirstComparison
  <2>3. /\ \A p : StretchOf(p)' = StretchOf(p) /\ Rising(p)' = Rising(p)
                   /\ IsSequence(p)' = IsSequence(p)
        /\ \A from, to : Fallen(from, to)' = Fallen(from, to)
    BY <2>1, SameRule
  <2>4. StretchOf(position)' = StretchOf(position) /\ FirstRising' = FirstRising
    BY <2>1, <2>2 DEF StretchOf, FirstRising
  <2>5. StretchIsCurrent'
    BY <2>1, <2>2, <2>3, <2>4 DEF RuleInv, StretchIsCurrent
  <2>6. SequenceIsLongest'
    BY <2>1, <2>3, <2>4 DEF RuleInv, SequenceIsLongest
  <2>7. NoSequenceYet'
    BY <2>1, <2>2, <2>3 DEF RuleInv, NoSequenceYet
  <2> QED
    BY <2>5, <2>6, <2>7 DEF RuleInv
<1> QED
    BY <1>2, <1>3, <1>4, <1>5, <1>6, <1>7 DEF Next

-----------------------------------------------------------------------------
\* What a step does to the stream

\* It hands out the chunk of the rule, or nothing.
Delivers ==
    \/ /\ handedOut < fileSize /\ handedOut' = handedOut + RuleChunkSize(handedOut)
       /\ result' = "chunk"
    \/ handedOut = fileSize /\ result' = "eof" /\ UNCHANGED handedOut
    \/ result' = "error" /\ UNCHANGED handedOut
    \/ UNCHANGED <<handedOut, result>>

\* A call's data begins at the next chunk to be handed out.
LEMMA DataAtStart ==
    ASSUME IInv, pc \in {"data", "scan"}
    PROVE  /\ handedOut = pos /\ pos \in Nat /\ fileSize \in Nat /\ dataLen \in Nat
           /\ dataLen = Available(pos)
           /\ dataLen = 0 => pos = fileSize
           /\ dataLen > 0 => pos < fileSize
<1>1. /\ TypeOK /\ dataLen = Available(pos) /\ previousChunkSizeBytes = 0
      /\ pos + previousChunkSizeBytes = handedOut
    BY DEF IInv, DataIsAligned, NothingLost
<1>2. pos \in 0 .. fileSize /\ fileSize \in Nat /\ dataLen \in 0 .. PeekSize
    BY <1>1 DEF TypeOK, SingleTypeOK
<1>3. PeekSize \in Nat /\ PeekSize > 0
    BY Constants
<1> QED
    BY <1>1, <1>2, <1>3 DEF Available

LEMMA ReturnDelivers ==
    ASSUME IInv, pc \in {"data", "scan"}, dataLen > 0, ReturnChunk(RuleChunkSize(pos))
    PROVE  Delivers
<1>1. handedOut = pos /\ handedOut < fileSize
    BY DataAtStart
<1> QED
    BY <1>1 DEF ReturnChunk, Return, Delivers

LEMMA StepDelivers == ASSUME IInv, RuleInv, [Next]_vars PROVE Delivers
<1>1. CASE PeekerStep
  <2>1. CASE ReturnEndOfFile
    <3>1. handedOut = fileSize
      BY <2>1, DataAtStart DEF ReturnEndOfFile
    <3> QED
      BY <2>1, <3>1 DEF ReturnEndOfFile, Return, Delivers
  <2> QED
    BY <1>1, <2>1 DEF PeekerStep, Discard, DiscardFails, PeekFails, PeekData, Return, Delivers
<1>2. CASE ReturnShort
  <2>1. pc = "data" /\ dataLen \in 1 .. MinimumChunkSize /\ ReturnChunk(dataLen)
        /\ dataLen = Available(pos) /\ MinimumChunkSize \in Nat
    BY <1>2, DataAtStart, Constants DEF ReturnShort
  <2>2. RuleChunkSize(pos) = dataLen
    BY <2>1 DEF RuleChunkSize
  <2> QED
    BY <2>1, <2>2, ReturnDelivers
<1>3. CASE StartScan \/ Fall \/ Level \/ UNCHANGED vars
    BY <1>3 DEF StartScan, Fall, Level, Delivers, vars, single, call
<1>4. CASE Rise
  <2>1. /\ Comparing /\ Rises /\ pc = "scan" /\ position < dataLen /\ position' = position + 1
        /\ increasingLength' = increasingLength + 1
        /\ \/ increasingLength' = SequenceLength /\ ReturnChunk(position')
           \/ UNCHANGED call
    BY <1>4 DEF Rise, Comparing
  <2>2. CASE increasingLength' = SequenceLength /\ ReturnChunk(position')
    <3>1. IsSequence(position)
      BY <2>1, <2>2, SequenceIsCounted
    <3>2. /\ position \in FirstComparison .. (dataLen - 1) /\ dataLen > 0
          /\ \A q \in FirstComparison .. (position - 1) : q < dataLen
      BY <2>1, ScanData
    <3>3. \A q \in FirstComparison .. (position - 1) : ~ IsSequence(q)
      BY <2>1, <3>2 DEF RuleInv, NoSequenceYet
    <3>4. RuleChunkSize(pos) = position + 1
      BY <2>1, <3>1, <3>2, <3>3, RuleAtSequence
    <3> QED
      BY <2>1, <2>2, <3>2, <3>4, ReturnDelivers
  <2>3. CASE UNCHANGED call
    BY <2>3 DEF call, Delivers
  <2> QED
    BY <2>1, <2>2, <2>3
<1>5. CASE ReturnAll
  <2>1. pc = "scan" /\ position >= dataLen /\ ReturnChunk(dataLen)
    BY <1>5 DEF ReturnAll
  <2>2. /\ dataLen > 0
        /\ \A q \in FirstComparison .. (dataLen - 1) :
              q \in FirstComparison .. (position - 1) /\ q < dataLen
    BY <2>1, ScanData, Constants
  <2>3. \A q \in FirstComparison .. (dataLen - 1) : ~ IsSequence(q)
    BY <2>1, <2>2 DEF RuleInv, NoSequenceYet
  <2>4. RuleChunkSize(pos) = dataLen
    BY <2>1, <2>3, RuleWithoutSequence
  <2> QED
    BY <2>1, <2>2, <2>4, ReturnDelivers
<1> QED
    BY <1>1, <1>2, <1>3, <1>4, <1>5 DEF Next

-----------------------------------------------------------------------------
\* The inductive invariant of FastCDC

\* The data of a call begins where the last chunk ends, and ends with the file
\* unless it has room for a largest chunk.
FastDataIsAligned ==
    /\ pc \in {"peek", "data", "scan"} => previousChunkSizeBytes = 0
    /\ pc \in {"data", "scan"} => dataLen = Fast!Available(pos)

\* The hash that a rule without blocks and regions has after the byte at an
\* offset, and the mask it is compared with.
HashUpTo(p) == Fast!GearWindow(byte, pos + Fast!MinSize, pos + p)
MaskAt(p) == IF Fast!IsLarge /\ p >= NormalSize THEN MaskL ELSE MaskS

\* The next block or byte.
Offset == regionStart + i

\* The region is the bytes up to the normal size, or those after it.
RegionIsWhole ==
    pc = "scan" =>
        /\ dataLen >= Fast!MinSize
        /\ \/ /\ regionStart = Fast!MinSize /\ mask = MaskS
              /\ regionEnd = IF Fast!IsLarge THEN NormalSize ELSE dataLen
           \/ /\ regionStart = NormalSize /\ mask = MaskL
              /\ regionEnd = dataLen /\ Fast!IsLarge

\* The hash before a block, shifted, and what the block has added so far are the
\* hash of all bytes up to there.
BlockIsHashed == pc = "scan" => HashUpTo(Offset + k - 1) = Fast!Wrap(hash * Fast!TwoTo[k] + s)

\* No byte before this one ends the chunk.
NoMatchYet ==
    pc = "scan" =>
        \A p \in Fast!MinSize .. (Offset + k - 1) : ~ Fast!MasksToZero(HashUpTo(p), MaskAt(p))

\* Only blocks precede a block or a tail, and only the last region of the data has
\* a tail.
IsBlocks(n) == \E j \in Nat : n = Unroll * j
AfterBlocks == dataLen - ((dataLen - Fast!MinSize) % Unroll)
BlocksAreWhole ==
    pc = "scan" => \/ IsBlocks(Offset - Fast!MinSize)
                   \/ /\ regionEnd = dataLen /\ i + Unroll > Fast!RegionLen
                      /\ Offset >= AfterBlocks

FastIInv == /\ Fast!TypeOK /\ Fast!NothingLost /\ Fast!HashIsContinuous /\ FastDataIsAligned
            /\ RegionIsWhole /\ BlockIsHashed /\ NoMatchYet /\ BlocksAreWhole

USE FastConstants

\* The constants and the arithmetic that every step needs.
LEMMA FastBounds ==
    /\ NormalSize \in Nat /\ Fast!MinSize \in Nat /\ Fast!MinSize >= 1 /\ Fast!MinSize < NormalSize
    /\ FastPeekSize \in Nat /\ NormalSize <= FastPeekSize /\ MaxFaults \in Nat
    /\ Unroll \in Nat /\ Unroll > 0
    /\ Width \in Nat \ {0}
    /\ \A c \in 0 .. Top : Gear[c] \in Nat
<1>1. NormalSize \in Nat /\ NormalSize >= 4 /\ FastPeekSize = NormalSize * 4
      /\ Unroll \in Nat \ {0} /\ Width \in Nat \ {0}
    BY FastConstants DEF Fast!FastAssumption
<1>2. \A c \in 0 .. Top : Gear[c] \in Nat
  <2>1. Fast!TwoTo[Width] \in Nat
    BY <1>1, TwoToIsPositive
  <2>2. Gear \in [0 .. Top -> 0 .. (Fast!TwoTo[Width] - 1)]
    BY FastConstants DEF Fast!FastAssumption
  <2> QED
    BY <2>1, <2>2
<1> QED
    BY <1>1, <1>2 DEF Fast!MinSize

\* What a call peeks at is in the file.
LEMMA FastAvailableBounds ==
    ASSUME Fast!TypeOK
    PROVE  /\ Fast!Available(pos) \in 0 .. FastPeekSize
           /\ pos + Fast!Available(pos) <= fileSize
<1>1. FastPeekSize \in Nat
    BY FastBounds
<1>2. fileSize \in Nat /\ pos \in 0 .. fileSize
    BY DEF Fast!TypeOK, Fast!SingleTypeOK
<1> QED
    BY <1>1, <1>2 DEF Fast!Available

\* A file's hashes, from any byte on.
LEMMA FileRolls ==
    ASSUME Fast!TypeOK, NEW first \in Nat, NEW last \in Int, first <= last + 1,
           last + 1 < fileSize
    PROVE  /\ Fast!GearWindow(byte, first, last + 1)
                = Fast!GearStep(Fast!GearWindow(byte, first, last), byte[last + 1])
           /\ Fast!GearWindow(byte, first, last) \in Nat
           /\ Gear[byte[last + 1]] \in Nat
<1>1. \A p \in first .. (last + 1) : Gear[byte[p]] \in Nat
  <2>1. \A p \in first .. (last + 1) : byte[p] \in 0 .. Top
    BY DEF Fast!TypeOK, Fast!SingleTypeOK
  <2> QED
    BY <2>1, FastBounds
<1>2. Width \in Nat \ {0} /\ Modulus \in Nat
    BY FastBounds, ModulusIsPositive
<1> QED
    BY <1>1, <1>2, GearRolls

\* A hash does not wrap again.
LEMMA WrappedStays ==
    ASSUME NEW a \in Nat
    PROVE  Fast!Wrap(a) \in Nat /\ Fast!Wrap(Fast!Wrap(a)) = Fast!Wrap(a)
<1>1. Width \in Nat
    BY FastBounds
<1>2. Modulus \in Nat /\ Fast!Wrap(a) \in 0 .. (Modulus - 1)
    BY <1>1, ModulusIsPositive, Wrapped
<1> QED
    BY <1>1, <1>2, WrapOfSmall

LEMMA WrapOfZero == Fast!Wrap(0) = 0
<1>1. Width \in Nat
    BY FastBounds
<1>2. 0 \in 0 .. (Modulus - 1)
    BY <1>1, ModulusIsPositive
<1> QED
    BY <1>1, <1>2, WrapOfSmall

\* Larger factors make larger products.
LEMMA ProductIsMonotone ==
    ASSUME NEW m \in Nat, NEW x \in Nat, NEW y \in Nat, x <= y
    PROVE  m * x <= m * y
<1> DEFINE c == y - x
           mx == m * x
           my == m * y
           mc == m * c
<1>1. y = x + c /\ c \in Nat
    OBVIOUS
<1> HIDE DEF c
<1>2. my = mx + mc
    BY <1>1
<1>3. mx \in Nat /\ my \in Nat /\ mc \in Nat
    BY <1>1
<1> HIDE DEF mx, my, mc
<1>4. mx <= my
    BY <1>2, <1>3
<1> QED
    BY <1>4 DEF mx, my

\* Numbers of whole blocks are a block apart.
LEMMA BlocksApart ==
    ASSUME NEW a \in Nat, NEW b \in Nat, IsBlocks(a), IsBlocks(b), a < b
    PROVE  a + Unroll <= b
<1>1. PICK x \in Nat, y \in Nat : a = Unroll * x /\ b = Unroll * y
    BY DEF IsBlocks
<1>2. Unroll \in Nat
    BY FastBounds
<1>3. x + 1 <= y
  <2>1. CASE y <= x
    BY <1>1, <1>2, <2>1, ProductIsMonotone
  <2> QED
    BY <2>1
<1>4. Unroll * (x + 1) <= Unroll * y
  <2>1. x + 1 \in Nat
    OBVIOUS
  <2> QED
    BY <1>2, <1>3, <2>1, ProductIsMonotone
<1>5. Unroll * (x + 1) = Unroll * x + Unroll
    BY <1>2, ProductAdds
<1> QED
    BY <1>1, <1>4, <1>5

LEMMA NextBlock ==
    ASSUME NEW a \in Nat, IsBlocks(a)
    PROVE  IsBlocks(a + Unroll)
<1>1. PICK x \in Nat : a = Unroll * x
    BY DEF IsBlocks
<1>2. Unroll * (x + 1) = Unroll * x + Unroll /\ x + 1 \in Nat
    BY FastBounds, ProductAdds
<1>3. a + Unroll = Unroll * (x + 1)
    BY <1>1, <1>2
<1> QED
    BY <1>2, <1>3 DEF IsBlocks

\* The blocks that a number of bytes has room for.
LEMMA BlocksOf ==
    ASSUME NEW n \in Nat
    PROVE  /\ n % Unroll \in 0 .. (Unroll - 1) /\ n % Unroll <= n
           /\ IsBlocks(n - (n % Unroll))
<1>1. Unroll \in Nat /\ Unroll > 0
    BY FastBounds
<1>2. PICK q \in Nat, r \in 0 .. (Unroll - 1) : n = Unroll * q + r
    BY <1>1, Division
<1>3. n % Unroll = r
    BY <1>1, <1>2, Remainder
<1>4. Unroll * q \in Nat
    BY <1>1, ProductIsNatural
<1> DEFINE x == Unroll * q
<1>5. n = x + r /\ x \in Nat /\ IsBlocks(x)
    BY <1>2, <1>4 DEF IsBlocks
<1> HIDE DEF x
<1>6. n - r = x /\ r <= n
    BY <1>5
<1> QED
    BY <1>3, <1>5, <1>6

\* The bytes between the minimum and the normal size are blocks, and so is nothing.
LEMMA RegionIsBlocks ==
    IsBlocks(NormalSize - Fast!MinSize) /\ IsBlocks(0)
<1>1. NormalSize - Fast!MinSize \in Nat /\ (NormalSize - Fast!MinSize) % Unroll = 0
    BY FastBounds, FastConstants DEF Fast!FastAssumption
<1>2. IsBlocks(NormalSize - Fast!MinSize)
  <2> DEFINE n == NormalSize - Fast!MinSize
  <2>1. n \in Nat /\ n % Unroll = 0 /\ n - 0 = n
    BY <1>1
  <2> HIDE DEF n
  <2>2. IsBlocks(n)
    BY <2>1, BlocksOf
  <2> QED
    BY <2>2 DEF n
<1>3. Unroll * 0 = 0
    BY FastBounds
<1> QED
    BY <1>2, <1>3 DEF IsBlocks

-----------------------------------------------------------------------------
\* The rule

\* The bytes of the region have its mask.
LEMMA RegionHasMask ==
    ASSUME FastIInv, pc = "scan"
    PROVE  /\ regionStart \in Nat /\ regionEnd \in Nat /\ Fast!MinSize <= regionStart
           /\ regionStart <= regionEnd /\ regionEnd <= dataLen
           /\ dataLen \in Nat /\ dataLen = Fast!Available(pos) /\ pos \in Nat
           /\ pos + dataLen <= fileSize /\ fileSize \in Nat
           /\ i \in Nat /\ i <= Fast!RegionLen /\ k \in Nat /\ k < Unroll
           /\ \A p \in regionStart .. (regionEnd - 1) : mask = MaskAt(p)
<1>1. /\ dataLen \in 0 .. FastPeekSize /\ pos \in 0 .. fileSize /\ fileSize \in Nat
      /\ regionStart \in Nat /\ regionEnd \in regionStart .. FastPeekSize /\ regionEnd <= dataLen
      /\ i \in 0 .. Fast!RegionLen /\ k \in 0 .. (Unroll - 1)
    BY DEF FastIInv, Fast!TypeOK, Fast!SingleTypeOK
<1>2. dataLen = Fast!Available(pos) /\ pos + Fast!Available(pos) <= fileSize
    BY FastAvailableBounds DEF FastIInv, FastDataIsAligned
<1>3. /\ NormalSize \in Nat /\ Fast!MinSize \in Nat /\ Fast!MinSize < NormalSize
      /\ FastPeekSize \in Nat
      /\ Unroll \in Nat
    BY FastBounds
<1>4. \/ /\ regionStart = Fast!MinSize /\ mask = MaskS
         /\ regionEnd = IF Fast!IsLarge THEN NormalSize ELSE dataLen
      \/ /\ regionStart = NormalSize /\ mask = MaskL
         /\ regionEnd = dataLen /\ Fast!IsLarge
    BY DEF FastIInv, RegionIsWhole
<1>5. \A p \in regionStart .. (regionEnd - 1) : mask = MaskAt(p)
    BY <1>1, <1>3, <1>4 DEF MaskAt
<1> QED
    BY <1>1, <1>2, <1>3, <1>4, <1>5 DEF Fast!RegionLen

\* The offsets at which the rule's hash matches.
Matches == {p \in Fast!MinSize .. (dataLen - 1) : Fast!MasksToZero(HashUpTo(p), MaskAt(p))}

LEMMA RuleIsOfMatches ==
    ASSUME dataLen = Fast!Available(pos)
    PROVE  Fast!RuleChunkSize(pos) =
             IF Matches = {} THEN dataLen
             ELSE IF Fast!Min(Matches) < AfterBlocks THEN Fast!Min(Matches) + 1
             ELSE Fast!Min(Matches)
BY DEF Fast!RuleChunkSize, Matches, HashUpTo, MaskAt, Fast!IsLarge, AfterBlocks

\* The chunk ends at the first match.
LEMMA RuleAtMatch ==
    ASSUME FastIInv, pc = "scan", NEW p \in Fast!MinSize .. (dataLen - 1),
           Fast!MasksToZero(HashUpTo(p), MaskAt(p)),
           \A q \in Fast!MinSize .. (p - 1) : ~ Fast!MasksToZero(HashUpTo(q), MaskAt(q))
    PROVE  Fast!RuleChunkSize(pos) = IF p < AfterBlocks THEN p + 1 ELSE p
<1>1. dataLen = Fast!Available(pos) /\ dataLen \in Nat /\ Fast!MinSize \in Nat
    BY RegionHasMask, FastBounds
<1>2. p \in Matches /\ \A q \in Matches : p <= q /\ q \in Int
  <2>1. p \in Matches
    BY DEF Matches
  <2>2. ASSUME NEW q \in Matches PROVE p <= q /\ q \in Int
    <3>1. q \in Fast!MinSize .. (dataLen - 1) /\ Fast!MasksToZero(HashUpTo(q), MaskAt(q))
      BY <2>2 DEF Matches
    <3>2. CASE q < p
      <4>1. q \in Fast!MinSize .. (p - 1)
        BY <1>1, <3>1, <3>2
      <4> QED
        BY <3>1, <4>1
    <3> QED
      BY <1>1, <3>1, <3>2
  <2> QED
    BY <2>1, <2>2
<1>3. Fast!Min(Matches) = p
  <2>1. \E x \in Matches : \A y \in Matches : x <= y
    BY <1>2
  <2>2. Fast!Min(Matches) \in Matches /\ \A y \in Matches : Fast!Min(Matches) <= y
    BY <2>1 DEF Fast!Min
  <2>3. Fast!Min(Matches) <= p /\ p <= Fast!Min(Matches) /\ Fast!Min(Matches) \in Int
    BY <1>2, <2>2
  <2> QED
    BY <1>1, <2>3
<1> QED
    BY <1>1, <1>2, <1>3, RuleIsOfMatches

LEMMA RuleWithoutMatch ==
    ASSUME dataLen = Fast!Available(pos),
           \A q \in Fast!MinSize .. (dataLen - 1) : ~ Fast!MasksToZero(HashUpTo(q), MaskAt(q))
    PROVE  Fast!RuleChunkSize(pos) = dataLen
<1>1. Matches = {}
    BY DEF Matches
<1> QED
    BY <1>1, RuleIsOfMatches

\* The rule looks at the file only.
LEMMA RuleStays ==
    ASSUME UNCHANGED Fast!file, NEW start
    PROVE  Fast!RuleChunkSize(start)' = Fast!RuleChunkSize(start)
BY DEF Fast!file, Fast!RuleChunkSize, Fast!Available

-----------------------------------------------------------------------------
\* The steps

LEMMA FastInitIInv == Fast!Init => FastIInv
<1> SUFFICES ASSUME Fast!Init PROVE FastIInv
    OBVIOUS
<1>1. fileSize \in Nat /\ byte \in [0 .. (fileSize - 1) -> 0 .. Top]
    BY FastConstants DEF Fast!Init, Fast!InitSingle, Fast!FastAssumption
<1>2. FastPeekSize \in Nat /\ Unroll \in Nat /\ Unroll > 0 /\ MaxFaults \in Nat
    BY FastBounds
<1>3. Fast!Wrap(0) = 0
    BY WrapOfZero
<1> QED
    BY <1>1, <1>2, <1>3 DEF Fast!Init, Fast!InitSingle, FastIInv, Fast!TypeOK, Fast!SingleTypeOK,
       Fast!NothingLost,
       Fast!HashIsContinuous, FastDataIsAligned, RegionIsWhole, BlockIsHashed, NoMatchYet,
       BlocksAreWhole

\* The calls of the Peeker leave the scan as it is.
LEMMA FastPeekerIInv ==
    ASSUME FastIInv, Fast!PeekerStep, UNCHANGED <<Fast!region, Fast!scan>>
    PROVE  FastIInv'
<1> USE DEF Fast!TypeOK, Fast!SingleTypeOK, Fast!NothingLost, FastDataIsAligned,
            Fast!region, Fast!scan, Fast!file, Fast!peeker, Fast!Return
<1>0. Fast!TypeOK /\ Fast!NothingLost /\ FastDataIsAligned
    BY DEF FastIInv
<1>1. FastPeekSize \in Nat /\ MaxFaults \in Nat
    BY FastBounds
<1>2. ASSUME pc' # "scan", Fast!TypeOK', Fast!NothingLost', FastDataIsAligned' PROVE FastIInv'
    BY <1>2 DEF FastIInv, Fast!HashIsContinuous, RegionIsWhole, BlockIsHashed, NoMatchYet,
       BlocksAreWhole
<1>3. CASE Fast!Discard
  <2>1. pc' # "scan" /\ Fast!TypeOK' /\ Fast!NothingLost' /\ FastDataIsAligned'
    BY <1>0, <1>1, <1>3 DEF Fast!Discard
  <2> QED
    BY <1>2, <2>1
<1>4. CASE Fast!DiscardFails
  <2>1. PICK discarded \in 0 .. (previousChunkSizeBytes - 1) :
            /\ pos' = pos + discarded
            /\ previousChunkSizeBytes' = previousChunkSizeBytes - discarded
    BY <1>4 DEF Fast!DiscardFails, Fast!RemainderOf
  <2>2. pc' # "scan" /\ Fast!TypeOK' /\ Fast!NothingLost' /\ FastDataIsAligned'
    BY <1>0, <1>1, <1>4, <2>1 DEF Fast!DiscardFails
  <2> QED
    BY <1>2, <2>2
<1>5. CASE Fast!PeekFails
  <2>1. pc' # "scan" /\ Fast!TypeOK' /\ Fast!NothingLost' /\ FastDataIsAligned'
    BY <1>0, <1>1, <1>5 DEF Fast!PeekFails
  <2> QED
    BY <1>2, <2>1
<1>6. CASE Fast!PeekData
  <2>1. dataLen' = Fast!Available(pos) /\ Fast!Available(pos) \in 0 .. FastPeekSize
    BY <1>0, <1>6, FastAvailableBounds DEF Fast!PeekData
  <2>2. Fast!Available(pos)' = Fast!Available(pos)
    BY <1>6 DEF Fast!PeekData, Fast!Available
  <2>3. pc' # "scan" /\ Fast!TypeOK' /\ Fast!NothingLost' /\ FastDataIsAligned'
    BY <1>0, <1>1, <1>6, <2>1, <2>2 DEF Fast!PeekData
  <2> QED
    BY <1>2, <2>3
<1>7. CASE Fast!ReturnEndOfFile
  <2>1. pc' # "scan" /\ Fast!TypeOK' /\ Fast!NothingLost' /\ FastDataIsAligned'
    BY <1>0, <1>1, <1>7 DEF Fast!ReturnEndOfFile
  <2> QED
    BY <1>2, <2>1
<1> QED
    BY <1>3, <1>4, <1>5, <1>6, <1>7 DEF Fast!PeekerStep

\* A chunk that ends within the data leaves the reader aligned.
LEMMA FastReturnChunkIInv ==
    ASSUME FastIInv, pc \in {"data", "scan"}, NEW n \in 0 .. dataLen,
           Fast!ReturnChunk(n), UNCHANGED <<Fast!file, Fast!peeker, dataLen, Fast!region, k, s>>,
           hash' = Fast!Wrap(hash')
    PROVE  FastIInv'
<1>1. pos + dataLen <= fileSize /\ dataLen <= FastPeekSize /\ dataLen \in Nat
  <2>1. Fast!TypeOK /\ dataLen = Fast!Available(pos)
    BY DEF FastIInv, FastDataIsAligned
  <2>2. FastPeekSize \in Nat /\ Fast!Available(pos) \in 0 .. FastPeekSize
        /\ pos + Fast!Available(pos) <= fileSize
    BY <2>1, FastAvailableBounds, FastBounds
  <2> QED
    BY <2>1, <2>2
<1>2. pc' = "idle" /\ Fast!TypeOK' /\ Fast!NothingLost' /\ FastDataIsAligned'
    BY <1>1, FastBounds DEF FastIInv, Fast!TypeOK, Fast!SingleTypeOK, Fast!NothingLost,
       FastDataIsAligned,
       Fast!ReturnChunk, Fast!Return, Fast!file, Fast!peeker, Fast!region
<1> QED
    BY <1>2 DEF FastIInv, Fast!HashIsContinuous, RegionIsWhole, BlockIsHashed, NoMatchYet,
       BlocksAreWhole

\* The hash and what a block adds are those of their bytes.
LEMMA ScanFacts ==
    ASSUME FastIInv, pc = "scan"
    PROVE  /\ Offset \in Nat /\ Fast!MinSize <= Offset
           /\ hash = HashUpTo(Offset - 1)
           /\ s = Fast!GearWindow(byte, pos + Offset, pos + Offset + k - 1)
           /\ HashUpTo(Offset + k - 1) = Fast!Wrap(hash * Fast!TwoTo[k] + s)
           /\ Fast!Wrap(hash) = hash /\ Fast!Wrap(s) = s
           /\ \A p \in Fast!MinSize .. (Offset + k - 1) : ~ Fast!MasksToZero(HashUpTo(p), MaskAt(p))
<1>1. /\ regionStart \in Nat /\ Fast!MinSize <= regionStart /\ i \in Nat /\ pos \in Nat
      /\ Fast!MinSize \in Nat /\ k \in Nat
    BY RegionHasMask, FastBounds
<1>2. pos + regionStart + i = pos + Offset /\ Offset \in Nat /\ Fast!MinSize <= Offset
    BY <1>1 DEF Offset
<1>3. hash = Fast!GearWindow(byte, pos + Fast!MinSize, pos + Offset - 1)
      /\ s = Fast!GearWindow(byte, pos + Offset, pos + Offset + k - 1)
  <2>1. hash = Fast!GearWindow(byte, pos + Fast!MinSize, pos + regionStart + i - 1)
        /\ s = Fast!GearWindow(byte, pos + regionStart + i, pos + regionStart + i + k - 1)
    <3>1. Fast!HashIsContinuous
      BY DEF FastIInv
    <3> QED
      BY <1>1, <3>1 DEF Fast!HashIsContinuous
  <2> QED
    BY <1>1, <1>2, <2>1
<1>4. pos + Offset - 1 = pos + (Offset - 1)
    BY <1>1, <1>2
<1> QED
    BY <1>2, <1>3, <1>4 DEF FastIInv, Fast!TypeOK, BlockIsHashed, NoMatchYet, HashUpTo

\* A byte enters the hash of the rule.
LEMMA HashRolls ==
    ASSUME FastIInv, pc = "scan", NEW p \in Nat, Fast!MinSize <= p, p < dataLen
    PROVE  /\ HashUpTo(p) = Fast!GearStep(HashUpTo(p - 1), Fast!Data(p))
           /\ HashUpTo(p - 1) \in Nat /\ Gear[Fast!Data(p)] \in Nat
<1>1. pos \in Nat /\ dataLen \in Nat /\ pos + dataLen <= fileSize /\ fileSize \in Nat
      /\ Fast!MinSize \in Nat
    BY RegionHasMask, FastBounds
<1> DEFINE first == pos + Fast!MinSize
           last == pos + (p - 1)
<1>2. /\ first \in Nat /\ last \in Int /\ first <= last + 1 /\ last + 1 < fileSize
      /\ last + 1 = pos + p
    BY <1>1
<1>3. Fast!TypeOK
    BY DEF FastIInv
<1> HIDE DEF first, last
<1>4. /\ Fast!GearWindow(byte, first, last + 1)
           = Fast!GearStep(Fast!GearWindow(byte, first, last), byte[last + 1])
      /\ Fast!GearWindow(byte, first, last) \in Nat
      /\ Gear[byte[last + 1]] \in Nat
    BY <1>2, <1>3, FileRolls
<1> QED
    BY <1>2, <1>4 DEF first, last, HashUpTo, Fast!Data

\* What the byte k of a block adds, and the hash of all bytes up to it.
LEMMA BlockByteIsHashed ==
    ASSUME FastIInv, Fast!InBlock,
           NEW added, added = Fast!Wrap(2 * s + Gear[Fast!Data(regionStart + i + k)])
    PROVE  /\ added = Fast!GearWindow(byte, pos + Offset, pos + Offset + k)
           /\ Fast!BlockHash(added) = HashUpTo(Offset + k)
           /\ Fast!Wrap(added) = added /\ Fast!Wrap(Fast!BlockHash(added)) = Fast!BlockHash(added)
           /\ Fast!BlockHash(added) \in Nat
           /\ regionStart + i + k = Offset + k
           /\ Offset + k \in Nat /\ regionStart <= Offset + k /\ Offset + k < regionEnd
<1>0. pc = "scan" /\ i + Unroll <= Fast!RegionLen
    BY DEF Fast!InBlock
<1>1. /\ regionStart \in Nat /\ regionEnd \in Nat /\ Fast!MinSize <= regionStart
      /\ Fast!MinSize \in Nat
      /\ regionEnd <= dataLen /\ dataLen \in Nat /\ pos \in Nat /\ fileSize \in Nat
      /\ pos + dataLen <= fileSize /\ i \in Nat /\ k \in Nat /\ k < Unroll /\ Unroll \in Nat
    BY <1>0, RegionHasMask, FastBounds
<1>2. /\ regionStart + i + k = Offset + k /\ Offset + k \in Nat /\ regionStart <= Offset + k
      /\ Offset + k < regionEnd /\ Offset \in Nat
    BY <1>0, <1>1 DEF Offset, Fast!RegionLen
<1> DEFINE g == Gear[Fast!Data(Offset + k)]
<1>3. added = Fast!Wrap(2 * s + g)
    BY <1>2
<1>4. /\ s = Fast!GearWindow(byte, pos + Offset, pos + Offset + k - 1)
      /\ HashUpTo(Offset + k - 1) = Fast!Wrap(hash * Fast!TwoTo[k] + s)
      /\ hash = HashUpTo(Offset - 1)
    BY <1>0, ScanFacts
<1>5. added = Fast!GearWindow(byte, pos + Offset, pos + Offset + k) /\ s \in Nat /\ g \in Nat
  <2> DEFINE first == pos + Offset
             last == pos + Offset + k - 1
  <2>1. /\ first \in Nat /\ last \in Int /\ first <= last + 1 /\ last + 1 < fileSize
        /\ last + 1 = pos + Offset + k /\ last + 1 = pos + (Offset + k)
    BY <1>1, <1>2
  <2>2. Fast!TypeOK
    BY DEF FastIInv
  <2> HIDE DEF first, last
  <2>3. /\ Fast!GearWindow(byte, first, last + 1)
             = Fast!GearStep(Fast!GearWindow(byte, first, last), byte[last + 1])
        /\ Fast!GearWindow(byte, first, last) \in Nat
        /\ Gear[byte[last + 1]] \in Nat
    BY <2>1, <2>2, FileRolls
  <2>4. s = Fast!GearWindow(byte, first, last)
    BY <1>4 DEF first, last
  <2>5. Fast!Data(Offset + k) = byte[last + 1]
    BY <2>1 DEF Fast!Data
  <2>6. Fast!GearStep(s, byte[last + 1]) = Fast!Wrap(2 * s + g)
    BY <2>5 DEF Fast!GearStep
  <2> HIDE DEF g
  <2>7. added = Fast!GearWindow(byte, first, last + 1)
    BY <1>3, <2>3, <2>4, <2>6
  <2>8. Fast!GearWindow(byte, first, last + 1)
        = Fast!GearWindow(byte, pos + Offset, pos + Offset + k)
    BY <2>1 DEF first
  <2> QED
    BY <2>3, <2>4, <2>5, <2>7, <2>8 DEF g
<1>6. hash \in Nat
  <2>1. Offset - 1 < dataLen /\ Offset < dataLen /\ Fast!MinSize <= Offset
    BY <1>1, <1>2, <1>0 DEF Offset, Fast!RegionLen
  <2>2. HashUpTo(Offset - 1) \in Nat
    BY <1>0, <1>2, <2>1, HashRolls
  <2> QED
    BY <1>4, <2>2
<1>7. HashUpTo(Offset + k) = Fast!Wrap(2 * HashUpTo(Offset + k - 1) + g)
  <2>1. Offset + k \in Nat /\ Fast!MinSize <= Offset + k /\ Offset + k < dataLen
    BY <1>1, <1>2
  <2> DEFINE p == Offset + k
  <2> HIDE DEF p
  <2>2. HashUpTo(p) = Fast!GearStep(HashUpTo(p - 1), Fast!Data(p))
    BY <1>0, <2>1, HashRolls DEF p
  <2> QED
    BY <1>1, <1>2, <2>1, <2>2 DEF Fast!GearStep, p
<1> HIDE DEF g
<1> DEFINE t == Fast!TwoTo[k]
           t2 == Fast!TwoTo[k + 1]
           x == hash * t
           y == hash * t2
<1>8. x \in Nat /\ y = 2 * x /\ y \in Nat
  <2>1. t \in Nat /\ t2 = t + t
    <3>1. Fast!TwoTo[k] \in Nat /\ Fast!TwoTo[k + 1] = 2 * Fast!TwoTo[k]
      BY <1>1, TwoToDoubles, TwoToIsPositive
    <3> QED
      BY <3>1
  <2> HIDE DEF t, t2
  <2>2. hash * (t + t) = hash * t + hash * t
    BY <1>6, <2>1, ProductAdds
  <2>3. hash * t \in Nat
    BY <1>6, <2>1, ProductIsNatural
  <2> QED
    BY <2>1, <2>2, <2>3
<1>9. HashUpTo(Offset + k - 1) = Fast!Wrap(x + s)
    BY <1>4
<1>10. Fast!BlockHash(added) = Fast!Wrap(y + added)
    BY DEF Fast!BlockHash
<1> HIDE DEF t, t2, x, y
<1>11. Width \in Nat
    BY FastBounds
<1>12. Fast!Wrap(2 * Fast!Wrap(x + s) + g) = Fast!Wrap(2 * (x + s) + g)
  <2> DEFINE a == x + s
  <2>1. a \in Nat /\ 2 \in Nat /\ g \in Nat
    BY <1>5, <1>8
  <2> HIDE DEF a
  <2>2. Fast!Wrap(Fast!Wrap(a) * 2 + g) = Fast!Wrap(a * 2 + g)
    BY <1>11, <2>1, WrapOfWrapped
  <2>3. Fast!Wrap(a) \in Nat
    BY <2>1, WrappedStays
  <2>4. Fast!Wrap(a) * 2 = 2 * Fast!Wrap(a) /\ a * 2 = 2 * a
    BY <2>1, <2>3
  <2> QED
    BY <2>2, <2>4 DEF a
<1>13. Fast!Wrap(y + Fast!Wrap(2 * s + g)) = Fast!Wrap(y + (2 * s + g))
  <2>1. 2 * s + g \in Nat
    BY <1>5
  <2> QED
    BY <1>8, <1>11, <2>1, WrapOfSum
<1>14. 2 * (x + s) + g = y + (2 * s + g)
    BY <1>5, <1>8
<1>15. Fast!BlockHash(added) = HashUpTo(Offset + k)
    BY <1>3, <1>7, <1>9, <1>10, <1>12, <1>13, <1>14
<1>16. Fast!Wrap(added) = added /\ added \in Nat
  <2>1. 2 * s + g \in Nat
    BY <1>5
  <2> QED
    BY <1>3, <2>1, WrappedStays
<1>17. Fast!Wrap(Fast!BlockHash(added)) = Fast!BlockHash(added) /\ Fast!BlockHash(added) \in Nat
  <2>1. y + added \in Nat
    BY <1>8, <1>16
  <2> QED
    BY <1>10, <2>1, WrappedStays
<1> QED
    BY <1>2, <1>5, <1>15, <1>16, <1>17

\* While the file, the position and the data stay, so does the rule.
LEMMA SameData ==
    ASSUME UNCHANGED <<Fast!file, Fast!peeker, dataLen>>
    PROVE  /\ \A p : HashUpTo(p)' = HashUpTo(p) /\ MaskAt(p)' = MaskAt(p)
           /\ AfterBlocks' = AfterBlocks /\ Fast!IsLarge' = Fast!IsLarge
           /\ Fast!Available(pos)' = Fast!Available(pos)
BY DEF Fast!file, Fast!peeker, HashUpTo, MaskAt, Fast!IsLarge, AfterBlocks, Fast!Available

LEMMA StartIInv == ASSUME FastIInv, Fast!Start PROVE FastIInv'
<1>1. /\ pc = "data" /\ dataLen >= Fast!MinSize /\ pc' = "scan"
      /\ regionStart' = Fast!MinSize /\ regionEnd' = (IF Fast!IsLarge THEN NormalSize ELSE dataLen)
      /\ mask' = Fast!MaskFrom(Fast!MinSize) /\ i' = 0 /\ hash' = 0 /\ s' = 0 /\ k' = 0
      /\ UNCHANGED <<fileSize, byte, pos, faults, result, previousChunkSizeBytes,
                     handedOut, dataLen>>
    BY DEF Fast!Start, Fast!EnterRegion, Fast!file, Fast!peeker
<1>2. /\ NormalSize \in Nat /\ Fast!MinSize \in Nat /\ Fast!MinSize >= 1
      /\ Fast!MinSize < NormalSize
      /\ FastPeekSize \in Nat /\ Unroll \in Nat /\ Unroll > 0 /\ Width \in Nat \ {0}
    BY FastBounds
<1>3. /\ Fast!TypeOK /\ Fast!NothingLost /\ FastDataIsAligned /\ pos \in Nat
      /\ dataLen \in 0 .. FastPeekSize
    BY DEF FastIInv, Fast!TypeOK, Fast!SingleTypeOK
<1>4. mask' = MaskS
    BY <1>1, <1>2 DEF Fast!MaskFrom
<1>5. Fast!Available(pos)' = Fast!Available(pos) /\ Fast!IsLarge' = Fast!IsLarge
    BY <1>1 DEF Fast!Available, Fast!IsLarge
<1>6. Fast!Wrap(0) = 0
    BY WrapOfZero
<1>7. Fast!TypeOK'
    BY <1>1, <1>2, <1>3, <1>4, <1>6 DEF Fast!TypeOK, Fast!SingleTypeOK, Fast!RegionLen, Fast!IsLarge
<1>8. Fast!NothingLost' /\ FastDataIsAligned'
    BY <1>1, <1>3, <1>5 DEF Fast!NothingLost, FastDataIsAligned
<1>9. RegionIsWhole'
    BY <1>1, <1>4, <1>5 DEF RegionIsWhole
<1> DEFINE first == pos + Fast!MinSize
           last == pos + Fast!MinSize - 1
<1>10. Fast!GearWindow(byte, first, last) = 0
  <2>1. first \in Int /\ last \in Int /\ last = first - 1
    BY <1>2, <1>3
  <2> HIDE DEF first, last
  <2> QED
    BY <1>2, <2>1, EmptyWindow
<1>11. Fast!HashIsContinuous'
  <2>1. pos' + regionStart' + i' = first /\ pos' + Fast!MinSize = first /\ first + k' - 1 = last
        /\ first - 1 = last
    BY <1>1, <1>2, <1>3
  <2>2. byte' = byte
    BY <1>1
  <2> HIDE DEF first, last
  <2> QED
    BY <1>1, <1>10, <2>1, <2>2 DEF Fast!HashIsContinuous
<1>12. BlockIsHashed'
  <2>1. HashUpTo(Offset + k - 1)' = Fast!GearWindow(byte, first, last)
    <3>1. pos' + Fast!MinSize = first /\ pos' + ((regionStart' + i') + k' - 1) = last
      BY <1>1, <1>2, <1>3
    <3>2. byte' = byte
      BY <1>1
    <3> HIDE DEF first, last
    <3> QED
      BY <3>1, <3>2 DEF HashUpTo, Offset
  <2>2. hash' * Fast!TwoTo[k'] + s' = 0
    <3>1. Fast!TwoTo[0] = 1
      BY TwoToDoubles
    <3> QED
      BY <1>1, <3>1
  <2> HIDE DEF first, last
  <2> QED
    BY <1>6, <1>10, <2>1, <2>2 DEF BlockIsHashed
<1>13. NoMatchYet'
    BY <1>1, <1>2 DEF NoMatchYet, Offset
<1>14. BlocksAreWhole'
  <2>1. (Offset - Fast!MinSize)' = 0
    BY <1>1, <1>2 DEF Offset
  <2>2. IsBlocks(0)
    BY RegionIsBlocks
  <2> QED
    BY <2>1, <2>2 DEF BlocksAreWhole
<1> QED
    BY <1>7, <1>8, <1>9, <1>11, <1>12, <1>13, <1>14 DEF FastIInv

LEMMA UnrolledIInv == ASSUME FastIInv, Fast!UnrolledByte PROVE FastIInv'
<1> DEFINE added == Fast!Wrap(2 * s + Gear[Fast!Data(regionStart + i + k)])
           h == Fast!BlockHash(added)
<1>1. Fast!InBlock /\ pc = "scan" /\ i + Unroll <= Fast!RegionLen
      /\ UNCHANGED <<Fast!file, Fast!peeker, dataLen, Fast!region>>
    BY DEF Fast!UnrolledByte, Fast!InBlock
<1>2. /\ added = Fast!GearWindow(byte, pos + Offset, pos + Offset + k)
      /\ h = HashUpTo(Offset + k) /\ Fast!Wrap(added) = added /\ Fast!Wrap(h) = h /\ h \in Nat
      /\ regionStart + i + k = Offset + k
      /\ Offset + k \in Nat /\ regionStart <= Offset + k /\ Offset + k < regionEnd
    BY <1>1, BlockByteIsHashed
<1>3. \/ /\ Fast!MasksToZero(h, mask)
         /\ Fast!ReturnChunk(regionStart + i + k + 1)
         /\ UNCHANGED Fast!scan
      \/ /\ ~ Fast!MasksToZero(h, mask)
         /\ k + 1 < Unroll
         /\ s' = added /\ k' = k + 1
         /\ UNCHANGED <<Fast!call, i, hash>>
      \/ /\ ~ Fast!MasksToZero(h, mask)
         /\ k + 1 = Unroll
         /\ hash' = h /\ i' = i + Unroll
         /\ s' = 0 /\ k' = 0
         /\ UNCHANGED Fast!call
    BY DEF Fast!UnrolledByte
<1> HIDE DEF added, h
<1>4. /\ regionStart \in Nat /\ regionEnd \in Nat /\ Fast!MinSize <= regionStart
      /\ Fast!MinSize \in Nat
      /\ regionStart <= regionEnd /\ regionEnd <= dataLen /\ dataLen \in Nat /\ pos \in Nat
      /\ i \in Nat /\ k \in Nat /\ k < Unroll /\ Unroll \in Nat /\ Width \in Nat \ {0}
      /\ \A p \in regionStart .. (regionEnd - 1) : mask = MaskAt(p)
    BY <1>1, RegionHasMask, FastBounds
<1>5. /\ Offset \in Nat /\ Fast!MinSize <= Offset
      /\ hash = HashUpTo(Offset - 1)
      /\ s = Fast!GearWindow(byte, pos + Offset, pos + Offset + k - 1)
      /\ Fast!Wrap(hash) = hash
      /\ \A p \in Fast!MinSize .. (Offset + k - 1) : ~ Fast!MasksToZero(HashUpTo(p), MaskAt(p))
    BY <1>1, ScanFacts
<1>6. /\ \A p : HashUpTo(p)' = HashUpTo(p) /\ MaskAt(p)' = MaskAt(p)
      /\ AfterBlocks' = AfterBlocks /\ Fast!IsLarge' = Fast!IsLarge
      /\ Fast!Available(pos)' = Fast!Available(pos)
    BY <1>1, SameData
<1>7. CASE Fast!MasksToZero(h, mask)
  <2>1. regionStart + i + k + 1 \in 0 .. dataLen
    BY <1>2, <1>4
  <2>2. Fast!ReturnChunk(regionStart + i + k + 1) /\ UNCHANGED <<hash, k, s>>
    BY <1>3, <1>7 DEF Fast!scan
  <2>3. hash' = Fast!Wrap(hash')
    BY <1>5, <2>2
  <2> QED
    BY <1>1, <2>1, <2>2, <2>3, FastReturnChunkIInv
<1>8. CASE ~ Fast!MasksToZero(h, mask)
  <2>1. /\ UNCHANGED <<fileSize, byte, pos, faults, dataLen, regionStart, regionEnd, mask,
                       pc, result, previousChunkSizeBytes, handedOut>>
        /\ \/ k + 1 < Unroll /\ s' = added /\ k' = k + 1 /\ UNCHANGED <<i, hash>>
           \/ k + 1 = Unroll /\ hash' = h /\ i' = i + Unroll /\ s' = 0 /\ k' = 0
    BY <1>1, <1>3, <1>8 DEF Fast!file, Fast!peeker, Fast!region, Fast!call
  <2>2. /\ Fast!NothingLost' /\ FastDataIsAligned' /\ RegionIsWhole'
    BY <1>6, <2>1 DEF FastIInv, Fast!NothingLost, FastDataIsAligned, RegionIsWhole
  <2>3. ASSUME NEW p \in Fast!MinSize .. (Offset + k)
        PROVE ~ Fast!MasksToZero(HashUpTo(p), MaskAt(p))
    <3>1. CASE p = Offset + k
      <4>1. mask = MaskAt(p)
        BY <1>2, <1>4, <3>1
      <4> QED
        BY <1>2, <1>8, <3>1, <4>1
    <3>2. CASE p # Offset + k
      <4>1. p \in Fast!MinSize .. (Offset + k - 1)
        BY <1>2, <1>4, <1>5, <3>2
      <4> QED
        BY <1>5, <4>1
    <3> QED
      BY <3>1, <3>2
  <2>4. CASE k + 1 < Unroll
    <3>1. s' = added /\ k' = k + 1 /\ UNCHANGED <<i, hash>>
      BY <1>4, <2>1, <2>4
    <3>2. Offset' = Offset /\ Fast!RegionLen' = Fast!RegionLen
      BY <2>1, <3>1 DEF Offset, Fast!RegionLen
    <3>3. Fast!TypeOK'
      <4>1. Fast!TypeOK
        BY DEF FastIInv
      <4> QED
        BY <1>1, <1>2, <1>4, <2>1, <2>4, <3>1, <4>1 DEF Fast!TypeOK, Fast!SingleTypeOK,
           Fast!RegionLen
    <3>4. Fast!HashIsContinuous'
      <4>1. pos' + regionStart' + i' = pos + Offset
        BY <1>4, <2>1, <3>1 DEF Offset
      <4>2. pos + Offset + k' - 1 = pos + Offset + k /\ pos + Offset - 1 = pos + (Offset - 1)
        BY <1>4, <1>5, <3>1
      <4>3. hash' = Fast!GearWindow(byte, pos + Fast!MinSize, pos + Offset - 1)
        BY <1>5, <3>1, <4>2 DEF HashUpTo
      <4>4. s' = Fast!GearWindow(byte, pos + Offset, pos + Offset + k' - 1)
        BY <1>2, <3>1, <4>2
      <4> QED
        BY <1>4, <1>5, <2>1, <4>1, <4>3, <4>4 DEF Fast!HashIsContinuous
    <3>5. BlockIsHashed'
      <4>1. Offset + k' - 1 = Offset + k
        BY <1>4, <1>5, <3>1
      <4>2. HashUpTo(Offset + k - 1)' = HashUpTo(Offset + k)
        <5> DEFINE e == Offset + k
        <5>1. (Offset + k - 1)' = e
          BY <3>2, <4>1
        <5> HIDE DEF e
        <5>2. HashUpTo(Offset + k - 1)' = Fast!GearWindow(byte, pos + Fast!MinSize, pos + e)
          BY <2>1, <5>1 DEF HashUpTo
        <5> QED
          BY <5>2 DEF HashUpTo, e
      <4>3. h = Fast!Wrap(hash * Fast!TwoTo[k + 1] + added)
        BY DEF h, Fast!BlockHash
      <4> QED
        BY <1>2, <3>1, <4>2, <4>3 DEF BlockIsHashed
    <3>6. NoMatchYet'
      <4>1. (Offset + k - 1)' = Offset + k
        BY <1>4, <1>5, <3>1, <3>2
      <4> QED
        BY <1>6, <2>3, <4>1 DEF NoMatchYet
    <3>7. BlocksAreWhole'
      BY <1>1, <1>6, <2>1, <3>1, <3>2 DEF FastIInv, BlocksAreWhole
    <3> QED
      BY <2>2, <3>3, <3>4, <3>5, <3>6, <3>7 DEF FastIInv
  <2>5. CASE k + 1 = Unroll
    <3>1. hash' = h /\ i' = i + Unroll /\ s' = 0 /\ k' = 0
      BY <1>4, <2>1, <2>5
    <3>2. Offset' = Offset + Unroll /\ Fast!RegionLen' = Fast!RegionLen
      BY <1>4, <2>1, <3>1 DEF Offset, Fast!RegionLen
    <3>3. Fast!TypeOK'
      <4>1. Fast!TypeOK /\ Fast!Wrap(0) = 0
        BY WrapOfZero DEF FastIInv
      <4>2. i' \in 0 .. Fast!RegionLen /\ k' \in 0 .. (Unroll - 1) /\ hash' = Fast!Wrap(hash')
            /\ s' = Fast!Wrap(s')
        <5>1. Fast!RegionLen \in Nat
          BY <1>4 DEF Fast!RegionLen
        <5> QED
          BY <1>1, <1>2, <1>4, <3>1, <4>1, <5>1
      <4> QED
        BY <1>4, <2>1, <3>1, <3>2, <4>1, <4>2 DEF Fast!TypeOK, Fast!SingleTypeOK
    <3> DEFINE o == Offset + Unroll
    <3>4. o - 1 = Offset + k /\ o + k' - 1 = Offset + k /\ o \in Nat /\ Offset' = o
      BY <1>4, <1>5, <2>5, <3>1, <3>2
    <3> HIDE DEF o
    <3>5. Fast!HashIsContinuous'
      <4> DEFINE next == pos + o
      <4>1. pos' + regionStart' + i' = next /\ next - 1 = pos + (Offset + k) /\ next \in Nat
            /\ next + k' - 1 = next - 1
        <5>1. pos' + regionStart' + i' = pos + (Offset + Unroll)
          BY <1>4, <2>1, <3>1 DEF Offset
        <5>2. pos \in Nat /\ pos' + regionStart' + i' = pos + o /\ k' = 0
          BY <1>4, <3>1, <5>1 DEF o
        <5> QED
          BY <1>4, <1>5, <3>4, <5>2
      <4> HIDE DEF next
      <4>2. hash' = Fast!GearWindow(byte, pos + Fast!MinSize, next - 1)
        BY <1>2, <3>1, <4>1 DEF HashUpTo
      <4>3. Fast!GearWindow(byte, next, next - 1) = 0
        <5> DEFINE last == next - 1
        <5>1. next \in Int /\ last \in Int /\ last = next - 1
          BY <4>1
        <5> HIDE DEF last
        <5>2. Fast!GearWindow(byte, next, last) = 0
          BY <1>4, <5>1, EmptyWindow
        <5> QED
          BY <5>2 DEF last
      <4> QED
        BY <2>1, <3>1, <4>1, <4>2, <4>3 DEF Fast!HashIsContinuous
    <3>6. BlockIsHashed'
      <4>1. HashUpTo(Offset + k - 1)' = h
        <5> DEFINE e == Offset + k
        <5>1. (Offset + k - 1)' = e
          BY <3>4
        <5> HIDE DEF e
        <5>2. HashUpTo(Offset + k - 1)' = Fast!GearWindow(byte, pos + Fast!MinSize, pos + e)
          BY <2>1, <5>1 DEF HashUpTo
        <5> QED
          BY <1>2, <5>2 DEF HashUpTo, e
      <4>2. hash' * Fast!TwoTo[k'] + s' = h
        BY <1>2, <3>1, TwoToDoubles
      <4> QED
        BY <1>2, <4>1, <4>2 DEF BlockIsHashed
    <3>7. NoMatchYet'
      <4>1. (Offset + k - 1)' = Offset + k
        BY <3>4
      <4> QED
        BY <1>6, <2>3, <4>1 DEF NoMatchYet
    <3>8. BlocksAreWhole'
      <4>1. IsBlocks(Offset - Fast!MinSize) /\ Offset - Fast!MinSize \in Nat
        BY <1>1, <1>4, <1>5 DEF FastIInv, BlocksAreWhole, Fast!RegionLen
      <4>2. IsBlocks((Offset - Fast!MinSize) + Unroll)
        BY <4>1, NextBlock
      <4>3. (Offset - Fast!MinSize)' = (Offset - Fast!MinSize) + Unroll
        BY <1>4, <1>5, <3>2
      <4> QED
        BY <4>2, <4>3 DEF BlocksAreWhole
    <3> QED
      BY <2>2, <3>3, <3>5, <3>6, <3>7, <3>8 DEF FastIInv
  <2> QED
    BY <2>1, <2>4, <2>5
<1> QED
    BY <1>7, <1>8

\* Where the blocks end, in the data of the call.
LEMMA LastBlock ==
    ASSUME FastIInv, pc = "scan"
    PROVE  /\ AfterBlocks \in Nat /\ AfterBlocks <= dataLen /\ Fast!MinSize <= AfterBlocks
           /\ dataLen < AfterBlocks + Unroll
           /\ IsBlocks(AfterBlocks - Fast!MinSize)
<1> DEFINE n == dataLen - Fast!MinSize
<1>1. dataLen \in Nat /\ Fast!MinSize \in Nat /\ Unroll \in Nat /\ dataLen >= Fast!MinSize
    BY RegionHasMask, FastBounds DEF FastIInv, RegionIsWhole
<1>2. n \in Nat
    BY <1>1
<1> HIDE DEF n
<1>3. /\ n % Unroll \in 0 .. (Unroll - 1) /\ n % Unroll <= n /\ IsBlocks(n - (n % Unroll))
    BY <1>2, BlocksOf
<1> DEFINE r == n % Unroll
<1>4. AfterBlocks = dataLen - r
    BY DEF AfterBlocks, n
<1>5. r \in 0 .. (Unroll - 1) /\ r <= n /\ IsBlocks(n - r)
    BY <1>3
<1> HIDE DEF r
<1>6. AfterBlocks - Fast!MinSize = n - r
    BY <1>1, <1>4, <1>5 DEF n
<1>7. /\ AfterBlocks \in Nat /\ AfterBlocks <= dataLen /\ Fast!MinSize <= AfterBlocks
      /\ dataLen < AfterBlocks + Unroll
    BY <1>1, <1>4, <1>5 DEF n
<1> QED
    BY <1>5, <1>6, <1>7

\* A block ends before the last one does, and only the end of the data has a tail.
LEMMA BlockOrTail ==
    ASSUME FastIInv, pc = "scan"
    PROVE  /\ i + Unroll <= Fast!RegionLen => Offset + Unroll <= AfterBlocks
           /\ i + Unroll > Fast!RegionLen /\ i < Fast!RegionLen =>
                 regionEnd = dataLen /\ Offset >= AfterBlocks
<1>1. /\ regionStart \in Nat /\ regionEnd \in Nat /\ Fast!MinSize <= regionStart
      /\ Fast!MinSize \in Nat
      /\ regionStart <= regionEnd /\ regionEnd <= dataLen /\ dataLen \in Nat
      /\ i \in Nat /\ i <= Fast!RegionLen /\ Unroll \in Nat /\ Unroll > 0
    BY RegionHasMask, FastBounds
<1>2. /\ AfterBlocks \in Nat /\ AfterBlocks <= dataLen /\ Fast!MinSize <= AfterBlocks
      /\ dataLen < AfterBlocks + Unroll /\ IsBlocks(AfterBlocks - Fast!MinSize)
    BY LastBlock
<1>3. /\ Offset \in Nat /\ Fast!MinSize <= Offset /\ Offset - Fast!MinSize \in Nat
      /\ AfterBlocks - Fast!MinSize \in Nat
    BY <1>1, <1>2 DEF Offset
<1>4. ASSUME i + Unroll <= Fast!RegionLen PROVE Offset + Unroll <= AfterBlocks
  <2>1. Offset + Unroll <= dataLen
    BY <1>1, <1>4 DEF Offset, Fast!RegionLen
  <2>2. IsBlocks(Offset - Fast!MinSize)
    <3>1. ~ (i + Unroll > Fast!RegionLen)
      BY <1>1, <1>4 DEF Fast!RegionLen
    <3> QED
      BY <3>1 DEF FastIInv, BlocksAreWhole
  <2>3. Offset < AfterBlocks
    BY <1>2, <1>3, <2>1, <1>1
  <2>4. (Offset - Fast!MinSize) + Unroll <= AfterBlocks - Fast!MinSize
    <3> DEFINE a == Offset - Fast!MinSize
               b == AfterBlocks - Fast!MinSize
    <3>1. a \in Nat /\ b \in Nat /\ a < b /\ IsBlocks(a) /\ IsBlocks(b)
      BY <1>1, <1>2, <1>3, <2>2, <2>3
    <3> HIDE DEF a, b
    <3>2. a + Unroll <= b
      BY <3>1, BlocksApart
    <3> QED
      BY <3>2 DEF a, b
  <2> QED
    BY <1>1, <1>2, <1>3, <2>4
<1>5. ASSUME i + Unroll > Fast!RegionLen, i < Fast!RegionLen
      PROVE regionEnd = dataLen /\ Offset >= AfterBlocks
  <2>1. CASE IsBlocks(Offset - Fast!MinSize)
    <3>1. regionEnd = dataLen
      <4>1. SUFFICES ASSUME regionEnd # dataLen PROVE FALSE
        OBVIOUS
      <4>2. regionStart = Fast!MinSize /\ regionEnd = NormalSize
        BY <4>1 DEF FastIInv, RegionIsWhole
      <4> DEFINE a == Offset - Fast!MinSize
                 b == NormalSize - Fast!MinSize
      <4>3. a = i /\ b = Fast!RegionLen /\ a \in Nat /\ b \in Nat
        BY <1>1, <1>3, <4>2 DEF Offset, Fast!RegionLen
      <4>4. IsBlocks(a) /\ IsBlocks(b) /\ a < b
        BY <1>5, <2>1, <4>3, RegionIsBlocks
      <4> HIDE DEF a, b
      <4>5. a + Unroll <= b
        BY <4>3, <4>4, BlocksApart
      <4> QED
        BY <1>1, <1>5, <4>3, <4>5
    <3>2. CASE Offset < AfterBlocks
      <4> DEFINE a == Offset - Fast!MinSize
                 b == AfterBlocks - Fast!MinSize
      <4>1. a \in Nat /\ b \in Nat /\ a < b /\ IsBlocks(a) /\ IsBlocks(b)
        BY <1>1, <1>2, <1>3, <2>1, <3>2
      <4> HIDE DEF a, b
      <4>2. a + Unroll <= b
        BY <4>1, BlocksApart
      <4>3. Offset + Unroll <= dataLen
        BY <1>1, <1>2, <1>3, <4>2 DEF a, b
      <4> QED
        BY <1>1, <1>5, <3>1, <4>3 DEF Offset, Fast!RegionLen
    <3> QED
      BY <1>2, <1>3, <3>1, <3>2
  <2> QED
    BY <2>1 DEF FastIInv, BlocksAreWhole
<1> QED
    BY <1>4, <1>5

\* In a tail no block has begun, and the byte's hash is the rule's.
LEMMA TailByteIsHashed ==
    ASSUME FastIInv, Fast!InTail
    PROVE  /\ k = 0 /\ s = 0 /\ regionStart + i = Offset
           /\ Fast!GearStep(hash, Fast!Data(Offset)) = HashUpTo(Offset)
           /\ Fast!Wrap(HashUpTo(Offset)) = HashUpTo(Offset) /\ HashUpTo(Offset) \in Nat
           /\ Offset \in Nat /\ regionStart <= Offset /\ Offset < regionEnd
<1>0. pc = "scan" /\ i + Unroll > Fast!RegionLen /\ i < Fast!RegionLen
    BY DEF Fast!InTail
<1>1. /\ regionStart \in Nat /\ regionEnd \in Nat /\ Fast!MinSize <= regionStart
      /\ Fast!MinSize \in Nat
      /\ regionEnd <= dataLen /\ dataLen \in Nat /\ pos \in Nat
      /\ i \in Nat /\ k \in Nat /\ k < Unroll /\ Unroll \in Nat /\ Width \in Nat \ {0}
    BY <1>0, RegionHasMask, FastBounds
<1>2. k = 0
  <2>1. k > 0 => i + Unroll <= Fast!RegionLen
    BY <1>0 DEF FastIInv, Fast!TypeOK
  <2> QED
    BY <1>0, <1>1, <2>1 DEF Fast!RegionLen
<1>3. /\ Offset \in Nat /\ Fast!MinSize <= Offset /\ hash = HashUpTo(Offset - 1)
      /\ s = Fast!GearWindow(byte, pos + Offset, pos + Offset + k - 1)
    BY <1>0, ScanFacts
<1>4. regionStart <= Offset /\ Offset < regionEnd
    BY <1>0, <1>1 DEF Offset, Fast!RegionLen
<1>5. s = 0
  <2> DEFINE first == pos + Offset
             last == pos + Offset + k - 1
  <2>1. first \in Int /\ last \in Int /\ last = first - 1
    BY <1>1, <1>2, <1>3
  <2> HIDE DEF first, last
  <2>2. Fast!GearWindow(byte, first, last) = 0
    BY <1>1, <2>1, EmptyWindow
  <2> QED
    BY <1>3, <2>2 DEF first, last
<1>6. /\ HashUpTo(Offset) = Fast!GearStep(HashUpTo(Offset - 1), Fast!Data(Offset))
      /\ HashUpTo(Offset - 1) \in Nat /\ Gear[Fast!Data(Offset)] \in Nat
  <2>1. Offset < dataLen
    BY <1>1, <1>3, <1>4
  <2> QED
    BY <1>0, <1>3, <2>1, HashRolls
<1>7. Fast!Wrap(HashUpTo(Offset)) = HashUpTo(Offset) /\ HashUpTo(Offset) \in Nat
  <2> DEFINE x == 2 * HashUpTo(Offset - 1) + Gear[Fast!Data(Offset)]
  <2>1. x \in Nat
    BY <1>6
  <2>2. HashUpTo(Offset) = Fast!Wrap(x)
    BY <1>6 DEF Fast!GearStep
  <2> HIDE DEF x
  <2> QED
    BY <2>1, <2>2, WrappedStays
<1> QED
    BY <1>2, <1>3, <1>4, <1>5, <1>6, <1>7 DEF Offset

LEMMA TailIInv == ASSUME FastIInv, Fast!TailByte PROVE FastIInv'
<1>1. /\ Fast!InTail /\ pc = "scan" /\ i + Unroll > Fast!RegionLen /\ i < Fast!RegionLen
      /\ UNCHANGED <<Fast!file, Fast!peeker, dataLen, Fast!region, k, s>>
    BY DEF Fast!TailByte, Fast!InTail
<1>2. /\ k = 0 /\ s = 0 /\ regionStart + i = Offset
      /\ Fast!GearStep(hash, Fast!Data(Offset)) = HashUpTo(Offset)
      /\ Fast!Wrap(HashUpTo(Offset)) = HashUpTo(Offset) /\ HashUpTo(Offset) \in Nat
      /\ Offset \in Nat /\ regionStart <= Offset /\ Offset < regionEnd
    BY <1>1, TailByteIsHashed
<1>3. hash' = HashUpTo(Offset)
    BY <1>2 DEF Fast!TailByte
<1>4. \/ /\ Fast!MasksToZero(HashUpTo(Offset), mask)
         /\ Fast!ReturnChunk(Offset)
         /\ UNCHANGED i
      \/ /\ ~ Fast!MasksToZero(HashUpTo(Offset), mask)
         /\ i' = i + 1
         /\ UNCHANGED Fast!call
    BY <1>2, <1>3 DEF Fast!TailByte
<1>5. /\ regionStart \in Nat /\ regionEnd \in Nat /\ Fast!MinSize <= regionStart
      /\ Fast!MinSize \in Nat
      /\ regionStart <= regionEnd /\ regionEnd <= dataLen /\ dataLen \in Nat /\ pos \in Nat
      /\ i \in Nat /\ Unroll \in Nat /\ Unroll > 0 /\ Width \in Nat \ {0}
      /\ \A p \in regionStart .. (regionEnd - 1) : mask = MaskAt(p)
    BY <1>1, RegionHasMask, FastBounds
<1>6. /\ \A p : HashUpTo(p)' = HashUpTo(p) /\ MaskAt(p)' = MaskAt(p)
      /\ AfterBlocks' = AfterBlocks /\ Fast!IsLarge' = Fast!IsLarge
      /\ Fast!Available(pos)' = Fast!Available(pos)
    BY <1>1, SameData
<1>7. CASE Fast!ReturnChunk(Offset)
  <2>1. Offset \in 0 .. dataLen /\ hash' = Fast!Wrap(hash')
    BY <1>2, <1>3, <1>5
  <2> QED
    BY <1>1, <1>7, <2>1, FastReturnChunkIInv
<1>8. CASE ~ Fast!MasksToZero(HashUpTo(Offset), mask) /\ i' = i + 1 /\ UNCHANGED Fast!call
  <2>1. /\ UNCHANGED <<fileSize, byte, pos, faults, dataLen, regionStart, regionEnd, mask,
                       pc, result, previousChunkSizeBytes, handedOut, k, s>>
        /\ i' = i + 1
    BY <1>1, <1>8 DEF Fast!file, Fast!peeker, Fast!region, Fast!call
  <2>2. /\ Fast!NothingLost' /\ FastDataIsAligned' /\ RegionIsWhole'
    BY <1>6, <2>1 DEF FastIInv, Fast!NothingLost, FastDataIsAligned, RegionIsWhole
  <2> DEFINE o == Offset + 1
  <2>3. Offset' = o /\ o - 1 = Offset /\ o + k' - 1 = Offset /\ o \in Nat
        /\ Fast!RegionLen' = Fast!RegionLen
    <3>1. Fast!RegionLen' = Fast!RegionLen /\ Offset' = o
      BY <1>5, <2>1 DEF Fast!RegionLen, Offset
    <3>2. k' = 0
      BY <1>2, <2>1
    <3> QED
      BY <1>2, <3>1, <3>2
  <2> HIDE DEF o
  <2>4. Fast!TypeOK'
    <3>1. Fast!TypeOK
      BY DEF FastIInv
    <3>2. i' \in 0 .. Fast!RegionLen /\ hash' = Fast!Wrap(hash') /\ k' = 0
      BY <1>1, <1>2, <1>3, <1>5, <2>1 DEF Fast!RegionLen
    <3> QED
      BY <1>5, <2>1, <2>3, <3>1, <3>2 DEF Fast!TypeOK, Fast!SingleTypeOK
  <2>5. Fast!HashIsContinuous'
    <3> DEFINE next == pos + o
    <3>1. pos' + regionStart' + i' = next /\ next - 1 = pos + Offset /\ next \in Nat
          /\ next + k' - 1 = next - 1
      <4>1. pos' + regionStart' + i' = pos + (Offset + 1)
        BY <1>5, <2>1 DEF Offset
      <4>2. pos \in Nat /\ pos' + regionStart' + i' = pos + o /\ k' = 0
        BY <1>2, <1>5, <2>1, <4>1 DEF o
      <4> QED
        BY <1>2, <1>5, <2>3, <4>2
    <3> HIDE DEF next
    <3>2. hash' = Fast!GearWindow(byte, pos + Fast!MinSize, next - 1)
      BY <1>3, <3>1 DEF HashUpTo
    <3>3. Fast!GearWindow(byte, next, next - 1) = 0
      <4> DEFINE last == next - 1
      <4>1. next \in Int /\ last \in Int /\ last = next - 1
        BY <3>1
      <4> HIDE DEF last
      <4>2. Fast!GearWindow(byte, next, last) = 0
        BY <1>5, <4>1, EmptyWindow
      <4> QED
        BY <4>2 DEF last
    <3>4. s' = 0
      BY <1>2, <2>1
    <3> QED
      BY <2>1, <3>1, <3>2, <3>3, <3>4 DEF Fast!HashIsContinuous
  <2>6. BlockIsHashed'
    <3>1. (Offset + k - 1)' = Offset
      BY <2>3
    <3>2. HashUpTo(Offset + k - 1)' = HashUpTo(Offset)
      <4>1. HashUpTo(Offset + k - 1)' = Fast!GearWindow(byte, pos + Fast!MinSize, pos + Offset)
        BY <2>1, <3>1 DEF HashUpTo
      <4> QED
        BY <4>1 DEF HashUpTo
    <3>3. hash' * Fast!TwoTo[k'] + s' = HashUpTo(Offset)
      <4>1. k' = 0 /\ s' = 0 /\ Fast!TwoTo[0] = 1
        BY <1>2, <2>1, TwoToDoubles
      <4> QED
        BY <1>2, <1>3, <4>1
    <3> QED
      BY <1>2, <3>2, <3>3 DEF BlockIsHashed
  <2>7. NoMatchYet'
    <3>1. ASSUME NEW p \in Fast!MinSize .. Offset PROVE ~ Fast!MasksToZero(HashUpTo(p), MaskAt(p))
      <4>1. CASE p = Offset
        <5>1. mask = MaskAt(p)
          BY <1>2, <1>5, <4>1
        <5> QED
          BY <1>8, <4>1, <5>1
      <4>2. CASE p # Offset
        <5>1. p \in Fast!MinSize .. (Offset + k - 1)
          BY <1>2, <1>5, <4>2
        <5> QED
          BY <1>1, <5>1, ScanFacts
      <4> QED
        BY <4>1, <4>2
    <3>2. (Offset + k - 1)' = Offset
      BY <2>3
    <3> QED
      BY <1>6, <3>1, <3>2 DEF NoMatchYet
  <2>8. BlocksAreWhole'
    <3>1. regionEnd = dataLen /\ Offset >= AfterBlocks /\ AfterBlocks \in Nat
      BY <1>1, BlockOrTail, LastBlock
    <3>2. regionEnd' = dataLen' /\ i' + Unroll > Fast!RegionLen'
      BY <1>1, <1>5, <2>1, <2>3, <3>1 DEF Fast!RegionLen
    <3>3. Offset' >= AfterBlocks'
      BY <1>2, <1>6, <2>3, <3>1 DEF o
    <3> QED
      BY <3>2, <3>3 DEF BlocksAreWhole
  <2> QED
    BY <2>2, <2>4, <2>5, <2>6, <2>7, <2>8 DEF FastIInv
<1> QED
    BY <1>4, <1>7, <1>8

LEMMA NextRegionIInv == ASSUME FastIInv, Fast!NextRegion PROVE FastIInv'
<1>1. /\ pc = "scan" /\ i = Fast!RegionLen /\ regionEnd < dataLen
      /\ regionStart' = NormalSize /\ regionEnd' = dataLen /\ mask' = Fast!MaskFrom(NormalSize)
      /\ i' = 0
      /\ UNCHANGED <<fileSize, byte, pos, faults, dataLen, pc, result, previousChunkSizeBytes,
                     handedOut, k, hash, s>>
    BY DEF Fast!NextRegion, Fast!EnterRegion, Fast!single, Fast!file, Fast!peeker, Fast!call
<1>2. /\ regionStart \in Nat /\ regionEnd \in Nat /\ Fast!MinSize <= regionStart
      /\ Fast!MinSize \in Nat
      /\ regionStart <= regionEnd /\ dataLen \in Nat /\ pos \in Nat
      /\ i \in Nat /\ k \in Nat /\ Unroll \in Nat /\ Unroll > 0
      /\ NormalSize \in Nat /\ Fast!MinSize < NormalSize
    BY <1>1, RegionHasMask, FastBounds
<1>3. regionStart = Fast!MinSize /\ regionEnd = NormalSize /\ Fast!IsLarge
      /\ dataLen >= Fast!MinSize
    BY <1>1, <1>2 DEF FastIInv, RegionIsWhole
<1>4. mask' = MaskL
    BY <1>1 DEF Fast!MaskFrom
<1>5. k = 0
  <2>1. k > 0 => i + Unroll <= Fast!RegionLen
    BY <1>1 DEF FastIInv, Fast!TypeOK
  <2> QED
    BY <1>1, <1>2, <2>1 DEF Fast!RegionLen
<1>6. UNCHANGED <<Fast!file, Fast!peeker, dataLen>>
    BY <1>1 DEF Fast!file, Fast!peeker
<1>7. /\ \A p : HashUpTo(p)' = HashUpTo(p) /\ MaskAt(p)' = MaskAt(p)
      /\ AfterBlocks' = AfterBlocks /\ Fast!IsLarge' = Fast!IsLarge
      /\ Fast!Available(pos)' = Fast!Available(pos)
    BY <1>6, SameData
<1>8. Offset' = Offset /\ Offset = NormalSize
    BY <1>1, <1>2, <1>3 DEF Offset, Fast!RegionLen
<1>9. Fast!NothingLost' /\ FastDataIsAligned' /\ RegionIsWhole'
    BY <1>1, <1>3, <1>4, <1>7 DEF FastIInv, Fast!NothingLost, FastDataIsAligned, RegionIsWhole
<1>10. Fast!TypeOK'
  <2>1. Fast!TypeOK
    BY DEF FastIInv
  <2>2. dataLen >= NormalSize
    BY <1>3 DEF Fast!IsLarge
  <2> QED
    BY <1>1, <1>2, <1>4, <1>5, <2>1, <2>2 DEF Fast!TypeOK, Fast!SingleTypeOK, Fast!RegionLen
<1>11. Fast!HashIsContinuous'
  <2>1. pos' + regionStart' + i' = pos + regionStart + i
    BY <1>1, <1>2, <1>3 DEF Fast!RegionLen
  <2>2. Fast!HashIsContinuous
    BY DEF FastIInv
  <2> DEFINE next == pos + regionStart + i
  <2>3. hash = Fast!GearWindow(byte, pos + Fast!MinSize, next - 1)
        /\ s = Fast!GearWindow(byte, next, next + k - 1)
    BY <1>1, <1>2, <2>2 DEF Fast!HashIsContinuous
  <2> HIDE DEF next
  <2> QED
    BY <1>1, <2>1, <2>3 DEF Fast!HashIsContinuous, next
<1>12. BlockIsHashed'
  <2>1. HashUpTo(Offset + k - 1)' = HashUpTo(Offset + k - 1)
    <3> DEFINE e == Offset + k - 1
    <3>1. (Offset + k - 1)' = e
      BY <1>1, <1>8
    <3> HIDE DEF e
    <3>2. HashUpTo(Offset + k - 1)' = Fast!GearWindow(byte, pos + Fast!MinSize, pos + e)
      BY <1>1, <3>1 DEF HashUpTo
    <3> QED
      BY <3>2 DEF HashUpTo, e
  <2> QED
    BY <1>1, <2>1 DEF FastIInv, BlockIsHashed
<1>13. NoMatchYet'
  <2>1. (Offset + k - 1)' = Offset + k - 1
    BY <1>1, <1>8
  <2> QED
    BY <1>1, <1>7, <2>1 DEF FastIInv, NoMatchYet
<1>14. BlocksAreWhole'
  <2>1. (Offset - Fast!MinSize)' = NormalSize - Fast!MinSize
    BY <1>8
  <2> QED
    BY <2>1, RegionIsBlocks DEF BlocksAreWhole
<1> QED
    BY <1>9, <1>10, <1>11, <1>12, <1>13, <1>14 DEF FastIInv

\* What a step does to the stream: it hands out the chunk of the rule, or nothing.
FastDelivers ==
    \/ /\ handedOut < fileSize /\ handedOut' = handedOut + Fast!RuleChunkSize(handedOut)
       /\ result' = "chunk"
    \/ handedOut = fileSize /\ result' = "eof" /\ UNCHANGED handedOut
    \/ result' = "error" /\ UNCHANGED handedOut
    \/ UNCHANGED <<handedOut, result>>

\* A call's data begins at the next chunk to be handed out.
LEMMA FastDataAtStart ==
    ASSUME FastIInv, pc \in {"data", "scan"}
    PROVE  /\ handedOut = pos /\ pos \in Nat /\ fileSize \in Nat /\ dataLen \in Nat
           /\ dataLen = Fast!Available(pos)
           /\ dataLen = 0 => pos = fileSize
           /\ dataLen > 0 => pos < fileSize
<1>1. /\ Fast!TypeOK /\ dataLen = Fast!Available(pos) /\ previousChunkSizeBytes = 0
      /\ pos + previousChunkSizeBytes = handedOut
    BY DEF FastIInv, FastDataIsAligned, Fast!NothingLost
<1>2. pos \in 0 .. fileSize /\ fileSize \in Nat /\ dataLen \in 0 .. FastPeekSize
    BY <1>1 DEF Fast!TypeOK, Fast!SingleTypeOK
<1>3. FastPeekSize \in Nat /\ FastPeekSize > 0
    BY FastBounds
<1> QED
    BY <1>1, <1>2, <1>3 DEF Fast!Available

LEMMA FastReturnDelivers ==
    ASSUME FastIInv, pc \in {"data", "scan"}, dataLen > 0,
           Fast!ReturnChunk(Fast!RuleChunkSize(pos))
    PROVE  FastDelivers
<1>1. handedOut = pos /\ handedOut < fileSize
    BY FastDataAtStart
<1> QED
    BY <1>1 DEF Fast!ReturnChunk, Fast!Return, FastDelivers

LEMMA FastStepDelivers == ASSUME FastIInv, [Fast!Next]_(Fast!vars) PROVE FastDelivers
<1>1. CASE Fast!PeekerStep
  <2>1. CASE Fast!ReturnEndOfFile
    <3>1. handedOut = fileSize
      BY <2>1, FastDataAtStart DEF Fast!ReturnEndOfFile
    <3> QED
      BY <2>1, <3>1 DEF Fast!ReturnEndOfFile, Fast!Return, FastDelivers
  <2> QED
    BY <1>1, <2>1 DEF Fast!PeekerStep, Fast!Discard, Fast!DiscardFails, Fast!PeekFails,
       Fast!PeekData, Fast!Return, FastDelivers
<1>2. CASE Fast!ReturnTiny
  <2>1. dataLen = Fast!Available(pos) /\ pc = "data" /\ dataLen \in 1 .. (Fast!MinSize - 1)
        /\ Fast!ReturnChunk(dataLen) /\ Fast!MinSize \in Nat
    BY <1>2, FastDataAtStart, FastBounds DEF Fast!ReturnTiny
  <2>2. Fast!MinSize .. (dataLen - 1) = {}
    BY <2>1
  <2>3. Fast!RuleChunkSize(pos) = dataLen
    BY <2>1, <2>2, RuleWithoutMatch
  <2> QED
    BY <2>1, <2>3, FastReturnDelivers
<1>3. CASE Fast!Start \/ Fast!NextRegion \/ UNCHANGED Fast!vars
    BY <1>3 DEF Fast!Start, Fast!NextRegion, FastDelivers, Fast!vars, Fast!single, Fast!call
<1>4. CASE Fast!UnrolledByte
  <2> DEFINE added == Fast!Wrap(2 * s + Gear[Fast!Data(regionStart + i + k)])
             h == Fast!BlockHash(added)
  <2>1. Fast!InBlock /\ pc = "scan" /\ i + Unroll <= Fast!RegionLen
    BY <1>4 DEF Fast!UnrolledByte, Fast!InBlock
  <2>2. /\ h = HashUpTo(Offset + k) /\ regionStart + i + k = Offset + k
        /\ Offset + k \in Nat /\ regionStart <= Offset + k /\ Offset + k < regionEnd
    BY <2>1, BlockByteIsHashed
  <2>3. \/ Fast!MasksToZero(h, mask) /\ Fast!ReturnChunk(regionStart + i + k + 1)
        \/ UNCHANGED Fast!call
    BY <1>4 DEF Fast!UnrolledByte, Fast!call
  <2> HIDE DEF added, h
  <2>4. CASE Fast!MasksToZero(h, mask) /\ Fast!ReturnChunk(regionStart + i + k + 1)
    <3> DEFINE p == Offset + k
    <3>1. /\ regionStart \in Nat /\ regionEnd \in Nat /\ Fast!MinSize <= regionStart
          /\ Fast!MinSize \in Nat
          /\ regionEnd <= dataLen /\ dataLen \in Nat /\ k < Unroll /\ k \in Nat /\ Unroll \in Nat
          /\ \A q \in regionStart .. (regionEnd - 1) : mask = MaskAt(q)
      BY <2>1, RegionHasMask, FastBounds
    <3>2. Offset + Unroll <= AfterBlocks /\ AfterBlocks \in Nat /\ Offset \in Nat
      BY <2>1, BlockOrTail, LastBlock, ScanFacts
    <3>3. p \in Fast!MinSize .. (dataLen - 1) /\ p \in regionStart .. (regionEnd - 1)
          /\ p < AfterBlocks
      BY <2>2, <3>1, <3>2
    <3>4. \A q \in Fast!MinSize .. (p - 1) : ~ Fast!MasksToZero(HashUpTo(q), MaskAt(q))
      <4>1. \A q \in Fast!MinSize .. (Offset + k - 1) : ~ Fast!MasksToZero(HashUpTo(q), MaskAt(q))
        BY <2>1, ScanFacts
      <4>2. p - 1 = Offset + k - 1
        BY <3>1, <3>2
      <4> QED
        BY <4>1, <4>2
    <3>5. Fast!MasksToZero(HashUpTo(p), MaskAt(p))
      <4>1. mask = MaskAt(p)
        BY <3>1, <3>3
      <4> QED
        BY <2>2, <2>4, <4>1
    <3>6. regionStart + i + k + 1 = p + 1
      BY <2>2
    <3> HIDE DEF p
    <3>7. Fast!RuleChunkSize(pos) = p + 1
      BY <2>1, <3>3, <3>4, <3>5, RuleAtMatch
    <3>8. Fast!ReturnChunk(Fast!RuleChunkSize(pos))
      BY <2>4, <3>6, <3>7
    <3>9. dataLen > 0
      BY <3>1, <3>3
    <3> QED
      BY <2>1, <3>8, <3>9, FastReturnDelivers
  <2>5. CASE UNCHANGED Fast!call
    BY <2>5 DEF Fast!call, FastDelivers
  <2> QED
    BY <2>3, <2>4, <2>5
<1>5. CASE Fast!TailByte
  <2>1. /\ Fast!InTail /\ pc = "scan" /\ i + Unroll > Fast!RegionLen /\ i < Fast!RegionLen
    BY <1>5 DEF Fast!TailByte, Fast!InTail
  <2>2. /\ regionStart + i = Offset /\ Fast!GearStep(hash, Fast!Data(Offset)) = HashUpTo(Offset)
        /\ k = 0
        /\ Offset \in Nat /\ regionStart <= Offset /\ Offset < regionEnd
    BY <2>1, TailByteIsHashed
  <2>3. \/ Fast!MasksToZero(HashUpTo(Offset), mask) /\ Fast!ReturnChunk(Offset)
        \/ UNCHANGED Fast!call
    BY <1>5, <2>2 DEF Fast!TailByte
  <2>4. CASE Fast!MasksToZero(HashUpTo(Offset), mask) /\ Fast!ReturnChunk(Offset)
    <3>1. /\ regionStart \in Nat /\ regionEnd \in Nat /\ Fast!MinSize <= regionStart
          /\ Fast!MinSize \in Nat
          /\ regionEnd <= dataLen /\ dataLen \in Nat
          /\ \A q \in regionStart .. (regionEnd - 1) : mask = MaskAt(q)
      BY <2>1, RegionHasMask, FastBounds
    <3>2. Offset >= AfterBlocks /\ AfterBlocks \in Nat
      BY <2>1, BlockOrTail, LastBlock
    <3>3. Offset \in Fast!MinSize .. (dataLen - 1) /\ Offset \in regionStart .. (regionEnd - 1)
      BY <2>2, <3>1
    <3>4. \A q \in Fast!MinSize .. (Offset - 1) : ~ Fast!MasksToZero(HashUpTo(q), MaskAt(q))
      <4>1. \A q \in Fast!MinSize .. (Offset + k - 1) : ~ Fast!MasksToZero(HashUpTo(q), MaskAt(q))
        BY <2>1, ScanFacts
      <4>2. Offset + k - 1 = Offset - 1
        BY <2>2
      <4> QED
        BY <4>1, <4>2
    <3>5. Fast!MasksToZero(HashUpTo(Offset), MaskAt(Offset))
      <4>1. mask = MaskAt(Offset)
        BY <3>1, <3>3
      <4> QED
        BY <2>4, <4>1
    <3>6. ~ (Offset < AfterBlocks)
      BY <2>2, <3>2
    <3>7. Fast!RuleChunkSize(pos) = Offset
      BY <2>1, <3>3, <3>4, <3>5, <3>6, RuleAtMatch
    <3>8. dataLen > 0
      BY <3>1, <3>3
    <3> QED
      BY <2>1, <2>4, <3>7, <3>8, FastReturnDelivers
  <2>5. CASE UNCHANGED Fast!call
    BY <2>5 DEF Fast!call, FastDelivers
  <2> QED
    BY <2>3, <2>4, <2>5
<1>6. CASE Fast!ReturnAll
  <2>1. pc = "scan" /\ i = Fast!RegionLen /\ regionEnd = dataLen /\ Fast!ReturnChunk(dataLen)
    BY <1>6 DEF Fast!ReturnAll
  <2>2. /\ regionStart \in Nat /\ regionEnd \in Nat /\ dataLen \in Nat /\ k \in Nat /\ i \in Nat
        /\ dataLen = Fast!Available(pos) /\ Fast!MinSize \in Nat /\ Fast!MinSize >= 1
        /\ dataLen >= Fast!MinSize
    BY <2>1, RegionHasMask, FastBounds DEF FastIInv, RegionIsWhole
  <2>3. Offset = dataLen
    BY <2>1, <2>2 DEF Offset, Fast!RegionLen
  <2>4. \A q \in Fast!MinSize .. (dataLen - 1) : ~ Fast!MasksToZero(HashUpTo(q), MaskAt(q))
    <3>1. \A q \in Fast!MinSize .. (Offset + k - 1) : ~ Fast!MasksToZero(HashUpTo(q), MaskAt(q))
      BY <2>1, ScanFacts
    <3>2. \A q \in Fast!MinSize .. (dataLen - 1) : q \in Fast!MinSize .. (Offset + k - 1)
      BY <2>2, <2>3
    <3> QED
      BY <3>1, <3>2
  <2>5. Fast!RuleChunkSize(pos) = dataLen
    BY <2>2, <2>4, RuleWithoutMatch
  <2> QED
    BY <2>1, <2>2, <2>5, FastReturnDelivers
<1> QED
    BY <1>1, <1>2, <1>3, <1>4, <1>5, <1>6 DEF Fast!Next

LEMMA FastNextIInv == ASSUME FastIInv, [Fast!Next]_(Fast!vars) PROVE FastIInv'
<1>1. CASE Fast!PeekerStep /\ UNCHANGED <<Fast!region, Fast!scan>>
    BY <1>1, FastPeekerIInv
<1>2. CASE Fast!Start
    BY <1>2, StartIInv
<1>3. CASE Fast!ReturnTiny
  <2>1. pc = "data" /\ dataLen \in 1 .. (Fast!MinSize - 1) /\ Fast!ReturnChunk(dataLen)
        /\ UNCHANGED <<Fast!file, Fast!peeker, dataLen, Fast!region, hash, k, s>>
    BY <1>3 DEF Fast!ReturnTiny, Fast!scan
  <2>2. dataLen \in 0 .. dataLen
    BY <2>1, FastBounds
  <2>3. hash' = Fast!Wrap(hash')
    BY <2>1 DEF FastIInv, Fast!TypeOK
  <2> QED
    BY <2>1, <2>2, <2>3, FastReturnChunkIInv
<1>4. CASE Fast!UnrolledByte
    BY <1>4, UnrolledIInv
<1>5. CASE Fast!TailByte
    BY <1>5, TailIInv
<1>6. CASE Fast!NextRegion
    BY <1>6, NextRegionIInv
<1>7. CASE Fast!ReturnAll
  <2>1. pc = "scan" /\ Fast!ReturnChunk(dataLen)
        /\ UNCHANGED <<Fast!file, Fast!peeker, dataLen, Fast!region, hash, k, s>>
    BY <1>7 DEF Fast!ReturnAll, Fast!scan
  <2>2. dataLen \in 0 .. dataLen
    BY <2>1, RegionHasMask
  <2>3. hash' = Fast!Wrap(hash')
    BY <2>1 DEF FastIInv, Fast!TypeOK
  <2> QED
    BY <2>1, <2>2, <2>3, FastReturnChunkIInv
<1>8. CASE UNCHANGED Fast!vars
  <2>1. UNCHANGED <<fileSize, byte, pos, faults, previousChunkSizeBytes, pc, result, dataLen,
                    handedOut, regionStart, regionEnd, mask, i, k, hash, s>>
    BY <1>8 DEF Fast!vars, Fast!single, Fast!file, Fast!peeker, Fast!call, Fast!region, Fast!scan
  <2>2. Fast!TypeOK' /\ Fast!NothingLost' /\ Fast!HashIsContinuous' /\ FastDataIsAligned'
    BY <2>1 DEF FastIInv, Fast!TypeOK, Fast!SingleTypeOK, Fast!RegionLen, Fast!NothingLost,
       Fast!HashIsContinuous,
       FastDataIsAligned, Fast!Available
  <2>3. RegionIsWhole' /\ BlockIsHashed' /\ NoMatchYet' /\ BlocksAreWhole'
    BY <2>1 DEF FastIInv, RegionIsWhole, BlockIsHashed, NoMatchYet, BlocksAreWhole, Fast!IsLarge,
       Offset, HashUpTo, MaskAt, AfterBlocks, Fast!RegionLen
  <2> QED
    BY <2>2, <2>3 DEF FastIInv
<1> QED
    BY <1>1, <1>2, <1>3, <1>4, <1>5, <1>6, <1>7, <1>8 DEF Fast!Next

-----------------------------------------------------------------------------
\* The theorems

\* The invariant of the reader that the behavior is about.
ReadersInv ==
    /\ reader \in {"Seq", "Fast"}
    /\ reader = "Seq" => IInv /\ RuleInv
    /\ reader = "Fast" => FastIInv

\* A step is one of the reader that the behavior is about, or changes nothing.
LEMMA StepOfReader ==
    ASSUME ReadersInv, [ReadersNext]_readers
    PROVE  /\ reader' = reader
           /\ reader = "Seq" => IInv /\ RuleInv /\ [Next]_vars
           /\ reader = "Fast" => FastIInv /\ [Fast!Next]_(Fast!vars)
<1>1. CASE reader = "Seq" /\ Next /\ UNCHANGED <<reader, fastVars>>
    BY <1>1 DEF ReadersInv
<1>2. CASE reader = "Fast" /\ Fast!Next /\ UNCHANGED <<reader, scan>>
    BY <1>2 DEF ReadersInv
<1>3. CASE UNCHANGED readers
  <2>1. UNCHANGED vars /\ UNCHANGED Fast!vars /\ UNCHANGED reader
    BY <1>3 DEF readers, fastVars, vars, single, file, peeker, call, Fast!vars, Fast!single,
       Fast!file, Fast!peeker, Fast!call, Fast!region, Fast!scan
  <2> QED
    BY <2>1 DEF ReadersInv
<1> QED
    BY <1>1, <1>2, <1>3 DEF ReadersNext

\* The strengthened invariants hold in every reachable state.  For SeqCDC: the scan
\* is in the stretch of the rule, and no sequence of it has ended before.  For
\* FastCDC: the hash is that of all bytes from the minimum size on, it has not
\* matched before, and only whole blocks precede a block or a tail.
THEOREM Invariance == ReadersSpec => []ReadersInv
<1>1. ReadersInit => ReadersInv
  <2>1. ASSUME Init PROVE IInv /\ RuleInv
    BY <2>1, InitIInv DEF Init, InitSingle, RuleInv, StretchIsCurrent, SequenceIsLongest,
       NoSequenceYet
  <2> QED
    BY <2>1, FastInitIInv DEF ReadersInit, ReadersInv
<1>2. ReadersInv /\ [ReadersNext]_readers => ReadersInv'
  <2> SUFFICES ASSUME ReadersInv, [ReadersNext]_readers PROVE ReadersInv'
    OBVIOUS
  <2>1. CASE reader = "Seq"
    <3>1. IInv /\ RuleInv /\ [Next]_vars /\ reader' = "Seq"
      BY <2>1, StepOfReader
    <3>2. IInv'
      BY <3>1, NextIInv
    <3>3. RuleInv'
      BY <3>1, <3>2, NextRuleInv
    <3> QED
      BY <3>1, <3>2, <3>3 DEF ReadersInv
  <2>2. CASE reader = "Fast"
    <3>1. FastIInv /\ [Fast!Next]_(Fast!vars) /\ reader' = "Fast"
      BY <2>2, StepOfReader
    <3>2. FastIInv'
      BY <3>1, FastNextIInv
    <3> QED
      BY <3>1, <3>2 DEF ReadersInv
  <2> QED
    BY <2>1, <2>2 DEF ReadersInv
<1> QED
    BY <1>1, <1>2, PTL DEF ReadersSpec

\* Every variable of either reader has its type, and no byte is read outside the
\* data.
THEOREM TypesCorrect ==
    ReadersSpec => []((reader = "Seq" => TypeOK) /\ (reader = "Fast" => Fast!TypeOK))
<1>1. ReadersInv => (reader = "Seq" => TypeOK) /\ (reader = "Fast" => Fast!TypeOK)
    BY DEF ReadersInv, IInv, FastIInv
<1> QED
    BY <1>1, Invariance, PTL

\* Whatever the Peeker discarded before it failed, the next chunk begins where
\* the last one that was handed out ends.
THEOREM NothingLostCorrect == ReadersSpec => []NothingLost
<1>1. ReadersInv => NothingLost
    BY DEF ReadersInv, IInv, FastIInv, NothingLost, Fast!NothingLost
<1> QED
    BY <1>1, Invariance, PTL

\* In whatever blocks, tails and regions the bytes were read, the hash of FastCDC
\* is the Gear hash of every byte from the minimum size on.
THEOREM HashIsContinuousCorrect == ReadersSpec => []HashIsContinuous
<1>1. ReadersInv => HashIsContinuous
    BY DEF ReadersInv, FastIInv, HashIsContinuous
<1> QED
    BY <1>1, Invariance, PTL

\* No chunk of SeqCDC exceeds the maximum size, and only the last one of a file
\* falls short of the minimum size.
THEOREM ChunksBounded == ReadersSpec => ChunksAreBounded
<1>1. ReadersInv /\ [ReadersNext]_readers => [reader = "Seq" => BoundedChunk]_readers
    BY StepOfReader, NextBounded
<1> QED
    BY <1>1, Invariance, PTL DEF ReadersSpec, ChunksAreBounded

\* The size of the chunk that the rule of the reader cuts at a position.
SizeAt(p) == IF reader = "Seq" THEN RuleChunkSize(p) ELSE Fast!RuleChunkSize(p)

\* Either reader hands out the chunks of its rule: every step delivers the one that
\* is next, io.EOF after the last one, an error and nothing, or is invisible.
THEOREM Implements == ReadersSpec => RefinesChunkStream
<1>1. ReadersInit => Stream!Init
    BY DEF ReadersInit, Init, Fast!Init, InitSingle, Fast!InitSingle, Stream!Init
<1>2. ReadersInv /\ [ReadersNext]_readers => [Stream!Next]_(Stream!delivery)
  <2> SUFFICES ASSUME ReadersInv, [ReadersNext]_readers
               PROVE  [Stream!Next]_(Stream!delivery)
    OBVIOUS
  <2>1. handedOut \in Nat /\ fileSize \in Nat
    BY DEF ReadersInv, IInv, FastIInv, TypeOK, SingleTypeOK, Fast!TypeOK, Fast!SingleTypeOK
  <2>2. \/ /\ handedOut < fileSize /\ handedOut' = handedOut + SizeAt(handedOut)
           /\ result' = "chunk"
        \/ handedOut = fileSize /\ result' = "eof" /\ UNCHANGED handedOut
        \/ result' = "error" /\ UNCHANGED handedOut
        \/ UNCHANGED <<handedOut, result>>
    <3>1. CASE reader = "Seq"
      <4>1. Delivers
        BY <3>1, StepOfReader, StepDelivers
      <4> QED
        BY <3>1, <4>1 DEF Delivers, SizeAt
    <3>2. CASE reader = "Fast"
      <4>1. FastDelivers
        BY <3>2, StepOfReader, FastStepDelivers
      <4> QED
        BY <3>2, <4>1 DEF FastDelivers, SizeAt
    <3> QED
      BY <3>1, <3>2 DEF ReadersInv
  <2>3. CASE handedOut < fileSize /\ handedOut' = handedOut + SizeAt(handedOut)
             /\ result' = "chunk"
    <3>1. handedOut \in 0 .. (fileSize - 1)
      BY <2>1, <2>3
    <3>2. [p \in 0 .. (fileSize - 1) |->
              IF reader = "Seq" THEN RuleChunkSize(p) ELSE Fast!RuleChunkSize(p)][handedOut]
             = SizeAt(handedOut)
      BY <3>1 DEF SizeAt
    <3> QED
      BY <2>3, <3>2 DEF Stream!Next, Stream!Deliver
  <2> QED
    BY <2>2, <2>3 DEF Stream!Next, Stream!EndOfFile, Stream!Fail, Stream!delivery
<1> QED
    BY <1>1, <1>2, Invariance, PTL DEF ReadersSpec, RefinesChunkStream, Stream!Safety

-----------------------------------------------------------------------------
\* Every call comes to an end

\* The steps that a call of SeqCDC has left, at most: comparisons of the data, of
\* which a skip leaves out some and may lead past the end.
SeqStepsLeft ==
    CASE pc = "idle" -> 0
      [] pc = "peek" -> PeekSize + SkipSize + 4
      [] pc = "data" -> dataLen + SkipSize + 3
      [] pc = "scan" -> dataLen + SkipSize + 2 - position

\* Those of FastCDC: bytes that are not hashed, and the region that may follow.
Unhashed == dataLen - (Offset + k)
FastStepsLeft ==
    CASE pc = "idle" -> 0
      [] pc = "peek" -> 2 * FastPeekSize + 5
      [] pc = "data" -> 2 * dataLen + 4
      [] pc = "scan" -> 2 * Unhashed + (IF regionEnd < dataLen THEN 2 ELSE 1)

StepsLeft == IF reader = "Seq" THEN SeqStepsLeft ELSE FastStepsLeft

\* The calls that can still end otherwise than at the end of the file, at most.
CallsLeft == (fileSize - handedOut) + (MaxFaults - faults)

\* A step of a call can be taken: its guards, where they are not the negations of
\* one another.  Of a comparison and the end of the data one is always possible.
CanGoOn ==
    \/ pc \in {"peek", "data"}
    \/ pc = "scan" /\ reader = "Seq"
    \/ /\ pc = "scan" /\ reader = "Fast"
       /\ i \in 0 .. Fast!RegionLen /\ k < Unroll /\ regionEnd <= dataLen

\* What is known of the numbers that SeqCDC counts with.
LEMMA SeqCounts ==
    ASSUME IInv
    PROVE  /\ pc \in {"idle", "peek", "data", "scan"}
           /\ dataLen \in Nat /\ dataLen <= PeekSize /\ position \in Nat
           /\ pc = "scan" => position <= dataLen + SkipSize + 1
           /\ SeqStepsLeft \in Nat
           /\ pc # "idle" => SeqStepsLeft > 0
<1>1. /\ pc \in {"idle", "peek", "data", "scan"}
      /\ dataLen \in Nat /\ dataLen <= PeekSize /\ position \in Nat
      /\ pc = "scan" => position <= dataLen + SkipSize + 1
    BY Constants DEF IInv, TypeOK, SingleTypeOK
<1>2. CASE pc \in {"idle", "peek", "data"}
    BY <1>1, <1>2, Constants DEF SeqStepsLeft
<1>3. CASE pc = "scan"
  <2>1. SeqStepsLeft = dataLen + SkipSize + 2 - position
    BY <1>3 DEF SeqStepsLeft
  <2> QED
    BY <1>1, <1>3, <2>1, Constants
<1> QED
    BY <1>1, <1>2, <1>3

\* Every step of a call of SeqCDC leaves fewer: a comparison goes on by a byte, or
\* by those that it skips too.
LEMMA SeqStepCounts ==
    ASSUME IInv, Next, pc # "idle" PROVE SeqStepsLeft' < SeqStepsLeft
<1>1. /\ dataLen \in Nat /\ dataLen <= PeekSize /\ position \in Nat
      /\ SeqStepsLeft \in Nat /\ SeqStepsLeft > 0
      /\ PeekSize \in Nat /\ SkipSize \in Nat /\ FirstComparison \in Nat
    BY SeqCounts, Constants
<1>2. CASE pc' = "idle"
  <2>1. SeqStepsLeft' = 0
    BY <1>2 DEF SeqStepsLeft
  <2> QED
    BY <1>1, <2>1
<1>3. CASE PeekData
  <2>1. pc = "peek" /\ pc' = "data" /\ dataLen' = Available(pos)
    BY <1>3 DEF PeekData
  <2>2. Available(pos) \in 0 .. PeekSize
    BY AvailableBounds DEF IInv
  <2> QED
    BY <1>1, <2>1, <2>2 DEF SeqStepsLeft
<1>4. CASE StartScan
  <2>1. pc = "data" /\ pc' = "scan" /\ dataLen' = dataLen /\ position' = FirstComparison
    BY <1>4 DEF StartScan
  <2>2. /\ SeqStepsLeft = dataLen + SkipSize + 3
        /\ SeqStepsLeft' = dataLen + SkipSize + 2 - FirstComparison
    BY <2>1 DEF SeqStepsLeft
  <2> QED
    BY <1>1, <2>2
<1>5. CASE (Rise \/ Fall \/ Level) /\ pc' # "idle"
  <2>1. /\ pc = "scan" /\ pc' = "scan" /\ dataLen' = dataLen
        /\ position' = position + 1 \/ position' = position + 1 + SkipSize + 1
    BY <1>5 DEF Rise, Fall, Level, Comparing, AfterSkip, ReturnChunk, Return, call
  <2>2. /\ SeqStepsLeft = dataLen + SkipSize + 2 - position
        /\ SeqStepsLeft' = dataLen + SkipSize + 2 - position'
    BY <2>1 DEF SeqStepsLeft
  <2> QED
    BY <1>1, <2>1, <2>2
<1> QED
    BY <1>2, <1>3, <1>4, <1>5
    DEF Next, PeekerStep, Discard, DiscardFails, PeekFails, ReturnEndOfFile, ReturnShort,
        ReturnAll, ReturnChunk, Return

\* What is known of the numbers that FastCDC counts with.
LEMMA FastCounts ==
    ASSUME FastIInv
    PROVE  /\ pc \in {"idle", "peek", "data", "scan"}
           /\ dataLen \in Nat /\ dataLen <= FastPeekSize
           /\ pc = "scan" => /\ Unhashed \in Nat /\ Offset \in Nat /\ k \in Nat
                             /\ i \in 0 .. Fast!RegionLen /\ k < Unroll
                             /\ regionEnd <= dataLen /\ regionEnd \in Nat
           /\ FastStepsLeft \in Nat
           /\ pc # "idle" => FastStepsLeft > 0
<1>1. /\ pc \in {"idle", "peek", "data", "scan"}
      /\ dataLen \in Nat /\ dataLen <= FastPeekSize
    BY FastBounds DEF FastIInv, Fast!TypeOK, Fast!SingleTypeOK
<1>2. ASSUME pc = "scan"
      PROVE  /\ Unhashed \in Nat /\ Offset \in Nat /\ k \in Nat
             /\ i \in 0 .. Fast!RegionLen /\ k < Unroll
             /\ regionEnd <= dataLen /\ regionEnd \in Nat
  <2>1. /\ regionStart \in Nat /\ regionEnd \in Nat /\ regionStart <= regionEnd
        /\ regionEnd <= dataLen /\ k \in Nat /\ k < Unroll /\ Unroll \in Nat
        /\ i \in 0 .. Fast!RegionLen
        /\ k > 0 => i + Unroll <= Fast!RegionLen
    BY <1>2, FastBounds DEF FastIInv, Fast!TypeOK
  <2>2. i + k <= regionEnd - regionStart
    <3>1. CASE k = 0
      BY <2>1, <3>1 DEF Fast!RegionLen
    <3>2. CASE k > 0
      BY <2>1, <3>2 DEF Fast!RegionLen
    <3> QED
      BY <2>1, <3>1, <3>2
  <2>3. Offset + k <= dataLen /\ Offset \in Nat
    <3>1. i \in Nat /\ Offset = regionStart + i
      BY <2>1 DEF Offset
    <3>2. Offset \in Nat /\ Offset + k <= regionEnd
      BY ONLY <2>1, <2>2, <3>1
    <3> QED
      BY ONLY <1>1, <2>1, <3>1, <3>2
  <2> QED
    BY <1>1, <2>1, <2>3 DEF Unhashed
<1>3. CASE pc \in {"idle", "peek", "data"}
    BY <1>1, <1>3, FastBounds DEF FastStepsLeft
<1>4. CASE pc = "scan"
  <2>1. FastStepsLeft = 2 * Unhashed + (IF regionEnd < dataLen THEN 2 ELSE 1)
    BY <1>4 DEF FastStepsLeft
  <2>2. Unhashed \in Nat
    BY <1>2, <1>4
  <2>3. FastStepsLeft \in Nat /\ FastStepsLeft > 0
    BY <2>1, <2>2
  <2> QED
    BY <1>1, <1>2, <2>3
<1> QED
    BY <1>1, <1>2, <1>3, <1>4

\* Every step of a call of FastCDC leaves fewer: a byte of a block, one of a tail,
\* or the step to the second region, from which there is none to a third.
LEMMA FastStepCounts ==
    ASSUME FastIInv, Fast!Next, pc # "idle" PROVE FastStepsLeft' < FastStepsLeft
<1>1. /\ dataLen \in Nat /\ dataLen <= FastPeekSize /\ FastPeekSize \in Nat
      /\ FastStepsLeft \in Nat /\ FastStepsLeft > 0
    BY FastCounts, FastBounds
<1>2. CASE pc' = "idle"
  <2>1. FastStepsLeft' = 0
    BY <1>2 DEF FastStepsLeft
  <2> QED
    BY <1>1, <2>1
<1>3. CASE Fast!PeekData
  <2>1. pc = "peek" /\ pc' = "data" /\ dataLen' = Fast!Available(pos)
    BY <1>3 DEF Fast!PeekData
  <2>2. Fast!Available(pos) \in 0 .. FastPeekSize
    BY FastAvailableBounds DEF FastIInv
  <2>3. FastStepsLeft = 2 * FastPeekSize + 5 /\ FastStepsLeft' = 2 * dataLen' + 4
    BY <2>1 DEF FastStepsLeft
  <2> QED
    BY <1>1, <2>1, <2>2, <2>3
<1>4. CASE Fast!Start
  <2>1. /\ pc = "data" /\ pc' = "scan" /\ dataLen' = dataLen
        /\ regionStart' = Fast!MinSize /\ i' = 0 /\ k' = 0
    BY <1>4 DEF Fast!Start, Fast!EnterRegion
  <2>2. Fast!MinSize \in Nat
    BY FastBounds
  <2>3. Unhashed' = dataLen - Fast!MinSize
    <3>1. Unhashed' = dataLen - ((Fast!MinSize + 0) + 0)
      BY <2>1 DEF Unhashed, Offset
    <3> QED
      BY <2>2, <3>1
  <2>4. /\ FastStepsLeft = 2 * dataLen + 4
        /\ FastStepsLeft' = 2 * (dataLen - Fast!MinSize)
                              + (IF regionEnd' < dataLen THEN 2 ELSE 1)
    BY <2>1, <2>3 DEF FastStepsLeft
  <2> QED
    BY <1>1, <2>2, <2>4
<1>5. CASE (Fast!UnrolledByte \/ Fast!TailByte) /\ pc' # "idle"
  <2>1. /\ pc = "scan" /\ pc' = "scan" /\ dataLen' = dataLen
        /\ regionStart' = regionStart /\ regionEnd' = regionEnd
        /\ \/ k' = k + 1 /\ i' = i
           \/ k' = 0 /\ k + 1 = Unroll /\ i' = i + Unroll
           \/ k' = k /\ i' = i + 1
    BY <1>5 DEF Fast!UnrolledByte, Fast!TailByte, Fast!InBlock, Fast!InTail,
       Fast!ReturnChunk, Fast!Return, Fast!call, Fast!region
  <2>2. /\ Unhashed \in Nat /\ k \in Nat /\ i \in Nat /\ Offset \in Nat
        /\ regionStart \in Nat /\ Unroll \in Nat
    BY <2>1, FastCounts, RegionHasMask, FastBounds
  <2>3. Unhashed' = Unhashed - 1
    BY <1>1, <2>1, <2>2 DEF Unhashed, Offset
  <2>4. /\ FastStepsLeft = 2 * Unhashed + (IF regionEnd < dataLen THEN 2 ELSE 1)
        /\ FastStepsLeft' = 2 * (Unhashed - 1) + (IF regionEnd < dataLen THEN 2 ELSE 1)
    BY <2>1, <2>3 DEF FastStepsLeft
  <2> QED
    BY <2>2, <2>4
<1>6. CASE Fast!NextRegion
  <2>1. /\ pc = "scan" /\ pc' = "scan" /\ i = Fast!RegionLen /\ regionEnd < dataLen
        /\ regionStart' = NormalSize /\ regionEnd' = dataLen /\ i' = 0
        /\ k' = k /\ dataLen' = dataLen
    BY <1>6 DEF Fast!NextRegion, Fast!EnterRegion, Fast!single, Fast!call
  <2>2. /\ regionStart \in Nat /\ regionEnd \in Nat /\ regionEnd = NormalSize
        /\ k \in Nat /\ Unhashed \in Nat
    <3>1. regionStart \in Nat /\ regionEnd \in Nat /\ k \in Nat /\ Unhashed \in Nat
      BY <2>1, FastCounts, RegionHasMask
    <3>2. regionEnd = NormalSize
      BY <1>1, <2>1, <3>1 DEF FastIInv, RegionIsWhole
    <3> QED
      BY <3>1, <3>2
  <2>3. Unhashed' = Unhashed
    BY <1>1, <2>1, <2>2 DEF Unhashed, Offset, Fast!RegionLen
  <2>4. FastStepsLeft = 2 * Unhashed + 2 /\ FastStepsLeft' = 2 * Unhashed + 1
    BY <1>1, <2>1, <2>3 DEF FastStepsLeft
  <2> QED
    BY <2>2, <2>4
<1> QED
    BY <1>2, <1>3, <1>4, <1>5, <1>6
    DEF Fast!Next, Fast!PeekerStep, Fast!Discard, Fast!DiscardFails, Fast!PeekFails,
        Fast!ReturnEndOfFile, Fast!ReturnTiny, Fast!ReturnAll, Fast!ReturnChunk, Fast!Return

\* Every step of ReadNextChunk, of SeqCDC or of FastCDC, brings the end of the call
\* nearer: a skip goes forwards, and no block, tail or region is entered twice.
THEOREM ReadersStepsCount == ReadersSpec => [][pc # "idle" => StepsLeft' < StepsLeft]_readers
<1>1. ReadersInv /\ [ReadersNext]_readers => [pc # "idle" => StepsLeft' < StepsLeft]_readers
  <2> SUFFICES ASSUME ReadersInv, ReadersNext, pc # "idle" PROVE StepsLeft' < StepsLeft
    OBVIOUS
  <2>1. CASE reader = "Seq" /\ Next /\ UNCHANGED <<reader, fastVars>>
    BY <2>1, SeqStepCounts DEF ReadersInv, StepsLeft
  <2>2. CASE reader = "Fast" /\ Fast!Next /\ UNCHANGED <<reader, scan>>
    BY <2>2, FastStepCounts DEF ReadersInv, StepsLeft
  <2> QED
    BY <2>1, <2>2 DEF ReadersNext
<1> QED
    BY <1>1, Invariance, PTL DEF ReadersSpec

\* A call is never stuck, and the steps and the calls that are left are numbers.
ReaderGoesOn == /\ StepsLeft \in Nat /\ CallsLeft \in Nat
                /\ pc # "idle" => CanGoOn

\* ReadNextChunk of either reader is never stuck: the loops of FastCDC do not leave
\* a region between a block and a tail, or beyond the data.
THEOREM ReadersNeverStuck == ReadersSpec => []ReaderGoesOn
<1>1. ReadersInv => ReaderGoesOn
  <2> SUFFICES ASSUME ReadersInv PROVE ReaderGoesOn
    OBVIOUS
  <2>1. CallsLeft \in Nat
    <3>1. /\ fileSize \in Nat /\ handedOut \in 0 .. fileSize
          /\ faults \in 0 .. MaxFaults /\ MaxFaults \in Nat
      BY Constants
      DEF ReadersInv, IInv, FastIInv, TypeOK, SingleTypeOK, Fast!TypeOK, Fast!SingleTypeOK
    <3> QED
      BY <3>1 DEF CallsLeft
  <2>2. CASE reader = "Seq"
    <3>1. SeqStepsLeft \in Nat /\ pc \in {"idle", "peek", "data", "scan"}
      BY <2>2, SeqCounts DEF ReadersInv
    <3> QED
      BY <2>1, <2>2, <3>1 DEF ReaderGoesOn, StepsLeft, CanGoOn
  <2>3. CASE reader = "Fast"
    <3>1. /\ FastStepsLeft \in Nat /\ pc \in {"idle", "peek", "data", "scan"}
          /\ pc = "scan" => i \in 0 .. Fast!RegionLen /\ k < Unroll /\ regionEnd <= dataLen
      BY <2>3, FastCounts DEF ReadersInv
    <3> QED
      BY <2>1, <2>3, <3>1 DEF ReaderGoesOn, StepsLeft, CanGoOn
  <2> QED
    BY <2>2, <2>3 DEF ReadersInv
<1> QED
    BY <1>1, Invariance, PTL

\* What a step does to the calls that are left.
CallsCount == /\ CallsLeft' <= CallsLeft
              /\ pc' = "idle" => CallsLeft' < CallsLeft \/ result' = "eof"

\* A call of either reader that ends returns bytes, or used up one of the errors of
\* the Peeker, or is at the end of the file.
LEMMA ReaderCallCounts ==
    ASSUME ReadersInv, ReadersNext
    PROVE  CallsCount
<1>1. /\ fileSize \in Nat /\ handedOut \in Nat /\ faults \in Nat /\ MaxFaults \in Nat
    BY Constants
    DEF ReadersInv, IInv, FastIInv, TypeOK, SingleTypeOK, Fast!TypeOK, Fast!SingleTypeOK
<1>2. ASSUME NEW n \in Nat \ {0}, handedOut' = handedOut + n, faults' = faults,
             fileSize' = fileSize
      PROVE  CallsCount
    BY <1>1, <1>2 DEF CallsCount, CallsLeft
<1>3. ASSUME faults' = faults + 1, handedOut' = handedOut, fileSize' = fileSize
      PROVE  CallsCount
    BY <1>1, <1>3 DEF CallsCount, CallsLeft
<1>4. ASSUME UNCHANGED <<fileSize, handedOut, faults>>, pc' # "idle" \/ result' = "eof"
      PROVE  CallsCount
    BY <1>1, <1>4 DEF CallsCount, CallsLeft
<1>5. CASE reader = "Seq" /\ Next
  <2>1. dataLen \in Nat /\ position \in Nat /\ MinimumChunkSize \in Nat
    BY <1>5, SeqCounts, Constants DEF ReadersInv
  <2>2. CASE DiscardFails \/ PeekFails
    BY <1>3, <2>2 DEF DiscardFails, PeekFails, file
  <2>3. CASE ReturnEndOfFile
    BY <1>4, <2>3 DEF ReturnEndOfFile, Return, file, peeker
  <2>4. CASE ReturnShort \/ ReturnAll
    <3>1. dataLen \in Nat \ {0}
      BY <1>5, <2>1, <2>4 DEF ReturnShort, ReturnAll, ReadersInv, IInv, SequenceIsRecent
    <3>2. handedOut' = handedOut + dataLen /\ faults' = faults /\ fileSize' = fileSize
      BY <2>4 DEF ReturnShort, ReturnAll, ReturnChunk, file, peeker
    <3> QED
      BY <1>2, <3>1, <3>2
  <2>5. CASE Rise /\ pc' = "idle"
    <3>1. /\ position' = position + 1 /\ handedOut' = handedOut + position'
          /\ faults' = faults /\ fileSize' = fileSize
      BY <2>5 DEF Rise, Comparing, ReturnChunk, call, file, peeker
    <3>2. position + 1 \in Nat \ {0}
      BY <2>1
    <3> QED
      BY <1>2, <3>1, <3>2
  <2>6. CASE pc' # "idle"
    <3>1. UNCHANGED <<fileSize, handedOut, faults>>
      BY <1>5, <2>6
      DEF Next, PeekerStep, Discard, DiscardFails, PeekFails, PeekData, ReturnEndOfFile, Return,
          ReturnShort, ReturnChunk, StartScan, Rise, Fall, Level, ReturnAll, call, file, peeker
    <3> QED
      BY <1>4, <2>6, <3>1
  <2> QED
    BY <1>5, <2>2, <2>3, <2>4, <2>5, <2>6
    DEF Next, PeekerStep, Discard, PeekData, StartScan, Fall, Level, Comparing, call
<1>6. CASE reader = "Fast" /\ Fast!Next
  <2>1. FastIInv
    BY <1>6 DEF ReadersInv
  <2>2. CASE Fast!DiscardFails \/ Fast!PeekFails
    BY <1>3, <2>2 DEF Fast!DiscardFails, Fast!PeekFails, Fast!file
  <2>3. CASE Fast!ReturnEndOfFile
    BY <1>4, <2>3 DEF Fast!ReturnEndOfFile, Fast!Return, Fast!file, Fast!peeker
  <2>4. CASE Fast!ReturnTiny \/ Fast!ReturnAll
    <3>1. dataLen \in Nat \ {0}
      BY <2>1, <2>4, FastCounts, FastBounds
      DEF Fast!ReturnTiny, Fast!ReturnAll, FastIInv, RegionIsWhole
    <3>2. handedOut' = handedOut + dataLen /\ faults' = faults /\ fileSize' = fileSize
      BY <2>4 DEF Fast!ReturnTiny, Fast!ReturnAll, Fast!ReturnChunk, Fast!file, Fast!peeker
    <3> QED
      BY <1>2, <3>1, <3>2
  <2>5. CASE Fast!UnrolledByte /\ pc' = "idle"
    <3> DEFINE n == regionStart + i + k + 1
    <3>1. /\ pc = "scan" /\ handedOut' = handedOut + n
          /\ faults' = faults /\ fileSize' = fileSize
      BY <2>5 DEF Fast!UnrolledByte, Fast!InBlock, Fast!ReturnChunk, Fast!call, Fast!file,
         Fast!peeker
    <3>2. n \in Nat \ {0}
      BY <2>1, <3>1, RegionHasMask
    <3> HIDE DEF n
    <3> QED
      BY <1>2, <3>1, <3>2
  <2>6. CASE Fast!TailByte /\ pc' = "idle"
    <3> DEFINE n == regionStart + i
    <3>1. /\ pc = "scan" /\ handedOut' = handedOut + n
          /\ faults' = faults /\ fileSize' = fileSize
      BY <2>6 DEF Fast!TailByte, Fast!InTail, Fast!ReturnChunk, Fast!call, Fast!file,
         Fast!peeker
    <3>2. n \in Nat \ {0}
      BY <2>1, <3>1, RegionHasMask, FastBounds
    <3> HIDE DEF n
    <3> QED
      BY <1>2, <3>1, <3>2
  <2>7. CASE pc' # "idle"
    <3>1. UNCHANGED <<fileSize, handedOut, faults>>
      BY <1>6, <2>7
      DEF Fast!Next, Fast!PeekerStep, Fast!Discard, Fast!DiscardFails, Fast!PeekFails,
          Fast!PeekData, Fast!ReturnEndOfFile, Fast!Return, Fast!ReturnTiny, Fast!ReturnChunk,
          Fast!Start, Fast!UnrolledByte, Fast!TailByte, Fast!NextRegion, Fast!ReturnAll,
          Fast!InBlock, Fast!InTail, Fast!call, Fast!file, Fast!peeker, Fast!single
    <3> QED
      BY <1>4, <2>7, <3>1
  <2> QED
    BY <1>6, <2>2, <2>3, <2>4, <2>5, <2>6, <2>7
    DEF Fast!Next, Fast!PeekerStep, Fast!Discard, Fast!PeekData, Fast!Start, Fast!NextRegion,
        Fast!single, Fast!call
<1> QED
    BY <1>5, <1>6 DEF ReadersNext

\* There are only so many calls: each one that ends otherwise than with io.EOF
\* leaves fewer, a Discard or a Peek that fails included, and no step leaves more.
\* No call of either reader hands out an empty chunk.
THEOREM ReadersCallsCount == ReadersSpec => [][CallsCount]_readers
<1>1. ReadersInv /\ [ReadersNext]_readers => [CallsCount]_readers
    BY ReaderCallCounts
<1> QED
    BY <1>1, Invariance, PTL DEF ReadersSpec

=============================================================================
