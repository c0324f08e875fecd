--------------------------- MODULE GatewayApiProofs ---------------------------
(* Theorems of GatewayApi, for every set of institutions, keys and amounts. *)
EXTENDS GatewayApi, FiniteSetTheorems, SequenceTheorems, WellFoundedInduction, TLAPS

------------------------------------------------------------------------------
(* Induction and recursion.  The library's theorems take an operator; a set  *)
(* of indices, and a step that is a function, say the same.                  *)

LEMMA SmallestNumber ==
    ASSUME NEW T \in SUBSET Nat, T # {}
    PROVE  \E k \in T : \A j \in T : ~ (j < k)
<1> DEFINE R == OpToRel(<, Nat)
<1>1. IsWellFoundedOn(R, Nat)
  BY NatLessThanWellFounded
<1>2. \E k \in T : \A j \in T : ~ (<<j, k>> \in R)
  BY <1>1, WFMin
<1> QED
  BY <1>2 DEF OpToRel

LEMMA InductionTo ==
    ASSUME NEW n \in Nat, NEW T, 0 \in T, \A k \in 0..n : k < n /\ k \in T => k + 1 \in T
    PROVE  0..n \subseteq T
<1> SUFFICES ASSUME (0..n) \ T # {} PROVE FALSE
  OBVIOUS
<1>1. PICK k \in (0..n) \ T : \A j \in (0..n) \ T : ~ (j < k)
  <2> DEFINE U == (0..n) \ T
  <2>1. U \in SUBSET Nat /\ U # {}
    OBVIOUS
  <2> HIDE DEF U
  <2>2. \E k \in U : \A j \in U : ~ (j < k)
    BY <2>1, SmallestNumber
  <2> QED
    BY <2>2 DEF U
<1>2. k # 0 /\ k - 1 \in 0..n /\ k - 1 < n
  BY <1>1
<1>3. k - 1 \in T
  BY <1>1, <1>2
<1>4. (k - 1) + 1 \in T
  BY <1>2, <1>3
<1> QED
  BY <1>1, <1>2, <1>4

\* f are the values of a loop of n rounds that starts with c.
Loop(f, S, c, n, step) ==
    f \in [0..n -> S] /\ f[0] = c /\ \A i \in 1..n : f[i] = step[i][f[i - 1]]

LEMMA RecursionTo ==
    ASSUME NEW S, NEW c \in S, NEW n \in Nat, NEW step \in [1..n -> [S -> S]]
    PROVE  \E f : Loop(f, S, c, n, step)
<1> DEFINE Good(f, m) == f[0] = c /\ \A i \in 1..m : f[i] = step[i][f[i - 1]]
           T == {m \in 0..n : \E f \in [0..m -> S] : Good(f, m)}
<1>1. 0 \in T
  <2> DEFINE f == [i \in 0..0 |-> c]
  <2>1. f \in [0..0 -> S] /\ Good(f, 0)
    OBVIOUS
  <2>2. \E h \in [0..0 -> S] : Good(h, 0)
    BY <2>1
  <2> QED
    BY <2>2
<1>2. ASSUME NEW m \in 0..n, m < n, m \in T
      PROVE  m + 1 \in T
  <2>1. PICK f \in [0..m -> S] : Good(f, m)
    BY <1>2
  <2> DEFINE g == [i \in 0..m + 1 |-> IF i = m + 1 THEN step[m + 1][f[m]] ELSE f[i]]
  <2>2. step[m + 1][f[m]] \in S
    <3>1. f[m] \in S /\ m + 1 \in 1..n
      BY <1>2
    <3> QED
      BY <3>1
  <2>3. g \in [0..m + 1 -> S]
    BY <2>2
  <2>4. g[0] = c
    BY <2>1
  <2>5. ASSUME NEW i \in 1..m + 1 PROVE g[i] = step[i][g[i - 1]]
    <3>1. CASE i = m + 1
      BY <3>1
    <3>2. CASE i \in 1..m
      <4>1. f[i] = step[i][f[i - 1]]
        BY <2>1, <3>2
      <4> QED
        BY <3>2, <4>1
    <3> QED
      BY <3>1, <3>2
  <2>6. Good(g, m + 1)
    BY <2>4, <2>5
  <2>7. m + 1 \in 0..n
    BY <1>2
  <2>8. \E h \in [0..m + 1 -> S] : Good(h, m + 1)
    BY <2>3, <2>6
  <2> QED
    BY <2>7, <2>8
<1>3. n \in T
  <2>1. \A m \in 0..n : m < n /\ m \in T => m + 1 \in T
    BY <1>2
  <2> HIDE DEF T
  <2>2. 0..n \subseteq T
    BY <1>1, <2>1, InductionTo
  <2> QED
    BY <2>2
<1>4. PICK f \in [0..n -> S] : Good(f, n)
  BY <1>3
<1> QED
  BY <1>4 DEF Loop

LEMMA LoopType ==
    ASSUME NEW g, NEW n \in Nat,
           g[0] \in Nat, \A i \in 1..n : g[i - 1] \in Nat => g[i] \in Nat
    PROVE  \A i \in 0..n : g[i] \in Nat
<1> DEFINE T == {i \in 0..n : g[i] \in Nat}
<1>1. 0 \in T
  OBVIOUS
<1>2. \A k \in 0..n : k < n /\ k \in T => k + 1 \in T
  <2> SUFFICES ASSUME NEW k \in 0..n, k < n, g[k] \in Nat
               PROVE  k + 1 \in 0..n /\ g[k + 1] \in Nat
    OBVIOUS
  <2>1. k + 1 \in 1..n /\ (k + 1) - 1 = k
    OBVIOUS
  <2> QED
    BY <2>1
<1> HIDE DEF T
<1>3. 0..n \subseteq T
  BY <1>1, <1>2, InductionTo
<1> QED
  BY <1>3 DEF T

LEMMA LeastTo ==
    ASSUME NEW n \in Nat, NEW T, T \cap (0..n) # {}
    PROVE  \E k \in 0..n : k \in T /\ \A j \in 0..k - 1 : j \notin T
<1> DEFINE U == T \cap (0..n)
<1>1. U \in SUBSET Nat /\ U # {}
  OBVIOUS
<1> HIDE DEF U
<1>2. PICK k \in U : \A j \in U : ~ (j < k)
  BY <1>1, SmallestNumber
<1>3. k \in 0..n /\ k \in T
  BY DEF U
<1>4. ASSUME NEW j \in 0..k - 1 PROVE j \notin T
  <2>1. j \in 0..n /\ j < k
    BY <1>3
  <2> QED
    BY <1>2, <2>1 DEF U
<1> QED
  BY <1>3, <1>4

------------------------------------------------------------------------------
(* Numbers and their notations.                                              *)

LEMMA Division ==
    ASSUME NEW x \in Nat, NEW b \in Nat \ {0}
    PROVE  x = (x \div b) * b + (x % b) /\ x % b \in 0..b - 1 /\ x \div b \in Nat
OBVIOUS

LEMMA DivisionOf ==
    ASSUME NEW q \in Nat, NEW b \in Nat \ {0}, NEW r \in 0..b - 1
    PROVE  (q * b + r) \div b = q /\ (q * b + r) % b = r
OBVIOUS

LEMMA DivisionLess ==
    ASSUME NEW x \in Nat, NEW b \in Nat \ {0, 1}
    PROVE  x \div b <= x /\ (x > 0 => x \div b < x)
OBVIOUS

\* h are the values of the loop of ValueOf.
Horner(h, s, n, base) ==
    h \in [0..n -> Nat] /\ h[0] = 0 /\ \A i \in 1..n : h[i] = h[i - 1] * base + s[i]

LEMMA ZeroRounds ==
    ASSUME NEW h, NEW s, NEW n \in Nat, NEW base \in Nat, Horner(h, s, n, base), NEW z \in 0..n
    PROVE  (\A i \in 1..z : s[i] = 0) => h[z] = 0
<1> SUFFICES ASSUME \A i \in 1..z : s[i] = 0 PROVE h[z] = 0
  OBVIOUS
<1> DEFINE T == {i \in 0..z : h[i] = 0}
<1>1. 0 \in T
  BY DEF Horner
<1>2. ASSUME NEW k \in 0..z, k < z, k \in T PROVE k + 1 \in T
  <2>1. k + 1 \in 1..z /\ k + 1 \in 1..n /\ (k + 1) - 1 = k
    BY <1>2
  <2>2. h[k + 1] = h[k] * base + s[k + 1] /\ s[k + 1] = 0 /\ h[k] = 0
    BY <1>2, <2>1 DEF Horner
  <2> QED
    BY <2>1, <2>2
<1>3. \A k \in 0..z : k < z /\ k \in T => k + 1 \in T
  BY <1>2
<1> HIDE DEF T
<1>4. 0..z \subseteq T
  BY <1>1, <1>3, InductionTo
<1> QED
  BY <1>4 DEF T

LEMMA ValueOfLoop ==
    ASSUME NEW s \in Seq(Nat), NEW base \in Nat
    PROVE  \E h \in [0..Len(s) -> Nat] :
              /\ h[0] = 0 /\ \A i \in 1..Len(s) : h[i] = h[i - 1] * base + s[i]
              /\ ValueOf(s, base) = h[Len(s)]
              /\ \A z \in 0..Len(s) : (\A i \in 1..z : s[i] = 0) => h[z] = 0
<1> DEFINE step == [i \in 1..Len(s) |-> [m \in Nat |-> m * base + s[i]]]
           h == CHOOSE h : h = [i \in 0..Len(s) |-> IF i = 0 THEN 0 ELSE h[i - 1] * base + s[i]]
<1>1. Len(s) \in Nat /\ \A i \in 1..Len(s) : s[i] \in Nat
  OBVIOUS
<1>2. step \in [1..Len(s) -> [Nat -> Nat]]
  BY <1>1
<1>3. PICK f : Loop(f, Nat, 0, Len(s), step)
  <2>1. Len(s) \in Nat /\ 0 \in Nat
    BY <1>1
  <2> HIDE DEF step
  <2> QED
    BY <2>1, <1>2, RecursionTo
<1>4. ASSUME NEW i \in 1..Len(s) PROVE f[i] = f[i - 1] * base + s[i]
  <2> HIDE DEF step, h
  <2>1. \A x \in 1..Len(s) : f[x - 1] \in Nat /\ f[x] = step[x][f[x - 1]]
    <3>1. f \in [0..Len(s) -> Nat] /\ \A x \in 1..Len(s) : f[x] = step[x][f[x - 1]]
      BY <1>3, Zenon DEF Loop
    <3>2. \A x \in 1..Len(s) : x - 1 \in 0..Len(s)
      BY <1>1
    <3> QED
      BY <3>1, <3>2, Zenon
  <2> QED
    BY <2>1 DEF step
<1>5. f = [i \in 0..Len(s) |-> IF i = 0 THEN 0 ELSE f[i - 1] * base + s[i]]
  <2> HIDE DEF step
  <2>1. ASSUME NEW i \in 0..Len(s)
        PROVE  f[i] = IF i = 0 THEN 0 ELSE f[i - 1] * base + s[i]
    BY <1>1, <1>3, <1>4 DEF Loop
  <2> QED
    BY <1>3, <2>1 DEF Loop
<1>6. h = [i \in 0..Len(s) |-> IF i = 0 THEN 0 ELSE h[i - 1] * base + s[i]]
  <2> HIDE DEF step
  <2> QED
    BY <1>5
<1>7. ValueOf(s, base) = h[Len(s)]
  BY DEF ValueOf
<1> HIDE DEF h, step
<1>8. h[0] = 0 /\ \A i \in 1..Len(s) : h[i] = h[i - 1] * base + s[i]
  <2>1. ASSUME NEW i \in 0..Len(s)
        PROVE  h[i] = IF i = 0 THEN 0 ELSE h[i - 1] * base + s[i]
    BY <1>6, Zenon
  <2>2. 0 \in 0..Len(s) /\ \A i \in 1..Len(s) : i \in 0..Len(s) /\ i # 0
    BY <1>1
  <2> QED
    BY <2>1, <2>2, Zenon
<1>9. h \in [0..Len(s) -> Nat]
  <2>1. ASSUME NEW i \in 1..Len(s), h[i - 1] \in Nat PROVE h[i] \in Nat
    <3>1. h[i] = h[i - 1] * base + s[i] /\ s[i] \in Nat /\ h[i - 1] * base \in Nat
      BY <1>1, <1>8, <2>1
    <3> QED
      BY <3>1
  <2>2. h[0] \in Nat
    BY <1>8
  <2>3. \A i \in 0..Len(s) : h[i] \in Nat
    BY <1>1, <2>1, <2>2, LoopType
  <2> QED
    BY <1>6, <2>3
<1>10. \A z \in 0..Len(s) : (\A i \in 1..z : s[i] = 0) => h[z] = 0
  <2> DEFINE L == Len(s)
  <2>1. Horner(h, s, L, base) /\ L \in Nat
    BY <1>1, <1>8, <1>9 DEF Horner
  <2> HIDE DEF L
  <2>2. \A z \in 0..L : (\A i \in 1..z : s[i] = 0) => h[z] = 0
    BY <2>1, ZeroRounds
  <2> QED
    BY <2>2 DEF L
<1> QED
  BY <1>7, <1>8, <1>9, <1>10

LEMMA DigitsLoop ==
    ASSUME NEW n \in Nat, NEW base \in Nat \ {0, 1}
    PROVE  \E left \in [0..n -> Nat], len \in 0..n :
              /\ left[0] = n /\ \A k \in 1..n : left[k] = left[k - 1] \div base
              /\ left[len] = 0 /\ \A j \in 0..len - 1 : left[j] # 0
              /\ Digits(n, base) = [j \in 1..len |-> left[len - j] % base]
<1> DEFINE step == [k \in 1..n |-> [m \in Nat |-> m \div base]]
           left == CHOOSE left : left = [k \in 0..n |-> IF k = 0 THEN n ELSE left[k - 1] \div base]
           len == CHOOSE k \in 0..n : left[k] = 0 /\ \A j \in 0..k - 1 : left[j] # 0
<1>1. step \in [1..n -> [Nat -> Nat]]
  BY Division
<1>2. PICK f : Loop(f, Nat, n, n, step)
  <2> HIDE DEF step, left, len
  <2> QED
    BY <1>1, RecursionTo
<1>3. ASSUME NEW k \in 1..n PROVE f[k] = f[k - 1] \div base
  <2> HIDE DEF step, left, len
  <2>1. \A x \in 1..n : f[x - 1] \in Nat /\ f[x] = step[x][f[x - 1]]
    BY <1>2 DEF Loop
  <2> QED
    BY <2>1 DEF step
<1>4. f = [k \in 0..n |-> IF k = 0 THEN n ELSE f[k - 1] \div base]
  <2> HIDE DEF step, left, len
  <2>1. ASSUME NEW k \in 0..n
        PROVE  f[k] = IF k = 0 THEN n ELSE f[k - 1] \div base
    BY <1>2, <1>3 DEF Loop
  <2> QED
    BY <1>2, <2>1 DEF Loop
<1>5. left = [k \in 0..n |-> IF k = 0 THEN n ELSE left[k - 1] \div base]
  <2> HIDE DEF step, len
  <2> QED
    BY <1>4
<1>6. Digits(n, base) = [j \in 1..len |-> left[len - j] % base]
  BY DEF Digits
<1>7. left[0] = n /\ \A k \in 1..n : left[k] = left[k - 1] \div base
  <2> HIDE DEF step, left, len
  <2>1. ASSUME NEW k \in 0..n
        PROVE  left[k] = IF k = 0 THEN n ELSE left[k - 1] \div base
    BY <1>5, Zenon
  <2>2. 0 \in 0..n /\ \A k \in 1..n : k \in 0..n /\ k # 0
    OBVIOUS
  <2> QED
    BY <2>1, <2>2, Zenon
<1>8. len \in 0..n /\ left[len] = 0 /\ (\A j \in 0..len - 1 : left[j] # 0) /\ left \in [0..n -> Nat]
  <2> HIDE DEF step, left
  <2>1. ASSUME NEW k \in 1..n, left[k - 1] \in Nat PROVE left[k] \in Nat
    <3>1. left[k] = left[k - 1] \div base
      BY <1>7
    <3> QED
      BY <2>1, <3>1, Division
  <2>2. left[0] \in Nat
    BY <1>7
  <2> HIDE DEF len
  <2>3. \A k \in 0..n : left[k] \in Nat
    BY <2>1, <2>2, LoopType
  <2>4. left \in [0..n -> Nat]
    BY <1>5, <2>3
  <2> DEFINE T == {k \in 0..n : left[k] <= n - k}
  <2>5. 0 \in T
    BY <1>7
  <2>6. ASSUME NEW k \in 0..n, k < n, k \in T PROVE k + 1 \in T
    <3>1. k + 1 \in 1..n /\ (k + 1) - 1 = k
      BY <2>6
    <3>2. left[k + 1] = left[k] \div base
      BY <1>7, <3>1
    <3>3. left[k] \in Nat /\ left[k] <= n - k
      BY <2>3, <2>6
    <3> DEFINE x == left[k]
    <3>4. x \div base <= x /\ (x > 0 => x \div base < x) /\ x \div base \in Nat
      <4> HIDE DEF x
      <4>1. x \in Nat
        BY <3>3 DEF x
      <4> QED
        BY <4>1, DivisionLess, Division
    <3>5. left[k + 1] <= n - (k + 1)
      BY <2>6, <3>2, <3>3, <3>4
    <3> QED
      BY <3>1, <3>5
  <2>7. n \in T
    <3>1. \A k \in 0..n : k < n /\ k \in T => k + 1 \in T
      BY <2>6
    <3> HIDE DEF T
    <3>2. 0..n \subseteq T
      BY <2>5, <3>1, InductionTo
    <3> QED
      BY <3>2
  <2>8. left[n] = 0
    BY <2>3, <2>7
  <2> DEFINE Z == {k \in 0..n : left[k] = 0}
  <2>9. Z \cap (0..n) # {}
    BY <2>8
  <2>10. \E k \in 0..n : k \in Z /\ \A j \in 0..k - 1 : j \notin Z
    <3> HIDE DEF Z, T
    <3> QED
      BY <2>9, LeastTo
  <2>11. \E k \in 0..n : left[k] = 0 /\ \A j \in 0..k - 1 : left[j] # 0
    BY <2>10
  <2>12. len \in 0..n /\ left[len] = 0 /\ \A j \in 0..len - 1 : left[j] # 0
    BY <2>11, Zenon DEF len
  <2> QED
    BY <2>4, <2>12
<1> HIDE DEF step, left, len
<1> QED
  BY <1>6, <1>7, <1>8

LEMMA ZerosInFront ==
    ASSUME NEW s \in Seq(Nat)
    PROVE  \E z \in 0..Len(s) :
              /\ \A j \in 1..z : s[j] = 0
              /\ z < Len(s) => s[z + 1] # 0
              /\ LeadingZeros(s) = [i \in 1..z |-> 0]
<1>1. Len(s) \in Nat /\ DOMAIN s = 1..Len(s)
  OBVIOUS
<1> DEFINE T == {k \in 0..Len(s) : k = Len(s) \/ s[k + 1] # 0}
<1>2. PICK z \in 0..Len(s) : z \in T /\ \A j \in 0..z - 1 : j \notin T
  <2>1. T \cap (0..Len(s)) # {}
    BY <1>1
  <2> HIDE DEF T
  <2> QED
    BY <1>1, <2>1, LeastTo
<1>3. ASSUME NEW j \in 1..z PROVE s[j] = 0
  <2>1. j - 1 \in 0..z - 1 /\ j - 1 \in 0..Len(s) /\ j - 1 # Len(s) /\ (j - 1) + 1 = j
    BY <1>1
  <2> QED
    BY <1>2, <2>1
<1>4. z < Len(s) => s[z + 1] # 0
  BY <1>2
<1>5. {n \in DOMAIN s : \A j \in 1..n : s[j] = 0} = 1..z
  <2>1. ASSUME NEW n \in 1..Len(s), \A j \in 1..n : s[j] = 0 PROVE n \in 1..z
    <3> SUFFICES ASSUME n > z PROVE FALSE
      BY <1>1
    <3>1. z + 1 \in 1..n /\ z < Len(s)
      BY <1>1
    <3> QED
      BY <1>4, <2>1, <3>1
  <2>2. ASSUME NEW n \in 1..z PROVE n \in 1..Len(s) /\ \A j \in 1..n : s[j] = 0
    BY <1>1, <1>3
  <2> QED
    BY <1>1, <2>1, <2>2
<1>6. LeadingZeros(s) = [i \in 1..z |-> 0]
  BY <1>5 DEF LeadingZeros
<1> QED
  BY <1>3, <1>4, <1>6

\* The unit in the last place of v: 1, or a number that v holds half of Exact times.
LEMMA UnitOfDouble ==
    ASSUME NEW v \in Nat
    PROVE  \E ulp \in Nat \ {0} :
              /\ ulp = 1 \/ 2 * v >= Exact * ulp
              /\ Double(v) = LET low == v \div ulp
                                 over == 2 * (v % ulp)
                                 up == over > ulp \/ (over = ulp /\ low % 2 = 1)
                             IN  (IF up THEN low + 1 ELSE low) * ulp
<1> DEFINE step == [k \in 1..v |-> [m \in Nat |-> 2 * m]]
           power == CHOOSE power : power = [k \in 0..v |-> IF k = 0 THEN 1 ELSE 2 * power[k - 1]]
           e == CHOOSE k \in 0..v :
                   v < Exact * power[k] /\ \A j \in 0..k - 1 : v >= Exact * power[j]
<1>1. step \in [1..v -> [Nat -> Nat]]
  OBVIOUS
<1>2. PICK f : Loop(f, Nat, 1, v, step)
  <2> HIDE DEF step, power, e
  <2> QED
    BY <1>1, RecursionTo
<1>3. ASSUME NEW k \in 1..v PROVE f[k] = 2 * f[k - 1]
  <2> HIDE DEF step, power, e
  <2>1. \A x \in 1..v : f[x - 1] \in Nat /\ f[x] = step[x][f[x - 1]]
    BY <1>2 DEF Loop
  <2> QED
    BY <2>1 DEF step
<1>4. f = [k \in 0..v |-> IF k = 0 THEN 1 ELSE 2 * f[k - 1]]
  <2> HIDE DEF step, power, e
  <2>1. ASSUME NEW k \in 0..v
        PROVE  f[k] = IF k = 0 THEN 1 ELSE 2 * f[k - 1]
    BY <1>2, <1>3 DEF Loop
  <2> QED
    BY <1>2, <2>1 DEF Loop
<1>5. power = [k \in 0..v |-> IF k = 0 THEN 1 ELSE 2 * power[k - 1]]
  <2> HIDE DEF step, e
  <2> QED
    BY <1>4
<1>6. Double(v) = LET ulp == power[e]
                      low == v \div ulp
                      over == 2 * (v % ulp)
                      up == over > ulp \/ (over = ulp /\ low % 2 = 1)
                  IN  (IF up THEN low + 1 ELSE low) * ulp
  BY DEF Double
<1> HIDE DEF step, power, e
<1>7. power[0] = 1 /\ \A k \in 1..v : power[k] = 2 * power[k - 1]
  <2>1. ASSUME NEW k \in 0..v
        PROVE  power[k] = IF k = 0 THEN 1 ELSE 2 * power[k - 1]
    BY <1>5, Zenon
  <2>2. 0 \in 0..v /\ \A k \in 1..v : k \in 0..v /\ k # 0
    OBVIOUS
  <2> QED
    BY <2>1, <2>2, Zenon
<1>8. \A k \in 0..v : power[k] \in Nat /\ power[k] >= k + 1
  <2> DEFINE T == {k \in 0..v : power[k] \in Nat /\ power[k] >= k + 1}
  <2>1. 0 \in T
    BY <1>7
  <2>2. ASSUME NEW k \in 0..v, k < v, k \in T PROVE k + 1 \in T
    <3>1. k + 1 \in 1..v /\ (k + 1) - 1 = k
      BY <2>2
    <3>2. power[k + 1] = 2 * power[k]
      BY <1>7, <3>1
    <3> QED
      BY <2>2, <3>1, <3>2
  <2>3. \A k \in 0..v : k < v /\ k \in T => k + 1 \in T
    BY <2>2
  <2> HIDE DEF T
  <2>4. 0..v \subseteq T
    BY <2>1, <2>3, InductionTo
  <2> QED
    BY <2>4 DEF T
<1>9. Exact \in Nat \ {0}
  BY ApiAssumption
<1>10. e \in 0..v /\ v < Exact * power[e] /\ \A j \in 0..e - 1 : v >= Exact * power[j]
  <2> DEFINE T == {k \in 0..v : v < Exact * power[k]}
  <2>1. v \in T
    <3>1. power[v] \in Nat /\ power[v] >= v + 1
      BY <1>8
    <3>2. \A x \in Nat : Exact * x >= x
      BY <1>9
    <3>3. Exact * power[v] \in Nat /\ Exact * power[v] >= power[v]
      BY <1>9, <3>1, <3>2
    <3> QED
      BY <3>1, <3>3
  <2>2. \E k \in 0..v : k \in T /\ \A j \in 0..k - 1 : j \notin T
    <3> HIDE DEF T
    <3> QED
      BY <2>1, LeastTo
  <2>3. PICK k \in 0..v : k \in T /\ \A j \in 0..k - 1 : j \notin T
    BY <2>2
  <2>4. ASSUME NEW j \in 0..k - 1 PROVE v >= Exact * power[j]
    <3>1. j \in 0..v /\ power[j] \in Nat
      BY <1>8
    <3>2. Exact * power[j] \in Nat
      BY <1>9, <3>1
    <3> QED
      BY <2>3, <3>1, <3>2
  <2>5. \E i \in 0..v : v < Exact * power[i] /\ \A j \in 0..i - 1 : v >= Exact * power[j]
    BY <2>3, <2>4
  <2> QED
    BY <2>5, Zenon DEF e
<1>11. power[e] \in Nat \ {0}
  BY <1>8, <1>10
<1>12. power[e] = 1 \/ 2 * v >= Exact * power[e]
  <2>1. CASE e = 0
    BY <1>7, <2>1
  <2>2. CASE e # 0
    <3>1. e \in 1..v /\ e - 1 \in 0..e - 1 /\ e - 1 \in 0..v
      BY <1>10, <2>2
    <3>2. power[e] = 2 * power[e - 1] /\ v >= Exact * power[e - 1] /\ power[e - 1] \in Nat
      BY <1>7, <1>8, <1>10, <3>1
    <3>3. \A x \in Nat : v >= Exact * x => 2 * v >= Exact * (2 * x)
      BY <1>9
    <3> QED
      BY <3>2, <3>3
  <2> QED
    BY <2>1, <2>2
<1> QED
  BY <1>6, <1>11, <1>12

\* Rounding moves a number by half its unit at most.
LEMMA DoubleNear ==
    ASSUME NEW v \in Nat
    PROVE  /\ Double(v) \in Nat
           /\ (IF v > Double(v) THEN v - Double(v) ELSE Double(v) - v) * Exact <= v
<1>1. PICK ulp \in Nat \ {0} :
          /\ ulp = 1 \/ 2 * v >= Exact * ulp
          /\ Double(v) = LET low == v \div ulp
                             over == 2 * (v % ulp)
                             up == over > ulp \/ (over = ulp /\ low % 2 = 1)
                         IN  (IF up THEN low + 1 ELSE low) * ulp
  BY UnitOfDouble
<1> DEFINE low == v \div ulp
           r == v % ulp
           up == 2 * r > ulp \/ (2 * r = ulp /\ low % 2 = 1)
<1>2. v = low * ulp + r /\ r \in 0..ulp - 1 /\ low \in Nat
  BY Division
<1>3. Double(v) = (IF up THEN low + 1 ELSE low) * ulp
  BY <1>1
<1>4. Exact \in Nat \ {0}
  BY ApiAssumption
<1>5. (up => 2 * r >= ulp) /\ (~ up => 2 * r <= ulp)
  BY <1>2
<1> HIDE DEF low, r, up
<1>6. low * ulp \in Nat /\ (low + 1) * ulp = low * ulp + ulp
  BY <1>2
<1> DEFINE d == Double(v)
           off == IF v > d THEN v - d ELSE d - v
<1>7. d \in Nat /\ off \in Nat /\ 2 * off <= ulp /\ (ulp = 1 => off = 0)
  <2>1. CASE up
    <3>1. d = low * ulp + ulp
      BY <1>3, <1>6, <2>1
    <3> QED
      BY <1>2, <1>5, <1>6, <2>1, <3>1
  <2>2. CASE ~ up
    <3>1. d = low * ulp
      BY <1>3, <2>2
    <3> QED
      BY <1>2, <1>5, <1>6, <2>2, <3>1
  <2> QED
    BY <2>1, <2>2
<1> HIDE DEF d, off
<1>8. off * Exact <= v
  <2>1. CASE off = 0
    BY <1>4, <2>1
  <2>2. CASE off # 0
    <3>1. 2 * v >= Exact * ulp
      BY <1>1, <1>7, <2>2
    <3>2. Exact * ulp >= Exact * (2 * off)
      BY <1>4, <1>7
    <3>3. Exact * (2 * off) = 2 * (off * Exact) /\ off * Exact \in Nat /\ Exact * ulp \in Nat
      BY <1>4, <1>7
    <3> QED
      BY <3>1, <3>2, <3>3
  <2> QED
    BY <2>1, <2>2
<1> QED
  BY <1>7, <1>8 DEF d, off

LEMMA DigitsType ==
    ASSUME NEW n \in Nat, NEW base \in Nat \ {0, 1}
    PROVE  Digits(n, base) \in Seq(0..base - 1) /\ (Digits(n, base) # <<>> => Digits(n, base)[1] # 0)
<1>1. PICK left \in [0..n -> Nat], len \in 0..n :
          /\ left[0] = n /\ \A k \in 1..n : left[k] = left[k - 1] \div base
          /\ left[len] = 0 /\ \A j \in 0..len - 1 : left[j] # 0
          /\ Digits(n, base) = [j \in 1..len |-> left[len - j] % base]
  BY DigitsLoop
<1>2. ASSUME NEW j \in 1..len PROVE left[len - j] \in Nat /\ left[len - j] % base \in 0..base - 1
  <2>1. len - j \in 0..n /\ left[len - j] \in Nat
    BY <1>1
  <2> QED
    BY <2>1, Division
<1>3. Digits(n, base) \in Seq(0..base - 1)
  BY <1>1, <1>2
<1>4. ASSUME len # 0 PROVE left[len - 1] % base # 0
  <2> DEFINE x == left[len - 1]
  <2>1. x \in Nat /\ x # 0 /\ len \in 1..n /\ len - 1 \in 0..len - 1
    BY <1>1, <1>4
  <2>2. x \div base = 0
    BY <1>1, <2>1
  <2> HIDE DEF x
  <2>3. x = (x \div base) * base + (x % base)
    BY <2>1, Division
  <2>4. x % base # 0
    BY <2>1, <2>2, <2>3
  <2> QED
    BY <2>4 DEF x
<1>5. ASSUME Digits(n, base) # <<>> PROVE Digits(n, base)[1] # 0
  <2>1. len # 0
    BY <1>1, <1>5
  <2>2. Digits(n, base)[1] = left[len - 1] % base
    BY <1>1, <2>1
  <2> QED
    BY <1>4, <2>1, <2>2
<1> QED
  BY <1>3, <1>5

\* Zeros in front do not change a number.
LEMMA ValueOfDigits ==
    ASSUME NEW n \in Nat, NEW base \in Nat \ {0, 1}, NEW z \in Nat, NEW s \in Seq(Nat),
           Len(s) = z + Len(Digits(n, base)), \A i \in 1..z : s[i] = 0,
           \A j \in 1..Len(Digits(n, base)) : s[z + j] = Digits(n, base)[j]
    PROVE  ValueOf(s, base) = n
<1>1. PICK left \in [0..n -> Nat], len \in 0..n :
          /\ left[0] = n /\ \A k \in 1..n : left[k] = left[k - 1] \div base
          /\ left[len] = 0 /\ \A j \in 0..len - 1 : left[j] # 0
          /\ Digits(n, base) = [j \in 1..len |-> left[len - j] % base]
  BY DigitsLoop
<1>2. Len(Digits(n, base)) = len
  BY <1>1
<1>3. PICK h \in [0..Len(s) -> Nat] :
          /\ h[0] = 0 /\ \A i \in 1..Len(s) : h[i] = h[i - 1] * base + s[i]
          /\ ValueOf(s, base) = h[Len(s)]
          /\ \A x \in 0..Len(s) : (\A i \in 1..x : s[i] = 0) => h[x] = 0
  BY ValueOfLoop
<1>4. Len(s) = z + len /\ Len(s) \in Nat /\ len \in Nat
  BY <1>1, <1>2
<1>5. h[z] = 0
  BY <1>3, <1>4
<1> DEFINE U == {j \in 0..len : h[z + j] = left[len - j]}
<1>6. 0 \in U
  BY <1>1, <1>4, <1>5
<1>7. ASSUME NEW j \in 0..len, j < len, j \in U PROVE j + 1 \in U
  <2> DEFINE x == left[len - (j + 1)]
  <2>1. j + 1 \in 1..len /\ z + (j + 1) \in 1..Len(s) /\ (z + (j + 1)) - 1 = z + j
        /\ len - j \in 1..n /\ (len - j) - 1 = len - (j + 1) /\ len - (j + 1) \in 0..n
    BY <1>4, <1>7
  <2>2. x \in Nat /\ left[len - j] = x \div base
    <3>1. left[len - (j + 1)] \in Nat
      BY <2>1
    <3>2. left[len - j] = left[(len - j) - 1] \div base
      BY <1>1, <2>1
    <3>3. left[(len - j) - 1] = x
      BY <2>1
    <3> QED
      BY <3>1, <3>2, <3>3
  <2>3. s[z + (j + 1)] = x % base
    <3>1. s[z + (j + 1)] = Digits(n, base)[j + 1]
      BY <1>2, <2>1
    <3>2. Digits(n, base)[j + 1] = left[len - (j + 1)] % base
      BY <1>1, <2>1
    <3> QED
      BY <3>1, <3>2
  <2>4. h[z + (j + 1)] = h[z + j] * base + s[z + (j + 1)]
    BY <1>3, <2>1
  <2>5. h[z + j] = x \div base
    BY <1>7, <2>2
  <2> HIDE DEF x
  <2>6. x = (x \div base) * base + (x % base)
    BY <2>2, Division
  <2>7. h[z + (j + 1)] = x
    BY <2>3, <2>4, <2>5, <2>6
  <2> QED
    BY <2>1, <2>7 DEF x
<1>8. h[z + len] = left[0]
  <2>1. \A j \in 0..len : j < len /\ j \in U => j + 1 \in U
    BY <1>7
  <2> HIDE DEF U
  <2>2. 0..len \subseteq U
    BY <1>4, <1>6, <2>1, InductionTo
  <2>3. len \in U
    BY <1>4, <2>2
  <2> QED
    BY <1>4, <2>3 DEF U
<1> QED
  BY <1>1, <1>3, <1>4, <1>8

LEMMA ValueOfType ==
    ASSUME NEW s \in Seq(Nat), NEW base \in Nat
    PROVE  ValueOf(s, base) \in Nat
<1>1. PICK h \in [0..Len(s) -> Nat] : ValueOf(s, base) = h[Len(s)]
  BY ValueOfLoop
<1> QED
  BY <1>1

\* What a number is written with, without the zeros in front.
LEMMA DigitsOfValue ==
    ASSUME NEW base \in Nat \ {0, 1}, NEW s \in Seq(0..base - 1), NEW z \in 0..Len(s),
           \A i \in 1..z : s[i] = 0, z < Len(s) => s[z + 1] # 0
    PROVE  Digits(ValueOf(s, base), base) = [j \in 1..Len(s) - z |-> s[z + j]]
<1> DEFINE L == Len(s)
           N == ValueOf(s, base)
<1>1. L \in Nat /\ s \in Seq(Nat) /\ \A i \in 1..L : s[i] \in 0..base - 1
  OBVIOUS
<1>2. PICK h \in [0..L -> Nat] :
          /\ h[0] = 0 /\ \A i \in 1..L : h[i] = h[i - 1] * base + s[i]
          /\ N = h[L]
          /\ \A x \in 0..L : (\A i \in 1..x : s[i] = 0) => h[x] = 0
  BY <1>1, ValueOfLoop
<1> HIDE DEF N, L
<1>3. z \in 0..L /\ (z < L => s[z + 1] # 0) /\ N \in Nat
  BY <1>1, <1>2 DEF L
<1>4. h[z] = 0
  BY <1>2, <1>3
<1> DEFINE T == {m \in 0..L - z : h[z + m] >= m}
<1>5. \A m \in 0..L - z : h[z + m] >= m
  <2>1. 0 \in T
    BY <1>1, <1>3, <1>4
  <2>2. ASSUME NEW m \in 0..L - z, m < L - z, m \in T PROVE m + 1 \in T
    <3>1. z + (m + 1) \in 1..L /\ (z + (m + 1)) - 1 = z + m /\ z + m \in 0..L /\ m + 1 \in 0..L - z
      BY <1>1, <1>3, <2>2
    <3>2. h[z + (m + 1)] = h[z + m] * base + s[z + (m + 1)] /\ s[z + (m + 1)] \in Nat /\ h[z + m] \in Nat
      BY <1>1, <1>2, <3>1
    <3>3. h[z + (m + 1)] >= m + 1
      <4>1. CASE m = 0
        <5>1. z < L /\ z + m = z /\ m + 1 = 1
          BY <1>1, <1>3, <2>2, <4>1
        <5>2. s[z + (m + 1)] > 0 /\ h[z + m] * base = 0
          BY <1>3, <1>4, <3>2, <5>1
        <5>3. h[z + (m + 1)] >= 1
          BY <3>2, <5>2
        <5> QED
          BY <5>1, <5>3
      <4>2. CASE m # 0
        <5>1. \A x \in Nat : x > 0 => x * base >= x + 1 /\ x * base \in Nat
          OBVIOUS
        <5> DEFINE x == h[z + m]
        <5>2. x \in Nat /\ x >= m /\ x > 0
          BY <2>2, <3>2, <4>2
        <5> HIDE DEF x
        <5>3. x * base >= x + 1 /\ x * base \in Nat
          BY <5>1, <5>2
        <5>4. h[z + (m + 1)] = x * base + s[z + (m + 1)]
          BY <3>2 DEF x
        <5> QED
          BY <3>2, <5>2, <5>3, <5>4
      <4> QED
        BY <4>1, <4>2
    <3> QED
      BY <3>1, <3>3
  <2>3. \A m \in 0..L - z : m < L - z /\ m \in T => m + 1 \in T
    BY <2>2
  <2>4. L - z \in Nat
    BY <1>1, <1>3
  <2> HIDE DEF T
  <2>5. 0..L - z \subseteq T
    BY <2>1, <2>3, <2>4, InductionTo
  <2> QED
    BY <2>5 DEF T
<1>6. L - z \in 0..N
  <2>1. L - z \in 0..L - z /\ z + (L - z) = L
    BY <1>1, <1>3
  <2>2. h[L] >= L - z
    BY <1>5, <2>1
  <2> QED
    BY <1>2, <1>3, <2>1, <2>2
<1>7. PICK left \in [0..N -> Nat], len \in 0..N :
          /\ left[0] = N /\ \A k \in 1..N : left[k] = left[k - 1] \div base
          /\ left[len] = 0 /\ \A j \in 0..len - 1 : left[j] # 0
          /\ Digits(N, base) = [j \in 1..len |-> left[len - j] % base]
  <2>1. N \in Nat
    BY <1>3
  <2> HIDE DEF T
  <2> QED
    BY <2>1, DigitsLoop
<1> DEFINE U == {m \in 0..L - z : left[m] = h[L - m]}
<1>8. \A m \in 0..L - z : left[m] = h[L - m]
  <2>1. 0 \in U
    BY <1>1, <1>2, <1>3, <1>7
  <2>2. ASSUME NEW m \in 0..L - z, m < L - z, m \in U PROVE m + 1 \in U
    <3> DEFINE x == h[L - (m + 1)]
               d == s[L - m]
    <3>1. m + 1 \in 0..L - z /\ m + 1 \in 1..N /\ (m + 1) - 1 = m /\ L - m \in 1..L
          /\ (L - m) - 1 = L - (m + 1) /\ L - (m + 1) \in 0..L
      BY <1>1, <1>3, <1>6, <2>2
    <3>2. left[m + 1] = left[m] \div base
      BY <1>7, <3>1
    <3>3. left[m] = h[L - m]
      BY <2>2
    <3>4. h[L - m] = h[(L - m) - 1] * base + s[L - m]
      BY <1>2, <3>1
    <3>5. h[(L - m) - 1] = x
      BY <3>1
    <3>6. x \in Nat /\ d \in 0..base - 1
      BY <1>1, <1>2, <3>1
    <3> HIDE DEF x, d
    <3>7. (x * base + d) \div base = x
      BY <3>6, DivisionOf
    <3>8. left[m + 1] = x
      BY <3>2, <3>3, <3>4, <3>5, <3>7 DEF d
    <3> QED
      BY <3>1, <3>8 DEF x
  <2>3. \A m \in 0..L - z : m < L - z /\ m \in U => m + 1 \in U
    BY <2>2
  <2>4. L - z \in Nat
    BY <1>1, <1>3
  <2> HIDE DEF U
  <2>5. 0..L - z \subseteq U
    BY <2>1, <2>3, <2>4, InductionTo
  <2> QED
    BY <2>5 DEF U
<1>9. len = L - z
  <2>1. left[L - z] = 0
    <3>1. L - z \in 0..L - z /\ L - (L - z) = z
      BY <1>1, <1>3
    <3> QED
      BY <1>4, <1>8, <3>1
  <2>2. ASSUME len > L - z PROVE FALSE
    <3>1. L - z \in 0..len - 1
      BY <1>6, <1>7, <2>2
    <3> QED
      BY <1>7, <2>1, <3>1
  <2>3. ASSUME len < L - z PROVE FALSE
    <3>1. len \in 0..L - z /\ (L - z) - len \in 0..L - z /\ z + ((L - z) - len) = L - len
          /\ (L - z) - len > 0
      BY <1>1, <1>3, <1>6, <1>7, <2>3
    <3>2. left[len] = h[L - len] /\ h[L - len] >= (L - z) - len
      BY <1>5, <1>8, <3>1
    <3> QED
      BY <1>7, <3>1, <3>2
  <2> QED
    BY <1>6, <1>7, <2>2, <2>3
<1>10. ASSUME NEW j \in 1..L - z PROVE left[len - j] % base = s[z + j]
  <2> DEFINE x == h[(z + j) - 1]
             d == s[z + j]
  <2>1. len - j \in 0..L - z /\ L - (len - j) = z + j /\ z + j \in 1..L /\ (z + j) - 1 \in 0..L
    BY <1>1, <1>3, <1>9
  <2>2. left[len - j] = h[z + j]
    BY <1>8, <2>1
  <2>3. h[z + j] = x * base + d
    BY <1>2, <2>1
  <2>4. x \in Nat /\ d \in 0..base - 1
    BY <1>1, <1>2, <2>1
  <2> HIDE DEF x, d
  <2>5. (x * base + d) % base = d
    BY <2>4, DivisionOf
  <2> QED
    BY <2>2, <2>3, <2>5 DEF d
<1>11. Digits(N, base) = [j \in 1..L - z |-> s[z + j]]
  BY <1>7, <1>9, <1>10
<1> QED
  BY <1>11 DEF N, L

LEMMA Concatenation ==
    ASSUME NEW S, NEW a \in Seq(S), NEW b \in Seq(S)
    PROVE  /\ a \o b \in Seq(S) /\ Len(a \o b) = Len(a) + Len(b)
           /\ \A i \in 1..Len(a) : (a \o b)[i] = a[i]
           /\ \A j \in 1..Len(b) : (a \o b)[Len(a) + j] = b[j]
OBVIOUS

\* What the indexer writes (Pubkey::to_string) is the key again to base58Decode of
\* routes.ts:239-261, for any key, zero bytes in front included, and any two bases.
THEOREM Base58RoundTrip ==
    ASSUME NEW key \in Seq(0..Byte - 1)
    PROVE  Base58Decode(Base58(key)) = key
<1> DEFINE n == ValueOf(key, Byte)
           d == Digits(n, Base)
           w == Base58(key)
<1>1. Byte \in Nat \ {0, 1} /\ Base \in Nat \ {0, 1}
  BY ApiAssumption
<1>2. key \in Seq(Nat) /\ Len(key) \in Nat
  BY <1>1
<1>3. n \in Nat
  BY <1>1, <1>2, ValueOfType
<1>4. d \in Seq(Nat) /\ Len(d) \in Nat /\ (d # <<>> => d[1] # 0)
  <2> HIDE DEF n
  <2>1. d \in Seq(0..Base - 1) /\ (d # <<>> => d[1] # 0)
    BY <1>1, <1>3, DigitsType
  <2>2. 0..Base - 1 \subseteq Nat
    BY <1>1
  <2> HIDE DEF d
  <2>3. d \in Seq(Nat)
    BY <2>1, <2>2, SeqMonotonic
  <2> QED
    BY <2>1, <2>3
<1>5. PICK z \in 0..Len(key) :
          /\ \A j \in 1..z : key[j] = 0
          /\ z < Len(key) => key[z + 1] # 0
          /\ LeadingZeros(key) = [i \in 1..z |-> 0]
  BY <1>2, ZerosInFront
<1> DEFINE zeros == [i \in 1..z |-> 0]
<1>6. zeros \in Seq(Nat) /\ Len(zeros) = z /\ z \in Nat /\ \A i \in 1..z : zeros[i] = 0
  BY <1>2
<1>7. w = zeros \o d
  BY <1>5 DEF Base58
<1> HIDE DEF n, d, w, zeros
<1>8. /\ w \in Seq(Nat) /\ Len(w) = z + Len(d)
      /\ \A i \in 1..z : w[i] = 0
      /\ \A j \in 1..Len(d) : w[z + j] = d[j]
  BY <1>4, <1>6, <1>7, Concatenation
<1>9. ValueOf(w, Base) = n
  BY <1>1, <1>3, <1>6, <1>8, ValueOfDigits DEF d
<1>10. LeadingZeros(w) = zeros
  <2>1. PICK y \in 0..Len(w) :
            /\ \A j \in 1..y : w[j] = 0
            /\ y < Len(w) => w[y + 1] # 0
            /\ LeadingZeros(w) = [i \in 1..y |-> 0]
    BY <1>8, ZerosInFront
  <2>2. y \in Nat /\ Len(w) \in Nat
    BY <1>8
  <2>3. ASSUME y < z PROVE FALSE
    <3>1. y < Len(w) /\ y + 1 \in 1..z
      BY <1>4, <1>6, <1>8, <2>2, <2>3
    <3> QED
      BY <1>8, <2>1, <3>1
  <2>4. ASSUME y > z PROVE FALSE
    <3>1. z + 1 \in 1..y /\ 1 \in 1..Len(d)
      BY <1>4, <1>6, <1>8, <2>1, <2>2, <2>4
    <3>2. w[z + 1] = 0 /\ w[z + 1] = d[1] /\ d # <<>>
      BY <1>4, <1>8, <2>1, <3>1
    <3> QED
      BY <1>4, <3>2
  <2>5. y = z
    BY <1>6, <2>2, <2>3, <2>4
  <2> QED
    BY <2>1, <2>5 DEF zeros
<1>11. Digits(n, Byte) = [j \in 1..Len(key) - z |-> key[z + j]]
  BY <1>1, <1>5, DigitsOfValue DEF n
<1> DEFINE rest == [j \in 1..Len(key) - z |-> key[z + j]]
<1>12. rest \in Seq(Nat) /\ Len(rest) = Len(key) - z
  <2>1. Len(key) - z \in Nat /\ \A j \in 1..Len(key) - z : key[z + j] \in Nat
    BY <1>2
  <2> QED
    BY <2>1
<1>13. Base58Decode(w) = zeros \o rest
  BY <1>9, <1>10, <1>11 DEF Base58Decode
<1>14. \A j \in 1..Len(rest) : rest[j] = key[z + j]
  BY <1>12
<1> HIDE DEF rest
<1>15. /\ zeros \o rest \in Seq(Nat) /\ Len(zeros \o rest) = Len(key)
       /\ \A i \in 1..z : (zeros \o rest)[i] = 0
       /\ \A j \in 1..Len(rest) : (zeros \o rest)[z + j] = key[z + j]
  BY <1>2, <1>6, <1>12, <1>14, Concatenation
<1>16. ASSUME NEW i \in 1..Len(key) PROVE (zeros \o rest)[i] = key[i]
  <2>1. CASE i \in 1..z
    BY <1>5, <1>15, <2>1
  <2>2. CASE i \notin 1..z
    <3>1. i - z \in 1..Len(rest) /\ z + (i - z) = i
      BY <1>2, <1>6, <1>12, <2>2
    <3> QED
      BY <1>15, <3>1
  <2> QED
    BY <2>1, <2>2
<1>17. zeros \o rest = key
  BY <1>2, <1>15, <1>16, SeqEqual
<1> QED
  BY <1>13, <1>17 DEF w

LEMMA SameKey == ASSUME NEW w \in Webhook PROVE Base58OrHex(w) = w.stealth
<1>1. w.stealth \in Seq(0..Byte - 1)
  BY ApiAssumption DEF Webhook
<1> QED
  BY <1>1, Base58RoundTrip DEF Base58OrHex

------------------------------------------------------------------------------
(* Types.                                                                    *)

LEMMA CallerType ==
    ASSUME NEW k \in Headers, Caller(k) # NoInst
    PROVE  Caller(k) \in Institutions
BY DEF Caller, FindByApiKey

LEMMA InitType == Init => TypeOK
<1> SUFFICES ASSUME Init PROVE TypeOK
  OBVIOUS
<1>1. seq \in 1..MaxId + 1 /\ now \in 0..MaxTime
  BY ApiAssumption DEF Init
<1> QED
  BY <1>1 DEF Init, TypeOK

LEMMA AddressType ==
    ASSUME TypeOK, NEW k \in Headers, NEW s \in Stealths, NEW id \in Ids, ReceivingAddress(k, s, id)
    PROVE  TypeOK'
<1> DEFINE r == [inst |-> Caller(k), stealth |-> s, created |-> now,
                 state |-> "pending", amount |-> None]
<1>1. Caller(k) \in Institutions
  BY CallerType DEF ReceivingAddress
<1>2. r \in Record
  BY <1>1 DEF TypeOK, Record, States
<1>3. rows' = [rows EXCEPT ![id] = r]
  BY DEF ReceivingAddress
<1> HIDE DEF r
<1>4. rows' \in [Ids -> Record \cup {None}]
  BY <1>2, <1>3 DEF TypeOK
<1>5. seq' \in 1..MaxId + 1
  <2>1. CASE store = "memory"
    <3>1. seq \in Ids /\ seq' = seq + 1
      BY <2>1 DEF ReceivingAddress, NewIds
    <3> QED
      BY <3>1, ApiAssumption DEF Ids
  <2>2. CASE store # "memory"
    BY <2>2 DEF ReceivingAddress, TypeOK
  <2> QED
    BY <2>1, <2>2
<1>6. given' \subseteq Stealths
  BY DEF ReceivingAddress, TypeOK
<1> QED
  BY <1>4, <1>5, <1>6 DEF ReceivingAddress, TypeOK

\* A webhook brings a state and a number to each record of its key, and leaves the rest.
LEMMA DetectedRows ==
    ASSUME TypeOK, NEW w \in Webhook, DepositDetected(w), NEW id \in Ids
    PROVE  /\ rows[id] = None => rows'[id] = None
           /\ rows[id] # None =>
                 /\ rows[id] \in Record /\ rows'[id] \in Record /\ rows'[id] # None
                 /\ rows'[id].inst = rows[id].inst /\ rows'[id].stealth = rows[id].stealth
                 /\ rows[id].stealth = w.stealth => rows'[id].amount = AmountRead(w.amount)
                 /\ rows[id].stealth # w.stealth => rows'[id] = rows[id]
<1>1. w.amount \in Nat /\ w.state \in States
  BY ApiAssumption DEF Webhook
<1>2. AmountRead(w.amount) \in Nat
  BY <1>1, DoubleNear DEF AmountRead
<1>3. Base58OrHex(w) = w.stealth
  BY SameKey
<1>4. rows'[id] = IF rows[id] # None /\ rows[id].stealth = w.stealth
                  THEN [rows[id] EXCEPT !.amount = AmountRead(w.amount),
                                        !.state = IF w.state = "pending" THEN @ ELSE w.state]
                  ELSE rows[id]
  BY <1>3 DEF DepositDetected
<1>5. rows[id] # None => rows[id] \in Record
  BY DEF TypeOK
<1>6. None \notin Record
  BY ApiAssumption
<1> QED
  BY <1>1, <1>2, <1>4, <1>5, <1>6 DEF Record

LEMMA DetectedType ==
    ASSUME TypeOK, NEW w \in Webhook, DepositDetected(w)
    PROVE  TypeOK'
<1>1. \A id \in Ids : rows'[id] \in Record \cup {None}
  BY DetectedRows
<1>2. rows' = [id \in Ids |-> rows'[id]]
  BY DEF DepositDetected
<1>3. rows' \in [Ids -> Record \cup {None}]
  BY <1>1, <1>2
<1>4. told' \subseteq Stealths
  BY DEF DepositDetected, TypeOK, Record, Webhook
<1> QED
  BY <1>3, <1>4 DEF DepositDetected, TypeOK

\* A call that moves a record on changes nothing else in it.
LEMMA MovedType ==
    ASSUME TypeOK, NEW id \in Ids, rows[id] # None, NEW st \in States,
           rows' = [rows EXCEPT ![id].state = st]
    PROVE  /\ rows' \in [Ids -> Record \cup {None}]
           /\ \A e \in Ids :
                 /\ rows'[e] = None <=> rows[e] = None
                 /\ rows[e] # None => /\ rows'[e].inst = rows[e].inst
                                      /\ rows'[e].stealth = rows[e].stealth
                                      /\ rows'[e].amount = rows[e].amount
<1>1. None \notin Record
  BY ApiAssumption
<1>2. rows[id] \in Record
  BY DEF TypeOK
<1>3. [rows[id] EXCEPT !.state = st] \in Record
  BY <1>2 DEF Record
<1>4. rows' = [rows EXCEPT ![id] = [rows[id] EXCEPT !.state = st]]
  OBVIOUS
<1> DEFINE r == [rows[id] EXCEPT !.state = st]
<1>5. r.inst = rows[id].inst /\ r.stealth = rows[id].stealth /\ r.amount = rows[id].amount
  BY <1>2 DEF Record
<1>6. r \in Record /\ rows' = [rows EXCEPT ![id] = r]
  BY <1>3, <1>4
<1> HIDE DEF r
<1> QED
  BY <1>1, <1>5, <1>6 DEF TypeOK

LEMMA OwnMoves ==
    ASSUME TypeOK, NEW k \in Headers, NEW id \in Ids, Release(k, id) \/ Refund(k, id)
    PROVE  /\ rows[id] # None
           /\ \E st \in States : rows' = [rows EXCEPT ![id].state = st]
           /\ UNCHANGED <<store, seq, now, paid, given, told>>
BY DEF Release, Refund, Own, States

LEMMA StepType == TypeOK /\ [Next]_vars => TypeOK'
<1> SUFFICES ASSUME TypeOK, [Next]_vars PROVE TypeOK'
  OBVIOUS
<1>1. ASSUME NEW k \in Headers, NEW s \in Stealths, NEW id \in Ids, ReceivingAddress(k, s, id)
      PROVE  TypeOK'
  BY <1>1, AddressType
<1>2. ASSUME NEW k \in Headers, NEW id \in Ids, Release(k, id) \/ Refund(k, id)
      PROVE  TypeOK'
  <2>1. rows' \in [Ids -> Record \cup {None}]
    BY <1>2, OwnMoves, MovedType
  <2> QED
    BY <1>2, <2>1, OwnMoves DEF TypeOK
<1>3. ASSUME NEW w \in Webhook, DepositDetected(w) PROVE TypeOK'
  BY <1>3, DetectedType
<1>4. ASSUME NEW s \in Stealths, NEW a \in Amounts[s], Pay(s, a) PROVE TypeOK'
  <2>1. a \in Nat
    BY ApiAssumption
  <2> QED
    BY <1>4, <2>1 DEF Pay, TypeOK
<1>5. CASE Tick
  BY <1>5, ApiAssumption DEF Tick, TypeOK
<1>6. CASE Restart
  <2>1. 1 \in 1..MaxId + 1
    BY ApiAssumption
  <2> QED
    BY <1>6, <2>1 DEF Restart, TypeOK
<1>7. CASE UNCHANGED vars
  BY <1>7 DEF TypeOK, vars
<1> QED
  BY <1>1, <1>2, <1>3, <1>4, <1>5, <1>6, <1>7 DEF Next, Call

\* Every record is one that the store could have, whatever number a webhook brought
\* (store/types.ts, routes.ts:205-226).
THEOREM TypeCorrect == Spec => []TypeOK
  BY InitType, StepType, PTL DEF Spec

------------------------------------------------------------------------------
(* Records and the keys that were given out.                                 *)

RowsGiven == \A id \in Ids : rows[id] # None => rows[id].stealth \in given

\* Webhooks have been sent only for keys that were given out.
ToldGiven == told \subseteq given

IInv == TypeOK /\ RowsGiven /\ ToldGiven /\ AmountsNear /\ WebhookHits

LEMMA InitIInv == Init => IInv
<1> SUFFICES ASSUME Init PROVE IInv
  OBVIOUS
<1>1. RowsGiven /\ ToldGiven
  BY DEF Init, RowsGiven, ToldGiven
<1>2. AmountsNear /\ WebhookHits
  BY DEF Init, AmountsNear, WebhookHits
<1> QED
  BY <1>1, <1>2, InitType DEF IInv

\* A new record is of a key that no webhook was sent for yet.
LEMMA AddressKeeps ==
    ASSUME IInv, TypeOK', NEW k \in Headers, NEW s \in Stealths, NEW id \in Ids,
           ReceivingAddress(k, s, id)
    PROVE  IInv'
<1> DEFINE r == [inst |-> Caller(k), stealth |-> s, created |-> now,
                 state |-> "pending", amount |-> None]
<1>1. rows' = [rows EXCEPT ![id] = r] /\ given' = given \cup {s}
      /\ UNCHANGED <<store, paid, told>>
  BY DEF ReceivingAddress
<1>2. rows \in [Ids -> Record \cup {None}]
  BY DEF IInv, TypeOK
<1>3. r # None /\ r.inst = Caller(k) /\ r.stealth = s /\ r.amount = None
  <2>1. Caller(k) \in Institutions /\ now \in 0..MaxTime
    BY CallerType DEF ReceivingAddress, IInv, TypeOK
  <2>2. r \in Record
    BY <2>1 DEF Record, States
  <2> QED
    BY <2>2, ApiAssumption
<1>4. s \notin told
  BY DEF IInv, ToldGiven, ReceivingAddress
<1> HIDE DEF r
<1>5. rows'[id] = r /\ \A e \in Ids \ {id} : rows'[e] = rows[e]
  BY <1>1, <1>2
<1>6. RowsGiven'
  BY <1>1, <1>3, <1>5 DEF RowsGiven, IInv
<1>7. ToldGiven'
  BY <1>1 DEF ToldGiven, IInv
<1>8. AmountsNear'
  BY <1>1, <1>3, <1>5 DEF AmountsNear, IInv
<1>9. WebhookHits'
  BY <1>1, <1>3, <1>4, <1>5 DEF WebhookHits, IInv
<1> QED
  BY <1>6, <1>7, <1>8, <1>9 DEF IInv

LEMMA MovedKeeps ==
    ASSUME IInv, TypeOK', NEW k \in Headers, NEW id \in Ids, Release(k, id) \/ Refund(k, id)
    PROVE  IInv'
<1>1. /\ rows[id] # None /\ UNCHANGED <<store, paid, given, told>>
      /\ \E st \in States : rows' = [rows EXCEPT ![id].state = st]
  BY OwnMoves DEF IInv
<1>2. \A e \in Ids :
          /\ rows'[e] = None <=> rows[e] = None
          /\ rows[e] # None => /\ rows'[e].inst = rows[e].inst
                               /\ rows'[e].stealth = rows[e].stealth
                               /\ rows'[e].amount = rows[e].amount
  BY <1>1, MovedType DEF IInv
<1>3. RowsGiven' /\ ToldGiven'
  BY <1>1, <1>2 DEF RowsGiven, ToldGiven, IInv
<1>4. AmountsNear'
  BY <1>1, <1>2 DEF AmountsNear, IInv
<1>5. WebhookHits'
  BY <1>1, <1>2 DEF WebhookHits, IInv
<1> QED
  BY <1>3, <1>4, <1>5 DEF IInv

LEMMA DetectedKeeps ==
    ASSUME IInv, TypeOK', NEW w \in Webhook, DepositDetected(w)
    PROVE  IInv'
<1>1. UNCHANGED <<store, paid, given>>
      /\ told' = told \cup {rows[id].stealth : id \in {e \in Ids :
                               rows[e] # None /\ rows[e].stealth = w.stealth}}
      /\ w.amount \in paid[w.stealth]
  BY DEF DepositDetected
<1>2. \A id \in Ids :
          /\ rows[id] = None => rows'[id] = None
          /\ rows[id] # None =>
                /\ rows'[id] # None
                /\ rows'[id].inst = rows[id].inst /\ rows'[id].stealth = rows[id].stealth
                /\ rows[id].stealth = w.stealth => rows'[id].amount = AmountRead(w.amount)
                /\ rows[id].stealth # w.stealth => rows'[id] = rows[id]
  BY DetectedRows DEF IInv
<1>3. RowsGiven'
  BY <1>1, <1>2 DEF RowsGiven, IInv
<1>4. ToldGiven'
  BY <1>1 DEF ToldGiven, RowsGiven, IInv
<1>5. w.amount \in Nat
  BY ApiAssumption DEF Webhook
<1>6. AmountsNear'
  <2> SUFFICES ASSUME NEW id \in Ids, rows'[id] # None, rows'[id].amount # None
               PROVE  \E a \in paid[rows'[id].stealth] :
                          LET off == IF a > rows'[id].amount THEN a - rows'[id].amount
                                     ELSE rows'[id].amount - a
                          IN  off * Exact <= a
    BY <1>1 DEF AmountsNear
  <2>1. CASE rows[id].stealth = w.stealth
    <3>1. rows'[id].amount = Double(w.amount) /\ rows'[id].stealth = w.stealth
      BY <1>2, <2>1 DEF AmountRead
    <3>2. (IF w.amount > Double(w.amount) THEN w.amount - Double(w.amount)
           ELSE Double(w.amount) - w.amount) * Exact <= w.amount
      BY <1>5, DoubleNear
    <3> QED
      BY <1>1, <3>1, <3>2
  <2>2. CASE rows[id].stealth # w.stealth
    <3>1. rows[id] # None /\ rows'[id] = rows[id]
      BY <1>2, <2>2
    <3> QED
      BY <3>1 DEF AmountsNear, IInv
  <2> QED
    BY <2>1, <2>2
<1>7. WebhookHits'
  <2> SUFFICES ASSUME NEW id \in Ids, rows'[id] # None
               PROVE  rows'[id].amount # None <=> rows'[id].stealth \in told'
    BY DEF WebhookHits
  <2>1. rows[id] # None
    BY <1>2
  <2>2. CASE rows[id].stealth = w.stealth
    <3>1. AmountRead(w.amount) # None
      BY <1>5, DoubleNear, ApiAssumption DEF AmountRead
    <3> QED
      BY <1>1, <1>2, <2>1, <2>2, <3>1
  <2>3. CASE rows[id].stealth # w.stealth
    <3>1. rows'[id] = rows[id]
      BY <1>2, <2>1, <2>3
    <3>2. rows[id].stealth \in told' <=> rows[id].stealth \in told
      BY <1>1, <2>3
    <3> QED
      BY <2>1, <3>1, <3>2 DEF WebhookHits, IInv
  <2> QED
    BY <2>2, <2>3
<1> QED
  BY <1>3, <1>4, <1>6, <1>7 DEF IInv

LEMMA StepIInv == IInv /\ [Next]_vars => IInv'
<1> SUFFICES ASSUME IInv, [Next]_vars PROVE IInv'
  OBVIOUS
<1>0. TypeOK'
  BY StepType DEF IInv
<1>1. ASSUME NEW k \in Headers, NEW s \in Stealths, NEW id \in Ids, ReceivingAddress(k, s, id)
      PROVE  IInv'
  BY <1>0, <1>1, AddressKeeps
<1>2. ASSUME NEW k \in Headers, NEW id \in Ids, Release(k, id) \/ Refund(k, id)
      PROVE  IInv'
  BY <1>0, <1>2, MovedKeeps
<1>3. ASSUME NEW w \in Webhook, DepositDetected(w) PROVE IInv'
  BY <1>0, <1>3, DetectedKeeps
<1>4. ASSUME NEW s \in Stealths, NEW a \in Amounts[s], Pay(s, a) PROVE IInv'
  <2>1. UNCHANGED <<store, rows, given, told>> /\ paid' = [paid EXCEPT ![s] = @ \cup {a}]
    BY <1>4 DEF Pay
  <2>2. RowsGiven' /\ ToldGiven' /\ WebhookHits'
    BY <2>1 DEF RowsGiven, ToldGiven, WebhookHits, IInv
  <2>3. \A x \in Stealths : paid[x] \subseteq paid'[x]
    BY <2>1 DEF IInv, TypeOK
  <2>4. AmountsNear'
    <3> SUFFICES ASSUME NEW id \in Ids, rows[id] # None, rows[id].amount # None
                 PROVE  \E b \in paid'[rows[id].stealth] :
                            LET off == IF b > rows[id].amount THEN b - rows[id].amount
                                       ELSE rows[id].amount - b
                            IN  off * Exact <= b
      BY <2>1 DEF AmountsNear
    <3>1. rows[id].stealth \in Stealths
      BY DEF IInv, TypeOK, Record
    <3> QED
      BY <2>3, <3>1 DEF AmountsNear, IInv
  <2> QED
    BY <1>0, <2>2, <2>4 DEF IInv
<1>5. CASE Tick
  BY <1>0, <1>5 DEF Tick, IInv, RowsGiven, ToldGiven, AmountsNear, WebhookHits
<1>6. CASE Restart
  <2>1. CASE store = "memory"
    <3>1. (\A id \in Ids : rows'[id] = None) /\ told' = {} /\ store' = "memory"
      BY <1>6, <2>1 DEF Restart
    <3> QED
      BY <1>0, <3>1 DEF IInv, RowsGiven, ToldGiven, AmountsNear, WebhookHits
  <2>2. CASE store # "memory"
    BY <1>0, <1>6, <2>2 DEF Restart, IInv, RowsGiven, ToldGiven, AmountsNear, WebhookHits
  <2> QED
    BY <2>1, <2>2
<1>7. CASE UNCHANGED vars
  BY <1>0, <1>7 DEF vars, IInv, RowsGiven, ToldGiven, AmountsNear, WebhookHits
<1> QED
  BY <1>1, <1>2, <1>3, <1>4, <1>5, <1>6, <1>7 DEF Next, Call

LEMMA InductiveInvariant == Spec => []IInv
  BY InitIInv, StepIInv, PTL DEF Spec

\* The amount in a record is a deposit's to its address, to half a unit in the last place
\* of a double, whatever amounts are paid and however often (routes.ts:190, 215).
THEOREM AmountsAreNear == Spec => []AmountsNear
<1>1. IInv => AmountsNear
  BY DEF IInv
<1> QED
  BY <1>1, InductiveInvariant, PTL

\* A webhook finds the record of its key whichever way the key is written, and no other,
\* for any keys (routes.ts:231-261).
THEOREM WebhooksHit == Spec => []WebhookHits
<1>1. IInv => WebhookHits
  BY DEF IInv
<1> QED
  BY <1>1, InductiveInvariant, PTL

------------------------------------------------------------------------------
(* Lists.                                                                    *)

\* An order of an institution's records names each once.
LEMMA OrderOfAll ==
    ASSUME NEW i \in Institutions, NEW s \in Orders(i)
    PROVE  /\ IsFiniteSet(Mine(i)) /\ Cardinality(Mine(i)) \in Nat
           /\ Len(s) = Cardinality(Mine(i)) /\ s \in Seq(Mine(i))
           /\ s \in Bijection(1..Len(s), Mine(i))
           /\ \A j, k \in 1..Len(s) : j < k => rows[s[j]].created >= rows[s[k]].created
<1>1. IsFiniteSet(Mine(i))
  <2>1. IsFiniteSet(1..MaxId)
    BY ApiAssumption, FS_Interval
  <2>2. Mine(i) \in SUBSET (1..MaxId)
    BY DEF Mine, Ids
  <2> QED
    BY <2>1, <2>2, FS_Subset
<1> DEFINE n == Cardinality(Mine(i))
<1>2. n \in Nat
  BY <1>1, FS_CardinalityType
<1>3. s \in [1..n -> Mine(i)] /\ (\A j, k \in 1..n : j # k => s[j] # s[k])
      /\ \A j, k \in DOMAIN s : j < k => rows[s[j]].created >= rows[s[k]].created
  BY DEF Orders, SetToSeqs
<1>4. s \in Injection(1..n, Mine(i))
  BY <1>3 DEF Injection, IsInjective
<1>5. s \in Surjection(1..n, Mine(i))
  <2>1. Cardinality(1..n) = n
    BY <1>2, FS_Interval
  <2> HIDE DEF n
  <2>2. Cardinality(1..n) = Cardinality(Mine(i))
    BY <2>1 DEF n
  <2> QED
    BY <1>1, <1>4, <2>2, FS_Injection
<1>6. Len(s) = n /\ s \in Seq(Mine(i)) /\ DOMAIN s = 1..n
  BY <1>2, <1>3
<1>7. s \in Bijection(1..n, Mine(i))
  BY <1>4, <1>5 DEF Bijection
<1> QED
  BY <1>1, <1>2, <1>3, <1>6, <1>7

\* The front of an order: the rest is no newer.
LEMMA FrontOfOrder ==
    ASSUME NEW i \in Institutions, NEW s \in Orders(i), NEW m \in Int, m <= Len(s)
    PROVE  LET l == SubSeq(s, 1, m) IN
           /\ Len(l) = IF m >= 0 THEN m ELSE 0
           /\ DOMAIN l = 1..Len(l) /\ \A j \in 1..Len(l) : l[j] = s[j]
           /\ l \in Seq(Ids) /\ ToSet(l) \subseteq Mine(i)
           /\ \A id \in ToSet(l), e \in Mine(i) \ ToSet(l) : rows[id].created >= rows[e].created
<1> DEFINE l == SubSeq(s, 1, m)
<1>1. /\ Len(s) \in Nat /\ s \in Seq(Mine(i)) /\ s \in Bijection(1..Len(s), Mine(i))
      /\ \A j, k \in 1..Len(s) : j < k => rows[s[j]].created >= rows[s[k]].created
  BY OrderOfAll
<1>2. l \in Seq(Mine(i)) /\ Len(l) = (IF m >= 0 THEN m ELSE 0)
      /\ \A j \in 1..m : l[j] = s[j]
  <2>1. \A j \in 1..m : s[j] \in Mine(i)
    BY <1>1
  <2>2. /\ l \in Seq(Mine(i)) /\ Len(l) = IF 1 <= m THEN m - 1 + 1 ELSE 0
        /\ \A j \in 1..m - 1 + 1 : l[j] = s[1 + j - 1]
    BY <2>1, SubSeqProperties
  <2> QED
    BY <2>2
<1>3. DOMAIN l = 1..Len(l) /\ \A j \in 1..Len(l) : l[j] = s[j]
  BY <1>2
<1> HIDE DEF l
<1>4. ToSet(l) = {l[j] : j \in 1..Len(l)}
  BY <1>3 DEF ToSet
<1>5. ToSet(l) \subseteq Mine(i)
  BY <1>2, <1>4
<1>6. l \in Seq(Ids)
  <2>1. \A j \in 1..Len(l) : l[j] \in Ids
    BY <1>2 DEF Mine
  <2> QED
    BY <1>2, <2>1
<1>7. ASSUME NEW id \in ToSet(l), NEW e \in Mine(i) \ ToSet(l)
      PROVE  rows[id].created >= rows[e].created
  <2>1. PICK j \in 1..Len(l) : id = s[j]
    BY <1>3, <1>4
  <2>2. PICK k \in 1..Len(s) : e = s[k]
    BY <1>1 DEF Bijection, Surjection
  <2>3. k \notin 1..Len(l)
    BY <1>3, <1>4, <2>2
  <2>4. j \in 1..Len(s) /\ j < k
    BY <1>1, <1>2, <2>3
  <2> QED
    BY <1>1, <2>1, <2>2, <2>4
<1> QED
  BY <1>2, <1>3, <1>5, <1>6, <1>7 DEF l

\* Wherever the list is cut, from the front or from the end, the newest are kept.
LEMMA NewestListed == ListNewest
<1> SUFFICES ASSUME NEW i \in Institutions, NEW s \in Orders(i), NEW q \in Limits
             PROVE  LET l == Listed(s, q)
                        n == Cardinality(Mine(i)) IN
                    /\ l # None =>
                          /\ ToSet(l) \subseteq Mine(i)
                          /\ \A j, k \in DOMAIN l : l[j] = l[k] => j = k
                          /\ \A id \in ToSet(l), e \in Mine(i) \ ToSet(l) :
                                rows[id].created >= rows[e].created
                    /\ q \in Nat =>
                          /\ l # None /\ Len(l) \in {q, MaxLimit, n}
                          /\ Len(l) <= q /\ Len(l) <= MaxLimit /\ Len(l) <= n
  BY DEF ListNewest
<1>1. MaxLimit \in Nat /\ NaN \notin Int /\ (q # NaN => q \in Int)
  BY ApiAssumption
<1>2. Len(s) \in Nat /\ Len(s) = Cardinality(Mine(i)) /\ s \in Bijection(1..Len(s), Mine(i))
  BY OrderOfAll
<1>3. CASE q = NaN
  <2>1. Listed(s, q) = <<>> \/ Listed(s, q) = None
    BY <1>3 DEF Listed, ListLimit, Cut
  <2>2. ToSet(<<>>) = {} /\ DOMAIN <<>> = {}
    BY DEF ToSet
  <2> QED
    BY <1>1, <1>3, <2>1, <2>2
<1>4. CASE q # NaN
  <2> DEFINE limit == ListLimit(q)
             m == IF limit >= 0 THEN IF limit < Len(s) THEN limit ELSE Len(s) ELSE Len(s) + limit
             l == SubSeq(s, 1, m)
  <2>1. /\ limit \in Int /\ limit # NaN
        /\ q \in Nat => limit >= 0 /\ limit <= q /\ limit <= MaxLimit /\ limit \in {q, MaxLimit}
    BY <1>1, <1>4 DEF ListLimit
  <2>2. /\ Listed(s, q) = l \/ Listed(s, q) = None
        /\ limit >= 0 => Listed(s, q) = l
    BY <2>1 DEF Listed, Cut
  <2>3. /\ m \in Int /\ m <= Len(s)
        /\ q \in Nat => /\ m >= 0 /\ m \in {q, MaxLimit, Len(s)}
                        /\ m <= q /\ m <= MaxLimit
    BY <1>1, <1>2, <2>1
  <2> HIDE DEF limit, m
  <2>4. /\ Len(l) = IF m >= 0 THEN m ELSE 0
        /\ DOMAIN l = 1..Len(l) /\ \A j \in 1..Len(l) : l[j] = s[j]
        /\ l \in Seq(Ids) /\ ToSet(l) \subseteq Mine(i)
        /\ \A id \in ToSet(l), e \in Mine(i) \ ToSet(l) : rows[id].created >= rows[e].created
    BY <2>3, FrontOfOrder
  <2> HIDE DEF l
  <2>5. ASSUME NEW j \in DOMAIN l, NEW k \in DOMAIN l, l[j] = l[k] PROVE j = k
    <3>1. j \in 1..Len(s) /\ k \in 1..Len(s) /\ s[j] = s[k]
      BY <1>2, <2>3, <2>4, <2>5
    <3> QED
      BY <1>2, <3>1 DEF Bijection, Injection, IsInjective
  <2>6. q \in Nat => Listed(s, q) = l
    BY <2>1, <2>2
  <2>7. q \in Nat => l # None
    BY <2>4, ApiAssumption
  <2> QED
    BY <1>2, <2>2, <2>3, <2>4, <2>5, <2>6, <2>7
<1> QED
  BY <1>3, <1>4

\* A list is the newest of the caller's records, for any number of them, any order among
\* equals and any limit, and as long as a limit that is not below 0 allows (routes.ts:159-181,
\* store/memory.ts:86-94, postgres.ts:197-206).
THEOREM ListsAreNewest == Spec => []ListNewest
  BY NewestListed, PTL

==============================================================================
