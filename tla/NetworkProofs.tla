---------------------------- MODULE NetworkProofs ----------------------------
(***************************************************************************)
(* The Internet checksums of the network path, for lanes of any width,     *)
(* words of 8, 16 or 32 of them (the code's are 32 of 16 bits), and every  *)
(* header length that fits a word.                                         *)
(*                                                                         *)
(* Adding with the carry brought around changes a sum by a multiple of     *)
(* Base - 1, and makes nothing only of nothing: what the sums of the two   *)
(* halves of a word's lanes add up to is, in this sense, alike, and so,    *)
(* halving on, is the one lane that is left.                               *)
(***************************************************************************)
EXTENDS MCNetworkRx, WellFoundedInduction, TLAPS

-----------------------------------------------------------------------------
(* Induction, for sets of numbers. *)

Less == {pair \in Nat \X Nat : pair[1] < pair[2]}
LEMMA SetInduction ==
  ASSUME NEW S, 0 \in S, \A n \in Nat : n \in S => n + 1 \in S
  PROVE  Nat \subseteq S
<1> DEFINE T == Nat \ S
<1>1. SUFFICES ASSUME T # {}
               PROVE  FALSE
  OBVIOUS
<1>2. IsWellFoundedOn(Less, Nat)
  BY NatLessThanWellFounded DEF OpToRel, Less
<1>3. T \subseteq Nat
  OBVIOUS
<1>4. PICK x \in T : \A y \in T : <<y, x>> \notin Less
  <2> HIDE DEF T
  <2>1. QED
    BY <1>1, <1>2, <1>3, WFMin
<1>5. x \in Nat /\ x # 0 /\ x - 1 \in Nat
  BY <1>3, <1>4
<1>6. <<x - 1, x>> \in Less
  BY <1>5 DEF Less
<1>7. x - 1 \in S
  BY <1>4, <1>5, <1>6
<1>8. (x - 1) + 1 \in S
  BY <1>5, <1>7
<1>9. QED
  BY <1>4, <1>5, <1>8

-----------------------------------------------------------------------------
(* Sums of lanes. *)

Totals(s, g, n) == g = [j \in 0..n |-> IF j = 0 THEN 0 ELSE g[j - 1] + s[j - 1]]

LEMMA TotalsExist ==
  ASSUME NEW s, NEW n \in Nat
  PROVE  \E g : Totals(s, g, n)
<1> DEFINE S == {m \in Nat : \E g : Totals(s, g, m)}
<1>1. 0 \in S
  <2>1. Totals(s, [j \in 0..0 |-> 0], 0)
    BY DEF Totals
  <2>2. QED
    BY <2>1
<1>2. ASSUME NEW m \in Nat, m \in S
      PROVE  m + 1 \in S
  <2>1. PICK g : Totals(s, g, m)
    BY <1>2
  <2> DEFINE h == [j \in 0..(m + 1) |-> IF j = 0 THEN 0 ELSE g[j - 1] + s[j - 1]]
  <2>2. \A j \in 0..m : h[j] = g[j]
    BY <2>1 DEF Totals
  <2>3. \A j \in 0..(m + 1) : j # 0 => j - 1 \in 0..m
    OBVIOUS
  <2>4. \A j \in 0..(m + 1) : j # 0 => h[j - 1] = g[j - 1]
    BY <2>2, <2>3
  <2>5. h = [j \in 0..(m + 1) |-> IF j = 0 THEN 0 ELSE h[j - 1] + s[j - 1]]
    <3> DEFINE G(j) == IF j = 0 THEN 0 ELSE g[j - 1] + s[j - 1]
               H(j) == IF j = 0 THEN 0 ELSE h[j - 1] + s[j - 1]
    <3>1. h = [j \in 0..(m + 1) |-> G(j)] /\ \A j \in 0..(m + 1) : G(j) = H(j)
      <4> HIDE DEF h
      <4>1. \A j \in 0..(m + 1) : G(j) = H(j)
        BY <2>4
      <4>2. h = [j \in 0..(m + 1) |-> G(j)]
        BY DEF h
      <4>3. QED
        BY <4>1, <4>2
    <3> HIDE DEF h, G, H
    <3>2. h = [j \in 0..(m + 1) |-> H(j)]
      BY <3>1
    <3>3. QED
      BY <3>2 DEF H
  <2>6. Totals(s, h, m + 1)
    BY <2>5 DEF Totals
  <2>7. QED
    <3> HIDE DEF h
    <3>1. QED
      BY <2>6
<1>3. Nat \subseteq S
  <2> HIDE DEF S
  <2>1. QED
    BY <1>1, <1>2, SetInduction
<1>4. QED
  BY <1>3

LEMMA TotalIsLast ==
  ASSUME NEW s, NEW n \in Nat
  PROVE  \E g : Totals(s, g, n) /\ Total(s, n) = g[n]
<1> DEFINE g == CHOOSE f : f = [j \in 0..n |-> IF j = 0 THEN 0 ELSE f[j - 1] + s[j - 1]]
<1>1. g = CHOOSE f : Totals(s, f, n)
  BY DEF Totals
<1>2. Total(s, n) = g[n]
  BY DEF Total
<1> HIDE DEF g
<1>3. Totals(s, g, n)
  BY <1>1, TotalsExist
<1>4. QED
  BY <1>2, <1>3

\* Two of them agree as far as both go, if their lanes do.
LEMMA TotalsAgree ==
  ASSUME NEW s, NEW t, NEW g, NEW h, NEW m \in Nat, NEW n \in Nat, m <= n,
         Totals(s, g, m), Totals(t, h, n), \A i \in 0..(m - 1) : s[i] = t[i]
  PROVE  \A j \in 0..m : g[j] = h[j]
<1> DEFINE S == {j \in Nat : j <= m => g[j] = h[j]}
<1>1. 0 \in S
  <2>1. 0 \in 0..m /\ 0 \in 0..n
    OBVIOUS
  <2>2. g[0] = 0 /\ h[0] = 0
    BY <2>1 DEF Totals
  <2>3. QED
    BY <2>2
<1>2. ASSUME NEW j \in Nat, j \in S
      PROVE  j + 1 \in S
  <2>1. SUFFICES ASSUME j + 1 <= m
                 PROVE  g[j + 1] = h[j + 1]
    OBVIOUS
  <2>2. g[j] = h[j] /\ s[j] = t[j]
    BY <1>2, <2>1
  <2>3. PICK k : k = j + 1 /\ k \in 0..m /\ k \in 0..n /\ k # 0 /\ k - 1 = j
    BY <2>1
  <2>4. g[k] = g[j] + s[j]
    BY <2>3 DEF Totals
  <2>5. h[k] = h[j] + t[j]
    BY <2>3 DEF Totals
  <2>6. QED
    BY <2>2, <2>3, <2>4, <2>5
<1>3. Nat \subseteq S
  <2> HIDE DEF S
  <2>1. QED
    BY <1>1, <1>2, SetInduction
<1>4. QED
  BY <1>3

LEMMA TotalGrows ==
  ASSUME NEW s, NEW n \in Nat
  PROVE  Total(s, 0) = 0 /\ Total(s, n + 1) = Total(s, n) + s[n]
<1>1. PICK z : Totals(s, z, 0) /\ Total(s, 0) = z[0]
  BY TotalIsLast
<1>2. z[0] = 0
  BY <1>1 DEF Totals
<1>3. PICK g : Totals(s, g, n) /\ Total(s, n) = g[n]
  BY TotalIsLast
<1>4. PICK k : k = n + 1 /\ k \in Nat /\ n <= k /\ k \in 0..k /\ k # 0 /\ k - 1 = n
  OBVIOUS
<1>5. PICK h : Totals(s, h, k) /\ Total(s, k) = h[k]
  BY <1>4, TotalIsLast
<1>6. g[n] = h[n]
  BY <1>3, <1>4, <1>5, TotalsAgree
<1>7. h[k] = h[n] + s[n]
  BY <1>4, <1>5 DEF Totals
<1>8. QED
  BY <1>1, <1>2, <1>3, <1>4, <1>5, <1>6, <1>7

-----------------------------------------------------------------------------
(* Adding with the carry brought around. *)

LEMMA Divided ==
  ASSUME NEW b \in Nat \ {0}, NEW q \in Int, NEW r \in 0..(b - 1)
  PROVE  (q * b + r) \div b = q /\ (q * b + r) % b = r
OBVIOUS

LEMMA PlusValue ==
  ASSUME NEW a \in Lane, NEW b \in Lane
  PROVE  /\ Plus(a, b) = IF a + b < Base THEN a + b ELSE a + b + 1 - Base
         /\ Plus(a, b) \in Lane
<1> DEFINE s == a + b
<1>1. Base \in Nat \ {0, 1}
  BY ChecksumAssumption
<1>2. s \in 0..(2 * Base - 1) /\ 2 * Base \in Nat \ {0}
  BY <1>1 DEF Lane
<1>3. s = 0 * (2 * Base) + s
  BY <1>1, <1>2
<1>4. s % (2 * Base) = s
  BY <1>2, <1>3, Divided, 0 \in Int
<1>5. CASE s < Base
  <2>1. s = 0 * Base + s /\ s \in 0..(Base - 1)
    BY <1>1, <1>2, <1>5
  <2>2. s \div Base = 0 /\ s % Base = s
    BY <1>1, <2>1, Divided, 0 \in Int
  <2>3. EndAround(s) = s
    BY <1>2, <2>2 DEF EndAround
  <2>4. QED
    BY <1>1, <1>2, <1>4, <1>5, <2>3 DEF Plus, Lane
<1>6. CASE ~(s < Base)
  <2>1. s = 1 * Base + (s - Base) /\ s - Base \in 0..(Base - 1)
    BY <1>1, <1>2, <1>6 DEF Lane
  <2>2. s \div Base = 1
    BY <1>1, <2>1, Divided, 1 \in Int
  <2>3. s + 1 = 1 * Base + (s + 1 - Base) /\ s + 1 - Base \in 0..(Base - 1)
    BY <1>1, <1>2, <1>6 DEF Lane
  <2>4. (s + 1) % Base = s + 1 - Base
    <3> HIDE DEF s
    <3>1. Base \in Nat \ {0} /\ 1 \in Int
      BY <1>1
    <3>2. QED
      BY <2>3, <3>1, Divided
  <2>5. EndAround(s) = s + 1 - Base
    BY <2>2, <2>4 DEF EndAround
  <2>6. QED
    BY <1>1, <1>4, <1>6, <2>3, <2>5 DEF Plus, Lane
<1>7. QED
  BY <1>5, <1>6

-----------------------------------------------------------------------------
(* x is y but for some times Base - 1, and neither is nothing alone. *)

Alike(x, y) ==
    /\ x \in Nat /\ y \in Nat
    /\ x = 0 <=> y = 0
    /\ \E k \in Nat : x = y + k * (Base - 1)

LEMMA AlikeItself ==
  ASSUME NEW x \in Nat
  PROVE  Alike(x, x)
<1>1. x = x + 0 * (Base - 1)
  BY ChecksumAssumption
<1>2. QED
  BY <1>1 DEF Alike

LEMMA Distributive ==
  ASSUME NEW k \in Nat, NEW l \in Nat, NEW m \in Nat
  PROVE  k * m \in Nat /\ l * m \in Nat /\ (k + l) * m = k * m + l * m
OBVIOUS

LEMMA AlikeTransitive ==
  ASSUME NEW x, NEW y, NEW z, Alike(x, y), Alike(y, z)
  PROVE  Alike(x, z)
<1>1. PICK k \in Nat : x = y + k * (Base - 1)
  BY DEF Alike
<1>2. PICK l \in Nat : y = z + l * (Base - 1)
  BY DEF Alike
<1>3. x \in Nat /\ y \in Nat /\ z \in Nat /\ (x = 0 <=> z = 0)
  BY DEF Alike
<1> DEFINE M == Base - 1
<1>4. M \in Nat
  BY ChecksumAssumption
<1>5. x = y + k * M /\ y = z + l * M
  BY <1>1, <1>2
<1> HIDE DEF M
<1>6. x = z + (k + l) * M
  BY <1>3, <1>4, <1>5, Distributive
<1>7. QED
  BY <1>3, <1>6, k + l \in Nat DEF Alike, M

LEMMA AlikeSum ==
  ASSUME NEW x, NEW y, NEW u, NEW v, Alike(x, y), Alike(u, v)
  PROVE  Alike(x + u, y + v)
<1>1. PICK k \in Nat : x = y + k * (Base - 1)
  BY DEF Alike
<1>2. PICK l \in Nat : u = v + l * (Base - 1)
  BY DEF Alike
<1>3. /\ x \in Nat /\ y \in Nat /\ u \in Nat /\ v \in Nat
      /\ x + u \in Nat /\ y + v \in Nat /\ (x + u = 0 <=> y + v = 0)
  BY DEF Alike
<1> DEFINE M == Base - 1
<1>4. M \in Nat
  BY ChecksumAssumption
<1>5. x = y + k * M /\ u = v + l * M
  BY <1>1, <1>2
<1> HIDE DEF M
<1>6. x + u = (y + v) + (k + l) * M
  BY <1>3, <1>4, <1>5, Distributive
<1>7. QED
  BY <1>3, <1>6, k + l \in Nat DEF Alike, M

\* The addition of two lanes.
LEMMA AlikePlus ==
  ASSUME NEW a \in Lane, NEW b \in Lane
  PROVE  Alike(a + b, Plus(a, b))
<1>1. Base \in Nat \ {0, 1} /\ a \in Nat /\ b \in Nat /\ a + b \in Nat
  BY ChecksumAssumption DEF Lane
<1>2. CASE a + b < Base
  BY <1>1, <1>2, PlusValue, AlikeItself
<1>3. CASE ~(a + b < Base)
  <2>1. Plus(a, b) = a + b + 1 - Base /\ Plus(a, b) \in Nat
    BY <1>1, <1>3, PlusValue DEF Lane
  <2>2. a + b = Plus(a, b) + 1 * (Base - 1)
    BY <1>1, <2>1
  <2>3. Plus(a, b) # 0 /\ a + b # 0
    BY <1>1, <1>3, <2>1
  <2>4. QED
    BY <1>1, <2>1, <2>2, <2>3 DEF Alike
<1>4. QED
  BY <1>2, <1>3

-----------------------------------------------------------------------------
(* Folding: half the lanes add up alike. *)

LEMMA TotalLane ==
  ASSUME NEW n \in Nat, NEW s, \A i \in 0..(n - 1) : s[i] \in Nat
  PROVE  \A m \in 0..n : Total(s, m) \in Nat
<1> DEFINE S == {m \in Nat : m <= n => Total(s, m) \in Nat}
<1>1. 0 \in S
  BY TotalGrows, 0 \in Nat
<1>2. ASSUME NEW m \in Nat, m \in S
      PROVE  m + 1 \in S
  <2>1. SUFFICES ASSUME m + 1 <= n
                 PROVE  Total(s, m + 1) \in Nat
    OBVIOUS
  <2>2. Total(s, m) \in Nat /\ s[m] \in Nat
    BY <1>2, <2>1
  <2>3. QED
    BY <2>2, TotalGrows
<1>3. Nat \subseteq S
  <2> HIDE DEF S
  <2>1. QED
    BY <1>1, <1>2, SetInduction
<1>4. QED
  BY <1>3

\* The sum of the first m of each half.
LEMMA HalfPrefix ==
  ASSUME NEW n \in Nat, NEW s, \A i \in 0..(2 * n - 1) : s[i] \in Lane
  PROVE  \A m \in 0..n :
           Alike(Total(s, m) + (Total(s, n + m) - Total(s, n)), Total(Half(s, n), m))
<1> DEFINE First(m) == Total(s, m) + (Total(s, n + m) - Total(s, n))
           S == {m \in Nat : m <= n => Alike(First(m), Total(Half(s, n), m))}
<1>1. \A m \in 0..(2 * n) : Total(s, m) \in Nat
  <2>1. 2 * n \in Nat /\ \A i \in 0..(2 * n - 1) : s[i] \in Nat
    BY ChecksumAssumption DEF Lane
  <2>2. QED
    BY <2>1, TotalLane
<1>2. 0 \in S
  <2>1. Total(s, 0) = 0 /\ Total(Half(s, n), 0) = 0 /\ n + 0 = n /\ Total(s, n) \in Nat
    BY <1>1, TotalGrows, 0 \in Nat
  <2>2. First(0) = 0
    BY <2>1
  <2>3. QED
    BY <2>1, <2>2, AlikeItself, 0 \in Nat
<1>3. ASSUME NEW m \in Nat, m \in S
      PROVE  m + 1 \in S
  <2>1. SUFFICES ASSUME m + 1 <= n
                 PROVE  Alike(First(m + 1), Total(Half(s, n), m + 1))
    OBVIOUS
  <2>2. s[m] \in Lane /\ s[n + m] \in Lane
    BY <2>1
  <2>3. Half(s, n)[m] = Plus(s[m], s[n + m])
    <3>1. m \in 0..(n - 1) /\ m + n = n + m
      BY <2>1
    <3>2. QED
      BY <3>1 DEF Half
  <2>4. /\ Total(s, m + 1) = Total(s, m) + s[m]
        /\ Total(Half(s, n), m + 1) = Total(Half(s, n), m) + Half(s, n)[m]
    BY TotalGrows
  <2>5. Total(s, n + (m + 1)) = Total(s, n + m) + s[n + m]
    <3>1. n + m \in Nat /\ n + (m + 1) = (n + m) + 1
      OBVIOUS
    <3>2. QED
      BY <3>1, TotalGrows
  <2>6. Alike(First(m), Total(Half(s, n), m))
    BY <1>3, <2>1
  <2>7. Alike(s[m] + s[n + m], Plus(s[m], s[n + m]))
    BY <2>2, AlikePlus
  <2>8. Alike(First(m) + (s[m] + s[n + m]), Total(Half(s, n), m) + Half(s, n)[m])
    BY <2>3, <2>6, <2>7, AlikeSum
  <2>9. First(m + 1) = First(m) + (s[m] + s[n + m])
    <3>1. /\ Total(s, m) \in Nat /\ Total(s, n + m) \in Nat /\ Total(s, n) \in Nat
          /\ s[m] \in Nat /\ s[n + m] \in Nat
      BY <1>1, <2>1, <2>2, ChecksumAssumption DEF Lane
    <3>2. QED
      BY <2>4, <2>5, <3>1
  <2>10. QED
    BY <2>4, <2>8, <2>9
<1>4. Nat \subseteq S
  <2> HIDE DEF S
  <2>1. QED
    BY <1>2, <1>3, SetInduction
<1>5. QED
  BY <1>4

LEMMA HalfAlike ==
  ASSUME NEW n \in Nat, NEW s, \A i \in 0..(2 * n - 1) : s[i] \in Lane
  PROVE  /\ Alike(Total(s, 2 * n), Total(Half(s, n), n))
         /\ \A i \in 0..(n - 1) : Half(s, n)[i] \in Lane
<1>1. Alike(Total(s, n) + (Total(s, n + n) - Total(s, n)), Total(Half(s, n), n))
  BY HalfPrefix, n \in 0..n
<1>2. Total(s, n) \in Nat /\ Total(s, n + n) \in Nat
  <2>1. 2 * n \in Nat /\ n \in 0..(2 * n) /\ n + n \in 0..(2 * n)
        /\ \A i \in 0..(2 * n - 1) : s[i] \in Nat
    BY ChecksumAssumption DEF Lane
  <2>2. QED
    BY <2>1, TotalLane
<1>3. Total(s, n) + (Total(s, n + n) - Total(s, n)) = Total(s, n + n) /\ n + n = 2 * n
  BY <1>2
<1>4. ASSUME NEW i \in 0..(n - 1)
      PROVE  Half(s, n)[i] \in Lane
  <2>1. s[i] \in Lane /\ s[i + n] \in Lane
    OBVIOUS
  <2>2. Half(s, n)[i] = Plus(s[i], s[i + n])
    BY DEF Half
  <2>3. QED
    BY <2>1, <2>2, PlusValue
<1>5. QED
  BY <1>1, <1>3, <1>4

LEMMA FoldedAlike ==
  ASSUME NEW s, \A i \in 0..(Lanes - 1) : s[i] \in Lane
  PROVE  Folded(s) \in Lane /\ Alike(Total(s, Lanes), Folded(s))
<1> DEFINE upTo16 == IF Lanes = 32 THEN Half(s, 16) ELSE s
           upTo8 == IF Lanes >= 16 THEN Half(upTo16, 8) ELSE upTo16
           Sums(t, n) == /\ \A i \in 0..(n - 1) : t[i] \in Lane
                         /\ Alike(Total(s, Lanes), Total(t, n))
<1>0. Lanes \in {8, 16, 32}
  BY ChecksumAssumption
<1>1. Sums(s, Lanes)
  <2>1. Lanes \in Nat /\ \A i \in 0..(Lanes - 1) : s[i] \in Nat
    BY <1>0, ChecksumAssumption DEF Lane
  <2>2. Total(s, Lanes) \in Nat
    BY <2>1, TotalLane, Lanes \in 0..Lanes
  <2>3. QED
    BY <2>2, AlikeItself
<1>2. ASSUME NEW t, NEW n \in Nat, Sums(t, 2 * n)
      PROVE  Sums(Half(t, n), n)
  BY <1>2, HalfAlike, AlikeTransitive
<1> HIDE DEF Sums
<1>3. Sums(upTo16, IF Lanes >= 16 THEN 16 ELSE 8)
  BY <1>0, <1>1, <1>2, 2 * 16 = 32
<1>4. Sums(upTo8, 8)
  <2> HIDE DEF upTo16
  <2>1. CASE Lanes >= 16
    <3>1. Sums(Half(upTo16, 8), 8)
      BY <1>2, <1>3, <2>1, 2 * 8 = 16
    <3>2. QED
      BY <2>1, <3>1
  <2>2. CASE ~(Lanes >= 16)
    BY <1>3, <2>2
  <2>3. QED
    BY <2>1, <2>2
<1> HIDE DEF upTo8
<1>5. Sums(Half(upTo8, 4), 4)
  BY <1>2, <1>4, 2 * 4 = 8
<1>6. Sums(Half(Half(upTo8, 4), 2), 2)
  BY <1>2, <1>5, 2 * 2 = 4
<1>7. Sums(Half(Half(Half(upTo8, 4), 2), 1), 1)
  BY <1>2, <1>6, 2 * 1 = 2
<1>8. Folded(s) = Half(Half(Half(upTo8, 4), 2), 1)[0]
  BY DEF Folded, upTo8
<1> DEFINE last == Half(Half(Half(upTo8, 4), 2), 1)
<1>9. Sums(last, 1) /\ Folded(s) = last[0]
  BY <1>7, <1>8
<1> HIDE DEF last
<1>10. last[0] \in Lane /\ Alike(Total(s, Lanes), Total(last, 1))
  BY <1>9 DEF Sums
<1>11. Total(last, 1) = last[0]
  <2>1. Total(last, 0) = 0 /\ Total(last, 0 + 1) = Total(last, 0) + last[0] /\ last[0] \in Int
    BY <1>10, TotalGrows, ChecksumAssumption, 0 \in Nat DEF Lane
  <2>2. QED
    BY <2>1, 0 + 1 = 1
<1>12. QED
  BY <1>9, <1>10, <1>11

-----------------------------------------------------------------------------
(* The lanes that are summed up. *)

LEMMA SameTotal ==
  ASSUME NEW s, NEW t, NEW n \in Nat, \A i \in 0..(n - 1) : s[i] = t[i]
  PROVE  Total(s, n) = Total(t, n)
<1>1. PICK g : Totals(s, g, n) /\ Total(s, n) = g[n]
  BY TotalIsLast
<1>2. PICK h : Totals(t, h, n) /\ Total(t, n) = h[n]
  BY TotalIsLast
<1>3. QED
  BY <1>1, <1>2, TotalsAgree, n \in 0..n, n <= n

\* Lanes of zeros add nothing.
LEMMA ZeroTail ==
  ASSUME NEW s, NEW m \in Nat, NEW n \in Nat, m <= n, Total(s, m) \in Nat,
         \A i \in m..(n - 1) : s[i] = 0
  PROVE  Total(s, n) = Total(s, m)
<1> DEFINE S == {d \in Nat : m + d <= n => Total(s, m + d) = Total(s, m)}
<1>1. 0 \in S
  BY m + 0 = m
<1>2. ASSUME NEW d \in Nat, d \in S
      PROVE  d + 1 \in S
  <2>1. SUFFICES ASSUME m + (d + 1) <= n
                 PROVE  Total(s, m + (d + 1)) = Total(s, m)
    OBVIOUS
  <2>2. Total(s, m + d) = Total(s, m) /\ s[m + d] = 0
    BY <1>2, <2>1
  <2>3. Total(s, (m + d) + 1) = Total(s, m + d) + s[m + d]
    BY TotalGrows, m + d \in Nat
  <2>4. QED
    BY <2>2, <2>3, (m + d) + 1 = m + (d + 1)
<1>3. Nat \subseteq S
  <2> HIDE DEF S
  <2>1. QED
    BY <1>1, <1>2, SetInduction
<1>4. n - m \in S /\ m + (n - m) = n
  BY <1>3
<1>5. QED
  BY <1>4

\* A lane more adds itself.
LEMMA LaneMore ==
  ASSUME NEW s, NEW t, NEW j \in Nat, NEW n \in Nat, j < n, s[j] = 0, t[j] \in Nat,
         \A i \in 0..(n - 1) : s[i] \in Nat /\ (i # j => s[i] = t[i])
  PROVE  Total(t, n) = Total(s, n) + t[j]
<1> DEFINE S == {m \in Nat : m <= n =>
                    Total(s, m) \in Nat /\ Total(t, m) = Total(s, m) + (IF j < m THEN t[j] ELSE 0)}
<1>1. 0 \in S
  BY TotalGrows, 0 \in Nat
<1>2. ASSUME NEW m \in Nat, m \in S
      PROVE  m + 1 \in S
  <2>1. SUFFICES ASSUME m + 1 <= n
                 PROVE  /\ Total(s, m + 1) \in Nat
                        /\ Total(t, m + 1) = Total(s, m + 1) + (IF j < m + 1 THEN t[j] ELSE 0)
    OBVIOUS
  <2>2. /\ Total(s, m) \in Nat /\ Total(t, m) = Total(s, m) + (IF j < m THEN t[j] ELSE 0)
        /\ s[m] \in Nat /\ (m # j => s[m] = t[m])
    BY <1>2, <2>1
  <2>3. Total(s, m + 1) = Total(s, m) + s[m] /\ Total(t, m + 1) = Total(t, m) + t[m]
    BY TotalGrows
  <2>4. QED
    BY <2>2, <2>3
<1>3. Nat \subseteq S
  <2> HIDE DEF S
  <2>1. QED
    BY <1>1, <1>2, SetInduction
<1>4. n \in S
  BY <1>3
<1>5. QED
  BY <1>4

LEMMA SubSumsLane ==
  ASSUME NEW word \in LaneWord, NEW h \in Nat
  PROVE  \A i \in 0..(Lanes - 1) :
           /\ SubSums(word, h, FALSE)[i] \in Lane /\ SubSums(word, h, TRUE)[i] \in Lane
           /\ SubSums(word, h, FALSE)[i] = IF i < 2 * h THEN word[i] ELSE 0
           /\ SubSums(word, h, TRUE)[i] = IF i < 2 * h /\ i # 5 THEN word[i] ELSE 0
<1>1. Lanes \in {8, 16, 32} /\ Base \in Nat \ {0, 1}
  BY ChecksumAssumption
<1> TAKE i \in 0..(Lanes - 1)
<1>2. i \in Nat /\ word[i] \in Lane /\ 0 \in Lane
  BY <1>1 DEF LaneWord, Lane
<1>3. i \div 2 < h <=> i < 2 * h
  BY <1>1, <1>2
<1>4. Plus(0, word[i]) = word[i]
  BY <1>1, <1>2, PlusValue DEF Lane
<1>5. SubSums(word, h, FALSE)[i] = IF i \div 2 < h THEN Plus(0, word[i]) ELSE 0
  BY DEF SubSums
<1>6. SubSums(word, h, TRUE)[i] = IF i \div 2 < h /\ i # 5 THEN Plus(0, word[i]) ELSE 0
  BY DEF SubSums
<1>7. QED
  BY <1>2, <1>3, <1>4, <1>5, <1>6

LEMMA SubSumsTotal ==
  ASSUME NEW word \in LaneWord, NEW h \in 3..(Lanes \div 2)
  PROVE  Total(SubSums(word, h, FALSE), Lanes) = HeaderTotal(word, h)
<1> DEFINE s == SubSums(word, h, FALSE)
<1>1. Lanes \in {8, 16, 32} /\ Base \in Nat \ {0, 1}
  BY ChecksumAssumption
<1>2. h \in Nat /\ 2 * h \in Nat /\ 2 * h <= Lanes /\ Lanes \in Nat
  BY <1>1
<1>3. \A i \in 0..(Lanes - 1) : s[i] \in Nat /\ s[i] = IF i < 2 * h THEN word[i] ELSE 0
  <2>1. \A i \in 0..(Lanes - 1) : s[i] \in Lane /\ s[i] = IF i < 2 * h THEN word[i] ELSE 0
    BY <1>2, SubSumsLane
  <2> HIDE DEF s
  <2>2. QED
    BY <1>1, <2>1 DEF Lane
<1> HIDE DEF s
<1>4. Total(s, 2 * h) = Total(word, 2 * h)
  <2>1. \A i \in 0..(2 * h - 1) : s[i] = word[i]
    BY <1>2, <1>3
  <2>2. QED
    BY <1>2, <2>1, SameTotal
<1>5. Total(s, 2 * h) \in Nat
  BY <1>2, <1>3, TotalLane, 2 * h \in 0..Lanes
<1>6. Total(s, Lanes) = Total(s, 2 * h)
  <2>1. \A i \in (2 * h)..(Lanes - 1) : s[i] = 0
    BY <1>2, <1>3
  <2>2. QED
    BY <1>2, <1>5, <2>1, ZeroTail
<1>7. QED
  BY <1>4, <1>6 DEF s, HeaderTotal

-----------------------------------------------------------------------------
(* A sum is right if and only if it folds into ones. *)

LEMMA RightFolds ==
  ASSUME NEW total, NEW sum \in Lane, Alike(total, sum)
  PROVE  Right(total) <=> sum = Base - 1
<1> DEFINE M == Base - 1
<1>1. M \in Nat \ {0} /\ Base = M + 1
  BY ChecksumAssumption
<1>2. PICK k \in Nat : total = sum + k * M
  BY DEF Alike
<1>3. sum \in 0..M /\ total \in Nat /\ (total = 0 <=> sum = 0)
  BY <1>1 DEF Alike, Lane
<1> HIDE DEF M
<1>4. CASE sum = M
  <2>1. k * M \in Nat /\ (k + 1) * M = k * M + M /\ k + 1 \in Int /\ 0 \in 0..(M - 1)
    BY <1>1, Distributive, 1 \in Nat, 1 * M = M
  <2>2. total = (k + 1) * M + 0
    BY <1>1, <1>2, <1>4, <2>1
  <2>3. total % M = 0
    BY <1>1, <2>1, <2>2, Divided
  <2>4. total > 0
    BY <1>1, <1>3, <1>4
  <2>5. QED
    BY <1>4, <2>3, <2>4 DEF Right, M
<1>5. CASE sum # M
  <2>1. k * M \in Nat /\ sum \in 0..(M - 1) /\ k \in Int
    BY <1>1, <1>3, <1>5
  <2>2. total = k * M + sum
    BY <1>2, <2>1
  <2>3. total % M = sum
    BY <1>1, <2>1, <2>2, Divided
  <2>4. ~(total > 0 /\ total % M = 0)
    BY <1>3, <2>3
  <2>5. QED
    BY <1>5, <2>4 DEF Right, M
<1>6. QED
  BY <1>4, <1>5

LEMMA CheckIsRight ==
  ASSUME NEW word \in LaneWord, NEW h \in 3..(Lanes \div 2)
  PROVE  CheckIpv4(word, h) <=> Right(HeaderTotal(word, h))
<1>1. Lanes \in {8, 16, 32} /\ Base \in Nat \ {0, 1} /\ h \in Nat
  BY ChecksumAssumption
<1> DEFINE s == SubSums(word, h, FALSE)
<1>2. \A i \in 0..(Lanes - 1) : s[i] \in Lane
  BY <1>1, SubSumsLane
<1>3. Total(s, Lanes) = HeaderTotal(word, h)
  BY SubSumsTotal
<1> HIDE DEF s
<1>4. Folded(s) \in Lane /\ Alike(HeaderTotal(word, h), Folded(s))
  BY <1>2, <1>3, FoldedAlike
<1>5. Right(HeaderTotal(word, h)) <=> Folded(s) = Base - 1
  BY <1>4, RightFolds
<1>6. Complement(Folded(s)) = 0 <=> Folded(s) = Base - 1
  BY <1>1, <1>4 DEF Complement, Lane
<1>7. QED
  BY <1>5, <1>6 DEF CheckIpv4, s

\* What the transmit path puts in is accepted.
LEMMA FinalIsRight ==
  ASSUME NEW word \in LaneWord, NEW h \in 3..(Lanes \div 2)
  PROVE  CheckIpv4([word EXCEPT ![5] = FinalizeIpv4(word, h)], h)
<1>1. Lanes \in {8, 16, 32} /\ Base \in Nat \ {0, 1} /\ h \in Nat /\ 5 < 2 * h
      /\ 5 \in 0..(Lanes - 1) /\ Lanes \in Nat
  BY ChecksumAssumption
<1> DEFINE s == SubSums(word, h, TRUE)
           c == FinalizeIpv4(word, h)
           stamped == [word EXCEPT ![5] = c]
           t == SubSums(stamped, h, FALSE)
<1>2. \A i \in 0..(Lanes - 1) :
        s[i] \in Lane /\ s[i] = IF i < 2 * h /\ i # 5 THEN word[i] ELSE 0
  BY <1>1, SubSumsLane
<1>3. Folded(s) \in Lane /\ Alike(Total(s, Lanes), Folded(s))
  <2> HIDE DEF s
  <2>1. QED
    BY <1>2, FoldedAlike
<1>4. c = Base - 1 - Folded(s) /\ c \in Lane
  <2>1. c = Base - 1 - Folded(s)
    BY DEF FinalizeIpv4, Complement
  <2> HIDE DEF c, s
  <2>2. QED
    BY <1>1, <1>3, <2>1 DEF Lane
<1>5. stamped \in LaneWord /\ \A i \in 0..(Lanes - 1) : stamped[i] = IF i = 5 THEN c ELSE word[i]
  <2> HIDE DEF c
  <2>1. QED
    BY <1>1, <1>4 DEF LaneWord
<1>6. \A i \in 0..(Lanes - 1) :
        t[i] \in Lane /\ t[i] = IF i < 2 * h THEN (IF i = 5 THEN c ELSE word[i]) ELSE 0
  <2> HIDE DEF stamped, c
  <2>1. \A i \in 0..(Lanes - 1) :
          t[i] \in Lane /\ t[i] = IF i < 2 * h THEN stamped[i] ELSE 0
    BY <1>1, <1>5, SubSumsLane
  <2> HIDE DEF t
  <2>2. QED
    BY <1>5, <2>1
<1> HIDE DEF s, c, stamped, t
<1>7. Total(t, Lanes) = Total(s, Lanes) + c
  <2>1. s[5] = 0 /\ t[5] = c /\ c \in Nat
    BY <1>1, <1>2, <1>4, <1>6 DEF Lane
  <2>2. \A i \in 0..(Lanes - 1) : s[i] \in Nat /\ (i # 5 => s[i] = t[i])
    BY <1>1, <1>2, <1>6 DEF Lane
  <2>3. \A j \in Nat : j = 5 => Total(t, Lanes) = Total(s, Lanes) + t[j]
    <3> SUFFICES ASSUME NEW j \in Nat, j = 5
                 PROVE  Total(t, Lanes) = Total(s, Lanes) + t[j]
      OBVIOUS
    <3>1. /\ j < Lanes /\ s[j] = 0 /\ t[j] \in Nat
          /\ \A i \in 0..(Lanes - 1) : s[i] \in Nat /\ (i # j => s[i] = t[i])
      BY <1>1, <2>1, <2>2
    <3>2. QED
      BY <1>1, <3>1, LaneMore
  <2>4. QED
    BY <2>1, <2>3, 5 \in Nat
<1>8. Alike(Total(t, Lanes), Base - 1)
  <2>1. Alike(c, c)
    BY <1>1, <1>4, AlikeItself DEF Lane
  <2>2. Alike(Total(s, Lanes) + c, Folded(s) + c)
    BY <1>3, <2>1, AlikeSum
  <2>3. Folded(s) + c = Base - 1
    BY <1>1, <1>3, <1>4 DEF Lane
  <2>4. QED
    BY <1>7, <2>2, <2>3
<1>9. Right(HeaderTotal(stamped, h))
  <2>1. Total(t, Lanes) = HeaderTotal(stamped, h)
    BY <1>5, SubSumsTotal DEF t
  <2>2. Base - 1 \in Lane
    BY <1>1 DEF Lane
  <2>3. QED
    BY <1>8, <2>1, <2>2, RightFolds
<1>10. CheckIpv4(stamped, h)
  BY <1>5, <1>9, CheckIsRight
<1>11. QED
  BY <1>10 DEF stamped, c

\* The verdict on a header, for every width of the lanes and every word: the
\* subtotals, the folding and the complement of ipv4_utils.cpp:474-576 and
\* ipv4.hpp:426-589 accept what ones' complement arithmetic accepts.
THEOREM EveryHeaderAgrees ==
  \A word \in LaneWord, h \in 3..(Lanes \div 2) : ChecksumsAgree(word, h)
BY CheckIsRight, FinalIsRight DEF ChecksumsAgree

-----------------------------------------------------------------------------
(* The checksum of a reply. *)

LEMMA ReplyValue ==
  ASSUME NEW checksum \in Lane
  PROVE  ReplyChecksum(checksum) =
           IF checksum + EchoRequest < Base THEN checksum + EchoRequest
           ELSE checksum + EchoRequest - (Base - 1)
<1> DEFINE d == Base - 1 - checksum - EchoRequest
<1>1. /\ Base \in Nat \ {0, 1} /\ EchoRequest \in 0..(Base - 1) /\ checksum \in 0..(Base - 1)
      /\ 2 * Base \in Nat \ {0}
  BY ChecksumAssumption DEF Lane
<1>2. Complement(checksum) - EchoRequest = d
  BY DEF Complement
<1>3. CASE d >= 0
  <2>1. d = 0 * (2 * Base) + d /\ d \in 0..(2 * Base - 1)
    BY <1>1, <1>3
  <2>2. d = 0 * Base + d /\ d \in 0..(Base - 1)
    BY <1>1, <1>3
  <2>3. d % (2 * Base) = d /\ d \div Base = 0 /\ d % Base = d
    <3> HIDE DEF d
    <3>1. d % (2 * Base) = d
      BY <1>1, <2>1, Divided, 0 \in Int
    <3>2. d \div Base = 0 /\ d % Base = d
      BY <1>1, <2>2, Divided, 0 \in Int
    <3>3. QED
      BY <3>1, <3>2
  <2>4. Borrow(d) = d
    BY <2>2, <2>3 DEF Borrow
  <2>5. QED
    BY <1>1, <1>2, <1>3, <2>3, <2>4 DEF ReplyChecksum, Complement
<1>4. CASE ~(d >= 0)
  <2> DEFINE e == 2 * Base + d
  <2>1. d = (-1) * (2 * Base) + e /\ e \in 0..(2 * Base - 1) /\ -1 \in Int
    BY <1>1, <1>4
  <2>2. e = 1 * Base + (e - Base) /\ e - Base \in 0..(Base - 1)
    BY <1>1, <1>4
  <2>3. e - 1 = 1 * Base + (e - 1 - Base) /\ e - 1 - Base \in 0..(Base - 1)
    BY <1>1, <1>4
  <2>4. d % (2 * Base) = e
    <3> HIDE DEF d, e
    <3>1. QED
      BY <1>1, <2>1, Divided
  <2>5. e \div Base = 1 /\ (e - 1) % Base = e - 1 - Base
    <3> HIDE DEF d, e
    <3>1. Base \in Nat \ {0} /\ 1 \in Int
      BY <1>1
    <3>2. e \div Base = 1
      BY <2>2, <3>1, Divided
    <3>3. (e - 1) % Base = e - 1 - Base
      BY <2>3, <3>1, Divided
    <3>4. QED
      BY <3>2, <3>3
  <2>6. Borrow(e) = e - 1 - Base
    BY <2>5 DEF Borrow
  <2>7. QED
    BY <1>1, <1>2, <1>4, <2>4, <2>6 DEF ReplyChecksum, Complement
<1>5. QED
  BY <1>3, <1>4

\* The correction of a checksum, for every checksum and every rest of a packet:
\* icmp_server.cpp:68-101 takes the type out and never loses the borrow.
THEOREM EveryReplyRight ==
  \A rest \in Nat, checksum \in Lane : ReplyRight(rest, checksum)
<1> SUFFICES ASSUME NEW rest \in Nat, NEW checksum \in Lane,
                    Right(EchoRequest + rest + checksum)
             PROVE  Right(rest + ReplyChecksum(checksum))
  BY DEF ReplyRight
<1> DEFINE M == Base - 1
           total == EchoRequest + rest + checksum
<1>1. /\ M \in Nat \ {0} /\ Base = M + 1 /\ EchoRequest \in 0..M /\ checksum \in 0..M
      /\ total \in Nat /\ total > 0 /\ total % M = 0
  BY ChecksumAssumption DEF Lane, Right
<1>2. CASE checksum + EchoRequest < Base
  <2>1. rest + ReplyChecksum(checksum) = total
    BY <1>1, <1>2, ReplyValue
  <2>2. QED
    BY <2>1
<1>3. CASE ~(checksum + EchoRequest < Base)
  <2>1. rest + ReplyChecksum(checksum) = total - M
    BY <1>1, <1>3, ReplyValue
  <2>2. total - M > 0 /\ total - M \in Nat
    BY <1>1, <1>3
  <2> HIDE DEF total, M
  <2>3. PICK q \in Int : total = q * M
    <3>1. total = (total \div M) * M + (total % M) /\ total \div M \in Int
      BY <1>1
    <3>2. QED
      BY <1>1, <3>1
  <2>4. (q - 1) * M = q * M - M
    BY <1>1
  <2>5. (total - M) % M = 0
    <3>1. total - M = (q - 1) * M + 0 /\ q - 1 \in Int /\ 0 \in 0..(M - 1)
      BY <1>1, <2>3, <2>4
    <3>2. QED
      BY <1>1, <3>1, Divided
  <2>6. QED
    BY <2>1, <2>2, <2>5 DEF Right, M
<1>4. QED
  BY <1>2, <1>3

-----------------------------------------------------------------------------
(* The system of MCNetworkRx.  A behaviour's header stays as it began. *)

InputTypeOK ==
    part = "checksum" => input \in [headerLength : 3..(Lanes \div 2), word : MCWord]

\* Every header and checksum that a behaviour starts with, for every width of the
\* lanes: ChecksumsAgree and ReplyRight (ipv4_utils.cpp:474-576, ipv4.hpp:426-589,
\* icmp_server.cpp:68-101).
THEOREM EveryChecksumRight ==
  MCSpec => []ChecksumsRight
<1>1. MCInit => InputTypeOK
  BY DEF MCInit, InputTypeOK
<1>2. InputTypeOK /\ [MCNext]_MCVars => InputTypeOK'
  BY DEF InputTypeOK, MCNext, MCVars
<1>3. InputTypeOK => ChecksumsRight
  <2> SUFFICES ASSUME part = "checksum",
                      input \in [headerLength : 3..(Lanes \div 2), word : MCWord]
               PROVE  /\ ChecksumsAgree(input.word, input.headerLength)
                      /\ \A checksum \in Lane :
                           ReplyRight(input.word[0] + input.word[1], checksum)
    BY DEF InputTypeOK, ChecksumsRight
  <2>1. input.word \in LaneWord /\ input.headerLength \in 3..(Lanes \div 2)
    BY DEF MCWord
  <2>2. ChecksumsAgree(input.word, input.headerLength)
    BY <2>1, EveryHeaderAgrees
  <2>3. input.word[0] + input.word[1] \in Nat
    <3>1. 0 \in 0..(Lanes - 1) /\ 1 \in 0..(Lanes - 1)
      BY ChecksumAssumption
    <3>2. input.word[0] \in Lane /\ input.word[1] \in Lane
      BY <2>1, <3>1 DEF LaneWord
    <3>3. QED
      BY <3>2, ChecksumAssumption DEF Lane
  <2>4. QED
    BY <2>2, <2>3, EveryReplyRight
<1>4. QED
  BY <1>1, <1>2, <1>3, PTL DEF MCSpec
=============================================================================
