--------------------------- MODULE FanCurveProofs ---------------------------
(***************************************************************************)
(* Proofs about FanCurve: the arithmetic of _curve_speed for every curve   *)
(* that core/validation.py accepts and every temperature, and the safety   *)
(* of the controller, the override and its watchdog for any number of use  *)
(* cases.                                                                  *)
(***************************************************************************)
EXTENDS FanCurve, TLAPS

Points == [temp : Int, speed : Int]
-----------------------------------------------------------------------------
(* Round, which is Python's.                                               *)

\* Euclidean division.
LEMMA DivMod ==
  ASSUME NEW n \in Int, NEW d \in Int, d > 0
  PROVE  n \div d \in Int /\ n % d \in 0..(d - 1) /\ n = d * (n \div d) + (n % d)
  OBVIOUS

LEMMA NextMultiple ==
  ASSUME NEW d \in Int, d > 0, NEW a \in Int, NEW b \in Int, a < b
  PROVE  d * a + d <= d * b
  OBVIOUS

\* The result is at most half a unit away.
LEMMA RoundIsNear ==
  ASSUME NEW n \in Int, NEW d \in Int, d > 0
  PROVE  Round(n, d) \in Int /\ 2 * (Round(n, d) * d - n) \in (-d)..d
<1> DEFINE q == n \div d
           r == n % d
<1>1. q \in Int /\ r \in 0..(d - 1) /\ n = d * q + r
  BY DivMod
<1>2. Round(n, d) = IF 2 * r < d \/ (2 * r = d /\ q % 2 = 0) THEN q ELSE q + 1
  BY DEF Round
<1> HIDE DEF q, r
<1>3. CASE Round(n, d) = q /\ 2 * r <= d
  BY <1>1, <1>3
<1>4. CASE Round(n, d) = q + 1 /\ 2 * r >= d
  <2>1. (q + 1) * d = d * q + d
    BY <1>1
  <2> QED
    BY <1>1, <1>4, <2>1
<1> QED
  BY <1>1, <1>2, <1>3, <1>4

\* Rounding keeps order, a half to even included.
LEMMA RoundIsMonotone ==
  ASSUME NEW n \in Int, NEW m \in Int, NEW d \in Int, d > 0, n <= m
  PROVE  Round(n, d) <= Round(m, d)
<1> DEFINE q == n \div d
           r == n % d
           p == m \div d
           s == m % d
<1>1. /\ q \in Int /\ r \in 0..(d - 1) /\ n = d * q + r
      /\ p \in Int /\ s \in 0..(d - 1) /\ m = d * p + s
  BY DivMod
<1>2. Round(n, d) = IF 2 * r < d \/ (2 * r = d /\ q % 2 = 0) THEN q ELSE q + 1
  BY DEF Round
<1>3. Round(m, d) = IF 2 * s < d \/ (2 * s = d /\ p % 2 = 0) THEN p ELSE p + 1
  BY DEF Round
<1> HIDE DEF q, r, p, s
<1>4. CASE p < q
  <2>1. d * p + d <= d * q
    BY <1>1, <1>4, NextMultiple
  <2> QED
    BY <1>1, <2>1
<1>5. CASE p = q
  BY <1>1, <1>2, <1>3, <1>5
<1>6. CASE q < p
  BY <1>1, <1>2, <1>3, <1>6
<1> QED
  BY <1>1, <1>4, <1>5, <1>6

LEMMA RoundIsExact ==
  ASSUME NEW k \in Int, NEW d \in Int, d > 0
  PROVE  Round(k * d, d) = k
<1> DEFINE n == k * d
           q == n \div d
           r == n % d
<1>1. q \in Int /\ r \in 0..(d - 1) /\ n = d * q + r /\ n \in Int
  BY DivMod
<1>2. Round(n, d) = IF 2 * r < d \/ (2 * r = d /\ q % 2 = 0) THEN q ELSE q + 1
  BY DEF Round
<1>3. n = d * k
  OBVIOUS
<1> HIDE DEF q, r, n
<1>4. ~(q < k)
  BY <1>1, <1>3, NextMultiple
<1>5. ~(k < q)
  BY <1>1, <1>3, NextMultiple
<1>6. q = k /\ r = 0
  BY <1>1, <1>3, <1>4, <1>5
<1> QED
  BY <1>1, <1>2, <1>6 DEF n

\* Between two points of a curve: the speed interpolated at t, from the point
\* (a, s) to the point (b, e), as _curve_speed computes it.
Between(a, s, b, e, t) == Round(s * (b - a) + (e - s) * (t - a), b - a)

\* It stays between the two speeds.
LEMMA BetweenIsBounded ==
  ASSUME NEW a \in Int, NEW b \in Int, NEW s \in Int, NEW e \in Int, NEW t \in Int,
         a < b, s <= e, a <= t, t <= b
  PROVE  /\ Between(a, s, b, e, t) \in Int
         /\ s <= Between(a, s, b, e, t) /\ Between(a, s, b, e, t) <= e
<1> DEFINE d == b - a
           n == s * d + (e - s) * (t - a)
<1>1. d \in Int /\ d > 0 /\ n \in Int /\ s * d \in Int /\ e * d \in Int
  OBVIOUS
<1>2. s * d <= n
  <2>1. (e - s) * (t - a) >= 0
    OBVIOUS
  <2> QED
    BY <2>1
<1>3. n <= e * d
  <2>1. e * d - n = (e - s) * (b - t)
    OBVIOUS
  <2>2. (e - s) * (b - t) >= 0
    OBVIOUS
  <2> QED
    BY <1>1, <2>1, <2>2
<1>4. Round(n, d) \in Int /\ s <= Round(n, d) /\ Round(n, d) <= e
  <2> HIDE DEF n, d
  <2> QED
    BY <1>1, <1>2, <1>3, RoundIsNear, RoundIsMonotone, RoundIsExact
<1> QED
  BY <1>4 DEF Between

\* At a point it is the speed of the point.
LEMMA BetweenIsExact ==
  ASSUME NEW a \in Int, NEW b \in Int, NEW s \in Int, NEW e \in Int, a < b
  PROVE  Between(a, s, b, e, b) = e
<1>1. s * (b - a) + (e - s) * (b - a) = e * (b - a)
  OBVIOUS
<1> QED
  BY <1>1, RoundIsExact DEF Between

\* It is near the straight line.
LEMMA BetweenIsNear ==
  ASSUME NEW a \in Int, NEW b \in Int, NEW s \in Int, NEW e \in Int, NEW t \in Int, a < b
  PROVE  LET line == s * (b - t) + e * (t - a)
         IN  2 * (Between(a, s, b, e, t) * (b - a) - line) \in (-(b - a))..(b - a)
<1> DEFINE d == b - a
           n == s * d + (e - s) * (t - a)
<1>1. d \in Int /\ d > 0 /\ n \in Int
  OBVIOUS
<1>2. n = s * (b - t) + e * (t - a)
  OBVIOUS
<1>3. 2 * (Round(n, d) * d - n) \in (-d)..d
  BY <1>1, RoundIsNear
<1> QED
  BY <1>2, <1>3 DEF Between

\* It does not fall with the temperature.
LEMMA BetweenIsMonotone ==
  ASSUME NEW a \in Int, NEW b \in Int, NEW s \in Int, NEW e \in Int,
         NEW t \in Int, NEW u \in Int, a < b, s <= e, t <= u
  PROVE  Between(a, s, b, e, t) <= Between(a, s, b, e, u)
<1>1. (e - s) * (t - a) <= (e - s) * (u - a)
  <2>1. (e - s) * (u - a) - (e - s) * (t - a) = (e - s) * (u - t)
    OBVIOUS
  <2>2. (e - s) * (u - t) >= 0
    OBVIOUS
  <2> QED
    BY <2>1, <2>2
<1> QED
  BY <1>1, RoundIsMonotone DEF Between
-----------------------------------------------------------------------------
(* Curves.                                                                 *)

\* A transitive relation that holds between neighbours of 1..n holds between
\* any two: for the up to 12 points of a curve, by doubling the distance.
LEMMA Chain ==
  ASSUME NEW n \in Nat, n <= 16, NEW R,
         \A i \in 1..(n - 1) : <<i, i + 1>> \in R,
         \A i, j, k \in 1..n : <<i, j>> \in R /\ <<j, k>> \in R => <<i, k>> \in R
  PROVE  \A i, j \in 1..n : i < j => <<i, j>> \in R
<1> DEFINE Reach(m) == \A i, j \in 1..n : i < j /\ j - i <= m => <<i, j>> \in R
<1>1. Reach(1)
  OBVIOUS
<1>2. ASSUME NEW m \in 1..8, Reach(m) PROVE Reach(2 * m)
  <2> SUFFICES ASSUME NEW i \in 1..n, NEW j \in 1..n, i < j, j - i <= 2 * m, j - i > m
               PROVE  <<i, j>> \in R
    BY <1>2
  <2>1. i + m \in 1..n /\ <<i, i + m>> \in R /\ <<i + m, j>> \in R
    BY <1>2
  <2> QED
    BY <2>1
<1> HIDE DEF Reach
<1>3. Reach(16)
  <2>1. Reach(2 * 1)
    BY <1>1, <1>2
  <2>2. Reach(2 * 2)
    BY <1>2, <2>1
  <2>3. Reach(2 * 4)
    BY <1>2, <2>2
  <2>4. Reach(2 * 8)
    BY <1>2, <2>3
  <2> QED
    BY <2>4
<1>4. \A i, j \in 1..n : j - i <= 16
  OBVIOUS
<1> QED
  BY <1>3, <1>4 DEF Reach

\* The limits of core/validation.py.
LEMMA Limits ==
  /\ FAN_MIN_POINTS = 2 /\ FAN_MAX_POINTS = 12
  /\ FAN_SPEED_MIN = 0 /\ FAN_SPEED_MAX = 100
  BY DEF FAN_MIN_POINTS, FAN_MAX_POINTS, FAN_SPEED_MIN, FAN_SPEED_MAX

LEMMA LimitsAreNumbers ==
  /\ FAN_MIN_POINTS \in Int /\ FAN_MAX_POINTS \in Int
  /\ FAN_SPEED_MIN \in Int /\ FAN_SPEED_MAX \in Int
  BY DEF FAN_MIN_POINTS, FAN_MAX_POINTS, FAN_SPEED_MIN, FAN_SPEED_MAX

\* An accepted curve: its points are ordered in temperature and in speed.
LEMMA CurveIsOrdered ==
  ASSUME NEW c \in Seq(Points), ValidatePoints(c)
  PROVE  /\ 2 <= Len(c) /\ Len(c) <= 12
         /\ \A i \in 1..Len(c) : /\ c[i].temp \in Int /\ c[i].speed \in Int
                                 /\ 0 <= c[i].speed /\ c[i].speed <= 100
         /\ \A i, j \in 1..Len(c) : i < j => c[i].temp < c[j].temp /\ c[i].speed <= c[j].speed
<1> DEFINE n == Len(c)
           R == {p \in (1..n) \X (1..n) :
                     c[p[1]].temp < c[p[2]].temp /\ c[p[1]].speed <= c[p[2]].speed}
<1>1. 2 <= n /\ n <= 12
  <2>1. n \in FAN_MIN_POINTS..FAN_MAX_POINTS
    BY DEF ValidatePoints
  <2>2. FAN_MIN_POINTS <= n /\ n <= FAN_MAX_POINTS
    BY <2>1, LimitsAreNumbers
  <2> QED
    BY <2>2, Limits
<1>a. ASSUME NEW i \in 1..n
      PROVE  c[i].temp \in Int /\ c[i].speed \in Int /\ 0 <= c[i].speed /\ c[i].speed <= 100
  <2>1. c[i] \in Points /\ i \in DOMAIN c
    OBVIOUS
  <2>2. c[i].temp \in Int /\ c[i].speed \in Int
    BY <2>1 DEF Points
  <2>3. c[i].speed \in FAN_SPEED_MIN..FAN_SPEED_MAX
    BY <2>1 DEF ValidatePoints
  <2>4. FAN_SPEED_MIN <= c[i].speed /\ c[i].speed <= FAN_SPEED_MAX
    BY <2>3, LimitsAreNumbers
  <2> QED
    BY <2>2, <2>4, Limits
<1>2. \A i, j \in 1..n :
          <<i, j>> \in R <=> c[i].temp < c[j].temp /\ c[i].speed <= c[j].speed
  OBVIOUS
<1> HIDE DEF R
<1>3. ASSUME NEW i \in 1..(n - 1) PROVE <<i, i + 1>> \in R
  <2>1. i \in 1..n /\ i + 1 \in 2..n /\ i + 1 \in 1..n /\ (i + 1) - 1 = i
    BY <1>1
  <2>2. c[(i + 1) - 1].temp < c[i + 1].temp /\ c[(i + 1) - 1].speed <= c[i + 1].speed
    BY <2>1 DEF ValidatePoints
  <2> QED
    BY <1>2, <2>1, <2>2
<1>4. ASSUME NEW i \in 1..n, NEW j \in 1..n, NEW k \in 1..n, <<i, j>> \in R, <<j, k>> \in R
      PROVE  <<i, k>> \in R
  <2>1. /\ c[i].temp < c[j].temp /\ c[i].speed <= c[j].speed
        /\ c[j].temp < c[k].temp /\ c[j].speed <= c[k].speed
    BY <1>2, <1>4
  <2>2. c[i].temp < c[k].temp /\ c[i].speed <= c[k].speed
    BY <1>a, <2>1
  <2> QED
    BY <1>2, <2>2
<1>5. \A i, j \in 1..n : i < j => <<i, j>> \in R
  <2>1. n \in Nat /\ n <= 16
    BY <1>1
  <2> HIDE DEF n
  <2> QED
    BY <1>3, <1>4, <2>1, Chain
<1> QED
  BY <1>1, <1>a, <1>2, <1>5

\* Between the first and the last point, _curve_speed interpolates between the
\* two neighbours of the temperature.
LEMMA CurveInterpolates ==
  ASSUME NEW c \in Seq(Points), ValidatePoints(c), NEW t \in Int,
         c[1].temp < t, t <= c[Len(c)].temp
  PROVE  \E p, q \in 1..Len(c), a, b, s, e \in Int :
             /\ q = p + 1
             /\ a = c[p].temp /\ s = c[p].speed /\ b = c[q].temp /\ e = c[q].speed
             /\ a < b /\ s <= e /\ a < t /\ t <= b
             /\ CurveSpeed(c, t) = Between(a, s, b, e, t)
<1> DEFINE n == Len(c)
           Right(i) == t <= c[i].temp /\ \A j \in 1..(i - 1) : t > c[j].temp
           i == CHOOSE k \in 2..n : Right(k)
           R == {p \in (1..n) \X (1..n) : t > c[p[1]].temp => t > c[p[2]].temp}
<1>a. /\ 2 <= n /\ n <= 12 /\ \A j \in 1..n : c[j].temp \in Int
      /\ \A j, k \in 1..n : j < k => c[j].temp < c[k].temp
  BY CurveIsOrdered
<1>1. \E k \in 2..n : c[k - 1].temp < t /\ t <= c[k].temp
  <2> SUFFICES ASSUME \A k \in 2..n : c[k - 1].temp < t => c[k].temp < t PROVE FALSE
    BY <1>a
  <2>0. \A j, k \in 1..n : <<j, k>> \in R <=> (t > c[j].temp => t > c[k].temp)
    OBVIOUS
  <2> HIDE DEF R
  <2>1. ASSUME NEW j \in 1..(n - 1) PROVE <<j, j + 1>> \in R
    <3>1. j \in 1..n /\ j + 1 \in 1..n /\ j + 1 \in 2..n /\ (j + 1) - 1 = j
      BY <1>a
    <3>2. c[(j + 1) - 1].temp < t => c[j + 1].temp < t
      BY <3>1
    <3> QED
      BY <1>a, <2>0, <3>1, <3>2
  <2>2. \A j, k, l \in 1..n : <<j, k>> \in R /\ <<k, l>> \in R => <<j, l>> \in R
    BY <2>0
  <2>3. <<1, n>> \in R
    <3>1. n \in Nat /\ n <= 16 /\ 1 \in 1..n /\ n \in 1..n /\ 1 < n
      BY <1>a
    <3> HIDE DEF n
    <3> QED
      BY <2>1, <2>2, <3>1, Chain
  <2>4. t > c[n].temp
    <3>1. 1 \in 1..n /\ n \in 1..n
      BY <1>a
    <3>2. t > c[1].temp
      BY <1>a, <3>1
    <3> QED
      BY <2>0, <2>3, <3>1, <3>2
  <2> QED
    BY <1>a, <2>4
<1>2. \E k \in 2..n : Right(k)
  <2>1. PICK k \in 2..n : c[k - 1].temp < t /\ t <= c[k].temp
    BY <1>1
  <2>2. ASSUME NEW j \in 1..(k - 1) PROVE t > c[j].temp
    <3>1. j = k - 1 \/ c[j].temp < c[k - 1].temp
      BY <1>a
    <3> QED
      BY <1>a, <2>1, <3>1
  <2> QED
    BY <2>1, <2>2
<1>3. i \in 2..n /\ Right(i)
  <2> HIDE DEF Right
  <2> QED
    BY <1>2
<1>4. CurveSpeed(c, t) = Between(c[i - 1].temp, c[i - 1].speed, c[i].temp, c[i].speed, t)
  BY <1>a DEF CurveSpeed, Between
<1> HIDE DEF i, Right
<1>5. c[i - 1].temp < t /\ t <= c[i].temp
  BY <1>a, <1>3 DEF Right
<1>6. i - 1 \in 1..n /\ i \in 1..n /\ i - 1 < i
  BY <1>3
<1>7. /\ c[i - 1].temp \in Int /\ c[i].temp \in Int /\ c[i - 1].speed \in Int
      /\ c[i].speed \in Int /\ c[i - 1].temp < c[i].temp /\ c[i - 1].speed <= c[i].speed
  BY <1>6, CurveIsOrdered
<1>8. i = (i - 1) + 1
  BY <1>3
<1> QED
  BY <1>4, <1>5, <1>6, <1>7, <1>8

\* The speed of a curve lies between its first and its last.
LEMMA CurveIsBounded ==
  ASSUME NEW c \in Seq(Points), ValidatePoints(c), NEW t \in Int
  PROVE  /\ CurveSpeed(c, t) \in Int
         /\ c[1].speed <= CurveSpeed(c, t) /\ CurveSpeed(c, t) <= c[Len(c)].speed
         /\ 0 <= CurveSpeed(c, t) /\ CurveSpeed(c, t) <= 100
<1> DEFINE n == Len(c)
<1>a. 2 <= n /\ n <= 12
  BY CurveIsOrdered
<1>b. /\ \A i \in 1..n : /\ c[i].temp \in Int /\ c[i].speed \in Int
                         /\ 0 <= c[i].speed /\ c[i].speed <= 100
      /\ \A i, j \in 1..n : i < j => c[i].temp < c[j].temp /\ c[i].speed <= c[j].speed
  BY CurveIsOrdered
<1>c. 1 \in 1..n /\ n \in 1..n /\ 1 < n
  BY <1>a
<1>d. /\ c[1].temp \in Int /\ c[1].speed \in Int /\ 0 <= c[1].speed
      /\ c[n].temp \in Int /\ c[n].speed \in Int /\ c[n].speed <= 100
      /\ c[1].temp < c[n].temp /\ c[1].speed <= c[n].speed
  BY <1>b, <1>c
<1>1. CASE t <= c[1].temp
  BY <1>d, <1>1 DEF CurveSpeed
<1>2. CASE t > c[n].temp
  <2>1. CurveSpeed(c, t) = c[n].speed
    BY <1>d, <1>2 DEF CurveSpeed
  <2> QED
    BY <1>d, <2>1
<1>3. CASE c[1].temp < t /\ t <= c[n].temp
  <2>1. PICK p \in 1..n, q \in 1..n, a \in Int, b \in Int, s \in Int, e \in Int :
            /\ q = p + 1
            /\ a = c[p].temp /\ s = c[p].speed /\ b = c[q].temp /\ e = c[q].speed
            /\ a < b /\ s <= e /\ a < t /\ t <= b
            /\ CurveSpeed(c, t) = Between(a, s, b, e, t)
    BY <1>3, CurveInterpolates
  <2>2. (p = 1 \/ 1 < p) /\ (q = n \/ q < n)
    BY <1>a
  <2>3. c[1].speed <= s
    BY <1>b, <1>c, <1>d, <2>1, <2>2
  <2>4. e <= c[n].speed
    BY <1>b, <1>c, <1>d, <2>1, <2>2
  <2>5. a < b /\ s <= e /\ a <= t /\ t <= b
    BY <2>1
  <2>6. /\ Between(a, s, b, e, t) \in Int
        /\ s <= Between(a, s, b, e, t) /\ Between(a, s, b, e, t) <= e
    BY <2>5, BetweenIsBounded
  <2>7. c[1].speed <= Between(a, s, b, e, t) /\ Between(a, s, b, e, t) <= c[n].speed
    <3>1. c[1].speed \in Int /\ c[n].speed \in Int
      BY <1>d
    <3> QED
      BY <2>3, <2>4, <2>6, <3>1
  <2>8. 0 <= Between(a, s, b, e, t) /\ Between(a, s, b, e, t) <= 100
    <3>1. 0 <= s /\ e <= 100
      BY <1>b, <2>1
    <3> QED
      BY <2>6, <3>1
  <2>9. CurveSpeed(c, t) = Between(a, s, b, e, t)
    BY <2>1
  <2> QED
    BY <2>6, <2>7, <2>8, <2>9, Zenon
<1> QED
  BY <1>d, <1>1, <1>2, <1>3

\* More heat never means less speed.
LEMMA CurveIsMonotone ==
  ASSUME NEW c \in Seq(Points), ValidatePoints(c), NEW t \in Int, NEW u \in Int, t <= u
  PROVE  CurveSpeed(c, t) <= CurveSpeed(c, u)
<1> DEFINE n == Len(c)
<1>a. 2 <= n /\ n <= 12
  BY CurveIsOrdered
<1>b. \A i, j \in 1..n : i < j => c[i].temp < c[j].temp /\ c[i].speed <= c[j].speed
  BY CurveIsOrdered
<1>c. /\ 1 \in 1..n /\ n \in 1..n
      /\ c[1].temp \in Int /\ c[n].temp \in Int /\ c[1].temp < c[n].temp
  <2>1. 1 \in 1..n /\ n \in 1..n /\ 1 < n
    BY <1>a
  <2> QED
    BY <1>b, <2>1, CurveIsOrdered
<1>1. CASE t <= c[1].temp
  <2>1. CurveSpeed(c, t) = c[1].speed
    BY <1>1 DEF CurveSpeed
  <2> QED
    BY <2>1, CurveIsBounded
<1>2. CASE u > c[n].temp
  <2>1. CurveSpeed(c, u) = c[n].speed
    BY <1>c, <1>2 DEF CurveSpeed
  <2> QED
    BY <2>1, CurveIsBounded
<1>3. CASE c[1].temp < t /\ u <= c[n].temp
  <2>a. c[1].temp < u /\ t <= c[n].temp
    BY <1>c, <1>3
  <2>1. PICK p \in 1..n, q \in 1..n, a \in Int, b \in Int, s \in Int, e \in Int :
            /\ q = p + 1
            /\ a = c[p].temp /\ s = c[p].speed /\ b = c[q].temp /\ e = c[q].speed
            /\ a < b /\ s <= e /\ a < t /\ t <= b
            /\ CurveSpeed(c, t) = Between(a, s, b, e, t)
    BY <1>3, <2>a, CurveInterpolates
  <2>2. PICK i \in 1..n, j \in 1..n, f \in Int, g \in Int, h \in Int, k \in Int :
            /\ j = i + 1
            /\ f = c[i].temp /\ h = c[i].speed /\ g = c[j].temp /\ k = c[j].speed
            /\ f < g /\ h <= k /\ f < u /\ u <= g
            /\ CurveSpeed(c, u) = Between(f, h, g, k, u)
    BY <1>3, <2>a, CurveInterpolates
  <2>b. a < b /\ s <= e /\ a < t /\ a <= t /\ t <= b
    BY <2>1
  <2>c. f < g /\ h <= k /\ f < u /\ f <= u /\ u <= g
    BY <2>2
  <2>d. CurveSpeed(c, t) = Between(a, s, b, e, t) /\ CurveSpeed(c, u) = Between(f, h, g, k, u)
    BY <2>1, <2>2, Zenon
  <2>e. /\ q = p + 1 /\ a = c[p].temp /\ s = c[p].speed /\ b = c[q].temp /\ e = c[q].speed
        /\ j = i + 1 /\ f = c[i].temp /\ h = c[i].speed /\ g = c[j].temp /\ k = c[j].speed
    BY <2>1, <2>2, Zenon
  <2>3. Between(a, s, b, e, t) \in Int /\ Between(a, s, b, e, t) <= e
    BY <2>b, BetweenIsBounded
  <2>4. Between(f, h, g, k, u) \in Int /\ h <= Between(f, h, g, k, u)
    BY <2>c, BetweenIsBounded
  <2>5. CASE p = i
    <3>1. a = f /\ b = g /\ s = h /\ e = k
      BY <2>e, <2>5
    <3>2. Between(a, s, b, e, t) <= Between(a, s, b, e, u)
      BY <2>b, BetweenIsMonotone
    <3> QED
      BY <2>d, <3>1, <3>2, Zenon
  <2>6. CASE p < i
    <3>1. q = i \/ q < i
      BY <2>1, <2>6
    <3>2. e <= h
      BY <1>b, <2>e, <3>1
    <3>3. Between(a, s, b, e, t) <= Between(f, h, g, k, u)
      BY <2>3, <2>4, <3>2
    <3> QED
      BY <2>d, <3>3, Zenon
  <2>7. CASE i < p
    <3>1. j = p \/ j < p
      BY <2>2, <2>7
    <3>2. g <= a
      BY <1>b, <2>e, <3>1
    <3>3. FALSE
      BY <2>b, <2>c, <3>2
    <3> QED
      BY <3>3
  <2> QED
    BY <2>5, <2>6, <2>7
<1> QED
  BY <1>c, <1>1, <1>2, <1>3

\* Between two points the speed is within half a percent of their line.
LEMMA CurveIsNearLine ==
  ASSUME NEW c \in Seq(Points), ValidatePoints(c), NEW t \in Int,
         NEW p \in 1..Len(c), NEW q \in 1..Len(c), q = p + 1, c[p].temp <= t, t <= c[q].temp
  PROVE  LET span == c[q].temp - c[p].temp
             line == c[p].speed * (c[q].temp - t) + c[q].speed * (t - c[p].temp)
         IN  2 * (CurveSpeed(c, t) * span - line) \in (-span)..span
<1> DEFINE n == Len(c)
           a == c[p].temp
           b == c[q].temp
           s == c[p].speed
           e == c[q].speed
<1>a. 2 <= n /\ n <= 12
  BY CurveIsOrdered
<1>b. \A j, k \in 1..n : j < k => c[j].temp < c[k].temp /\ c[j].speed <= c[k].speed
  BY CurveIsOrdered
<1>c. 1 \in 1..n /\ n \in 1..n /\ p < q /\ (p = 1 \/ 1 < p) /\ (q = n \/ q < n)
  BY <1>a
<1>d. /\ a \in Int /\ b \in Int /\ s \in Int /\ e \in Int /\ a < b /\ s <= e
      /\ c[1].temp \in Int /\ c[n].temp \in Int /\ c[1].temp <= a /\ b <= c[n].temp
  <2>1. \A j \in 1..n : c[j].temp \in Int /\ c[j].speed \in Int
    BY CurveIsOrdered
  <2>2. a \in Int /\ b \in Int /\ s \in Int /\ e \in Int /\ c[1].temp \in Int /\ c[n].temp \in Int
    BY <1>c, <2>1
  <2> QED
    BY <1>b, <1>c, <2>2
<1>e. a <= t /\ t <= b
  OBVIOUS
<1>1. CurveSpeed(c, t) = IF a < t THEN Between(a, s, b, e, t) ELSE s
  <2>1. CASE ~(c[1].temp < t)
    <3>1. t = a /\ t = c[1].temp
      BY <1>d, <1>e, <2>1
    <3>2. ~(1 < p)
      <4> SUFFICES ASSUME 1 < p PROVE FALSE
        OBVIOUS
      <4>1. c[1].temp < c[p].temp
        BY <1>b, <1>c
      <4> QED
        BY <1>d, <3>1, <4>1
    <3>3. CurveSpeed(c, t) = c[1].speed
      BY <3>1 DEF CurveSpeed
    <3>4. p = 1
      BY <1>c, <3>2
    <3> QED
      BY <1>d, <3>1, <3>3, <3>4
  <2>2. CASE c[1].temp < t
    <3>0. t <= c[n].temp
      BY <1>d, <1>e
    <3>1. PICK i \in 1..n, j \in 1..n, f \in Int, g \in Int, h \in Int, k \in Int :
              /\ j = i + 1
              /\ f = c[i].temp /\ h = c[i].speed /\ g = c[j].temp /\ k = c[j].speed
              /\ f < g /\ h <= k /\ f < t /\ t <= g
              /\ CurveSpeed(c, t) = Between(f, h, g, k, t)
      BY <2>2, <3>0, CurveInterpolates
    <3>a. f < g /\ f < t /\ t <= g
      BY <3>1
    <3>3. ~(p < i)
      <4> SUFFICES ASSUME p < i PROVE FALSE
        OBVIOUS
      <4>1. q = i \/ q < i
        OBVIOUS
      <4>a. f = c[i].temp
        BY <3>1, Zenon
      <4>b. q = i => b <= f
        BY <1>d, <4>a
      <4>c. q < i => b <= f
        BY <1>b, <1>d, <4>a
      <4>2. b <= f
        BY <4>1, <4>b, <4>c
      <4> QED
        BY <1>d, <1>e, <3>a, <4>2
    <3>4. ~(j < p)
      <4> SUFFICES ASSUME j < p PROVE FALSE
        OBVIOUS
      <4>1. g < a
        BY <1>b, <3>1
      <4> QED
        BY <1>d, <1>e, <3>a, <4>1
    <3>5. CASE i = p
      <4>1. f = a /\ h = s /\ g = b /\ k = e
        BY <3>1, <3>5
      <4> QED
        BY <3>1, <4>1
    <3>6. CASE j = p
      <4>1. g = a /\ k = s
        BY <3>1, <3>6
      <4>2. t = g
        BY <1>d, <1>e, <3>a, <4>1
      <4>3. Between(f, h, g, k, g) = k
        BY <3>a, BetweenIsExact
      <4>4. CurveSpeed(c, t) = Between(f, h, g, k, t)
        BY <3>1, Zenon
      <4>5. ~(a < t)
        BY <1>d, <4>1, <4>2
      <4> QED
        BY <4>1, <4>2, <4>3, <4>4, <4>5, Zenon
    <3> QED
      BY <3>1, <3>3, <3>4, <3>5, <3>6
  <2> QED
    BY <2>1, <2>2
<1> HIDE DEF n, a, b, s, e
<1>2. 2 * (CurveSpeed(c, t) * (b - a) - (s * (b - t) + e * (t - a))) \in (-(b - a))..(b - a)
  <2>1. CASE a < t
    <3>1. 2 * (Between(a, s, b, e, t) * (b - a) - (s * (b - t) + e * (t - a))) \in (-(b - a))..(b - a)
      BY <1>d, BetweenIsNear
    <3> QED
      BY <1>1, <2>1, <3>1
  <2>2. CASE ~(a < t)
    <3>1. a = t /\ CurveSpeed(c, t) = s
      BY <1>d, <1>e, <1>1, <2>2
    <3>2. s * (b - a) - (s * (b - t) + e * (t - a)) = 0 /\ b - a > 0 /\ b - a \in Int
      BY <1>d, <3>1
    <3> QED
      BY <3>1, <3>2
  <2> QED
    BY <2>1, <2>2
<1> QED
  BY <1>2 DEF a, b, s, e

\* What the controller asks for is a speed, and all of it where it is hot.
LEMMA TargetIsSpeed ==
  ASSUME NEW c \in Seq(Points), ValidatePoints(c), NEW t \in Int
  PROVE  /\ TargetSpeed(c, t) \in Int
         /\ 0 <= TargetSpeed(c, t) /\ TargetSpeed(c, t) <= 100
         /\ t >= 95000 => TargetSpeed(c, t) = 100
  BY CurveIsBounded DEF TargetSpeed
-----------------------------------------------------------------------------
(* The controller, the override and its watchdog.                          *)

Modes == {"stock", "curve"}
Published == [mode : Modes \cup {"manual_override", "failed_safe"}, target : Int]
Accepted(c) == c \in Seq(Points) /\ ValidatePoints(c)

TypeOK ==
    /\ mode \in Modes /\ DOMAIN curves = Profiles
    /\ active \in Profiles /\ temp \in Nat /\ seen \in Nat /\ asked \in Int
    /\ ec \in Int /\ last \in Int /\ override \in BOOLEAN /\ failSafe \in BOOLEAN
    /\ cv.at \in {"sleep", "lock", "dead"}
    /\ failures \in Nat /\ failures <= 3
    /\ pub \in Published

\* Every curve saved, and the one the controller took with it, was validated.
CurvesAreValid ==
    /\ \A p \in Profiles : curves[p] # NoCurve => Accepted(curves[p])
    /\ cv.at = "lock" => Accepted(cv.curve)

\* The controller survives two failures in a row, not three.
DeathIsThird ==
    /\ cv.at # "dead" => failures < 3
    /\ cv.at = "dead" => mode = "stock"

\* A speed in the EC belongs to the override, and is the published target, or
\* to the running curve, and is the last speed of the controller.
SpeedHasOwner ==
    /\ override => ec = pub.target /\ 0 <= ec /\ ~failSafe
    /\ ~override /\ ec # StockAuto => mode = "curve" /\ ~failSafe /\ ec = last
    /\ ~override /\ pub.target # None => ec \in {StockAuto, pub.target}
    /\ pub.mode = "manual_override" => override

IInv == TypeOK /\ CurvesAreValid /\ DeathIsThird /\ SpeedHasOwner /\ SpeedFitsDecision

\* None and StockAuto are two numbers, and neither is a speed.
LEMMA NotSpeeds == None \in Int /\ StockAuto \in Int /\ None < 0 /\ StockAuto < 0
  BY DEF None, StockAuto

LEMMA NotTheSame == None # StockAuto
  BY DEF None, StockAuto

\* The controller at rest, and when it has given up.
LEMMA Resting == Sleeping.at = "sleep"
  BY DEF Sleeping

LEMMA GivenUp == [Sleeping EXCEPT !.at = "dead"].at = "dead"
  BY Zenon DEF Sleeping

\* What is published has a mode and a target.
LEMMA PublishedIs ==
  /\ \A r \in Published : r.target \in Int
  /\ \A m \in {"stock", "curve", "manual_override", "failed_safe"}, x \in Int :
        LET r == [mode |-> m, target |-> x]
        IN  r \in Published /\ r.mode = m /\ r.target = x
  /\ \A r \in Published, x \in Int :
        LET s == [r EXCEPT !.target = x]
        IN  s \in Published /\ s.mode = r.mode /\ s.target = x
  BY DEF Published, Modes

\* What _refresh_fan publishes.
LEMMA RefreshedIs ==
  ASSUME TypeOK, NEW failed \in BOOLEAN, NEW manual \in BOOLEAN, NEW desired \in Modes
  PROVE  LET r == Refreshed(failed, manual, desired)
         IN  /\ r \in Published
             /\ r.mode = "manual_override" => manual
             /\ r.target \in {pub.target, None}
             /\ manual => r.target = pub.target
<1> DEFINE m == IF failed THEN "failed_safe" ELSE IF manual THEN "manual_override" ELSE desired
           x == IF manual \/ desired = "curve" THEN pub.target ELSE None
<1>1. m \in {"stock", "curve", "manual_override", "failed_safe"} /\ (m = "manual_override" => manual)
  BY DEF Modes
<1>2. x \in Int /\ x \in {pub.target, None} /\ (manual => x = pub.target)
  BY PublishedIs, NotSpeeds DEF TypeOK
<1>3. Refreshed(failed, manual, desired) = [mode |-> m, target |-> x]
  BY DEF Refreshed
<1> HIDE DEF m, x
<1> QED
  BY <1>1, <1>2, <1>3, PublishedIs

\* The firmware has the fan and no curve is saved.
LEMMA CurveInit == Init => IInv
<1> SUFFICES ASSUME Init PROVE IInv
  OBVIOUS
<1>1. /\ cv.at = "sleep" /\ pub \in Published /\ pub.mode = "stock" /\ pub.target = None
      /\ ec = StockAuto /\ last = None /\ override = FALSE /\ failures = 0
  BY Resting, PublishedIs, NotSpeeds DEF Init
<1>2. TypeOK
  <2>1. active \in Profiles /\ temp \in Nat /\ DOMAIN curves = Profiles
    BY FanCurveAssumption DEF Init
  <2>2. mode \in Modes /\ override \in BOOLEAN /\ failSafe \in BOOLEAN
    BY Zenon DEF Init, Modes
  <2>3. seen \in Nat /\ asked \in Int /\ failures \in Nat /\ failures <= 3
    BY SMT DEF Init
  <2> QED
    BY <1>1, <2>1, <2>2, <2>3, NotSpeeds, Zenon DEF TypeOK
<1>3. CurvesAreValid
  BY <1>1 DEF Init, CurvesAreValid
<1>4. DeathIsThird
  BY <1>1 DEF DeathIsThird
<1>5. SpeedHasOwner
  BY <1>1 DEF SpeedHasOwner
<1>6. SpeedFitsDecision
  BY <1>1, SMT DEF SpeedFitsDecision
<1> QED
  BY <1>2, <1>3, <1>4, <1>5, <1>6 DEF IInv

\* Every step keeps it.
LEMMA CurveStep == IInv /\ [Next]_vars => IInv'
<1> SUFFICES ASSUME IInv, [Next]_vars PROVE IInv'
  OBVIOUS
<1> USE FanCurveAssumption
<1>a. TypeOK /\ CurvesAreValid /\ DeathIsThird /\ SpeedHasOwner /\ SpeedFitsDecision
  BY DEF IInv
<1>b. mode \in Modes /\ override \in BOOLEAN /\ failSafe \in BOOLEAN
  BY <1>a DEF TypeOK
<1>1. CASE RefreshLoop
  <2>1. /\ pub' = Refreshed(failSafe, override, mode)
        /\ UNCHANGED <<mode, curves, active, temp, ec, override, failSafe, cv, last, failures, seen, asked>>
    BY <1>1 DEF RefreshLoop, configVars, controllerVars, ghosts
  <2>2. TypeOK' /\ SpeedHasOwner'
    BY <1>a, <1>b, <2>1, RefreshedIs, NotSpeeds DEF TypeOK, SpeedHasOwner
  <2>3. CurvesAreValid' /\ DeathIsThird'
    BY <1>a, <2>1 DEF CurvesAreValid, DeathIsThird
  <2>4. SpeedFitsDecision'
    BY <1>a, <2>1, SMT DEF SpeedFitsDecision
  <2> QED
    BY <2>2, <2>3, <2>4 DEF IInv
<1>2. ASSUME NEW t \in Readings, Heats(t) PROVE IInv'
  <2>1. /\ temp' \in Nat
        /\ UNCHANGED <<mode, curves, active, ec, override, failSafe, cv, last, failures, pub, seen, asked>>
    BY <1>2 DEF Heats, configVars, controllerVars, ghosts
  <2>2. TypeOK' /\ SpeedHasOwner' /\ CurvesAreValid' /\ DeathIsThird'
    BY <1>a, <2>1 DEF TypeOK, SpeedHasOwner, CurvesAreValid, DeathIsThird
  <2>3. SpeedFitsDecision'
    BY <1>a, <2>1, SMT DEF SpeedFitsDecision
  <2> QED
    BY <2>2, <2>3 DEF IInv
<1>3. ASSUME NEW p \in Profiles, SwitchProfile(p) PROVE IInv'
  <2>1. /\ active' \in Profiles
        /\ UNCHANGED <<mode, curves, temp, ec, override, failSafe, cv, last, failures, pub, seen, asked>>
    BY <1>3 DEF SwitchProfile, configVars, controllerVars, ghosts
  <2>2. TypeOK' /\ SpeedHasOwner' /\ CurvesAreValid' /\ DeathIsThird'
    BY <1>a, <2>1 DEF TypeOK, SpeedHasOwner, CurvesAreValid, DeathIsThird
  <2>3. SpeedFitsDecision'
    BY <1>a, <2>1, SMT DEF SpeedFitsDecision
  <2> QED
    BY <2>2, <2>3 DEF IInv
<1>4. ASSUME NEW p \in Profiles, NEW c \in Curves, SetFanCurve(p, c) PROVE IInv'
  <2>1. /\ mode' = "curve" /\ curves' = [curves EXCEPT ![p] = c] /\ Accepted(c)
        /\ pub' = Refreshed(failSafe, override, "curve")
        /\ UNCHANGED <<active, temp, ec, override, failSafe, seen, asked>>
    BY <1>4 DEF SetFanCurve, Accepted, Points, ghosts
  <2>2. \/ cv.at = "dead" /\ cv'.at = "sleep" /\ last' = None /\ failures' = 0
        \/ cv.at # "dead" /\ UNCHANGED <<cv, last, failures>>
    BY <1>4, Resting DEF SetFanCurve, controllerVars, ghosts
  <2>3. TypeOK' /\ SpeedHasOwner'
    BY <1>a, <1>b, <2>1, <2>2, RefreshedIs, NotSpeeds
       DEF TypeOK, SpeedHasOwner, DeathIsThird, Modes
  <2>4. CurvesAreValid' /\ DeathIsThird'
    BY <1>a, <2>1, <2>2 DEF CurvesAreValid, DeathIsThird, TypeOK
  <2>5. SpeedFitsDecision'
    BY <1>a, <2>1, SMT DEF SpeedFitsDecision
  <2> QED
    BY <2>3, <2>4, <2>5 DEF IInv
<1>5. CASE SetFanStockAuto
  <2>1. /\ ec' = StockAuto /\ failSafe' = FALSE /\ override' = FALSE /\ mode' = "stock"
        /\ pub' = Refreshed(FALSE, FALSE, "stock")
        /\ UNCHANGED <<curves, active, temp, cv, last, failures, seen, asked>>
    BY <1>5 DEF SetFanStockAuto, controllerVars, ghosts
  <2>2. TypeOK' /\ SpeedHasOwner'
    BY <1>a, <2>1, RefreshedIs, NotSpeeds DEF TypeOK, SpeedHasOwner, Modes
  <2>3. CurvesAreValid' /\ DeathIsThird'
    BY <1>a, <2>1 DEF CurvesAreValid, DeathIsThird
  <2>4. SpeedFitsDecision'
    BY <2>1, SMT DEF SpeedFitsDecision
  <2> QED
    BY <2>2, <2>3, <2>4 DEF IInv
<1>6. ASSUME NEW speed \in Speeds, SetFanManual(speed) PROVE IInv'
  <2>a. /\ speed \in Int /\ 0 <= speed /\ seen' = temp /\ failSafe' = FALSE
        /\ asked' = EmergencySpeed(temp) /\ speed >= EmergencySpeed(temp)
        /\ UNCHANGED <<mode, curves, active, temp, cv, last, failures>>
    <3>1. speed \in FAN_SPEED_MIN..FAN_SPEED_MAX
      BY <1>6 DEF SetFanManual, ValidateManualSpeed
    <3>2. FAN_SPEED_MIN <= speed
      BY <3>1, LimitsAreNumbers
    <3> QED
      BY <1>6, <3>2, Limits DEF SetFanManual, configVars, controllerVars, ghosts
  <2>b. EmergencySpeed(temp) \in Int
    BY SMT DEF EmergencySpeed
  <2>1. CASE ec' = speed /\ override' = TRUE /\ pub' = [mode |-> "manual_override", target |-> speed]
    <3>a. pub' \in Published /\ pub'.target = speed
      BY <2>a, <2>1, PublishedIs
    <3>1. TypeOK' /\ SpeedHasOwner'
      BY <1>a, <2>a, <2>b, <2>1, <3>a DEF TypeOK, SpeedHasOwner
    <3>2. SpeedFitsDecision'
      BY <2>a, <2>1, SMT DEF SpeedFitsDecision
    <3> QED
      BY <1>a, <2>a, <3>1, <3>2 DEF IInv, CurvesAreValid, DeathIsThird
  <2>2. CASE ec' = StockAuto /\ override' = FALSE /\ pub' = Refreshed(FALSE, FALSE, mode)
    <3>1. TypeOK' /\ SpeedHasOwner'
      BY <1>a, <1>b, <2>a, <2>b, <2>2, RefreshedIs, NotSpeeds DEF TypeOK, SpeedHasOwner
    <3>2. SpeedFitsDecision'
      BY <2>2, SMT DEF SpeedFitsDecision
    <3> QED
      BY <1>a, <2>a, <3>1, <3>2 DEF IInv, CurvesAreValid, DeathIsThird
  <2> QED
    BY <1>6, <2>1, <2>2 DEF SetFanManual
<1>7. CASE WatchdogEnds
  <2>1. /\ ec' = StockAuto /\ failSafe' = FALSE /\ override' = FALSE
        /\ pub' = [mode |-> "stock", target |-> None]
        /\ UNCHANGED <<mode, curves, active, temp, cv, last, failures, seen, asked>>
    BY <1>7 DEF WatchdogEnds, configVars, controllerVars, ghosts
  <2>a. pub' \in Published /\ pub'.mode = "stock" /\ pub'.target = None
    BY <2>1, PublishedIs, NotSpeeds
  <2>2. TypeOK' /\ SpeedHasOwner'
    BY <1>a, <2>1, <2>a, NotSpeeds DEF TypeOK, SpeedHasOwner
  <2>3. CurvesAreValid' /\ DeathIsThird'
    BY <1>a, <2>1 DEF CurvesAreValid, DeathIsThird
  <2>4. SpeedFitsDecision'
    BY <2>1, SMT DEF SpeedFitsDecision
  <2> QED
    BY <2>2, <2>3, <2>4 DEF IInv
<1>8. CASE WatchdogChecks
  <2>a. /\ override /\ seen' = temp /\ asked' = EmergencySpeed(temp)
        /\ UNCHANGED <<mode, curves, active, temp, override, failSafe, cv, last, failures>>
    BY <1>8 DEF WatchdogChecks, configVars, controllerVars, ghosts
  <2>b. EmergencySpeed(temp) \in Int /\ 0 <= EmergencySpeed(temp)
    BY SMT DEF EmergencySpeed
  <2>1. CASE ec' = EmergencySpeed(temp) /\ pub' = [pub EXCEPT !.target = EmergencySpeed(temp)]
    <3>1. pub' \in Published /\ pub'.mode = pub.mode /\ pub'.target = ec'
      BY <1>a, <2>b, <2>1, PublishedIs DEF TypeOK
    <3>2. TypeOK' /\ SpeedHasOwner'
      BY <1>a, <2>a, <2>b, <2>1, <3>1 DEF TypeOK, SpeedHasOwner
    <3>3. SpeedFitsDecision'
      BY <2>a, <2>b, <2>1, SMT DEF SpeedFitsDecision
    <3> QED
      BY <1>a, <2>a, <3>2, <3>3 DEF IInv, CurvesAreValid, DeathIsThird
  <2>2. CASE /\ ~(EmergencySpeed(temp) > (IF pub.target = None THEN 0 ELSE pub.target))
             /\ UNCHANGED <<ec, pub>>
    <3>1. ec >= EmergencySpeed(temp)
      BY <1>a, <2>a, <2>b, <2>2, NotSpeeds DEF TypeOK, SpeedHasOwner
    <3>2. TypeOK' /\ SpeedHasOwner'
      BY <1>a, <2>a, <2>b, <2>2 DEF TypeOK, SpeedHasOwner
    <3>3. SpeedFitsDecision'
      BY <1>a, <2>a, <2>b, <2>2, <3>1, SMT DEF SpeedFitsDecision, TypeOK
    <3> QED
      BY <1>a, <2>a, <3>2, <3>3 DEF IInv, CurvesAreValid, DeathIsThird
  <2> QED
    BY <1>8, <2>1, <2>2 DEF WatchdogChecks
<1>9. CASE CurveTicks
  <2>a. /\ cv.at = "sleep"
        /\ UNCHANGED <<mode, curves, active, temp, ec, override, failSafe, failures, pub, seen, asked>>
    BY <1>9 DEF CurveTicks, configVars, ghosts
  <2>b. SpeedFitsDecision'
    BY <1>a, <2>a, SMT DEF SpeedFitsDecision
  <2>1. CASE Blocked /\ last' = None /\ UNCHANGED cv
    BY <1>a, <2>a, <2>b, <2>1, NotSpeeds
       DEF Blocked, IInv, TypeOK, SpeedHasOwner, CurvesAreValid, DeathIsThird
  <2>2. CASE /\ CurveInForce # NoCurve /\ cv' = [at |-> "lock", curve |-> CurveInForce]
             /\ UNCHANGED last
    <3>1. cv'.at = "lock" /\ cv'.curve = CurveInForce
      BY <2>2
    <3>2. Accepted(CurveInForce)
      BY <1>a, <2>2 DEF CurveInForce, CurvesAreValid, TypeOK
    <3> QED
      BY <1>a, <2>a, <2>b, <2>2, <3>1, <3>2
         DEF IInv, TypeOK, SpeedHasOwner, CurvesAreValid, DeathIsThird
  <2> QED
    BY <1>9, <2>1, <2>2 DEF CurveTicks
<1>10. CASE CurveSkips
  <2>1. /\ cv.at = "lock" /\ cv' = Sleeping
        /\ UNCHANGED <<mode, curves, active, temp, ec, override, failSafe, last, failures, pub, seen, asked>>
    BY <1>10 DEF CurveSkips, configVars, ghosts
  <2>2. SpeedFitsDecision'
    BY <1>a, <2>1, SMT DEF SpeedFitsDecision
  <2> QED
    BY <1>a, <2>1, <2>2, Resting
       DEF IInv, TypeOK, SpeedHasOwner, CurvesAreValid, DeathIsThird
<1>c. ASSUME cv.at = "lock"
      PROVE  LET speed == TargetSpeed(cv.curve, temp)
             IN  speed \in Int /\ 0 <= speed
  BY <1>a, <1>c, TargetIsSpeed DEF TypeOK, CurvesAreValid, Accepted
<1>11. CASE CurveHolds
  <2>1. /\ cv.at = "lock" /\ mode = "curve" /\ ~override /\ ~failSafe
        /\ Held(TargetSpeed(cv.curve, temp))
        /\ last' = last /\ failures' = 0 /\ cv' = Sleeping
        /\ seen' = temp /\ asked' = TargetSpeed(cv.curve, temp)
        /\ pub' = [mode |-> "curve", target |-> last]
        /\ UNCHANGED <<mode, curves, active, temp, ec, override, failSafe>>
    BY <1>11 DEF CurveHolds, Blocked, CurveSucceeds, configVars, ghosts
  <2>a. cv'.at = "sleep" /\ pub' \in Published /\ pub'.mode = "curve" /\ pub'.target = last
    BY <1>a, <2>1, Resting, PublishedIs DEF TypeOK
  <2>2. TypeOK' /\ SpeedHasOwner' /\ CurvesAreValid' /\ DeathIsThird'
    BY <1>a, <1>c, <2>1, <2>a DEF TypeOK, SpeedHasOwner, CurvesAreValid, DeathIsThird
  <2>3. TargetSpeed(cv.curve, temp) \in Int /\ last - TargetSpeed(cv.curve, temp) \in -2..2
    BY <1>a, <1>c, <2>1, SMT DEF Held, TypeOK
  <2>4. SpeedFitsDecision'
    BY <1>a, <2>1, <2>3, SMT DEF SpeedFitsDecision, SpeedHasOwner, TypeOK
  <2> QED
    BY <2>2, <2>4 DEF IInv
<1>12. CASE CurveWrites
  <2> DEFINE speed == TargetSpeed(cv.curve, temp)
  <2>1. /\ cv.at = "lock" /\ mode = "curve" /\ ~override /\ ~failSafe
        /\ ec' = speed /\ last' = speed /\ failures' = 0 /\ cv' = Sleeping
        /\ seen' = temp /\ asked' = speed
        /\ pub' = [mode |-> "curve", target |-> speed]
        /\ UNCHANGED <<mode, curves, active, temp, override, failSafe>>
    BY <1>12 DEF CurveWrites, Blocked, CurveSucceeds, configVars, ghosts
  <2>2. speed \in Int
    BY <1>c, <2>1
  <2> HIDE DEF speed
  <2>a. cv'.at = "sleep" /\ pub' \in Published /\ pub'.mode = "curve" /\ pub'.target = speed
    BY <2>1, <2>2, Resting, PublishedIs
  <2>3. TypeOK' /\ SpeedHasOwner' /\ CurvesAreValid' /\ DeathIsThird'
    BY <1>a, <2>1, <2>2, <2>a DEF TypeOK, SpeedHasOwner, CurvesAreValid, DeathIsThird
  <2>4. SpeedFitsDecision'
    BY <2>1, <2>2, SMT DEF SpeedFitsDecision
  <2> QED
    BY <2>3, <2>4 DEF IInv
<1>13. CASE CurveFails
  <2>a. /\ cv.at = "lock" /\ mode = "curve" /\ override = FALSE /\ failSafe = FALSE
        /\ failures' = failures + 1 /\ failures < 3
        /\ UNCHANGED <<curves, active, temp, override, last>>
    BY <1>a, <1>b, <1>13 DEF CurveFails, Blocked, DeathIsThird
  <2>b. seen' = seen /\ asked' = asked
    BY <1>13 DEF CurveFails, ghosts
  <2>1. CASE failures' < 3
    <3>a. cv' = Sleeping /\ UNCHANGED <<mode, failSafe>> /\ failures' # 3
      BY <1>13, <2>1 DEF CurveFails
    <3>1. CASE Plausible(temp)
      <4>1. ec' = StockAuto /\ pub' = Refreshed(FALSE, FALSE, "curve")
        BY <1>13, <2>1, <3>1 DEF CurveFails
      <4>2. /\ cv'.at = "sleep" /\ pub' \in Published /\ pub'.mode # "manual_override"
            /\ pub'.target \in {pub.target, None}
        BY <1>a, <3>a, <4>1, RefreshedIs, Resting DEF Modes
      <4>a. failures' \in Nat /\ failures' <= 3
        BY <1>a, <2>a DEF TypeOK
      <4>b. override' \in BOOLEAN /\ failSafe' \in BOOLEAN
        BY <1>b, <2>a, <3>a, Zenon
      <4>3. TypeOK'
        BY <1>a, <2>a, <2>b, <3>a, <4>1, <4>2, <4>a, <4>b, NotSpeeds, Zenon DEF TypeOK
      <4>4. SpeedHasOwner'
        BY <2>a, <4>1, <4>2 DEF SpeedHasOwner
      <4>5. CurvesAreValid' /\ DeathIsThird'
        BY <1>a, <2>a, <2>1, <4>2 DEF CurvesAreValid, DeathIsThird
      <4>6. SpeedFitsDecision'
        BY <4>1, SMT DEF SpeedFitsDecision
      <4> QED
        BY <4>3, <4>4, <4>5, <4>6 DEF IInv
    <3>2. CASE ~Plausible(temp)
      <4>1. UNCHANGED <<ec, pub, seen, asked>> /\ cv'.at = "sleep"
        BY <2>b, <1>13, <2>1, <3>2, <3>a, Resting DEF CurveFails
      <4>2. TypeOK' /\ SpeedHasOwner' /\ CurvesAreValid' /\ DeathIsThird'
        BY <1>a, <2>a, <2>b, <2>1, <3>a, <4>1
           DEF TypeOK, SpeedHasOwner, CurvesAreValid, DeathIsThird
      <4>3. SpeedFitsDecision'
        BY <1>a, <2>a, <4>1, SMT DEF SpeedFitsDecision
      <4> QED
        BY <4>2, <4>3 DEF IInv
    <3> QED
      BY <3>1, <3>2
  <2>2. CASE ~(failures' < 3)
    <3>a. failures' = 3
      BY <1>a, <2>a, <2>2 DEF TypeOK
    <3>1. /\ cv' = [Sleeping EXCEPT !.at = "dead"] /\ mode' = "stock" /\ failSafe' = TRUE
          /\ ec' = StockAuto /\ pub' = [mode |-> "failed_safe", target |-> None]
      BY <1>13, <2>2, <3>a, Zenon DEF CurveFails
    <3>2. cv'.at = "dead" /\ pub' \in Published /\ pub'.mode = "failed_safe" /\ pub'.target = None
      BY <3>1, GivenUp, PublishedIs, NotSpeeds
    <3>3. mode' \in Modes
      BY <3>1 DEF Modes
    <3>4. TypeOK' /\ SpeedHasOwner' /\ CurvesAreValid' /\ DeathIsThird'
      <4> HIDE DEF Sleeping
      <4> QED
        BY <1>a, <2>a, <2>b, <3>a, <3>1, <3>2, <3>3, NotSpeeds
           DEF TypeOK, SpeedHasOwner, CurvesAreValid, DeathIsThird
    <3>5. SpeedFitsDecision'
      BY <3>1, SMT DEF SpeedFitsDecision
    <3> QED
      BY <3>4, <3>5 DEF IInv
  <2> QED
    BY <2>1, <2>2
<1>14. CASE UNCHANGED vars
  <2>1. UNCHANGED <<mode, curves, active, temp, ec, override, failSafe, cv, last, failures, pub, seen, asked>>
    BY <1>14 DEF vars, configVars, controllerVars, ghosts
  <2>2. SpeedFitsDecision'
    BY <1>a, <2>1, SMT DEF SpeedFitsDecision
  <2> QED
    BY <1>a, <2>1, <2>2 DEF IInv, TypeOK, SpeedHasOwner, CurvesAreValid, DeathIsThird
<1> QED
  BY <1>1, <1>2, <1>3, <1>4, <1>5, <1>6, <1>7, <1>8, <1>9, <1>10, <1>11, <1>12, <1>13, <1>14
     DEF Next
-----------------------------------------------------------------------------
(* Theorems.                                                               *)

\* The inductive invariant of controller, override and watchdog.
THEOREM CurveInvariant == Spec => []IInv
  BY CurveInit, CurveStep, PTL DEF Spec

\* A speed in the EC fits the last decision of whoever has the fan, for any
\* curves, readings and number of use cases: hysteresis does not add up.
THEOREM CurveSpeedFits == Spec => []SpeedFitsDecision
  BY CurveInvariant, PTL DEF IInv

\* A published target is what the EC was told, or the firmware has the fan.
THEOREM CurvePublishesTheTarget == Spec => []PublishedTargetIsReal
<1>1. IInv => PublishedTargetIsReal
  BY NotSpeeds DEF IInv, SpeedHasOwner, PublishedTargetIsReal, TypeOK
<1> QED
  BY <1>1, CurveInvariant, PTL

\* For every curve the service has saved and all temperatures: monotone, and
\* within half a percent of the line between two points.
THEOREM CurveFollowsHeat == Spec => []SpeedFollowsHeat
<1>1. IInv => SpeedFollowsHeat
  <2> SUFFICES ASSUME IInv, NEW r \in Profiles, curves[r] # NoCurve
               PROVE  LET c == curves[r] IN
                        /\ \A t1, t2 \in Readings : t1 <= t2 => TargetSpeed(c, t1) <= TargetSpeed(c, t2)
                        /\ \A i \in 2..Len(c), t \in Readings :
                               c[i - 1].temp <= t /\ t <= c[i].temp =>
                                   LET span == c[i].temp - c[i - 1].temp
                                       line == c[i - 1].speed * (c[i].temp - t)
                                                   + c[i].speed * (t - c[i - 1].temp)
                                   IN  2 * (CurveSpeed(c, t) * span - line) \in -span..span
    BY DEF SpeedFollowsHeat
  <2> DEFINE c == curves[r]
  <2>a. c \in Seq(Points) /\ ValidatePoints(c)
    BY DEF IInv, CurvesAreValid, Accepted
  <2>b. \A t \in Readings : t \in Int
    BY FanCurveAssumption
  <2> HIDE DEF c
  <2>1. ASSUME NEW t \in Readings, NEW u \in Readings, t <= u
        PROVE  TargetSpeed(c, t) <= TargetSpeed(c, u)
    <3>1. /\ CurveSpeed(c, t) \in Int /\ CurveSpeed(c, u) \in Int
          /\ CurveSpeed(c, t) <= 100 /\ CurveSpeed(c, t) <= CurveSpeed(c, u)
      BY <2>a, <2>b, <2>1, CurveIsBounded, CurveIsMonotone
    <3> QED
      BY <2>b, <2>1, <3>1, SMT DEF TargetSpeed
  <2>2. ASSUME NEW i \in 2..Len(c), NEW t \in Readings, c[i - 1].temp <= t, t <= c[i].temp
        PROVE  LET span == c[i].temp - c[i - 1].temp
                   line == c[i - 1].speed * (c[i].temp - t) + c[i].speed * (t - c[i - 1].temp)
               IN  2 * (CurveSpeed(c, t) * span - line) \in (-span)..span
    <3>1. i - 1 \in 1..Len(c) /\ i \in 1..Len(c) /\ i = (i - 1) + 1
      BY <2>a
    <3> QED
      BY <2>a, <2>b, <2>2, <3>1, CurveIsNearLine
  <2> QED
    BY <2>1, <2>2 DEF c
<1> QED
  BY <1>1, CurveInvariant, PTL
=============================================================================
