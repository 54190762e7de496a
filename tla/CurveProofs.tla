---------------------------- MODULE CurveProofs ----------------------------
(***************************************************************************)
(* What the quotes of CurveMath guarantee for every curve and every trade, *)
(* whatever the width of the integers.                                     *)
(***************************************************************************)
EXTENDS CurveMath, TLAPS

\* Integer division is the largest integer quotient.
LEMMA FloorDivision ==
    ASSUME NEW a \in Nat, NEW b \in Nat, b > 0
    PROVE  /\ a \div b \in Nat
           /\ (a \div b) * b <= a
           /\ a < (a \div b) * b + b
BY SMT

\* CeilDiv is the smallest integer that covers the quotient.
LEMMA CeilDivision ==
    ASSUME NEW a \in Nat, NEW b \in Nat, b > 0
    PROVE  /\ CeilDiv(a, b) \in Nat
           /\ a <= CeilDiv(a, b) * b
           /\ CeilDiv(a, b) * b < a + b
<1> DEFINE c == a + (b - 1)
<1>1. c \in Nat /\ CeilDiv(a, b) = c \div b
  BY DEF CeilDiv
<1> HIDE DEF c
<1>2. /\ c \div b \in Nat
      /\ (c \div b) * b <= c
      /\ c < (c \div b) * b + b
  BY <1>1, FloorDivision
<1>3. (c \div b) * b \in Nat
  BY <1>2
<1> QED
  BY <1>1, <1>2, <1>3 DEF c

\* Multiplication by a natural number is monotonic.
LEMMA ProductMonotone ==
    ASSUME NEW a \in Nat, NEW b \in Nat, NEW c \in Nat, a <= b
    PROVE  a * c <= b * c
BY SMT

\* A positive factor cancels from a strict inequality.
LEMMA ProductCancels ==
    ASSUME NEW a \in Nat, NEW b \in Nat, NEW c \in Nat, a * c < b * c
    PROVE  a < b
<1>1. SUFFICES ASSUME b <= a PROVE FALSE
  OBVIOUS
<1>2. b * c <= a * c
  BY <1>1, ProductMonotone
<1>3. a * c \in Nat /\ b * c \in Nat
  OBVIOUS
<1> QED
  BY <1>2, <1>3

-----------------------------------------------------------------------------
\* A purchase is priced at a positive number of lamports that keeps k = x * y
\* from falling, and raises it by less than the tokens that remain.
THEOREM BuyKeepsK ==
    ASSUME NEW vs \in Nat, NEW vt \in Nat, NEW rs \in Nat, NEW n \in Nat,
           vs > 0, n > 0, n < vt
    PROVE  LET s == SolIn(vs, vt, rs, n)
           IN  /\ s \in Nat /\ s > 0
               /\ (vs + rs) * vt <= (vs + rs + s) * (vt - n)
               /\ (vs + rs + s) * (vt - n) < (vs + rs) * vt + (vt - n)
<1> DEFINE x == vs + rs
           y == vt - n
           q == CeilDiv(x * vt, y)
<1>1. x \in Nat /\ x > 0 /\ y \in Nat /\ y > 0 /\ y < vt /\ x * vt \in Nat
  OBVIOUS
<1>2. SolIn(vs, vt, rs, n) = q - x
  BY DEF SolIn
<1> HIDE DEF x, y
<1>3. q \in Nat /\ x * vt <= q * y /\ q * y < x * vt + y
  BY <1>1, CeilDivision
<1> HIDE DEF q
<1>4. x * y < x * vt
  BY <1>1
<1>5. x * y < q * y
  BY <1>1, <1>3, <1>4
<1>6. x < q
  BY <1>1, <1>3, <1>5, ProductCancels
<1>7. q - x \in Nat /\ q - x > 0 /\ x + (q - x) = q
  BY <1>1, <1>3, <1>6
<1> QED
  BY <1>2, <1>3, <1>7 DEF x, y

\* A sale returns at most what the curve holds, and one lamport less would have
\* kept k = x * y from falling.
THEOREM SellOverpaysLessThanOne ==
    ASSUME NEW vs \in Nat, NEW vt \in Nat, NEW rs \in Nat, NEW n \in Nat,
           n > 0
    PROVE  LET g == SolOut(vs, vt, rs, n)
           IN  /\ g \in Nat /\ g <= rs
               /\ (vs + rs) * vt < (vs + rs - g + 1) * (vt + n)
<1> DEFINE x == vs + rs
           y == vt + n
           q == (x * vt) \div y
           g == SolOut(vs, vt, rs, n)
<1>1. x \in Nat /\ y \in Nat /\ y > 0 /\ vt <= y /\ x * vt \in Nat /\ rs <= x
  OBVIOUS
<1>2. g = IF x - q <= rs THEN x - q ELSE rs
  BY DEF SolOut, SolOutUncapped
<1> HIDE DEF x, y, g
<1>3. q \in Nat /\ q * y <= x * vt /\ x * vt < q * y + y
  BY <1>1, FloorDivision
<1> HIDE DEF q
<1>4. q <= x
  <2>1. SUFFICES ASSUME x < q PROVE FALSE
    BY <1>1, <1>3
  <2>2. (x + 1) * y <= q * y
    BY <1>1, <1>3, <2>1, ProductMonotone
  <2>3. x * vt <= x * y
    BY <1>1
  <2>4. (x + 1) * y = x * y + y /\ x * y \in Nat /\ q * y \in Nat
    BY <1>1, <1>3
  <2> QED
    BY <1>1, <1>3, <2>2, <2>3, <2>4
<1>5. g \in Nat /\ g <= rs /\ q <= x - g
  BY <1>1, <1>2, <1>3, <1>4
<1>6. (q + 1) * y <= (x - g + 1) * y
  <2>1. q + 1 \in Nat /\ x - g + 1 \in Nat /\ q + 1 <= x - g + 1
    BY <1>1, <1>3, <1>5
  <2> QED
    BY <1>1, <2>1, ProductMonotone
<1>7. (q + 1) * y = q * y + y /\ q * y \in Nat /\ (x - g + 1) * y \in Nat
  BY <1>1, <1>3, <1>5
<1> QED
  BY <1>1, <1>3, <1>5, <1>6, <1>7 DEF x, y, g

-----------------------------------------------------------------------------
(* Quotes as extremal integers, and what orders split in two are quoted.   *)

\* No larger integer than the quotient fits, no smaller one than the rounded-up
\* quotient covers.
LEMMA QuotientsAreExtremal ==
    ASSUME NEW a \in Nat, NEW b \in Nat, NEW c \in Nat, b > 0
    PROVE  /\ c * b <= a => c <= a \div b
           /\ a <= c * b => CeilDiv(a, b) <= c
<1>1. ASSUME c * b <= a PROVE c <= a \div b
  <2>1. a \div b \in Nat /\ a < (a \div b) * b + b
    BY FloorDivision
  <2>2. (a \div b + 1) * b = (a \div b) * b + b /\ c * b \in Nat /\ (a \div b + 1) * b \in Nat
    BY <2>1
  <2>3. c < a \div b + 1
    BY <1>1, <2>1, <2>2, ProductCancels
  <2> QED
    BY <2>1, <2>3
<1>2. ASSUME a <= c * b PROVE CeilDiv(a, b) <= c
  <2> DEFINE q == CeilDiv(a, b)
  <2>1. q \in Nat /\ q * b < a + b
    BY CeilDivision
  <2> HIDE DEF q
  <2>2. (c + 1) * b = c * b + b /\ c * b \in Nat /\ q * b \in Nat
    BY <2>1
  <2>3. q < c + 1
    BY <1>2, <2>1, <2>2, ProductCancels
  <2> QED
    BY <2>1, <2>3 DEF q
<1> QED
  BY <1>1, <1>2

\* The price of n tokens is the least that keeps k from falling, on every curve
\* that has more than n tokens, the empty one included.
LEMMA BuyPriceIsLeast ==
    ASSUME NEW vs \in Nat, NEW vt \in Nat, NEW rs \in Nat, NEW n \in Nat, n < vt
    PROVE  LET s == SolIn(vs, vt, rs, n)
           IN  /\ s \in Nat
               /\ (vs + rs) * vt <= (vs + rs + s) * (vt - n)
               /\ \A p \in Nat : (vs + rs) * vt <= (vs + rs + p) * (vt - n) => s <= p
<1> DEFINE x == vs + rs
           y == vt - n
           q == CeilDiv(x * vt, y)
<1>1. x \in Nat /\ y \in Nat /\ y > 0 /\ y <= vt /\ x * vt \in Nat
  OBVIOUS
<1>2. SolIn(vs, vt, rs, n) = q - x
  BY DEF SolIn
<1> HIDE DEF x, y
<1>3. q \in Nat /\ x * vt <= q * y
  BY <1>1, CeilDivision
<1>4. \A c \in Nat : x * vt <= c * y => q <= c
  BY <1>1, QuotientsAreExtremal
<1> HIDE DEF q
<1>5. x <= q
  <2>1. SUFFICES ASSUME q < x PROVE FALSE
    BY <1>1, <1>3
  <2>2. (q + 1) * y <= x * y
    BY <1>1, <1>3, <2>1, ProductMonotone
  <2>3. x * y <= x * vt
    BY <1>1
  <2>4. (q + 1) * y = q * y + y /\ q * y \in Nat /\ x * y \in Nat
    BY <1>1, <1>3
  <2> QED
    BY <1>1, <1>3, <2>2, <2>3, <2>4
<1>6. q - x \in Nat /\ x + (q - x) = q
  BY <1>1, <1>3, <1>5
<1>7. ASSUME NEW p \in Nat, x * vt <= (x + p) * y PROVE q - x <= p
  <2>1. q <= x + p
    BY <1>1, <1>4, <1>7
  <2> QED
    BY <1>1, <1>3, <2>1
<1> QED
  BY <1>2, <1>3, <1>6, <1>7 DEF x, y

\* The SOL that stays in the curve after a sale is at least the largest amount
\* that does not raise k; it is exactly that unless the payout is capped.
LEMMA SalePriceIsLargest ==
    ASSUME NEW vs \in Nat, NEW vt \in Nat, NEW rs \in Nat, NEW n \in Nat, n > 0
    PROVE  LET g == SolOut(vs, vt, rs, n)
               q == ((vs + rs) * vt) \div (vt + n)
           IN  /\ g \in Nat /\ g <= rs
               /\ q \in Nat /\ q <= vs + rs - g
               /\ g < rs => q = vs + rs - g
               /\ \A c \in Nat : c * (vt + n) <= (vs + rs) * vt => c <= q
               /\ q * (vt + n) <= (vs + rs) * vt
               /\ (vs + rs) * vt < (q + 1) * (vt + n)
<1> DEFINE x == vs + rs
           y == vt + n
           q == (x * vt) \div y
           g == SolOut(vs, vt, rs, n)
<1>1. x \in Nat /\ y \in Nat /\ y > 0 /\ x * vt \in Nat /\ rs <= x
  OBVIOUS
<1>2. g \in Nat /\ g <= rs
  BY SellOverpaysLessThanOne
<1>3. g = IF x - q <= rs THEN x - q ELSE rs
  BY DEF SolOut, SolOutUncapped
<1> HIDE DEF x, y, g
<1>4. q \in Nat /\ q * y <= x * vt /\ x * vt < q * y + y
  BY <1>1, FloorDivision
<1>5. \A c \in Nat : c * y <= x * vt => c <= q
  BY <1>1, QuotientsAreExtremal
<1> HIDE DEF q
<1>6. q <= x - g /\ (g < rs => q = x - g)
  BY <1>1, <1>2, <1>3, <1>4
<1>7. (q + 1) * y = q * y + y
  BY <1>1, <1>4
<1> QED
  BY <1>2, <1>4, <1>5, <1>6, <1>7 DEF x, y, q, g

\* A larger purchase is never quoted less than a smaller one.
LEMMA BuyQuoteGrows ==
    ASSUME NEW vs \in Nat, NEW vt \in Nat, NEW rs \in Nat, NEW n \in Nat, NEW m \in Nat,
           n <= m, m < vt
    PROVE  SolIn(vs, vt, rs, n) <= SolIn(vs, vt, rs, m)
<1> DEFINE x == vs + rs
           s == SolIn(vs, vt, rs, m)
<1>1. s \in Nat /\ x * vt <= (x + s) * (vt - m)
  BY BuyPriceIsLeast
<1>2. x \in Nat /\ vt - m \in Nat /\ vt - n \in Nat /\ vt - m <= vt - n /\ x * vt \in Nat
  OBVIOUS
<1> HIDE DEF x, s
<1>3. (vt - m) * (x + s) <= (vt - n) * (x + s)
  BY <1>1, <1>2, ProductMonotone
<1>4. x * vt <= (x + s) * (vt - n)
  BY <1>1, <1>2, <1>3
<1>5. n < vt /\ \A p \in Nat : (vs + rs) * vt <= (vs + rs + p) * (vt - n) => SolIn(vs, vt, rs, n) <= p
  BY BuyPriceIsLeast
<1> QED
  BY <1>1, <1>4, <1>5 DEF x, s

\* A larger sale is never quoted less than a smaller one.
LEMMA SellQuoteGrows ==
    ASSUME NEW vs \in Nat, NEW vt \in Nat, NEW rs \in Nat, NEW n \in Nat, NEW m \in Nat,
           0 < n, n <= m
    PROVE  SolOut(vs, vt, rs, n) <= SolOut(vs, vt, rs, m)
<1> DEFINE x == vs + rs
           g == SolOut(vs, vt, rs, n)
           h == SolOut(vs, vt, rs, m)
           q == ((vs + rs) * vt) \div (vt + n)
           r == ((vs + rs) * vt) \div (vt + m)
<1>1. g \in Nat /\ g <= rs /\ q \in Nat /\ q <= vs + rs - g
  BY SalePriceIsLargest
<1>2. \A c \in Nat : c * (vt + n) <= (vs + rs) * vt => c <= q
  BY SalePriceIsLargest
<1>3. 0 < m
  OBVIOUS
<1>4. h \in Nat /\ h <= rs /\ (h < rs => r = vs + rs - h)
  BY <1>3, SalePriceIsLargest
<1>5. r \in Nat /\ r * (vt + m) <= (vs + rs) * vt
  BY <1>3, SalePriceIsLargest
<1> HIDE DEF g, h, q, r
<1>6. (vt + n) * r <= (vt + m) * r
  BY <1>5, ProductMonotone
<1>7. r * (vt + n) <= (vs + rs) * vt
  BY <1>5, <1>6
<1>8. r <= q
  BY <1>2, <1>5, <1>7
<1>9. g <= h
  BY <1>1, <1>4, <1>5, <1>8
<1> QED
  BY <1>9 DEF g, h

\* Two purchases, the second quoted on the curve the first one leaves, never
\* cost less than one.
THEOREM SplittingBuysCostsMore ==
    ASSUME NEW vs \in Nat, NEW vt \in Nat, NEW rs \in Nat, NEW n \in Nat, NEW a \in Nat,
           n < vt, a <= n
    PROVE  LET first  == SolIn(vs, vt, rs, a)
               second == SolIn(vs, vt - a, rs + first, n - a)
           IN  first + second >= SolIn(vs, vt, rs, n)
<1> DEFINE x == vs + rs
           first == SolIn(vs, vt, rs, a)
           second == SolIn(vs, vt - a, rs + first, n - a)
<1>1. first \in Nat /\ (vs + rs) * vt <= (vs + rs + first) * (vt - a)
  <2>1. a < vt
    OBVIOUS
  <2> QED
    BY <2>1, BuyPriceIsLeast
<1> HIDE DEF first
<1>2. /\ vt - a \in Nat /\ rs + first \in Nat /\ n - a \in Nat /\ n - a < vt - a
      /\ (vt - a) - (n - a) = vt - n
  BY <1>1
<1>3. /\ second \in Nat
      /\ (vs + (rs + first)) * (vt - a) <= (vs + (rs + first) + second) * ((vt - a) - (n - a))
  <2> DEFINE left == vt - a
             held == rs + first
             rest == n - a
  <2>1. left \in Nat /\ held \in Nat /\ rest \in Nat /\ rest < left
    BY <1>2
  <2> HIDE DEF left, held, rest
  <2>2. /\ SolIn(vs, left, held, rest) \in Nat
        /\ (vs + held) * left <= (vs + held + SolIn(vs, left, held, rest)) * (left - rest)
    BY <2>1, BuyPriceIsLeast
  <2> QED
    BY <2>2 DEF left, held, rest
<1> HIDE DEF second
<1>4. vs + (rs + first) = vs + rs + first /\ vs + rs + first + second = vs + rs + (first + second)
  BY <1>1, <1>3
<1>5. (vs + rs + first) * (vt - a) <= (vs + rs + (first + second)) * (vt - n)
  BY <1>2, <1>3, <1>4
<1>6. first + second \in Nat /\ (vs + rs) * vt <= (vs + rs + (first + second)) * (vt - n)
  <2>1. /\ first + second \in Nat /\ (vs + rs) * vt \in Nat
        /\ (vs + rs + first) * (vt - a) \in Nat
        /\ (vs + rs + (first + second)) * (vt - n) \in Nat
    BY <1>1, <1>2, <1>3
  <2> QED
    BY <2>1, <1>1, <1>5
<1>7. SolIn(vs, vt, rs, n) \in Nat /\ SolIn(vs, vt, rs, n) <= first + second
  BY <1>6, BuyPriceIsLeast
<1> QED
  BY <1>1, <1>3, <1>7 DEF first, second

\* Selling at once what was just bought returns no more than was paid.
THEOREM RoundTripNoGain ==
    ASSUME NEW vs \in Nat, NEW vt \in Nat, NEW rs \in Nat, NEW n \in Nat,
           n > 0, n < vt
    PROVE  LET s == SolIn(vs, vt, rs, n)
           IN  SolOut(vs, vt - n, rs + s, n) <= s
<1> DEFINE s == SolIn(vs, vt, rs, n)
           x == vs + rs
           w == (x + s) * (vt - n)
           q == w \div vt
<1>1. s \in Nat /\ x * vt <= w
  BY BuyPriceIsLeast
<1>2. x \in Nat /\ vt > 0 /\ w \in Nat
  BY <1>1
<1>3. SolOut(vs, vt - n, rs + s, n) <= (x + s) - q
  <2>1. vs + (rs + s) = x + s /\ (vt - n) + n = vt
    BY <1>1
  <2>2. SolOutUncapped(vs, vt - n, rs + s, n) = (x + s) - q
    BY <2>1 DEF SolOutUncapped
  <2>3. q \in Nat
    BY <1>2, FloorDivision
  <2> QED
    BY <1>1, <1>2, <2>2, <2>3 DEF SolOut
<1> HIDE DEF w, x, s
<1>4. q \in Nat /\ w < q * vt + vt
  BY <1>2, FloorDivision
<1> HIDE DEF q
<1>5. x * vt < (q + 1) * vt
  BY <1>1, <1>2, <1>4
<1>6. x <= q
  <2>1. x < q + 1
    BY <1>2, <1>4, <1>5, ProductCancels
  <2> QED
    BY <1>2, <1>4, <2>1
<1>7. SolOut(vs, vt - n, rs + s, n) <= s
  <2>1. SolOut(vs, vt - n, rs + s, n) \in Nat
    <3>1. vt - n \in Nat /\ rs + s \in Nat
      BY <1>1
    <3> QED
      BY <3>1, SellOverpaysLessThanOne
  <2> QED
    BY <1>1, <1>2, <1>3, <1>4, <1>6, <2>1
<1> QED
  BY <1>7 DEF s

\* Two sales, the second quoted on the curve the first one leaves, return at
\* most one lamport more than one sale of both amounts.
THEOREM SplittingSalesGainsAtMostOne ==
    ASSUME NEW vs \in Nat, NEW vt \in Nat, NEW rs \in Nat, NEW a \in Nat, NEW b \in Nat,
           a > 0, b > 0
    PROVE  LET first  == SolOut(vs, vt, rs, a)
               second == SolOut(vs, vt + a, rs - first, b)
           IN  first + second <= SolOut(vs, vt, rs, a + b) + 1
<1> DEFINE x == vs + rs
           first == SolOut(vs, vt, rs, a)
           left == rs - first
           mid == vt + a
           last == vt + (a + b)
           second == SolOut(vs, mid, left, b)
           whole == SolOut(vs, vt, rs, a + b)
           p == (x * vt) \div mid
           q == (x * vt) \div last
           r == ((vs + left) * mid) \div (mid + b)
<1>1. /\ first \in Nat /\ first <= rs /\ p \in Nat /\ p <= x - first
      /\ x * vt < (p + 1) * mid
  <2>1. first \in Nat /\ first <= rs
    BY SalePriceIsLargest
  <2>2. /\ ((vs + rs) * vt) \div (vt + a) \in Nat
        /\ ((vs + rs) * vt) \div (vt + a) <= vs + rs - SolOut(vs, vt, rs, a)
    BY SalePriceIsLargest
  <2>3. x * vt < (p + 1) * mid
    BY SalePriceIsLargest
  <2> QED
    BY <2>1, <2>2, <2>3
<1>2. /\ whole \in Nat /\ whole <= rs /\ q \in Nat /\ (whole < rs => q = x - whole)
      /\ q * last <= x * vt
  <2> DEFINE n == a + b
  <2>1. n \in Nat /\ n > 0
    OBVIOUS
  <2> HIDE DEF n
  <2>2. SolOut(vs, vt, rs, n) \in Nat /\ SolOut(vs, vt, rs, n) <= rs
    BY <2>1, SalePriceIsLargest
  <2>3. /\ ((vs + rs) * vt) \div (vt + n) \in Nat
        /\ SolOut(vs, vt, rs, n) < rs
              => ((vs + rs) * vt) \div (vt + n) = vs + rs - SolOut(vs, vt, rs, n)
    BY <2>1, SalePriceIsLargest
  <2>4. (((vs + rs) * vt) \div (vt + n)) * (vt + n) <= (vs + rs) * vt
    BY <2>1, SalePriceIsLargest
  <2> QED
    BY <2>2, <2>3, <2>4 DEF n
<1>3. left \in Nat /\ mid \in Nat /\ vs + left = x - first /\ mid + b = last /\ last \in Nat
      /\ x \in Nat /\ mid <= last
  BY <1>1
<1> HIDE DEF x, first, left, mid, last, p, q, r, whole
<1>4. /\ second \in Nat /\ second <= left /\ r \in Nat /\ r <= vs + left - second
      /\ (vs + left) * mid < (r + 1) * (mid + b)
  BY <1>3, SalePriceIsLargest DEF r
<1> HIDE DEF second
<1>5. q * last <= (r + 1) * last + mid
  <2>1. p * mid <= (vs + left) * mid
    BY <1>1, <1>3, ProductMonotone
  <2>2. (p + 1) * mid = p * mid + mid /\ p * mid \in Nat
    BY <1>1, <1>3
  <2>3. (vs + left) * mid < (r + 1) * last
    BY <1>3, <1>4
  <2>4. (vs + left) * mid \in Nat /\ (r + 1) * last \in Nat /\ q * last \in Nat /\ x * vt \in Nat
    BY <1>2, <1>3, <1>4
  <2> QED
    BY <1>1, <1>2, <1>3, <2>1, <2>2, <2>3, <2>4
<1>6. q <= r + 1
  <2>1. SUFFICES ASSUME r + 2 <= q PROVE FALSE
    BY <1>2, <1>4
  <2>2. (r + 2) * last <= q * last
    BY <1>2, <1>3, <1>4, <2>1, ProductMonotone
  <2>3. (r + 2) * last = (r + 1) * last + last /\ (r + 1) * last \in Nat /\ q * last \in Nat
    BY <1>2, <1>3, <1>4
  <2> QED
    BY <1>3, <1>5, <2>2, <2>3
<1>7. first + second <= whole + 1
  <2>1. CASE whole = rs
    BY <1>1, <1>4, <2>1 DEF left
  <2>2. CASE whole < rs
    <3>1. second <= x - first - r
      BY <1>1, <1>3, <1>4
    <3> QED
      BY <1>1, <1>2, <1>3, <1>4, <1>6, <2>2, <3>1
  <2> QED
    BY <1>2, <2>1, <2>2
<1> QED
  BY <1>7 DEF first, second, left, mid, whole

\* On a curve with at least as many tokens to the lamport as it is to hold
\* lamports, some purchase takes it from x to exactly goal lamports.
LEMMA SomePurchaseLands ==
    ASSUME NEW x \in Nat, NEW vt \in Nat, NEW goal \in Nat, x < goal, goal * goal <= x * vt
    PROVE  LET y == CeilDiv(x * vt, goal)
           IN  /\ y \in Nat /\ goal <= y /\ y < vt
               /\ CeilDiv(x * vt, y) = goal
<1> DEFINE k == x * vt
           y == CeilDiv(k, goal)
           z == CeilDiv(k, y)
<1>1. goal > 0 /\ k \in Nat
  OBVIOUS
<1>2. goal <= vt
  <2>1. SUFFICES ASSUME vt < goal PROVE FALSE
    OBVIOUS
  <2>2. vt * x <= goal * x
    BY <2>1, ProductMonotone
  <2>3. x * goal < goal * goal
    <3>1. (x + 1) * goal <= goal * goal
      BY ProductMonotone
    <3> QED
      BY <3>1
  <2>4. vt * x = x * vt /\ goal * x = x * goal
    OBVIOUS
  <2> QED
    BY <2>2, <2>3, <2>4
<1>3. k <= (vt - 1) * goal
  <2>1. (x + 1) * vt <= goal * vt
    BY ProductMonotone
  <2>2. (x + 1) * vt = k + vt /\ (vt - 1) * goal = goal * vt - goal
    OBVIOUS
  <2> QED
    BY <1>2, <2>1, <2>2
<1> HIDE DEF k
<1>4. y \in Nat /\ k <= y * goal /\ y * goal < k + goal
  BY <1>1, CeilDivision
<1>5. \A c \in Nat : k <= c * goal => y <= c
  BY <1>1, QuotientsAreExtremal
<1> HIDE DEF y
<1>6. y < vt
  <2> DEFINE c == vt - 1
  <2>1. c \in Nat
    BY <1>1, <1>2
  <2>2. k <= c * goal
    BY <1>3
  <2> HIDE DEF c
  <2>3. y <= c
    BY <1>5, <2>1, <2>2
  <2> QED
    BY <1>4, <2>3 DEF c
<1>7. goal <= y
  <2>1. SUFFICES ASSUME y + 1 <= goal PROVE FALSE
    BY <1>4
  <2>2. (y + 1) * goal <= goal * goal
    BY <1>4, <2>1, ProductMonotone
  <2>3. (y + 1) * goal = y * goal + goal
    BY <1>4
  <2> QED
    BY <1>1, <1>4, <2>2, <2>3 DEF k
<1>8. z \in Nat /\ k <= z * y /\ \A c \in Nat : k <= c * y => z <= c
  BY <1>1, <1>4, <1>7, CeilDivision, QuotientsAreExtremal
<1> HIDE DEF z
<1>9. z <= goal
  <2>1. y * goal = goal * y
    BY <1>4
  <2> QED
    BY <1>4, <1>8, <2>1
<1>10. goal <= z
  <2>1. SUFFICES ASSUME z + 1 <= goal PROVE FALSE
    BY <1>8
  <2>2. (z + 1) * y <= goal * y
    BY <1>4, <1>8, <2>1, ProductMonotone
  <2>3. (z + 1) * y = z * y + y /\ goal * y = y * goal
    BY <1>4, <1>8
  <2>4. z * y \in Nat /\ y * goal \in Nat
    BY <1>4, <1>8
  <2> QED
    BY <1>1, <1>4, <1>7, <1>8, <2>2, <2>3, <2>4
<1>11. z = goal
  BY <1>8, <1>9, <1>10
<1> QED
  BY <1>4, <1>6, <1>7, <1>11 DEF y, z, k
=============================================================================
