-------------------------------- MODULE Quad -------------------------------
(***************************************************************************)
(* The compiler's support library for long long arithmetic                 *)
(* (common/gcc-millicode): a long long is two ints, an int two digits of   *)
(* HALF_BITS bits.  Values are unsigned; Signed gives the two's complement *)
(* reading.  Every function is checked against the arithmetic of Integers. *)
(***************************************************************************)
EXTENDS Integers, SequencesExt, Bitwise

CONSTANT HALF_BITS

ASSUME HalfBits == HALF_BITS \in Nat \ {0}

VARIABLES lla, llb  \* the operands

QB == 2 ^ HALF_BITS
INT_BITS == 2 * HALF_BITS
WORD == QB * QB
LLONG == WORD * WORD

Int_(x) == x % WORD
LL(x) == x % LLONG
H(x) == x \div WORD
L(x) == x % WORD
Join(h, l) == (Int_(h) * WORD) + Int_(l)
Signed(x, m) == IF 2 * x < m THEN x ELSE x - m
SH(x) == Signed(H(x), WORD)
If1(c) == IF c THEN 1 ELSE 0

HHALF(x) == Int_(x) \div QB
LHALF(x) == x % QB
LHUP(x) == Int_(x * QB)
COMBINE(a, b) == LHUP(a) + b

----------------------------------------------------------------------------
(* Sums, comparisons, bits, shifts                                         *)

\* Mutant: a low word equal to the addend's counts as a carry.
adddi3_carry(a, b) ==
  LET lo == Int_(L(a) + L(b)) IN Join(H(a) + H(b) + If1(lo <= L(b)), lo)

adddi3(a, b) ==
  LET lo == Int_(L(a) + L(b)) IN Join(H(a) + H(b) + If1(lo < L(b)), lo)

subdi3(a, b) ==
  LET lo == Int_(L(a) - L(b)) IN Join(H(a) - H(b) - If1(lo > L(a)), lo)

negdi2(a) ==
  LET lo == Int_(-L(a)) IN Join((-H(a)) - If1(lo > 0), lo)

anddi3(a, b) == Join(H(a) & H(b), L(a) & L(b))
iordi3(a, b) == Join(H(a) | H(b), L(a) | L(b))
xordi3(a, b) == Join(H(a) ^^ H(b), L(a) ^^ L(b))
one_cmpldi2(a) == Join(WORD - 1 - H(a), WORD - 1 - L(a))

\* 0, 1 or 2 for less, equal and greater.
Compare(ha, hb, a, b) ==
  CASE ha < hb -> 0 [] ha > hb -> 2 [] OTHER -> (CASE L(a) < L(b) -> 0 [] L(a) > L(b) -> 2 [] OTHER -> 1)
cmpdi2(a, b) == Compare(SH(a), SH(b), a, b)
ucmpdi2(a, b) == Compare(H(a), H(b), a, b)

\* x << s, and >> of unsigned and signed ints, for s < INT_BITS
Shl(x, s) == Int_(x * 2 ^ s)
Shr(x, s) == x \div 2 ^ s

ashldi3(a, shift) ==
  CASE shift = 0 -> a
    [] shift >= INT_BITS -> Join(Shl(L(a), shift - INT_BITS), 0)
    [] OTHER -> Join(Shl(H(a), shift) | Shr(L(a), INT_BITS - shift), Shl(L(a), shift))

lshldi3(a, shift) == ashldi3(a, shift)

lshrdi3(a, shift) ==
  CASE shift = 0 -> a
    [] shift >= INT_BITS -> Join(0, Shr(H(a), shift - INT_BITS))
    [] OTHER -> Join(Shr(H(a), shift), Shr(L(a), shift) | Shl(H(a), INT_BITS - shift))

ashrdi3(a, shift) ==
  CASE shift = 0 -> a
    [] shift >= INT_BITS -> Join(Shr(Shr(SH(a), INT_BITS - 1), 1), Shr(SH(a), shift - INT_BITS))
    [] OTHER -> Join(Shr(SH(a), shift), Shr(L(a), shift) | Shl(H(a), INT_BITS - shift))

----------------------------------------------------------------------------
(* Product                                                                 *)

\* |x - y|, and whether x < y
Diff(x, y) == IF x >= y THEN x - y ELSE y - x

lmulq(u, v) ==
  LET u1 == HHALF(u) u0 == LHALF(u) v1 == HHALF(v) v0 == LHALF(v)
      low == u0 * v0
      neg == (u1 < u0) # (v0 < v1)
      mid == Int_(Diff(u1, u0) * Diff(v0, v1))
      high == Int_(u1 * v1)
      h1 == high + HHALF(high)
      l1 == LHUP(high)
      l2 == IF neg THEN Int_(l1 - LHUP(mid)) ELSE Int_(l1 + LHUP(mid))
      h2 == IF neg THEN h1 - (HHALF(mid) + If1(l2 > l1)) ELSE h1 + HHALF(mid) + If1(l2 < l1)
      l3 == Int_(l2 + LHUP(low))
      h3 == h2 + HHALF(low) + If1(l3 < l2)
      l4 == Int_(l3 + low)
  IN  IF u1 = 0 /\ v1 = 0 THEN low ELSE Join(h3 + If1(l4 < low), l4)

muldi3(a, b) ==
  LET Abs(x) == IF Signed(x, LLONG) >= 0 THEN x ELSE negdi2(x)
      Sum(u, v, mid, low) ==
        IF H(u) = 0 /\ H(v) = 0 THEN low
        ELSE Join((H(u) * H(v)) + (IF (H(u) < L(u)) # (L(v) < H(v)) THEN -mid ELSE mid) + L(low) + H(low), L(low))
      Prod(u, v) == Sum(u, v, Int_(Diff(H(u), L(u)) * Diff(L(v), H(v))), lmulq(L(u), L(v)))
      Sign(prod) == IF (Signed(a, LLONG) < 0) # (Signed(b, LLONG) < 0) THEN negdi2(prod) ELSE prod
  IN  Sign(Prod(Abs(a), Abs(b)))

----------------------------------------------------------------------------
(* Quotient and remainder: Knuth's algorithm D in base QB                  *)

Digits(x) == [i \in 0..4 |-> IF i = 0 THEN 0 ELSE (x \div QB ^ (4 - i)) % QB]
Value(d) == Join(COMBINE(d[1], d[2]), COMBINE(d[3], d[4]))

\* Leading zero digits of d[1..4]
Zeros(d) == CHOOSE k \in 0..4 : (\A i \in 1..k : d[i] = 0) /\ (k = 4 \/ d[k + 1] # 0)

\* A divisor of one digit.
ShortDivision(u, t) ==
  LET Digit(acc, i, rbj) == [q |-> [acc.q EXCEPT ![i] = LHALF(rbj \div t)], r |-> rbj % t]
      D(acc, i) == Digit(acc, i, COMBINE(acc.r, u[i]))
      End(end) == [q |-> Value(end.q), r |-> end.r]
  IN  End(FoldLeft(D, [q |-> [i \in 0..4 |-> 0], r |-> 0], <<1, 2, 3, 4>>))

\* p[lo] .. p[lo + len] shifted left
shl(p, lo, len, sh) ==
  [i \in DOMAIN p |->
     CASE i >= lo /\ i < lo + len -> LHALF(p[i] * 2 ^ sh) + (p[i + 1] \div 2 ^ (HALF_BITS - sh))
       [] i = lo + len -> LHALF(p[i] * 2 ^ sh)
       [] OTHER -> p[i]]

\* D3.  The digits of the estimate; b stands for the label qhat_too_big.
RECURSIVE Estimate(_, _, _, _, _, _)
Estimate(qhat, rhat, v1, v2, uj2, big) ==
  IF ~big /\ v2 * qhat <= COMBINE(rhat, uj2) THEN qhat
  ELSE IF rhat + v1 >= QB THEN qhat - 1
  ELSE Estimate(qhat - 1, rhat + v1, v1, v2, uj2, FALSE)

\* Mutant: a quotient digit that is one too large stays.
AddBack_none(u, v, j, n) == u
\* D6
AddBack(u, v, j, n) ==
  LET Digit(acc, i, t) == [u |-> [acc.u EXCEPT ![i] = LHALF(t)], t |-> HHALF(t)]
      A(acc, k) == Digit(acc, n + 1 - k + j, acc.t + acc.u[n + 1 - k + j] + v[n + 1 - k])
      End(end) == [end.u EXCEPT ![j] = LHALF(@ + end.t)]
  IN  End(FoldLeft(A, [u |-> u, t |-> 0], [k \in 1..n |-> k]))

\* D3 to D6 for one j.  u and v are offset so that they start at u[0], v[1].
DStep(u, v, j, n) ==
  LET Corrected(u1, qhat, t) ==
        IF HHALF(t) # 0 THEN [u |-> AddBack(u1, v, j, n), q |-> LHALF(qhat - 1)]
        ELSE [u |-> u1, q |-> LHALF(qhat)]
      TopDigit(end, qhat, t) == Corrected([end.u EXCEPT ![j] = LHALF(t)], qhat, t)
      Borrow(end, qhat) == TopDigit(end, qhat, Int_(end.u[j] - end.t))
      Digit(acc, i, t) == [u |-> [acc.u EXCEPT ![i] = LHALF(t)], t |-> (QB - HHALF(t)) % QB]
      Subtract(qhat) ==
        LET S(acc, k) == Digit(acc, n + 1 - k + j, Int_(acc.u[n + 1 - k + j] - (v[n + 1 - k] * qhat) - acc.t))
        IN  Borrow(FoldLeft(S, [u |-> u, t |-> 0], [k \in 1..n |-> k]), qhat)
      Guess(nn) ==
        IF u[j] = v[1] THEN Estimate(QB, u[j + 1], v[1], v[2], u[j + 2], TRUE)
        ELSE Estimate(nn \div v[1], nn % v[1], v[1], v[2], u[j + 2], FALSE)
  IN  Subtract(Guess(COMBINE(u[j], u[j + 1])))

\* The division of u by v, of m + n and n digits, shifted left by d; off digits
\* of u were zero.
Normalized(ud, u, v, m, n, d, off) ==
  LET D(acc, j) ==
        LET Set(s) == [u |-> s.u, q |-> [acc.q EXCEPT ![j + 4 - m] = s.q]] IN Set(DStep(acc.u, v, j, n))
      Unshifted(end, i) ==
        CASE d = 0 -> end.u[i]
          [] d > 0 /\ i > m -> (end.u[i] \div 2 ^ d) + LHALF(end.u[i - 1] * 2 ^ (HALF_BITS - d))
          [] d > 0 /\ i = m -> 0
          [] OTHER -> end.u[i]
      End(end) ==
        [q |-> Value(end.q), r |-> Value([i \in 0..4 |-> IF i >= off THEN Unshifted(end, i - off) ELSE ud[i]])]
  IN  End(FoldLeft(D, [u |-> u, q |-> [i \in 0..4 |-> 0]], [j \in 1..(m + 1) |-> j - 1]))

LongDivision(ud, vd) ==
  LET Shift(u, v, m, n, d) ==
        Normalized(ud, IF d > 0 THEN shl(u, 0, m + n, d) ELSE u, IF d > 0 THEN shl(v, 1, n - 1, d) ELSE v,
                   m, n, d, 4 - n - m)
      Offset(d, k) == [i \in 0..(4 - k) |-> d[i + k]]
      Leading(v1) ==
        CHOOSE k \in 0..HALF_BITS : 2 * v1 * 2 ^ k >= QB /\ \A k2 \in 0..(k - 1) : 2 * v1 * 2 ^ k2 < QB
      Divide(off, zeros) ==
        Shift(Offset(ud, off), Offset(vd, zeros), zeros - off, 4 - zeros, Leading(vd[zeros + 1]))
  IN  Divide(Zeros(ud), Zeros(vd))

\* For vll # 0
qdivrem(ull, vll) ==
  CASE ull < vll -> [q |-> 0, r |-> ull]
    [] ull >= vll /\ Zeros(Digits(vll)) = 3 -> ShortDivision(Digits(ull), vll)
    [] OTHER -> LongDivision(Digits(ull), Digits(vll))

udivdi3(a, b) == qdivrem(a, b).q
umoddi3(a, b) == qdivrem(a, b).r

Magnitude(x) == IF Signed(x, LLONG) < 0 THEN LL(-x) ELSE x
divdi3(a, b) ==
  LET uq == qdivrem(Magnitude(a), Magnitude(b)).q
  IN  IF (Signed(a, LLONG) < 0) # (Signed(b, LLONG) < 0) THEN LL(-uq) ELSE uq
moddi3(a, b) ==
  LET ur == qdivrem(Magnitude(a), Magnitude(b)).r
  IN  IF Signed(a, LLONG) < 0 THEN LL(-ur) ELSE ur

----------------------------------------------------------------------------

QuadInit == lla \in 0..(LLONG - 1) /\ llb = 0
QuadNext == llb < LLONG - 1 /\ llb' = llb + 1 /\ UNCHANGED lla
QuadSpec == QuadInit /\ [][QuadNext]_<<lla, llb>>

\* Sums, differences, comparisons, bit operations and shifts of long longs
\* made of two ints are those of the integers modulo the width (adddi3.c to
\* xordi3.c): no carry or sign is lost between the two words.
WordsAgree ==
  LET sa == Signed(lla, LLONG) sb == Signed(llb, LLONG) s == llb % (2 * INT_BITS)
      Order(x, y) == CASE x < y -> 0 [] x > y -> 2 [] OTHER -> 1
  IN  /\ adddi3(lla, llb) = LL(lla + llb) /\ subdi3(lla, llb) = LL(lla - llb) /\ negdi2(lla) = LL(-lla)
      /\ anddi3(lla, llb) = (lla & llb) /\ iordi3(lla, llb) = (lla | llb) /\ xordi3(lla, llb) = (lla ^^ llb)
      /\ one_cmpldi2(lla) = LL(-lla - 1)
      /\ cmpdi2(lla, llb) = Order(sa, sb) /\ ucmpdi2(lla, llb) = Order(lla, llb)
      /\ ashldi3(lla, s) = LL(lla * 2 ^ s) /\ lshldi3(lla, s) = LL(lla * 2 ^ s)
      /\ lshrdi3(lla, s) = lla \div 2 ^ s /\ ashrdi3(lla, s) = LL(sa \div 2 ^ s)

\* Products, and quotients and remainders by Knuth's algorithm D, are exact,
\* the signed ones truncated towards zero (muldi3.c, qdivrem.c): the estimate
\* of a digit, its correction and the unshifted remainder are right.
ProductsAndQuotientsAgree ==
  LET sa == Signed(lla, LLONG) sb == Signed(llb, LLONG)
      Abs(x) == IF x < 0 THEN -x ELSE x
      quotient == (Abs(sa) \div Abs(sb)) * (IF (sa < 0) # (sb < 0) THEN -1 ELSE 1)
  IN  /\ muldi3(lla, llb) = LL(lla * llb)
      /\ llb # 0 => /\ udivdi3(lla, llb) = lla \div llb /\ umoddi3(lla, llb) = lla % llb
                    /\ divdi3(lla, llb) = LL(quotient)
                    /\ moddi3(lla, llb) = LL(sa - (quotient * sb))

============================================================================
