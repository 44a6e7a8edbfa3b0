---------------------------- MODULE NumberTheory ----------------------------
(***************************************************************************)
(* numbertheory.py of the vendored ecdsa: the arithmetic below the keys    *)
(* and signatures, and the definitions that it is checked against.         *)
(*                                                                         *)
(* A loop is a recursive operator over the variables that it changes.      *)
(* Raised stands for the exception of an operator that rejects its         *)
(* arguments.                                                              *)
(***************************************************************************)
EXTENDS Integers, SequencesExt

CONSTANTS
  SmallPrimes,  (* smallprimes: 2, 3, 5, ... in order, 1229 the last          *)
  Rounds        (* tests of is_prime on a number of less than 100 bits: 40    *)

ASSUME NumberAssumption ==
  /\ Rounds \in 1 .. Len(SmallPrimes)
  /\ \A i \in DOMAIN SmallPrimes : SmallPrimes[i] \in Nat \ {0, 1}

Raised == -1

\* pow(base, exponent, modulus)
RECURSIVE ModularExp(_, _, _)
ModularExp(base, exponent, modulus) ==
  IF exponent = 0 THEN 1 % modulus
  ELSE LET half == ModularExp((base * base) % modulus, exponent \div 2, modulus)
       IN  IF exponent % 2 = 1 THEN (base * half) % modulus ELSE half

-----------------------------------------------------------------------------
(* Polynomials: sequences of coefficients of increasing powers *)

RECURSIVE PolynomialReduceMod(_, _, _)
PolynomialReduceMod(poly, polymod, p) ==
  LET n == Len(poly)
      d == n - Len(polymod)
      less == [ i \in 1 .. n |->
                  IF poly[n] # 0 /\ i > d THEN (poly[i] - poly[n] * polymod[i - d]) % p
                  ELSE poly[i] ]
  IN  IF d < 0 THEN poly ELSE PolynomialReduceMod(SubSeq(less, 1, n - 1), polymod, p)

PolynomialMultiplyMod(m1, m2, polymod, p) ==
  LET Cross(k) == {i \in DOMAIN m1 : k - i + 1 \in DOMAIN m2}
  IN  PolynomialReduceMod(
        [ k \in 1 .. Len(m1) + Len(m2) - 1 |->
            MapThenSumSet(LAMBDA i : m1[i] * m2[k - i + 1], Cross(k)) % p ], polymod, p)

PolynomialExpMod(base, exponent, polymod, p) ==
  LET RECURSIVE Loop(_, _, _)
      Loop(G, k, s) ==
        IF k <= 1 THEN s
        ELSE LET G2 == PolynomialMultiplyMod(G, G, polymod, p) IN
             Loop(G2, k \div 2, IF (k \div 2) % 2 = 1
                                THEN PolynomialMultiplyMod(G2, s, polymod, p) ELSE s)
  IN  IF exponent = 0 THEN <<1>>
      ELSE Loop(base, exponent, IF exponent % 2 = 1 THEN base ELSE <<1>>)

-----------------------------------------------------------------------------
(* Square roots and inverses *)

\* The exponent of 2 in n, and the rest.
RECURSIVE Twos(_)
Twos(n) == IF n % 2 = 0 THEN LET t == Twos(n \div 2) IN [t EXCEPT !.e = @ + 1]
           ELSE [e |-> 0, odd |-> n]

RECURSIVE Jacobi(_, _)
Jacobi(a0, n) ==
  LET a == a0 % n
      t == Twos(a)
      s == IF t.e % 2 = 0 \/ n % 8 \in {1, 7} THEN 1 ELSE -1
  IN  CASE a \in {0, 1}        -> a
        [] a > 1 /\ t.odd = 1  -> s
        [] a > 1 /\ t.odd > 1  ->
             (IF n % 4 = 3 /\ t.odd % 4 = 3 THEN -s ELSE s) * Jacobi(n % t.odd, t.odd)

SquareRootModPrime(a, p) ==
  LET d == ModularExp(a, (p - 1) \div 4, p)
      nonresidue == {b \in 2 .. p - 1 : Jacobi(b * b - 4 * a, p) = -1}
      b == CHOOSE c \in nonresidue : \A e \in nonresidue : c <= e
      ff == PolynomialExpMod(<<0, 1>>, (p + 1) \div 2, <<a, -b, 1>>, p)
  IN  CASE a = 0 \/ p = 2 -> a
        [] a > 0 /\ p > 2 /\ Jacobi(a, p) = -1 -> Raised
        [] a > 0 /\ p > 2 /\ Jacobi(a, p) # -1 ->
             IF p % 4 = 3 THEN ModularExp(a, (p + 1) \div 4, p)
             ELSE IF p % 8 = 5 /\ d = 1 THEN ModularExp(a, (p + 3) \div 8, p)
             ELSE IF p % 8 = 5 /\ d = p - 1
                  THEN (2 * a * ModularExp(4 * a, (p - 5) \div 8, p)) % p
             ELSE IF p % 8 = 1 /\ nonresidue # {} /\ ff[2] = 0 THEN ff[1]
             ELSE Raised

\* Euclid's algorithm with the factor of a, u = <<uc, ud>>.
RECURSIVE Euclid(_, _, _)
Euclid(c, d, u) ==
  IF c = 0 THEN <<d, u[2]>>
  ELSE Euclid(d % c, c, <<u[2] - (d \div c) * u[1], u[1]>>)

InverseMod(a, m) ==
  LET r == Euclid(a % m, m, <<1, 0>>)
  IN  IF r[1] # 1 THEN Raised ELSE IF r[2] > 0 THEN r[2] ELSE r[2] + m

RECURSIVE Gcd2(_, _)
Gcd2(a, b) == IF a = 0 THEN b ELSE Gcd2(b % a, a)
Gcd(a) == FoldLeft(Gcd2, a[1], Tail(a))
Lcm2(a, b) == (a * b) \div Gcd2(a, b)
Lcm(a) == FoldLeft(Lcm2, a[1], Tail(a))

-----------------------------------------------------------------------------
(* Primes and factors *)

LastSmall == SmallPrimes[Len(SmallPrimes)]

\* The Miller-Rabin test of n = 2^s * r + 1 to the base a.
PassesMillerRabin(n, a) ==
  LET t == Twos(n - 1)
      RECURSIVE Squares(_, _)
      Squares(y, j) ==
        IF j > t.e - 1 \/ y = n - 1 THEN y = n - 1
        ELSE LET z == ModularExp(y, 2, n) IN z # 1 /\ Squares(z, j + 1)
      y == ModularExp(a, t.odd, n)
  IN  y = 1 \/ Squares(y, 1)

IsPrime(n) ==
  IF n <= LastSmall THEN Contains(SmallPrimes, n)
  ELSE /\ Gcd2(n, 2 * 3 * 5 * 7 * 11) = 1
       /\ \A i \in 1 .. Rounds : PassesMillerRabin(n, SmallPrimes[i])

RECURSIVE NextPrimeFrom(_)
NextPrimeFrom(n) == IF IsPrime(n) THEN n ELSE NextPrimeFrom(n + 2)
NextPrime(start) ==
  IF start < 2 THEN 2
  ELSE NextPrimeFrom(IF (start + 1) % 2 = 0 THEN start + 2 ELSE start + 1)

\* n without its factors d, and how many there were.
RECURSIVE DivideOut(_, _)
DivideOut(n, d) ==
  IF d <= n /\ n % d = 0 THEN LET r == DivideOut(n \div d, d) IN [r EXCEPT !.count = @ + 1]
  ELSE [n |-> n, count |-> 0]

\* The factors beyond the small primes, looked for up to the root of n.
RECURSIVE Search(_, _)
Search(n, d) ==
  LET r == DivideOut(n, d) IN
  IF n \div d < d THEN IF n > 1 THEN <<<<n, 1>>>> ELSE <<>>
  ELSE IF r.count > 0 THEN <<<<d, r.count>>>> \o Search(r.n, d + 2)
  ELSE Search(n, d + 2)

Factorization(n) ==
  LET RECURSIVE Small(_, _)
      Small(m, i) ==
        IF i > Len(SmallPrimes) \/ SmallPrimes[i] > m THEN
          IF m <= LastSmall THEN <<>>
          ELSE IF IsPrime(m) THEN <<<<m, 1>>>>
          ELSE Search(m, LastSmall + 2)
        ELSE LET r == DivideOut(m, SmallPrimes[i]) IN
             (IF r.count > 0 THEN <<<<SmallPrimes[i], r.count>>>> ELSE <<>>) \o Small(r.n, i + 1)
  IN  IF n < 2 THEN <<>> ELSE Small(n, 1)

Phi(n) ==
  IF n < 3 THEN 1
  ELSE FoldLeft(LAMBDA r, f : r * f[1] ^ (f[2] - 1) * (f[1] - 1), 1, Factorization(n))

CarmichaelOfPpower(pp) ==
  IF pp[1] = 2 /\ pp[2] > 2 THEN 2 ^ (pp[2] - 2) ELSE (pp[1] - 1) * pp[1] ^ (pp[2] - 1)

Carmichael(n) ==
  FoldLeft(LAMBDA r, f : Lcm2(r, CarmichaelOfPpower(f)), 1, Factorization(n))

\* x is not reduced before it is compared with 1.
OrderMod(x, m) ==
  LET RECURSIVE From(_, _)
      From(z, result) == IF z = 1 THEN result ELSE From((z * x) % m, result + 1)
  IN  IF m <= 1 THEN 0 ELSE IF Gcd2(x, m) # 1 THEN Raised ELSE From(x, 1)

RECURSIVE LargestFactorRelativelyPrime(_, _)
LargestFactorRelativelyPrime(a, b) ==
  LET d == Gcd2(a, b)
      RECURSIVE Without(_)
      Without(n) == IF n % d > 0 THEN n ELSE Without(n \div d)
  IN  IF d <= 1 THEN a ELSE LargestFactorRelativelyPrime(Without(a), d)

KindaOrderMod(x, m) == OrderMod(x, LargestFactorRelativelyPrime(m, x))

-----------------------------------------------------------------------------
(* The definitions that the algorithms are checked against *)

Prime(n)     == n > 1 /\ \A d \in 2 .. n - 1 : d * d > n \/ n % d # 0
Coprime(n)   == {a \in 1 .. n : \A d \in 2 .. n : n % d # 0 \/ a % d # 0}
Residue(a, p) == \E r \in 0 .. p - 1 : (r * r) % p = a

\* Docstrings of jacobi, square_root_mod_prime and inverse_mod, for p prime, and
\* of is_prime and order_mod.
RootsAndInversesRight(a, p) ==
  LET root == SquareRootModPrime(a, p) IN
  /\ IF Residue(a, p) THEN root \in 0 .. p - 1 /\ (root * root) % p = a ELSE root = Raised
  /\ p > 2 => Jacobi(a, p) = IF a = 0 THEN 0 ELSE IF Residue(a, p) THEN 1 ELSE -1
  /\ IF a = 0 THEN InverseMod(a, p) = Raised
     ELSE InverseMod(a, p) \in 1 .. p - 1 /\ (a * InverseMod(a, p)) % p = 1

FactorsRight(n) ==
  LET f == Factorization(n) IN
  /\ IsPrime(n) <=> Prime(n)
  /\ n > 1 => FoldLeft(LAMBDA r, e : r * e[1] ^ e[2], 1, f) = n
  /\ \A i \in DOMAIN f : Prime(f[i][1]) /\ f[i][2] > 0 /\ \A j \in 1 .. i - 1 : f[j][1] < f[i][1]
  /\ NextPrime(n) > n /\ Prime(NextPrime(n)) /\ \A m \in n + 1 .. NextPrime(n) - 1 : ~Prime(m)

\* m^x = 1 for all m that are coprime to n, and for no smaller x.
OrdersRight(n) ==
  /\ n > 2 => Phi(n) = Cardinality(Coprime(n))
  /\ n > 1 => /\ \A a \in Coprime(n) : ModularExp(a, Carmichael(n), n) = 1 % n
              /\ \A x \in 1 .. Carmichael(n) - 1 : \E a \in Coprime(n) : ModularExp(a, x, n) # 1
  /\ \A a \in Coprime(n) \ {n} :
       /\ ModularExp(a, OrderMod(a, n), n) = 1
       /\ \A x \in 1 .. OrderMod(a, n) - 1 : ModularExp(a, x, n) # 1
  /\ \A b \in 1 .. n :
       LET f == LargestFactorRelativelyPrime(n, b) IN
       n % f = 0 /\ Gcd2(f, b) = 1 /\ \A g \in f + 1 .. n : n % g # 0 \/ Gcd2(g, b) # 1
=============================================================================
