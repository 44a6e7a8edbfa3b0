---------------------------- MODULE EcSignatures ----------------------------
(***************************************************************************)
(* The signatures of the vendored ecdsa: points of a curve, keys, signing  *)
(* and verifying, and the forms in which keys and signatures are stored.   *)
(*                                                                         *)
(* A curve is a record with the prime p, the coefficients a and b, the     *)
(* generator gx, gy, its order n and the oid.  A point has an order only   *)
(* if it was made with one (0 stands for None).  What raises returns       *)
(* Error of the exception.                                                 *)
(***************************************************************************)
EXTENDS NumberTheory, Encodings

CONSTANT
  KnownCurves    (* curves: a sequence, in the order of find_curve            *)

ASSUME CurvesAssumption ==
  \* The generators have prime order, and no point has order 2, as in curves.py.
  /\ \A i \in DOMAIN KnownCurves :
       LET c == KnownCurves[i] IN
       /\ c.n > 2 /\ \A d \in 2 .. c.n - 1 : c.n % d # 0
       /\ (c.gy * c.gy - (c.gx ^ 3 + c.a * c.gx + c.b)) % c.p = 0
       /\ \A x \in 0 .. c.p - 1 : (x ^ 3 + c.a * x + c.b) % c.p # 0

Error(e) == [error |-> e]

-----------------------------------------------------------------------------
(* ellipticcurve.py *)

ContainsPoint(c, x, y) == (y * y - (x * x * x + c.a * x + c.b)) % c.p = 0

Infinity == [infinite |-> TRUE]
Point(x, y, order) == [x |-> x, y |-> y, order |-> order]

\* __eq__ does not look at the order.
SamePoint(P, Q) ==
  IF Infinity \in {P, Q} THEN P = Q ELSE P.x = Q.x /\ P.y = Q.y

\* The third point of the line through P with slope l, mirrored
Chord(c, P, l, x2) ==
  LET x3 == (l * l - P.x - x2) % c.p
      y3 == (l * (P.x - x3) - P.y) % c.p
  IN  Point(x3, y3, 0)

Double(c, P) ==
  IF P = Infinity THEN P
  ELSE Chord(c, P, ((3 * P.x * P.x + c.a) * InverseMod(2 * P.y, c.p)) % c.p, P.x)

Plus(c, P, Q) ==
  IF Q = Infinity THEN P
  ELSE IF P = Infinity THEN Q
  ELSE IF P.x = Q.x THEN IF (P.y + Q.y) % c.p = 0 THEN Infinity ELSE Double(c, P)
  ELSE Chord(c, P, ((Q.y - P.y) * InverseMod(Q.x - P.x, c.p)) % c.p, Q.x)

LeftmostBit(x) == CHOOSE b \in {2 ^ i : i \in 0 .. 30} : b <= x /\ x - b < b

Bit(x, i) == (x \div i) % 2

\* Seeded bug: the point is never subtracted.
MultiplyPlusOnly(c, P, k) ==
  LET e == IF P # Infinity /\ P.order # 0 THEN k % P.order ELSE k
      RECURSIVE Loop(_, _)
      Loop(result, i) ==
        LET twice == Double(c, result)
        IN  IF i <= 1 THEN result
            ELSE Loop(IF Bit(3 * e, i) > Bit(e, i) THEN Plus(c, twice, P) ELSE twice, i \div 2)
  IN  IF e = 0 \/ P = Infinity THEN Infinity ELSE Loop(P, LeftmostBit(3 * e) \div 2)

\* From X9.62 D.3.2: from the bits of 3e and e, from the second highest on.
Multiply(c, P, k) ==
  LET e == IF P # Infinity /\ P.order # 0 THEN k % P.order ELSE k
      RECURSIVE Loop(_, _)
      Loop(result, i) ==
        LET twice == Double(c, result)
            sum == IF Bit(3 * e, i) = Bit(e, i) THEN twice
                   ELSE Plus(c, twice, IF Bit(e, i) = 0 THEN P ELSE [P EXCEPT !.y = -@])
        IN  IF i <= 1 THEN result ELSE Loop(sum, i \div 2)
  IN  IF e = 0 \/ P = Infinity THEN Infinity ELSE Loop(P, LeftmostBit(3 * e) \div 2)

-----------------------------------------------------------------------------
(* ecdsa.py *)

G(c) == Point(c.gx, c.gy, c.n)

InRange(c, x, y) == x \in 0 .. c.n - 1 /\ y \in 0 .. c.n - 1

PointIsValid(c, x, y) ==
  InRange(c, x, y) /\ ContainsPoint(c, x, y) /\ Multiply(c, Point(x, y, 0), c.n) = Infinity

PublicKey(c, P) ==
  IF Multiply(c, P, c.n) # Infinity \/ ~InRange(c, P.x, P.y) THEN Error("RuntimeError")
  ELSE [curve |-> c, point |-> P]

\* The answer, or the exception: xy.x() is None for the point at infinity.
Verifies(key, hash, r, s) ==
  LET n == key.curve.n
      w == InverseMod(s, n)
      xy == Plus(key.curve, Multiply(key.curve, G(key.curve), (hash * w) % n),
                 Multiply(key.curve, key.point, (r * w) % n))
  IN  IF r \notin 1 .. n - 1 \/ s \notin 1 .. n - 1 THEN "invalid"
      ELSE IF xy = Infinity THEN "TypeError"
      ELSE IF xy.x % n = r THEN "valid" ELSE "invalid"

Sign(c, secret, hash, k) ==
  LET r == Multiply(c, G(c), k % c.n).x
      s == (InverseMod(k, c.n) * (hash + ((secret * r) % c.n))) % c.n
  IN  IF r = 0 \/ s = 0 THEN Error("RuntimeError") ELSE [r |-> r, s |-> s]

-----------------------------------------------------------------------------
(* util.py, curves.py *)

OrderLen(order) == Len(BytesOf(order))

NumberToString(num, order) == Pack(num, OrderLen(order))

Canonized(s, order) == IF 2 * s > order THEN order - s ELSE s

\* For a number of more bytes than the order number_to_string raises.
SigencodeString(r, s, order) ==
  IF OrderLen(r) > OrderLen(order) THEN Error("AssertionError")
  ELSE NumberToString(r, order) \o NumberToString(s, order)
SigencodeDer(r, s) == EncodeSequence(<<EncodeInteger(r), EncodeInteger(s)>>)

SigdecodeString(sig, order) ==
  LET l == OrderLen(order) IN [r |-> Unpack(SubSeq(sig, 1, l)), s |-> Unpack(Drop(sig, l))]

SigdecodeDer(sig) ==
  LET whole == RemoveTagged(SequenceTag, sig)
      first == RemoveInteger(whole.v)
      second == RemoveInteger(first.rest)
  IN  IF whole.rest # <<>> \/ second.rest # <<>> THEN Unexpected ELSE [r |-> first.v, s |-> second.v]

\* What one attempt with these bytes gives; an attempt that is out of range is
\* followed by another one, with new bytes.
Candidate(bytes) == Unpack(bytes) + 1

\* The first byte of a seed keeps only the bits that are not whole bytes.
Guess(bytes, order) ==
  LET bits == BitLength(order - 1)
      extra == bits % Bits
  IN  IF extra = 0 THEN Candidate(SubSeq(bytes, 1, bits \div Bits))
      ELSE Candidate(<<bytes[1] % 2 ^ extra>> \o SubSeq(bytes, 2, 1 + bits \div Bits))

OvershootModulo(bytes, order) == (Unpack(bytes) % (order - 1)) + 1

-----------------------------------------------------------------------------
(* rfc6979.py: stream is what the calls of hmac return one after the other, *)
(* each of as many bytes as the hash has; Raised if it is used up.          *)

Bits2Int(data, qlen) ==
  LET l == Len(data) * Bits IN Unpack(data) \div (IF l > qlen THEN 2 ^ (l - qlen) ELSE 1)

Bits2Octets(data, order) ==
  LET z1 == Bits2Int(data, BitLength(order))
  IN  SubSeq(Pack(IF z1 < order THEN z1 ELSE z1 - order, OrderLen(order)), 1, OrderLen(order))

RECURSIVE GenerateK(_, _)
GenerateK(order, stream) ==
  LET qlen == BitLength(order)
      holen == Len(stream[1])
      blocks == CHOOSE i \in 1 .. qlen : i * holen * Bits >= qlen /\ (i - 1) * holen * Bits < qlen
      secret == Bits2Int(FlattenSeq(SubSeq(stream, 1, blocks)), qlen)
  IN  IF stream = <<>> \/ Len(stream) < blocks THEN Raised
      ELSE IF secret \in 1 .. order - 1 THEN secret
      ELSE GenerateK(order, Drop(stream, blocks))

-----------------------------------------------------------------------------
(* keys.py *)

OidEcPublicKey == <<1, 2, 840, 10045, 2, 1>>
Uncompressed == <<0, 4>>

FindCurve(oid) ==
  LET found == {i \in DOMAIN KnownCurves : KnownCurves[i].oid = oid}
  IN  IF found = {} THEN Error("UnknownCurveError")
      ELSE KnownCurves[CHOOSE i \in found : \A j \in found : i <= j]

VerifyingFromString(string, c) ==
  LET x == Unpack(SubSeq(string, 1, OrderLen(c.n)))
      y == Unpack(Drop(string, OrderLen(c.n)))
  IN  IF Len(string) # 2 * OrderLen(c.n) \/ ~PointIsValid(c, x, y) THEN Error("AssertionError")
      ELSE PublicKey(c, Point(x, y, c.n))

VerifyingToString(key) ==
  NumberToString(key.point.x, key.curve.n) \o NumberToString(key.point.y, key.curve.n)

VerifyingToDer(key) ==
  EncodeSequence(<< EncodeSequence(<<EncodeOid(OidEcPublicKey), EncodeOid(key.curve.oid)>>),
                    EncodeTagged(BitString, Uncompressed \o VerifyingToString(key)) >>)

VerifyingFromDer(string) ==
  LET whole == RemoveTagged(SequenceTag, string)
      kind  == RemoveTagged(SequenceTag, whole.v)
      pk    == RemoveObject(kind.v)
      oid   == RemoveObject(pk.rest)
      point == RemoveTagged(BitString, kind.rest)
      c     == FindCurve(oid.v)
  IN  IF whole.rest # <<>> \/ oid.rest # <<>> \/ point.rest # <<>> THEN Unexpected
      ELSE IF pk.v # OidEcPublicKey \/ SubSeq(point.v, 1, 2) # Uncompressed THEN Error("AssertionError")
      ELSE IF "error" \in DOMAIN c THEN c ELSE VerifyingFromString(Drop(point.v, 2), c)

WithPublic(c, secret, public) ==
  IF "error" \in DOMAIN public THEN public ELSE [curve |-> c, secret |-> secret, public |-> public]

FromSecretExponent(c, secret) ==
  IF secret \notin 1 .. c.n - 1 THEN Error("AssertionError")
  ELSE WithPublic(c, secret, PublicKey(c, Multiply(c, G(c), secret)))

SigningToDer(key) ==
  EncodeSequence(
    << EncodeInteger(1), EncodeTagged(OctetString, NumberToString(key.secret, key.curve.n)),
       EncodeTagged(ConstructedTag(0), EncodeOid(key.curve.oid)),
       EncodeTagged(ConstructedTag(1),
                    EncodeTagged(BitString, Uncompressed \o VerifyingToString(key.public))) >>)

\* A secret that is too short is filled up; the public point is not looked at.
SigningFromString(string, c) ==
  LET filled == Repeat(0, OrderLen(c.n) - Len(string)) \o string IN
  IF Len(filled) # OrderLen(c.n) THEN Error("AssertionError")
  ELSE FromSecretExponent(c, Unpack(filled))

SigningFromDer(string) ==
  LET whole  == RemoveTagged(SequenceTag, string)
      one    == RemoveInteger(whole.v)
      secret == RemoveTagged(OctetString, one.rest)
      cont   == RemoveConstructed(secret.rest)
      oid    == RemoveObject(cont.v)
      c      == FindCurve(oid.v)
  IN  IF whole.rest # <<>> \/ one.v # 1 \/ cont.tag # 0 \/ oid.rest # <<>> THEN Unexpected
      ELSE IF "error" \in DOMAIN c THEN c ELSE SigningFromString(secret.v, c)

SignDigest(key, digest, k) ==
  IF Len(digest) > OrderLen(key.curve.n) THEN Error("BadDigestError")
  ELSE IF k \notin 1 .. key.curve.n - 1 THEN Error("AssertionError")
  ELSE Sign(key.curve, key.secret, Unpack(digest), k)

Raises(answer) == IF answer = "invalid" THEN "BadSignatureError" ELSE answer
VerifyDigest(key, sig, digest) ==
  IF Len(digest) > OrderLen(key.curve.n) THEN "BadDigestError"
  ELSE Raises(Verifies(key, Unpack(digest), sig.r, sig.s))

-----------------------------------------------------------------------------
(* What it is checked against *)

RepeatedPlus(c, P, k) == FoldLeft(LAMBDA sum, i : Plus(c, sum, P), Infinity, [i \in 1 .. k |-> i])

\* The multiples of the generator are the group of integers modulo n.
GroupRight(c, j, k) ==
  LET Of(i) == RepeatedPlus(c, G(c), i) IN
  /\ k < c.n => /\ SamePoint(Multiply(c, G(c), k), Of(k))
                /\ k > 0 /\ Of(j) # Infinity =>
                     SamePoint(Multiply(c, [Of(j) EXCEPT !.order = 0], k), Of((j * k) % c.n))
  /\ SamePoint(Plus(c, Of(j), Of(k)), Of((j + k) % c.n))
  /\ Of(j) # Infinity => PointIsValid(c, Of(j).x, Of(j).y) = InRange(c, Of(j).x, Of(j).y)

\* A pair is a signature of hash exactly if it comes from a point whose
\* multiplier k satisfies s * k = hash + r * secret.
VerifiesRight(c, secret, hash, r, s) ==
  LET key == FromSecretExponent(c, secret)
      Signs(k) == /\ (s * k) % c.n = (hash + r * secret) % c.n
                  /\ IF k = 0 THEN FALSE ELSE Multiply(c, G(c), k).x % c.n = r
  IN  "error" \notin DOMAIN key /\ {r, s} \subseteq 1 .. c.n - 1 =>
        LET v == Verifies(key.public, hash, r, s) IN
        /\ v = "valid" <=> \E k \in 0 .. c.n - 1 : Signs(k)
        /\ v = "TypeError" <=> (hash + r * secret) % c.n = 0

\* A key is the same after it was stored in whichever form.
KeyReadsBack(key, public) ==
  /\ SigningFromDer(SigningToDer(key)) = key
  /\ SamePoint(public.point, key.public.point)
  /\ VerifyingFromString(VerifyingToString(key.public), key.curve) = public

\* What was signed verifies, with either s, unless r is not below the order.
PairRight(public, sig, low, digest) ==
  LET n == public.curve.n
      Verified(s) == VerifyDigest(public, [r |-> sig.r, s |-> s], digest) = "valid"
  IN  /\ \A s \in {sig.s, low} : Verified(s) <=> sig.r < n
      /\ 2 * low <= n
      /\ SigdecodeDer(SigencodeDer(sig.r, sig.s)) = sig
      /\ sig.r < n => SigdecodeString(SigencodeString(sig.r, sig.s, n), n) = sig

PairOf(c, public, sig, digest) ==
  "error" \notin DOMAIN sig => PairRight(public, sig, Canonized(sig.s, c.n), digest)

KeyRight(key, public, digest, k) ==
  "error" \notin DOMAIN key =>
    KeyReadsBack(key, public) /\ PairOf(key.curve, public, SignDigest(key, digest, k), digest)

\* What is signed verifies, whichever way the key and the signature are stored
\* in between.
SignatureVerifies(c, secret, digest, k) ==
  LET key == FromSecretExponent(c, secret)
  IN  KeyRight(key, VerifyingFromDer(VerifyingToDer(key.public)), digest, k)

\* Every way of drawing a secret reaches all of 1 .. order - 1.
DrawsRight(order) ==
  LET Strings(n) == [1 .. n -> 0 .. Digit - 1]
      Below(S) == {x \in S : x < order}
      All == 1 .. order - 1
  IN  /\ Below({Candidate(b) : b \in Strings(OrderLen(order))}) = All
      /\ Below({Guess(b, order) : b \in Strings(1 + BitLength(order - 1) \div Bits)}) = All
      /\ order <= Digit => {OvershootModulo(b, order) : b \in Strings(2)} = All
      /\ {GenerateK(order, <<b>>) : b \in Strings(OrderLen(order))} \ {Raised} = All
      /\ \A b \in Strings(OrderLen(order)) :
           Unpack(Bits2Octets(b, order)) = Bits2Int(b, BitLength(order)) % order
=============================================================================
