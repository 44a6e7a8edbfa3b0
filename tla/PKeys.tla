-------------------------------- MODULE PKeys --------------------------------
(***************************************************************************)
(* The keys of the vendored paramiko (pkey.py, rsakey.py, dsskey.py and    *)
(* ecdsakey.py): as they are sent, how they sign and verify, and how the   *)
(* private ones are kept in files.                                         *)
(*                                                                         *)
(* A key is a record of its kind and numbers; one without the private      *)
(* numbers (d, p, q of rsa, x of dss, signing of ecdsa) is a public key.   *)
(* A digest has at the front the bytes that name its hash.  A file is a    *)
(* sequence of lines: begin, header, blank, data, and end.                 *)
(***************************************************************************)
EXTENDS EcSignatures

CONSTANTS
  DssWidth,   (* bytes of each half of a dss signature: 20                    *)
  BlockSize,  (* of the cipher of files: 16 or 8                              *)
  LineWidth,  (* bytes in a line of base64: 48                                *)
  Nist256p    (* the curve of ecdsa-sha2-nistp256                             *)

ASSUME KeysAssumption ==
  /\ {DssWidth, BlockSize, LineWidth} \subseteq Nat \ {0}
  /\ Nist256p \in Range(KnownCurves)

Kinds == {"rsa", "dss", "ecdsa"}
NameOf == [rsa |-> <<1>>, dss |-> <<2>>, ecdsa |-> <<3>>]
CurveName == <<4>>
FourByte == <<4>>

-----------------------------------------------------------------------------
(* Public keys in messages *)

SentNumbers == [rsa |-> <<"e", "n">>, dss |-> <<"p", "q", "g", "y">>]

AsBytes(k) ==
  AddString(NameOf[k.kind]) \o
  IF k.kind = "ecdsa"
  THEN AddString(CurveName) \o AddString(FourByte \o VerifyingToString(k.verifying))
  ELSE FlattenSeq([i \in DOMAIN SentNumbers[k.kind] |-> AddMpint(k[SentNumbers[k.kind][i]])])

GetMpints(p, names) ==
  LET Step(r, name) == LET n == GetMpint(r.rest) IN [v |-> (name :> n.v) @@ r.v, rest |-> n.rest]
  IN  FoldLeft(Step, [v |-> <<>>, rest |-> p], names).v

FromKey(key) == IF "error" \in DOMAIN key THEN key ELSE [kind |-> "ecdsa", verifying |-> key]

FromPoint(pointinfo) ==
  IF Take(pointinfo, 1) # FourByte THEN Error("SSHException")
  ELSE FromKey(VerifyingFromString(Tail(pointinfo), Nist256p))

FromNumbers(kind, p) ==
  LET curve == GetBinary(p) IN
  IF kind # "ecdsa" THEN [kind |-> kind] @@ GetMpints(p, SentNumbers[kind])
  ELSE IF curve.v # CurveName THEN Error("SSHException") ELSE FromPoint(GetBinary(curve.rest).v)

FromMessage(kind, p) ==
  LET name == GetBinary(p) IN
  IF name.v # NameOf[kind] THEN Error("SSHException") ELSE FromNumbers(kind, name.rest)

\* __hash__, by which keys are compared: the private numbers do not count.
HashOf(k) ==
  <<NameOf[k.kind]>> \o
  IF k.kind = "ecdsa" THEN <<k.verifying.point.x, k.verifying.point.y>>
  ELSE [i \in DOMAIN SentNumbers[k.kind] |-> k[SentNumbers[k.kind][i]]]

CanSign(k) == DOMAIN k \cap {"d", "x", "signing"} # {}

-----------------------------------------------------------------------------
(* Signatures; those of rsa and dss are computed by the library Crypto.     *)

RsaPower(m, exponent, n) == ModularExp(m, exponent, n)

DsaSign(k, m, nonce) ==
  LET r == ModularExp(k.g, nonce, k.p) % k.q
  IN  [r |-> r, s |-> (InverseMod(nonce, k.q) * ((m + k.x * r) % k.q)) % k.q]

DsaVerify(k, m, r, s) ==
  LET w == InverseMod(s, k.q)
      v == (ModularExp(k.g, (m * w) % k.q, k.p) * ModularExp(k.y, (r * w) % k.q, k.p)) % k.p
  IN  IF r \notin 1 .. k.q - 1 \/ s \notin 1 .. k.q - 1 THEN FALSE ELSE v % k.q = r

\* As many bytes as the modulus, if there are enough
Pkcs1imify(k, digest) ==
  LET size == Len(DeflateLong(k.n, FALSE))
  IN  <<0, 1>> \o Repeat(Digit - 1, size - Len(digest) - 3) \o <<0>> \o digest

Wide(n) == LET s == DeflateLong(n, FALSE) IN Repeat(0, DssWidth - Len(s)) \o s

\* The numbers that may be drawn as k of a dss signature
Nonces(k) == 3 .. k.q - 1

Halves(pair) == Wide(pair.r) \o Wide(pair.s)
Mpints(pair) == AddMpint(pair.r) \o AddMpint(pair.s)

Signed(kind, sig) == AddString(NameOf[kind]) \o AddString(sig)
SignedPair(pair) == IF "error" \in DOMAIN pair THEN <<>> ELSE Signed("ecdsa", Mpints(pair))

RsaSign(k, m) == DeflateLong(RsaPower(InflateLong(m, TRUE), k.d, k.n), FALSE)

\* Nothing is sent if ecdsa raises.
SignSshData(k, digest, nonce) ==
  CASE k.kind = "rsa"   -> Signed("rsa", RsaSign(k, Pkcs1imify(k, digest)))
    [] k.kind = "dss"   -> Signed("dss", Halves(DsaSign(k, InflateLong(digest, TRUE), nonce)))
    [] k.kind = "ecdsa" -> SignedPair(SignDigest(k.signing, digest, nonce))

RsaVerify(k, digest, sig) ==
  RsaPower(InflateLong(sig, TRUE), k.e, k.n) = InflateLong(Pkcs1imify(k, digest), TRUE)

DssVerify(k, digest, sig) ==
  DsaVerify(k, InflateLong(digest, TRUE), InflateLong(Take(sig, DssWidth), TRUE),
            InflateLong(Drop(sig, DssWidth), TRUE))

Sigdecode(sig) == LET r == GetMpint(sig) IN [r |-> r.v, s |-> GetMpint(r.rest).v]

Verdict(b) == IF b THEN "valid" ELSE "invalid"

\* "valid", "invalid" or an exception
VerifyBytes(k, digest, sig) ==
  CASE k.kind = "rsa"   -> Verdict(RsaVerify(k, digest, sig))
    [] k.kind = "dss"   -> Verdict(DssVerify(k, digest, sig))
    [] k.kind = "ecdsa" -> VerifyDigest(k.verifying, Sigdecode(sig), digest)

\* A dss signature may come without header.
VerifySshSig(k, digest, msg) ==
  LET name == GetBinary(msg) IN
  IF k.kind = "dss" /\ Len(msg) = 2 * DssWidth THEN VerifyBytes(k, digest, msg)
  ELSE IF name.v # NameOf[k.kind] THEN "invalid"
  ELSE VerifyBytes(k, digest, GetBinary(name.rest).v)

-----------------------------------------------------------------------------
(* Private keys in files *)

ModInverse(x, m) ==
  LET RECURSIVE Loop(_, _, _, _)
      Loop(u2, u3, v2, v3) ==
        IF v3 <= 0 THEN u2 ELSE Loop(v2, v3, u2 - v2 * (u3 \div v3), u3 - v3 * (u3 \div v3))
      u2 == Loop(0, m, 1, x)
  IN  IF u2 < 0 THEN u2 + m ELSE u2

KeptNumbers == [rsa |-> <<"n", "e", "d", "p", "q">>, dss |-> <<"p", "q", "g", "y", "x">>]

\* What a reader of rsa files does not need
Shortcuts(k) == <<k.d % (k.p - 1), k.d % (k.q - 1), ModInverse(k.q, k.p)>>

EncodeKey(k) ==
  LET kept == KeptNumbers[k.kind]
      keylist == <<0>> \o [i \in DOMAIN kept |-> k[kept[i]]]
                 \o IF k.kind = "rsa" THEN Shortcuts(k) ELSE <<>>
  IN  IF k.kind = "ecdsa"
      THEN IF CanSign(k) THEN SigningToDer(k.signing) ELSE VerifyingToDer(k.verifying)
      ELSE IF ~CanSign(k) THEN Error("SSHException")
      ELSE BerEncode([sequence |-> [i \in DOMAIN keylist |-> [int |-> keylist[i]]]])

AllowedPaddings == { Repeat(i, i) : i \in 1 .. 7 }

FromSigning(key) ==
  IF "error" \in DOMAIN key THEN key
  ELSE [kind |-> "ecdsa", signing |-> key, verifying |-> key.public]

DecodeEcdsa(data, padding) ==
  IF padding # <<>> /\ padding \notin AllowedPaddings THEN Error("ValueError")
  ELSE FromSigning(SigningFromDer(Take(data, Len(data) - Len(padding))))

\* The check of an rsa file is for fewer numbers than are then taken.
DecodeNumbers(kind, keylist) ==
  LET least == IF kind = "rsa" THEN 4 ELSE 6 IN
  IF IF "sequence" \notin DOMAIN keylist THEN TRUE
     ELSE Len(keylist.sequence) < least \/ keylist.sequence[1] # [int |-> 0]
    THEN Error("SSHException")
  ELSE IF Len(keylist.sequence) < 6 THEN Error("IndexError")
  ELSE [ f \in Range(KeptNumbers[kind]) |->
           keylist.sequence[1 + CHOOSE i \in 1 .. 5 : KeptNumbers[kind][i] = f].int ]
       @@ [kind |-> kind]

DecodeKey(kind, data) ==
  IF kind = "ecdsa" THEN DecodeEcdsa(data, RemoveTagged(SequenceTag, data).rest)
  ELSE DecodeNumbers(kind, DecodeNext(data).v)

-----------------------------------------------------------------------------
(* Lines *)

TagOf == [rsa |-> "RSA", dss |-> "DSA", ecdsa |-> "EC"]

Line(is, value) == [is |-> is, value |-> value]

\* A cipher, with the key that is made of the password and the salt; a wrong
\* password, which gives any bytes, is not used here.
Encrypt(data, password, salt) ==
  [i \in DOMAIN data |-> [byte |-> data[i], password |-> password, salt |-> salt]]
Decrypt(data, password, salt) ==
  [i \in DOMAIN data |-> IF data[i].password = password /\ data[i].salt = salt THEN data[i].byte ELSE 0]

FilledUp(data) == data \o Repeat(0, (-Len(data)) % BlockSize)

Wrapped(data) ==
  [ i \in 1 .. (Len(data) + LineWidth - 1) \div LineWidth |->
      [is |-> "data", bytes |-> Take(Drop(data, (i - 1) * LineWidth), LineWidth)] ]

NoPassword == "none"

WritePrivateKey(tag, data, password, salt) ==
  <<Line("begin", tag)>>
  \o (IF password = NoPassword THEN Wrapped(data)
      ELSE <<Line("proc-type", "4,ENCRYPTED"), Line("dek-info", salt), Line("blank", "")>>
           \o Wrapped(Encrypt(FilledUp(data), password, salt)))
  \o <<Line("end", tag)>>

Headers == {"proc-type", "dek-info", "comment"}

\* The first index from i on of one of the lines that are looked for, or the
\* one after the last line
FirstFrom(lines, i, sought) ==
  CHOOSE j \in i .. Len(lines) + 1 :
    /\ j > Len(lines) \/ lines[j] \in sought
    /\ \A k \in i .. j - 1 : lines[k] \notin sought

ReadPrivateKey(tag, lines, password) ==
  LET begin == FirstFrom(lines, 1, {Line("begin", tag)})
      start == FirstFrom(lines, begin + 1, {l \in Range(lines) : l.is \notin Headers})
      end == FirstFrom(lines, start, {Line("end", tag)})
      headers == {lines[i] : i \in begin + 1 .. start - 1}
      Has(name) == \E l \in headers : l.is = name
      Value(name) == (CHOOSE l \in headers : l.is = name).value
      body == SelectSeq(SubSeq(lines, start, end - 1), LAMBDA l : l.is = "data")
      data == FlattenSeq([i \in DOMAIN body |-> body[i].bytes])
  IN  IF begin > Len(lines) THEN Error("SSHException")
      ELSE IF ~Has("proc-type") THEN [data |-> data]
      ELSE IF Value("proc-type") # "4,ENCRYPTED" \/ ~Has("dek-info") THEN Error("SSHException")
      ELSE IF password = NoPassword THEN Error("PasswordRequiredException")
      ELSE [data |-> Decrypt(data, password, Value("dek-info"))]

Decoded(kind, r) == IF "error" \in DOMAIN r THEN r ELSE DecodeKey(kind, r.data)

FromPrivateKey(kind, lines, password) ==
  Decoded(kind, ReadPrivateKey(TagOf[kind], lines, password))

-----------------------------------------------------------------------------
(* What it is checked against *)

PublicPart(k) ==
  IF k.kind = "ecdsa" THEN [kind |-> "ecdsa", verifying |-> k.verifying]
  ELSE [kind |-> k.kind] @@ [f \in Range(SentNumbers[k.kind]) |-> k[f]]

\* Numbers of a dss signature that are wider than their half are cut, and a
\* signature of ecdsa whose first number is not below the order is not taken.
Usable(k, sig, pair) ==
  CASE k.kind = "rsa"   -> TRUE
    [] k.kind = "dss"   -> 0 \notin {pair.r, pair.s} /\ Len(DeflateLong(pair.r, FALSE)) <= DssWidth
    [] k.kind = "ecdsa" -> sig # <<>> /\ Sigdecode(GetBinary(GetBinary(sig).rest).v).r < Nist256p.n

\* A signature is taken with its name only, but for one of dss, and for no
\* other digest.
SignatureTaken(public, sig, digest, other) ==
  \A bytes \in {GetBinary(GetBinary(sig).rest).v} :
    \A x \in { <<sig, digest, "valid">>, <<AddString(<<9>>) \o AddString(bytes), digest, "invalid">> }
              \cup (IF public.kind = "rsa" THEN {<<sig, other, "invalid">>} ELSE {})
              \cup (IF public.kind = "dss" /\ Len(bytes) = 2 * DssWidth
                   THEN {<<bytes, digest, "valid">>} ELSE {}) :
      VerifySshSig(public, x[2], x[1]) = x[3]

\* What a key signs is verified by the key that its bytes give, which no other
\* kind of key takes.
SendsAndSigns(k, digest, other, nonce) ==
  \A kind \in Kinds :
    \A public \in {FromMessage(kind, AsBytes(k))}, sig \in {SignSshData(k, digest, nonce)} :
      IF kind # k.kind THEN public = Error("SSHException")
      ELSE /\ HashOf(public) = HashOf(k) /\ ~CanSign(public)
           /\ \/ k.kind = "dss" /\ nonce \notin Nonces(k)
              \/ ~Usable(k, sig, DsaSign(k, InflateLong(digest, TRUE), nonce))
              \/ SignatureTaken(public, sig, digest, other)

\* A private key is what was written, with the password it was written with,
\* and only with one; unless it is of ecdsa and had to be filled up.  What is
\* before the key, and its missing end, do no harm.
LinesReadBack(k, lines, password, expected) ==
  /\ \A l \in {lines, SubSeq(lines, 1, Len(lines) - 1)} : FromPrivateKey(k.kind, l, password) = expected
  /\ \A x \in { <<kind, password, "SSHException">> : kind \in Kinds \ {k.kind} }
              \cup (IF password = NoPassword THEN {}
                   ELSE {<<k.kind, NoPassword, "PasswordRequiredException">>}) :
       lines[1] = Line("begin", TagOf[k.kind]) => ReadPrivateKey(TagOf[x[1]], lines, x[2]) = Error(x[3])

FileReadsBack(k, password, before) ==
  /\ \A data \in {EncodeKey(k)} :
       \A lines \in {before \o WritePrivateKey(TagOf[k.kind], data, password, "salt")} :
         LinesReadBack(k, lines, password,
                       IF k.kind = "ecdsa" /\ password # NoPassword /\ Len(data) % BlockSize # 0
                       THEN Error("ValueError") ELSE k)
  /\ k.kind # "ecdsa" => EncodeKey(PublicPart(k)) = Error("SSHException")
  /\ k.kind = "rsa" => (k.q * Shortcuts(k)[3]) % k.p = 1
=============================================================================
