----------------------------- MODULE Encodings ------------------------------
(***************************************************************************)
(* How the vendored paramiko and ecdsa turn values into bytes and back:    *)
(* Message and the integers of util.py, the BER of private keys, the DER   *)
(* of the keys and signatures of ecdsa, and the attributes of SFTP.        *)
(*                                                                         *)
(* Bytes are sequences of numbers below Digit; a reader returns what it    *)
(* has read, v, and what is left, rest.  Constants of the code that depend *)
(* on the width of a byte are written with Digit.                          *)
(***************************************************************************)
EXTENDS Integers, SequencesExt

CONSTANTS
  Digit,      (* values of a byte: 256                                        *)
  WordLen,    (* bytes of an int: 4                                           *)
  MaxPad      (* max_pad_size of get_bytes: 2^20                              *)

ASSUME DigitAssumption ==
  \* The tags of the code are below 64, but for constructed ones, whose upper
  \* three bits are 101.
  Digit \in {128, 256} /\ WordLen \in Nat \ {0} /\ MaxPad \in Nat

TopBit == Digit \div 2                 \* 0x80, the highest bit of a byte
Word == Digit ^ WordLen

Unexpected == [error |-> "UnexpectedDER"]

\* struct.pack and unpack, and "%x" with unhexlify
Pack(n, width) == [i \in 1 .. width |-> (n \div Digit ^ (width - i)) % Digit]
Unpack(s) == FoldLeft(LAMBDA n, d : n * Digit + d, 0, s)
RECURSIVE BytesOf(_)
BytesOf(n) == IF n < Digit THEN <<n>> ELSE Append(BytesOf(n \div Digit), n % Digit)

BitLength(n) == CHOOSE i \in 0 .. 31 : n < 2 ^ i /\ \A j \in 0 .. i - 1 : n >= 2 ^ j
Bits == BitLength(Digit - 1)           \* in a byte

\* s[:n] and s[n:], and s * n of Python
Take(s, n) == SubSeq(s, 1, IF n < Len(s) THEN n ELSE Len(s))
Drop(s, n) == SubSeq(s, n + 1, Len(s))
Repeat(d, n) == IF n <= 0 THEN <<>> ELSE [i \in 1 .. n |-> d]

-----------------------------------------------------------------------------
(* util.py *)

InflateLong(s, alwaysPositive) ==
  LET negative == ~alwaysPositive /\ s # <<>> /\ s[1] >= TopBit
      filler   == IF negative THEN Digit - 1 ELSE 0
      full     == Repeat(filler, (-Len(s)) % WordLen) \o s
  IN  Unpack(full) - (IF negative THEN Digit ^ Len(full) ELSE 0)

\* The words of n, and what the shifts leave of it, 0 or -1.
RECURSIVE Words(_)
Words(n) ==
  IF n \in {0, -1} THEN [s |-> <<>>, left |-> n]
  ELSE LET r == Words(n \div Word) IN [r EXCEPT !.s = @ \o Pack(n % Word, WordLen)]

\* Seeded bug: no byte is added for the sign.
DeflateLongUnpadded(n, addSignPadding) ==
  LET w == Words(n)
      lead == IF w.left = 0 THEN 0 ELSE Digit - 1
      other == {i \in DOMAIN w.s : w.s[i] # lead}
  IN  IF other = {} THEN <<lead>>
      ELSE Drop(w.s, (CHOOSE i \in other : \A j \in other : i <= j) - 1)

DeflateLong(n, addSignPadding) ==
  LET w == Words(n)
      lead == IF w.left = 0 THEN 0 ELSE Digit - 1
      other == {i \in DOMAIN w.s : w.s[i] # lead}
      s == IF other = {} THEN <<lead>>
           ELSE Drop(w.s, (CHOOSE i \in other : \A j \in other : i <= j) - 1)
  IN  IF addSignPadding /\ (w.left = 0) = (s[1] >= TopBit) THEN <<lead>> \o s ELSE s

\* Counter of util.py, of as many bytes as a block: value is what the last call
\* has returned.
CounterValue(n, size) == LET x == DeflateLong(n, FALSE) IN Repeat(0, size - Len(x)) \o x
Counter(initial, size) ==
  IF initial = 0 THEN Repeat(Digit - 1, size) ELSE CounterValue(initial - 1, size)
Increment(value, overflow) ==
  LET low == {i \in DOMAIN value : value[i] # Digit - 1}
      last == CHOOSE i \in low : \A j \in low : j <= i
  IN  IF low = {} THEN CounterValue(overflow, Len(value))
      ELSE [i \in DOMAIN value |-> IF i > last THEN 0 ELSE IF i = last THEN value[i] + 1 ELSE value[i]]

-----------------------------------------------------------------------------
(* Message *)

Comma == 44

\* A message that is too short is filled up with zeros.
GetBytes(p, n) ==
  LET b == Take(p, n) IN
  [ v |-> IF Len(b) < n /\ n < MaxPad THEN b \o Repeat(0, n - Len(b)) ELSE b,
    rest |-> Drop(p, Len(b)) ]

Read(v, rest) == [v |-> v, rest |-> rest]
Map(r, F(_)) == [v |-> F(r.v), rest |-> r.rest]

AddBoolean(b) == <<IF b THEN 1 ELSE 0>>
GetBoolean(p) == Map(GetBytes(p, 1), LAMBDA s : s # <<0>>)
AddInt(n) == Pack(n, WordLen)
GetInt(p) == Map(GetBytes(p, WordLen), Unpack)
AddInt64(n) == Pack(n, 2 * WordLen)
GetInt64(p) == Map(GetBytes(p, 2 * WordLen), Unpack)
AddString(s) == AddInt(Len(s)) \o s
GetBinary(p) == LET n == GetInt(p) IN GetBytes(n.rest, n.v)
AddMpint(z) == AddString(DeflateLong(z, TRUE))
GetMpint(p) == Map(GetBinary(p), LAMBDA s : InflateLong(s, FALSE))

BigInt == (Digit - 1) * Digit ^ (WordLen - 1)
AddAdaptiveInt(n) ==
  IF n >= BigInt THEN <<Digit - 1>> \o AddString(DeflateLong(n, TRUE)) ELSE AddInt(n)
GetAdaptiveInt(p) ==
  LET first == GetBytes(p, 1)
      others == GetBytes(first.rest, WordLen - 1)
  IN  IF first.v = <<Digit - 1>> THEN GetMpint(first.rest)
      ELSE [v |-> Unpack(first.v \o others.v), rest |-> others.rest]

AddList(l) ==
  AddString(FoldLeft(LAMBDA s, x : s \o <<Comma>> \o x,
                     IF l = <<>> THEN <<>> ELSE l[1], IF l = <<>> THEN l ELSE Tail(l)))
GetList(p) ==
  LET Split(parts, d) == IF d = Comma THEN Append(parts, <<>>)
                         ELSE [parts EXCEPT ![Len(parts)] = Append(@, d)]
  IN  Map(GetBinary(p), LAMBDA s : FoldLeft(Split, <<<<>>>>, s))

\* add_byte, add_bytes and the rest, by the type of the item
Add(item) ==
  CASE item.type = "boolean"  -> AddBoolean(item.v)
    [] item.type = "int"      -> AddInt(item.v)
    [] item.type = "int64"    -> AddInt64(item.v)
    [] item.type = "adaptive" -> AddAdaptiveInt(item.v)
    [] item.type = "mpint"    -> AddMpint(item.v)
    [] item.type = "string"   -> AddString(item.v)
    [] item.type = "list"     -> AddList(item.v)

Get(type, p) ==
  CASE type = "boolean"  -> GetBoolean(p)
    [] type = "int"      -> GetInt(p)
    [] type = "int64"    -> GetInt64(p)
    [] type = "adaptive" -> GetAdaptiveInt(p)
    [] type = "mpint"    -> GetMpint(p)
    [] type = "string"   -> GetBinary(p)
    [] type = "list"     -> GetList(p)

-----------------------------------------------------------------------------
(* ber.py: a value is [int |-> n], [boolean |-> b], [octets |-> s] or        *)
(* [sequence |-> values].                                                   *)

SequenceTag == 48
BooleanTag  == 1
IntegerTag  == 2
OctetString == 4

EncodeTlv(ident, val) ==
  LET lenstr == DeflateLong(Len(val), TRUE) IN
  <<ident>> \o (IF Len(val) >= TopBit THEN <<TopBit + Len(lenstr)>> \o lenstr ELSE <<Len(val)>>) \o val

RECURSIVE BerEncode(_)
BerEncode(x) ==
  IF "int" \in DOMAIN x THEN EncodeTlv(IntegerTag, DeflateLong(x.int, TRUE))
  ELSE IF "boolean" \in DOMAIN x THEN EncodeTlv(BooleanTag, <<IF x.boolean THEN Digit - 1 ELSE 0>>)
  ELSE IF "octets" \in DOMAIN x THEN EncodeTlv(OctetString, x.octets)
  ELSE EncodeTlv(SequenceTag, FlattenSeq([i \in DOMAIN x.sequence |-> BerEncode(x.sequence[i])]))

None == [none |-> TRUE]
Unknown == [v |-> [error |-> "BERException"], rest |-> <<>>]

\* ident > 30: seven bits a byte, as long as the highest is set
RECURSIVE LongIdent(_, _)
LongIdent(ident, p) ==
  IF p = <<>> THEN [v |-> ident, rest |-> p]
  ELSE LET n == ident * TopBit + (p[1] % TopBit) IN
       IF p[1] >= TopBit THEN LongIdent(n, Tail(p)) ELSE [v |-> n, rest |-> Tail(p)]

RECURSIVE DecodeNext(_)
DecodeNext(p) ==
  LET ident == IF p[1] % 32 = 31 THEN LongIdent(0, Tail(p)) ELSE [v |-> p[1], rest |-> Tail(p)]
      q == ident.rest
      t == IF q[1] >= TopBit THEN q[1] % TopBit ELSE 0
      size == IF t > 0 THEN InflateLong(SubSeq(q, 2, 1 + t), TRUE) ELSE q[1] % TopBit
      data == SubSeq(q, 2 + t, 1 + t + size)
      RECURSIVE Decode(_, _)
      Decode(out, r) == LET x == DecodeNext(r) IN
                        IF x.v = None THEN Read([sequence |-> out], Drop(q, 1 + t + size))
                        ELSE IF x = Unknown THEN x ELSE Decode(Append(out, x.v), x.rest)
  IN  IF p = <<>> \/ q = <<>> \/ Len(q) < 1 + t \/ Len(q) < 1 + t + size THEN Read(None, <<>>)
      ELSE IF ident.v = SequenceTag THEN Decode(<<>>, data)
      ELSE IF ident.v = IntegerTag THEN Read([int |-> InflateLong(data, FALSE)], Drop(q, 1 + t + size))
      ELSE Unknown

-----------------------------------------------------------------------------
(* der.py *)

EncodeLength(l) ==
  IF l < TopBit THEN <<l>> ELSE LET s == BytesOf(l) IN <<TopBit + Len(s)>> \o s

ReadLength(s) ==
  LET llen == s[1] % TopBit IN
  IF s[1] < TopBit THEN [v |-> s[1], rest |-> Tail(s)]
  ELSE IF llen > Len(s) - 1 THEN Unexpected
  ELSE [v |-> Unpack(SubSeq(s, 2, 1 + llen)), rest |-> Drop(s, 1 + llen)]

EncodeTagged(tag, s) == <<tag>> \o EncodeLength(Len(s)) \o s

RemoveTagged(tag, s) ==
  LET l == ReadLength(Tail(s)) IN
  IF s = <<>> \/ s[1] # tag \/ l = Unexpected THEN Unexpected
  ELSE [v |-> SubSeq(l.rest, 1, l.v), rest |-> Drop(l.rest, l.v)]

BitString   == 3
Object      == 6
ConstructedTag(tag) == (Digit \div 8) * 5 + tag

EncodeInteger(r) ==
  LET s == BytesOf(r) IN
  IF s[1] < TopBit THEN <<IntegerTag, Len(s)>> \o s ELSE <<IntegerTag, Len(s) + 1, 0>> \o s
RemoveInteger(s) ==
  LET n == RemoveTagged(IntegerTag, s) IN IF n = Unexpected THEN n ELSE Map(n, Unpack)

EncodeSequence(pieces) == EncodeTagged(SequenceTag, FlattenSeq(pieces))

RemoveConstructed(s) ==
  LET n == RemoveTagged(s[1], s) IN
  IF s[1] \div (Digit \div 8) # 5 THEN Unexpected
  ELSE [tag |-> s[1] % (Digit \div 8), v |-> n.v, rest |-> n.rest]

\* Digits of seven bits, the highest set in all but the last
RECURSIVE NumberDigits(_)
NumberDigits(n) == IF n = 0 THEN <<>> ELSE Append(NumberDigits(n \div TopBit), TopBit + (n % TopBit))
EncodeNumber(n) ==
  LET s == IF n = 0 THEN <<0>> ELSE NumberDigits(n) IN [s EXCEPT ![Len(s)] = @ % TopBit]
RECURSIVE ReadNumber(_, _)
ReadNumber(number, s) ==
  LET n == number * TopBit + (s[1] % TopBit) IN
  IF s[1] >= TopBit THEN ReadNumber(n, Tail(s)) ELSE [v |-> n, rest |-> Tail(s)]

EncodeOid(oid) ==
  EncodeTagged(Object, <<40 * oid[1] + oid[2]>>
                       \o FlattenSeq([i \in 1 .. Len(oid) - 2 |-> EncodeNumber(oid[i + 2])]))
RemoveObject(s) ==
  LET RECURSIVE Numbers(_)
      Numbers(body) == IF body = <<>> THEN <<>>
                       ELSE LET n == ReadNumber(0, body) IN <<n.v>> \o Numbers(n.rest)
      Oid(numbers) == <<numbers[1] \div 40, numbers[1] % 40>> \o Tail(numbers)
      n == RemoveTagged(Object, s)
  IN  IF n = Unexpected THEN n ELSE Map(n, LAMBDA body : Oid(Numbers(body)))

-----------------------------------------------------------------------------
(* SFTPAttributes: [fields, items].  A field that is not known is absent;   *)
(* uid and gid, and the two times, are sent only together.  The items are   *)
(* those of the dictionary attr, pairs of a name and a value, in the order  *)
(* in which items() lists them.                                             *)

Fields == << <<"size">>, <<"uid", "gid">>, <<"mode">>, <<"atime", "mtime">> >>

FlagOf(i) == 2 ^ (i - 1)
Extended == Word \div 2                \* FLAG_EXTENDED, the highest bit
Present(a, i) == Range(Fields[i]) \subseteq DOMAIN a.fields
AddField(name, v) == IF name = "size" THEN AddInt64(v) ELSE AddInt(v)
GetField(name, p) == IF name = "size" THEN GetInt64(p) ELSE GetInt(p)

PackAttributes(a) ==
  LET flags == {i \in DOMAIN Fields : Present(a, i)}
      PackFields(i) ==
        IF i \notin flags THEN <<>>
        ELSE FlattenSeq([j \in DOMAIN Fields[i] |-> AddField(Fields[i][j], a.fields[Fields[i][j]])])
      pairs == FlattenSeq([i \in DOMAIN a.items |-> AddString(a.items[i][1]) \o AddString(a.items[i][2])])
  IN  AddInt(MapThenSumSet(FlagOf, flags) + IF a.items = <<>> THEN 0 ELSE Extended)
      \o FlattenSeq([i \in DOMAIN Fields |-> PackFields(i)])
      \o IF a.items = <<>> THEN <<>> ELSE AddInt(Len(a.items)) \o pairs

\* The dictionary that assignments of values to keys leave, as its items
Assigned(items, key, value) ==
  LET at == {i \in DOMAIN items : items[i][1] = key} IN
  IF at = {} THEN Append(items, <<key, value>>)
  ELSE [items EXCEPT ![CHOOSE i \in at : TRUE][2] = value]

\* In "self.attr[msg.get_string()] = msg.get_string()" the right side reads
\* first: the name becomes the value, and the value the key.
UnpackAttributes(p) ==
  LET flags == GetInt(p)
      names == FlattenSeq([ i \in DOMAIN Fields |->
                              IF (flags.v \div FlagOf(i)) % 2 = 1 THEN Fields[i] ELSE <<>> ])
      Step(r, name) == LET f == GetField(name, r.rest) IN Read(Append(r.v, f.v), f.rest)
      values == FoldLeft(Step, Read(<<>>, flags.rest), names)
      count == IF flags.v >= Extended THEN GetInt(values.rest) ELSE Read(0, values.rest)
      Pair(r, i) == LET right == GetBinary(r.rest)
                        key == GetBinary(right.rest)
                    IN  Read(Assigned(r.v, key.v, right.v), key.rest)
      pairs == FoldLeft(Pair, Read(<<>>, count.rest), [i \in 1 .. count.v |-> i])
  IN  Read([ fields |-> [ n \in Range(names) |-> values.v[CHOOSE i \in DOMAIN names : names[i] = n] ],
             items |-> pairs.v ], pairs.rest)

-----------------------------------------------------------------------------
(* Every reader gives back what was written, whatever follows it, and       *)
(* integers take no more bytes than they need.                              *)

\* A list that is empty is read as one empty name.
ItemsInvert(items, tail) ==
  LET packet == FlattenSeq([i \in DOMAIN items |-> Add(items[i])]) \o tail
      Step(r, item) == LET g == Get(item.type, r.rest) IN [v |-> Append(r.v, g.v), rest |-> g.rest]
  IN  FoldLeft(Step, Read(<<>>, packet), items) = Read([i \in DOMAIN items |-> items[i].v], tail)

LongsInvert(n) ==
  /\ InflateLong(DeflateLong(n, TRUE), FALSE) = n
  /\ n >= 0 => InflateLong(DeflateLong(n, FALSE), TRUE) = n
  /\ LET s == DeflateLong(n, TRUE) IN
     Len(s) > 1 => ~(s[1] = 0 /\ s[2] < TopBit) /\ ~(s[1] = Digit - 1 /\ s[2] >= TopBit)

\* A counter counts up from its first number, and on from the overflow; 0 as
\* the first number stands for the overflow.
CounterRight(initial, overflow, size) ==
  LET Called(n) == FoldLeft(LAMBDA v, i : Increment(v, overflow), Counter(initial, size), [i \in 1 .. n |-> i])
      Number(n) == IF initial = 0 THEN overflow + n - 1
                   ELSE IF initial + n <= Digit ^ size THEN initial + n - 1
                   ELSE overflow + initial + n - 1 - Digit ^ size
  IN  \A n \in 1 .. 4 : Called(n) = Pack(Number(n), size)

\* Integers and sequences are read back; whatever holds a boolean or a string,
\* which encode writes, is refused.
RECURSIVE Readable(_)
Readable(x) ==
  \/ "int" \in DOMAIN x
  \/ "sequence" \in DOMAIN x /\ \A i \in DOMAIN x.sequence : Readable(x.sequence[i])

BerInverts(x, tail) ==
  DecodeNext(BerEncode(x) \o tail) = IF Readable(x) THEN Read(x, tail) ELSE Unknown

DerInverts(n, oid, body, tail) ==
  /\ RemoveInteger(EncodeInteger(n) \o tail) = Read(n, tail)
  /\ RemoveObject(EncodeOid(oid) \o tail) = Read(oid, tail)
  /\ RemoveTagged(OctetString, EncodeTagged(OctetString, body) \o tail) = Read(body, tail)
  /\ RemoveTagged(BitString, EncodeTagged(OctetString, body) \o tail) = Unexpected
  /\ RemoveConstructed(EncodeTagged(ConstructedTag(1), body) \o tail)
       = [tag |-> 1, v |-> body, rest |-> tail]
  /\ RemoveTagged(SequenceTag, EncodeSequence(<<EncodeInteger(n), EncodeOid(oid)>>) \o tail)
       = Read(EncodeInteger(n) \o EncodeOid(oid), tail)

\* What is sent are the fields that are there with their partner, and they are
\* read back, and so is what follows.  The names and values of the items are
\* exchanged: every value has one of its names, and no item gets lost that does
\* not share its value with another; sent back, those are as they were.
AttributesInvert(a, tail) ==
  LET kept == UNION {Range(Fields[i]) : i \in {j \in DOMAIN Fields : Present(a, j)}}
      r == UnpackAttributes(PackAttributes(a) \o tail)
      Exchanged(items) == {<<x[2], x[1]>> : x \in items}
      Alone(items) == {x \in Range(items) : \A y \in Range(items) : y[2] = x[2] => y = x}
  IN  /\ r.v.fields = [n \in kept |-> a.fields[n]] /\ r.rest = tail
      /\ Range(r.v.items) \subseteq Exchanged(Range(a.items))
      /\ Exchanged(Alone(a.items)) \subseteq Range(r.v.items)
      /\ {x[2] : x \in Range(a.items)} = {x[1] : x \in Range(r.v.items)}
      /\ Range(UnpackAttributes(PackAttributes(r.v)).v.items) \subseteq Range(a.items)
=============================================================================
