------------------------------ MODULE MCParts ------------------------------
(***************************************************************************)
(* Components that share nothing, side by side for TLC: every behaviour    *)
(* belongs to one of them, and the others stay in an initial state of      *)
(* theirs.  "cases" draws a case of the arithmetic in one step.            *)
(***************************************************************************)
EXTENDS SensorValue, ClientLogin, KnownHosts, PacketStream, LineFile,
  PKeys, KeyExchange

Sdr    == INSTANCE SdrFile
Config == INSTANCE HostConfig

VARIABLES
  part,   (* the component of this behaviour                                *)
  case    (* the case of the arithmetic                                     *)

-----------------------------------------------------------------------------
(* SensorValue: sensors with every subset of the                            *)
(* thresholds, at distances of one and two, on a scale of twelve raw        *)
(* readings; one sensor of either format with many factors, the others with *)
(* the identity                                                             *)

Raws ==
  { [ lnr |-> a, lc |-> a + b, lnc |-> a + b + c,
      unc |-> d, uc |-> d + e, unr |-> d + e + f ] :
    a \in 0 .. 1, b, c, e, f \in 1 .. 2, d \in 5 .. 8 }

MCDevices ==
  { t \in [signed : BOOLEAN, readable : SUBSET Levels, raw : Raws] :
      WellOrdered(t) /\ \A l \in Levels : t.raw[l] \in Bytes }

WithoutThresholds(t) ==
  t.readable = {} /\ t.raw = [ lnr |-> 0, lc |-> 1, lnc |-> 2,
                               unc |-> 5, uc |-> 6, unr |-> 7 ]

Identity == [m_lb |-> 1, m_ub |-> 0, b_lb |-> 0, b_ub |-> 0, exp |-> 0]

\* Rexpo from -4 to 1 and Bexpo up to 3, in doubles of 12 bits: the largest
\* integers have 23, and thousandths of them stay below 2^31.  The bits of m_ub
\* and b_ub that do not belong to M and B are set in some of them.
MCFactors ==
  [ m_lb : {0, 1, 255}, m_ub : {0, 128}, b_lb : {7, 255},
    b_ub : {0, 63, 64, 128, 192, 255},
    exp : { 16 * r + b : r \in {0, 1, 12, 13, 14, 15}, b \in 0 .. 3 } \ {16 * 1 + 3} ]

MCFactorsOf(t) == IF WithoutThresholds(t) THEN MCFactors ELSE {Identity}

-----------------------------------------------------------------------------
(* ClientLogin: no source of keys, one, or two; every set of demands with   *)
(* at most two methods, and questions of more than one prompt or round      *)

MCKeyFiles ==
  { [class |-> "rsa", key |-> k] : k \in {"good", "locked", "unreadable"} }
  \cup { [class |-> "ecdsa", key |-> "other"] }

UpTo(n, S) == UNION { [1 .. k -> S] : k \in 0 .. n }

Sources(l) ==
  Cardinality({ s \in {"files", "agent", "found"} : l[s] # <<>> })
  + (IF l.pkey = "none" THEN 0 ELSE 1)

MCLogins ==
  { l \in [ pkey : {"none", "good", "other"}, files : UpTo(2, MCKeyFiles),
            agent : UpTo(1, {"good", "other"}), found : UpTo(1, MCKeyFiles),
            password : {"none", "right", "wrong"}, answers : {"right", "wrong"} ] :
      Sources(l) <= 2 /\ (l.password # "none" => l.answers = "wrong") }

Interactive == "keyboard-interactive"
MCDemands ==
  { [accept |-> a, prompts |-> 0, rounds |-> 1] :
      a \in { {{"publickey"}}, {{"password"}}, {{Interactive}},
              {{"publickey", "password"}}, {{"publickey", Interactive}},
              {{"publickey"}, {"password"}}, {{"password", Interactive}} } }
  \cup { [accept |-> a, prompts |-> p, rounds |-> r] :
           a \in { {{"publickey", Interactive}}, {{Interactive}} },
           p \in 1 .. 2, r \in 1 .. 2 }

-----------------------------------------------------------------------------
(* KnownHosts: a client that adds keys, and another that does or warns *)

MCClients == {"c1", "c2"}
MCPolicyPlans == { [c1 |-> "AutoAddPolicy", c2 |-> p] : p \in {"AutoAddPolicy", "WarningPolicy"} }

\* All hosts start with k1; one of them may change to k2.
MCPresented == [type : {"rsa"}, key : {"k1", "k2"}]

\* Files with a key of another type, and with two lines for one host
MCFiles ==
  { << Entry(<<"h1">>, "dss", "k1") >>,
    << Entry(<<"h1">>, "rsa", "k1"), Entry(<<"h1", "h2">>, "rsa", "k1") >> }

-----------------------------------------------------------------------------
(* NumberTheory: the numbers around the squares of the small primes, and    *)
(* the residues of primes of every class modulo 8                           *)

MCSmallPrimes == <<2, 3, 5, 7, 11, 13>>

NumberCases ==
  { [op |-> "residue", a |-> a, p |-> p] :
      p \in {2, 3, 5, 7, 13, 17, 23, 29, 31, 41, 73, 97}, a \in 0 .. 96 }
  \cup { [op |-> "number", n |-> n] : n \in -1 .. 300 }
  \cup { [op |-> "order", n |-> n] : n \in 1 .. 40 }

-----------------------------------------------------------------------------
(* Encodings, with bytes of seven bits and ints of two bytes: the numbers   *)
(* around every boundary of a length, and texts around the short lengths    *)

Small == {0, 1, 63, 64, 65, 127, 128, 8191, 8192, 16255, 16256, 16383}
Longs == Small \cup { 16384, 16385, 1048575, 1048576, 2097151, 2097152,
                      134217727, 134217728, 268435455 }

Items ==
  [type : {"boolean"}, v : BOOLEAN] \cup [type : {"int"}, v : Small]
  \cup [type : {"int64", "adaptive"}, v : Longs]
  \cup [type : {"mpint"}, v : Longs \cup { -n : n \in { x \in Longs : x <= 134217728 } }]
  \cup [type : {"string"}, v : {<<>>, <<0>>, <<127, 5>>}]
  \cup [type : {"list"}, v : {<<<<>>>>, <<<<5, 6>>, <<>>, <<7>>>>}]

BerInts == { [int |-> n] : n \in {-16385, -65, -64, -1, 0, 1, 63, 64, 50000} }
BerSequences ==
  { [sequence |-> s] : s \in { <<>>, <<[int |-> 1], [int |-> -40]>>,
                               [i \in 1 .. 16 |-> [int |-> 16000 + i]] } }
BerOthers == [boolean : BOOLEAN] \cup [octets : {<<>>, <<48, 2, 5>>}]

\* A dictionary has no two items of one name.
AttributeFields ==
  UNION { [f -> {0, 130, 16383}] : f \in SUBSET {"size", "uid", "gid", "mode", "atime", "mtime"} }
AttributeItems ==
  { s \in UpTo(3, {<<1>>, <<2>>, <<3, 3>>} \X {<<1>>, <<9>>, <<>>}) :
      \A i, j \in DOMAIN s : s[i][1] = s[j][1] => i = j }

EncodingCases ==
  [op : {"items"}, items : { <<a, b>> : a, b \in Items }]
  \cup [op : {"counter"}, initial : {0, 1, 126, 127, 128, 16382, 16383}, overflow : {0, 5}, size : {2}]
  \cup [op : {"long"}, n : (-300 .. 300) \cup Longs]
  \cup [op : {"ber"}, x : BerInts \cup BerSequences \cup BerOthers \cup
          { [sequence |-> <<x, y>>] : x \in BerInts \cup BerSequences \cup BerOthers,
                                      y \in BerSequences \cup BerOthers }]
  \cup [op : {"der"}, n : Longs, oid : {<<1, 2, 840, 10045>>, <<0, 5>>, <<1, 3, 0, 63, 64, 65>>},
        body : {<<>>, <<1, 2>>, Repeat(3, 63), Repeat(4, 64), Repeat(5, 140)}]
  \cup [op : {"attributes"}, a : [fields : AttributeFields, items : {<<>>, <<<<<<9>>, <<1>>>>>>}]
                                  \cup [fields : {<<>>, "size" :> 130}, items : AttributeItems]]

\* Files of up to three records: full and compact ones, one of a type that is
\* not known, two of one number, one at another controller, one without an
\* event type, and one with an event type of the vendor
SdrRecord(record, event, num, mc, name) ==
  [record |-> record, event |-> event, num |-> num, mc |-> mc, name |-> name]
SdrRecords ==
  { SdrRecord(1, 1, 1, 32, <<65>>), SdrRecord(1, 1, 1, 32, <<>>), SdrRecord(1, 111, 2, 32, <<66, 67>>),
    SdrRecord(2, 3, 2, 32, <<68>>), SdrRecord(2, 1, 1, 34, <<>>), SdrRecord(1, 0, 3, 32, <<69>>),
    SdrRecord(18, 1, 1, 32, <<9, 9>>) }
SdrCases == [op : {"sdr"}, records : UpTo(3, SdrRecords), readings : [1 .. 3 -> {Sdr!Failed, 7}]]

\* What Message, BER, der and SFTPAttributes write, they read back
\* (message.py, ber.py, der.py, sftp_attr.py), whatever follows it in the
\* packet, so that the field after it is read from the right place; and the
\* sensors have the bytes of the records they were read from, which the commands
\* show (sdr.py:64-295, command.py:25-65).
EncodingsInvert ==
  \A tail \in {<<>>, <<9, 0>>} :
    /\ case.op = "items" => ItemsInvert(case.items, tail)
    /\ case.op = "counter" => CounterRight(case.initial, case.overflow, case.size)
    /\ case.op = "long"  => LongsInvert(case.n)
    /\ case.op = "ber"   => BerInverts(case.x, tail)
    /\ case.op = "der"   => DerInverts(case.n, case.oid, case.body, tail)
    /\ case.op = "attributes" => AttributesInvert(case.a, tail)
    /\ case.op = "sdr"   => Sdr!SdrsRight(case.records, case.readings)

-----------------------------------------------------------------------------
(* EcSignatures: two curves with every secret, hash, pair and random        *)
(* number, and two with some, whose orders are around the width of a byte:  *)
(* one of 127 points over a larger field, one of 151.                       *)

Curve(p, b, gx, gy, n, oid) == [p |-> p, a |-> -3, b |-> b, gx |-> gx, gy |-> gy, n |-> n, oid |-> oid]
MCCurves == << Curve(7, 6, 1, 2, 11, <<1, 2, 3>>), Curve(11, 10, 2, 1, 7, <<1, 2, 840, 4>>),
               Curve(131, 1, 0, 1, 127, <<1, 2, 840, 5>>), Curve(139, 22, 1, 24, 151, <<1, 2, 840, 6>>) >>

SignatureCases ==
  UNION { [op : {"group"}, c : {c}, j : 0 .. c.n - 1, k : 0 .. c.n]
          \cup [op : {"verifies"}, c : {c}, secret : 1 .. c.n - 1, hash : 0 .. c.n, r : 0 .. c.n, s : 0 .. c.n]
          \cup [op : {"sign"}, c : {c}, secret : 1 .. c.n - 1, digest : {<<h>> : h \in 0 .. c.n}, k : 0 .. c.n] :
          c \in {MCCurves[1], MCCurves[2]} }
  \cup [ op : {"sign"}, c : {MCCurves[3], MCCurves[4]}, secret : {1, 2, 7, 126},
         digest : {<<1>>, <<126>>, <<9, 0>>}, k : {1, 2, 3, 19, 77, 126} ]
  \cup [op : {"draws"}, n : {7, 11, 19, 64, 65, 97, 127, 128, 129, 151}]

-----------------------------------------------------------------------------
(* PKeys: keys of rsa of three bytes, keys of dss whose order is below and   *)
(* above the width of a half of a signature, and keys of ecdsa on the last   *)
(* of the curves, but for those that PublicKey rejects                       *)

MCNist256p == MCCurves[4]

Rsa(p, q, e, d) == [kind |-> "rsa", n |-> p * q, e |-> e, d |-> d, p |-> p, q |-> q]
Dss(p, q, g, x) == [kind |-> "dss", p |-> p, q |-> q, g |-> g, y |-> ModularExp(g, x, p), x |-> x]
Ecdsa(signing) == [kind |-> "ecdsa", signing |-> signing, verifying |-> signing.public]

PrivateKeys ==
  { Rsa(131, 137, 3, 11787), Rsa(137, 131, 3, 11787), Rsa(149, 151, 7, 6343),
    Dss(23, 11, 4, 7), Dss(107, 53, 4, 50), Dss(263, 131, 4, 100), Dss(263, 131, 4, 130) }
  \cup { Ecdsa(k) : k \in { s \in { FromSecretExponent(MCNist256p, n) : n \in {1, 2, 5, 100, 127} } :
                             "error" \notin DOMAIN s } }

Rubbish == << Line("begin", "X"), Line("comment", ""), Line("blank", "") >>

KeyCases ==
  [op : {"key"}, k : PrivateKeys, digest : {<<0>>, <<1>>, <<5>>, <<64>>, <<127>>}, nonce : 1 .. 130]
  \cup [op : {"keyfile"}, k : PrivateKeys, password : {NoPassword, "secret"}, before : {<<>>, Rubbish}]

\* What a key signs, and nothing else, is verified by its public key, however
\* key and signature were stored in between, and every secret may be drawn
\* (ecdsa); a private key is read back from its file (pkey.py, rsakey.py,
\* dsskey.py, ecdsakey.py); and the numbers it is computed with are what the names of the
\* functions of numbertheory.py say: inverses, roots, primes, orders.
SignaturesVerify ==
  /\ case.op = "residue"  => RootsAndInversesRight(case.a, case.p)
  /\ case.op = "number"   => FactorsRight(case.n)
  /\ case.op = "order"    => OrdersRight(case.n)
  /\ case.op = "group"    => GroupRight(case.c, case.j, case.k)
  /\ case.op = "verifies" => VerifiesRight(case.c, case.secret, case.hash, case.r, case.s)
  /\ case.op = "sign"     => SignatureVerifies(case.c, case.secret, case.digest, case.k)
  /\ case.op = "draws"    => DrawsRight(case.n)
  /\ case.op = "key"      => SendsAndSigns(case.k, case.digest, <<9>>, case.nonce)
  /\ case.op = "keyfile"  => FileReadsBack(case.k, case.password, case.before)

-----------------------------------------------------------------------------
(* LineFile: files of every mode, streams of up to four bytes, and lines    *)
(* that are typed with up to five keys                                      *)

MCFileModes ==
  [letters : {{"r"}, {"r", "U"}}, bufsize : {0, 3}] \cup [letters : {{"w"}}, bufsize : {0, 1, 3}]
MCStreams == UpTo(4, {"x", CR, LF})
MCTexts == UpTo(2, {"x", LF})
MCSizes == {-1, 1, 2}

TypedCases == [op : {"typed"}, keys : UpTo(5, {EOT, Tab, DEL, ESC, "[", "x", CR})]

\* Lines arrive whole and in order from the files of paramiko (file.py), and
\* what sshim takes for the line is what the user sees (Server.py:262-326).
LinesArrive == LinesWhole /\ (case.op = "typed" => LineTyped(case.keys))

-----------------------------------------------------------------------------
(* KeyExchange: groups of four to seven bits; ends that prefer different    *)
(* ciphers, kinds of exchange and compressions; servers with good moduli,   *)
(* with none, and with only some that are too large; clients that ask for   *)
(* sizes inside and outside the limits of the server                        *)

Modulus(size, g, p) ==
  [type |-> 2, tests |-> 6, tries |-> 100, size |-> size, generator |-> g, modulus |-> p]
Poor == [Modulus(5, 5, 23) EXCEPT !.tries = 50]
Moduli == <<Modulus(3, 2, 11), Modulus(4, 5, 23), Poor, Modulus(5, 2, 29), Modulus(7, 2, 107)>>

Delayed == <<ZlibAfterLogin, "zlib", "none">>
Prefs(kex, compression, ciphers, held, moduli) ==
  [ kex |-> kex, keys |-> <<"rsa", "dss">>, held |-> held, moduli |-> moduli, ciphers |-> ciphers,
    macs |-> <<"md5">>, compression |-> compression ]
ClientPrefs(kex) == Prefs(kex, Delayed, <<"aes", "3des">>, {}, Unset)
ServerPrefs(kex, moduli) == Prefs(kex, Delayed, <<"3des", "aes">>, {"dss"}, moduli)

Sized(min, preferred, max) == [min |-> min, preferred |-> preferred, max |-> max]
Usual == Sized(4, 5, 7)

MCSetups ==
  { [ client |-> ClientPrefs(<<"group1", "gex">>), requests |-> {Usual},
      server |-> [ServerPrefs(<<"gex", "group1">>, Moduli) EXCEPT !.held = {"rsa", "dss"}] ],
    [ client |-> Prefs(<<"gex", "group1">>, <<"zlib", "none">>, <<"aes">>, {}, Unset),
      server |-> ServerPrefs(<<"gex">>, Moduli),
      requests |-> {Usual, Sized(4, 4, 6), Sized(5, 6, 7), Sized(3, 5, 7), Sized(4, 8, 9)} ],
    [ client |-> ClientPrefs(<<"gex", "group1">>), requests |-> {Usual},
      server |-> ServerPrefs(<<"gex", "group1">>, Unset) ] }
  \cup { [client |-> ClientPrefs(<<"gex">>), server |-> ServerPrefs(<<"gex", "group1">>, m), requests |-> {Usual}] :
           m \in {Unset, <<Modulus(7, 2, 107)>>, <<Modulus(8, 2, 227)>>, <<Poor>>} }

KexCases ==
  [op : {"roll"}, n : 1 .. 20 \cup {64, 65, 127, 128, 129}] \cup [op : {"secret"}, p : {23, 29, 107, 227, 263, 503}]
  \cup [op : {"modulus"}, sizes : SUBSET (3 .. 7) \ {{}}, min : 2 .. 7, prefer : 3 .. 7, max : 3 .. 8]

\* Both ends agree on keys and switch to them together; secrets and moduli are
\* drawn from all that qualify (transport.py:1884-2131, primes.py, kex_gex.py).
KeysRight ==
  /\ KeysAgree
  /\ case.op = "roll" => RollsRight(case.n)
  /\ case.op = "secret" => SecretsRight(case.p)
  /\ case.op = "modulus" => ModulusRight(case.sizes, case.min, case.prefer, case.max)

-----------------------------------------------------------------------------
(* The settings of a host, and its addresses: up to three, of two families *)

Infos == UpTo(3, [addr : {"a1", "a2", "a3"}, stream : BOOLEAN,
                  end : {"connected", "refused", "error"}])

\* Settings of two hosts, with lines of every kind
Pattern(negated, names) == [negated |-> negated, names |-> names]
Setting(k, v) == [key |-> k, value |-> v]
ConfigLines ==
  { Setting("host", ps) : ps \in { << Pattern(FALSE, {"h1"}) >>,
                                   << Pattern(FALSE, {"h1", "h2"}), Pattern(TRUE, {"h2"}) >>,
                                   << Pattern(TRUE, {"h1"}), Pattern(FALSE, {"h1", "h2"}) >> } }
  \cup { Setting("", <<>>), Setting("hostname", <<"%h", ".net">>), Setting("user", <<"u1">>),
         Setting("identityfile", <<"~", "/%r", "%r", "%u">>), Setting("identityfile", <<"%d", "%h">>),
         Setting("localforward", <<"1">>), Setting("proxycommand", <<"none">>),
         Setting("proxycommand", <<"nc", "%h", "%p", "%u">>), Setting("port", <<"2222">>),
         Setting("addressfamily", <<"inet">>), Setting("controlpath", <<"%l", "%L", "%n", "%r">>) }
Environment ==
  [ user |-> <<"me">>, host |-> <<"here">>, home |-> <<"/home">>, fqdn |-> <<"here.org">>,
    canonnames |-> << [dotted |-> FALSE, name |-> <<"here">>],
                      [dotted |-> TRUE, name |-> <<"here.com">>] >> ]
ConfigCases == [op : {"config"}, lines : UpTo(3, ConfigLines), host : {"h1", "h2"}]

\* A host has the settings that its lines say (config.py), connect goes on
\* exactly with the first address that takes the connection (client.py:281-313),
\* and logs in exactly if the server lets it, with the sources of keys and
\* passwords in their order (client.py:452-586).
ClientRight ==
  /\ LoginRight
  /\ case.op = "config" => Config!LookupRight(case.lines, case.host, Environment)
  /\ case.op = "dial" => DialRight(case.infos)

-----------------------------------------------------------------------------
Cases == NumberCases \cup EncodingCases \cup SignatureCases \cup TypedCases \cup KexCases
         \cup SdrCases \cup ConfigCases \cup KeyCases
         \cup [op : {"dial"}, infos : Infos]

NoCase == [op |-> "none"]

DrawCase == case = NoCase /\ case' \in { c \in Cases : c.op = "residue" => c.a < c.p }

-----------------------------------------------------------------------------
Parts == {"readings", "login", "hosts", "stream", "file", "kex", "cases"}

RestSensor == CHOOSE t \in Devices : TRUE
RestFactor == CHOOSE f \in FactorsOf(RestSensor) : TRUE
RestLogin  == CHOOSE l \in Logins : TRUE
RestDemand == CHOOSE d \in Demands : TRUE
RestPlan   == CHOOSE p \in PolicyPlans : TRUE
RestServer == [h \in Hosts |-> [type |-> "rsa", key |-> "k1"]]
RestFile   == CHOOSE f \in Files : TRUE
RestEnds   ==
  LET s == CHOOSE s \in Setups : Usual \in s.requests /\ s.server.moduli = Unset
  IN  [client |-> FreshEnd(s.client), server |-> FreshEnd(s.server)]
RestFlags  == SetMode(CHOOSE m \in FileModes : TRUE)

PartsInit ==
  /\ part \in Parts /\ case = NoCase
  /\ IF part = "readings" THEN TRUE ELSE sensor = RestSensor /\ factor = RestFactor
  /\ ValueInit
  /\ IF part = "login" THEN TRUE ELSE args = RestLogin /\ demand = RestDemand
  /\ LoginInit
  /\ IF part = "hosts" THEN TRUE ELSE policy = RestPlan /\ file = RestFile
  /\ server = RestServer /\ HostsInit
  /\ StreamInit
  /\ IF part = "file" THEN TRUE ELSE flags = RestFlags /\ stream = <<>>
  /\ IF part = "kex" THEN TRUE ELSE end = RestEnds /\ request = Usual
  /\ KexInit
  /\ FileInit /\ (flags.writes => stream = <<>>)

PartsNext ==
  \/ /\ part = "readings" /\ ValueNext
     /\ UNCHANGED <<loginVars, hostVars, streamVars, fileVars, kexVars, case>>
  \/ /\ part = "login" /\ LoginNext
     /\ UNCHANGED <<valueVars, hostVars, streamVars, fileVars, kexVars, case>>
  \/ /\ part = "hosts" /\ HostsNext
     /\ UNCHANGED <<valueVars, loginVars, streamVars, fileVars, kexVars, case>>
  \/ /\ part = "stream" /\ StreamNext
     /\ UNCHANGED <<valueVars, loginVars, hostVars, fileVars, kexVars, case>>
  \/ /\ part = "file" /\ FileNext
     /\ UNCHANGED <<valueVars, loginVars, hostVars, streamVars, kexVars, case>>
  \/ /\ part = "kex" /\ KexNext
     /\ UNCHANGED <<valueVars, loginVars, hostVars, streamVars, fileVars, case>>
  \/ /\ part = "cases" /\ DrawCase
     /\ UNCHANGED <<valueVars, loginVars, hostVars, streamVars, fileVars, kexVars>>

partsVars == <<valueVars, loginVars, hostVars, streamVars, fileVars, kexVars, part, case>>

PartsSpec == PartsInit /\ [][PartsNext /\ UNCHANGED part]_partsVars
=============================================================================
