---------------------------- MODULE KeyExchange -----------------------------
(***************************************************************************)
(* How two ends of the vendored paramiko agree on keys and switch to them: *)
(* the negotiation of the algorithms, both kinds of Diffie-Hellman, NEWKEYS *)
(* at each end, key exchanges at any later time, and the compression that  *)
(* starts with the login.                                                  *)
(*                                                                         *)
(* A message carries the state of its sender's cipher, MAC and compressor, *)
(* its seal; a receiver in another state cannot read it.  A hash is the    *)
(* tuple of what goes into it.                                             *)
(***************************************************************************)
EXTENDS NumberTheory, Encodings

CONSTANTS
  Setups,         (* [client, server, requests]: the preferences of the ends,  *)
                  (* and the sizes that the client asks for                    *)
  GroupP, GroupG, (* P and G of KexGroup1                                      *)
  MinBits, PreferredBits, MaxBits,   (* of KexGex: 1024, 2048, 8192            *)
  Unset,          (* None                                                      *)
  MaxX,           (* bound: secrets that are drawn                             *)
  MaxKexes,       (* bound: exchanges after the first one                      *)
  MaxData         (* bound: messages of its user that an end sends             *)

ASSUME KexAssumption ==
  /\ MinBits <= PreferredBits /\ PreferredBits <= MaxBits
  /\ MaxKexes \in Nat /\ MaxData \in Nat

VARIABLES
  end,         (* end[e]: the Transport of e, with the messages under way from it *)
  request,     (* min, preferred and max of the client's KexGex                *)
  login,       (* "no", "asked" or "done"                                      *)
  overlapped   (* an exchange was started in the middle of another one or of   *)
               (* the login, or the login in the middle of an exchange         *)

kexVars == <<end, request, login, overlapped>>

Ends == {"client", "server"}
Peer(e) == IF e = "client" THEN "server" ELSE "client"

ZlibAfterLogin == "zlib@openssh.com"

-----------------------------------------------------------------------------
(* primes.py: lines of /etc/ssh/moduli, by the number of bits               *)

Acceptable(line) ==
  LET bits == BitLength(line.modulus) IN
  /\ line.type >= 2 /\ line.tests >= 4
  /\ (line.tests \div 4) % 2 = 1 /\ line.tests < 8 => line.tries >= 100
  /\ bits \in {line.size, line.size + 1}

\* pack: bits -> [ (generator, modulus) ... ]
ParseModuli(lines) ==
  LET good == SelectSeq(lines, Acceptable)
      OfBits(b) == SelectSeq(good, LAMBDA line : BitLength(line.modulus) = b)
      Group(line) == [g |-> IF line.generator = 0 THEN 2 ELSE line.generator, p |-> line.modulus]
  IN  [ b \in {BitLength(good[i].modulus) : i \in DOMAIN good} |->
          [i \in DOMAIN OfBits(b) |-> Group(OfBits(b)[i])] ]

\* Every result of _roll_random(n)
RollRandom(n) ==
  LET bits == IF n = 1 THEN 0 ELSE BitLength(n - 1)
      width == (bits + Bits - 1) \div Bits
      mask == 2 ^ (bits % Bits)
      Rolls == { Unpack(IF mask > 1 THEN [b EXCEPT ![1] = @ % mask] ELSE b) :
                 b \in [1 .. width -> 0 .. Digit - 1] }
  IN  {x \in Rolls : x < n}

\* The size of the group, and the groups of this size
GoodSize(pack, min, prefer, max) ==
  LET sizes == DOMAIN pack
      above == {b \in sizes : b >= prefer /\ b < max}
      below == {b \in sizes : b >= min /\ b < max}
      smallest == Min(sizes)
  IN  IF above # {} THEN Min(above)
      ELSE IF below # {} THEN Max(below)
      ELSE IF min > smallest THEN Max(sizes) ELSE smallest

GetModulus(pack, min, prefer, max) ==
  LET groups == pack[GoodSize(pack, min, prefer, max)] IN
  {groups[n + 1] : n \in RollRandom(Len(groups))}

-----------------------------------------------------------------------------
(* The state of an end.  A seal is what its packetizer does with a message. *)

Plain == [cipher |-> "none", mac |-> "none", keys |-> Unset, compressor |-> "none"]

FreshEnd(prefs) ==
  [ prefs |-> prefs, localInit |-> Unset, remoteInit |-> Unset, agreed |-> Unset,
    expects |-> {}, x |-> 0, group |-> Unset, sizes |-> Unset, e |-> 0, f |-> 0,
    K |-> Unset, H |-> Unset, sessionId |-> Unset, authenticated |-> FALSE,
    in |-> Plain, out |-> Plain, clear |-> FALSE, done |-> FALSE,
    failed |-> "no", inits |-> 0, data |-> 0, wire |-> <<>> ]

KexInit ==
  /\ \E s \in Setups : /\ request \in s.requests
                       /\ end = [client |-> FreshEnd(s.client), server |-> FreshEnd(s.server)]
  /\ login = "no" /\ overlapped = FALSE

\* _send_message
Send(s, type, body) == [s EXCEPT !.wire = Append(@, [type |-> type, body |-> body, seal |-> s.out])]

Fail(s, why) == [s EXCEPT !.failed = why]

ExpectPacket(s, types) == [s EXCEPT !.expects = types]

\* The letters that go into the keys of a direction: ACE to the server, BDF
\* to the client.
InLetters(e)  == IF e = "server" THEN "ACE" ELSE "BDF"
OutLetters(e) == IF e = "server" THEN "BDF" ELSE "ACE"

ComputeKeys(s, letters) == [K |-> s.K, H |-> s.H, letters |-> letters, sessionId |-> s.sessionId]

\* A compressor is known by where it was made.
Compressor(s, algorithm, was) ==
  IF algorithm # "none" /\ (algorithm # ZlibAfterLogin \/ s.authenticated) THEN s.H ELSE was

SwitchInbound(s, e) ==
  [ s EXCEPT !.in = [ cipher |-> s.agreed.remoteCipher, mac |-> s.agreed.remoteMac,
                      keys |-> ComputeKeys(s, InLetters(e)),
                      compressor |-> Compressor(s, s.agreed.remoteCompression, s.in.compressor) ] ]

SwitchOutbound(s, e) ==
  LET sent == Send(s, "newkeys", Unset) IN
  [ sent EXCEPT !.out = [ cipher |-> s.agreed.localCipher, mac |-> s.agreed.localMac,
                          keys |-> ComputeKeys(s, OutLetters(e)),
                          compressor |-> Compressor(s, s.agreed.localCompression, s.out.compressor) ],
                !.expects = {"newkeys"} ]

\* _auth_trigger
AuthTrigger(s) ==
  LET Starts(algorithm, was) == IF algorithm = ZlibAfterLogin THEN "login" ELSE was IN
  [ s EXCEPT !.authenticated = TRUE,
             !.out.compressor = Starts(s.agreed.localCompression, @),
             !.in.compressor = Starts(s.agreed.remoteCompression, @) ]

-----------------------------------------------------------------------------
(* The negotiation *)

Common(preferred, other) == SelectSeq(preferred, LAMBDA a : a \in Range(other))

\* A server without moduli takes group exchange off its list.
AnnounceKex(s, e) ==
  LET kex == IF e = "server" /\ s.prefs.moduli = Unset
             THEN SelectSeq(s.prefs.kex, LAMBDA k : k # "gex") ELSE s.prefs.kex
      keys == IF e = "server" THEN SelectSeq(s.prefs.keys, LAMBDA k : k \in s.prefs.held)
              ELSE s.prefs.keys
      init == [ cookie |-> <<e, s.inits>>, kex |-> kex, keys |-> keys, ciphers |-> s.prefs.ciphers,
                macs |-> s.prefs.macs, compression |-> s.prefs.compression ]
  IN  Send([ s EXCEPT !.prefs.kex = kex, !.clear = FALSE, !.localInit = init,
                      !.inits = @ + 1 ], "kexinit", init)

\* The first of the client's list that the server has, at both ends
Agreed(e, mine, theirs) == IF e = "server" THEN Common(theirs, mine) ELSE Common(mine, theirs)

ParseKexInit(s, e, init) ==
  LET held == IF e = "server" THEN SelectSeq(s.prefs.keys, LAMBDA k : k \in s.prefs.held)
              ELSE s.prefs.keys
      lists == [ kex |-> Agreed(e, s.prefs.kex, init.kex), key |-> Agreed(e, held, init.keys),
                 localCipher |-> Agreed(e, s.prefs.ciphers, init.ciphers),
                 remoteCipher |-> Agreed(e, s.prefs.ciphers, init.ciphers),
                 localMac |-> Agreed(e, s.prefs.macs, init.macs),
                 remoteMac |-> Agreed(e, s.prefs.macs, init.macs),
                 localCompression |-> Agreed(e, s.prefs.compression, init.compression),
                 remoteCompression |-> Agreed(e, s.prefs.compression, init.compression) ]
  IN  IF \E l \in DOMAIN lists : lists[l] = <<>> THEN Fail(s, "incompatible")
      ELSE [s EXCEPT !.agreed = [l \in DOMAIN lists |-> lists[l][1]], !.remoteInit = init]

-----------------------------------------------------------------------------
(* Diffie-Hellman: x is what _generate_x gives, of those that it may give   *)

Q(p) == (p - 1) \div 2

\* Every result of KexGex._generate_x: as many bytes as q has, the highest
\* masked to the bits that q has there
GenerateX(p) ==
  LET bytes == BytesOf(Q(p))
      mask == 2 ^ BitLength(bytes[1])
      Drawn == { Unpack([b EXCEPT ![1] = @ % mask]) :
                 b \in [1 .. Len(bytes) -> 0 .. Digit - 1] }
  IN  {x \in Drawn : x > 1 /\ x < Q(p)}

Drawable(p) == {x \in GenerateX(p) : x <= MaxX}

OutOfRange(n, p) == n < 1 \/ n > p - 1

\* What is hashed, from the client's and the server's side of it
Hashed(s, e, key, K) ==
  LET inits == IF e = "client" THEN <<s.localInit, s.remoteInit>> ELSE <<s.remoteInit, s.localInit>>
  IN  <<inits, key, s.sizes, s.group, s.e, s.f, K>>

SetKH(s, k, h) ==
  [s EXCEPT !.K = k, !.H = h, !.sessionId = IF @ = Unset THEN h ELSE @]

StartKex(s, e) ==
  LET init == [s EXCEPT !.group = Unset, !.sizes = Unset] IN
  IF s.agreed.kex = "gex"
  THEN IF e = "server" THEN { ExpectPacket(init, {"gexRequest"}) }
       ELSE { ExpectPacket(Send([init EXCEPT !.sizes = request], "gexRequest", request), {"gexGroup"}) }
  ELSE { LET with == [init EXCEPT !.x = x, !.group = [g |-> GroupG, p |-> GroupP]]
             power == ModularExp(GroupG, x, GroupP)
         IN  IF e = "server" THEN ExpectPacket([with EXCEPT !.f = power], {"dhInit"})
             ELSE ExpectPacket(Send([with EXCEPT !.e = power], "dhInit", power), {"dhReply"}) :
         x \in Drawable(GroupP) }

\* The server's answer to e, of either exchange: K and H, the reply, NEWKEYS
Reply(s, type) ==
  LET K == ModularExp(s.e, s.x, s.group.p)
      H == Hashed(s, "server", s.agreed.key, K)
      sig == [by |-> s.agreed.key, of |-> H]
  IN  SwitchOutbound(Send(SetKH(s, K, H), type, [key |-> s.agreed.key, f |-> s.f, sig |-> sig]), "server")

ParseDhInit(s, e) ==
  IF OutOfRange(e, s.group.p) THEN Fail(s, "range") ELSE Reply([s EXCEPT !.e = e], "dhReply")

\* The client's end of it, with _verify_key
ParseReply(s, m) ==
  LET with == [s EXCEPT !.f = m.f]
      K == ModularExp(m.f, s.x, s.group.p)
      H == Hashed(with, "client", m.key, K)
  IN  IF OutOfRange(m.f, s.group.p) THEN Fail(s, "range")
      ELSE IF m.key # s.agreed.key \/ m.sig # [by |-> m.key, of |-> H] THEN Fail(SetKH(with, K, H), "signature")
      ELSE SwitchOutbound(SetKH(with, K, H), "client")

\* The server's limits on what the client has asked for
Smoosh(r) ==
  LET preferred == Max({MinBits, Min({MaxBits, r.preferred})})
  IN  [preferred |-> preferred, min |-> Min({r.min, preferred}), max |-> Max({r.max, preferred})]

ParseGexRequest(s, r) ==
  LET sizes == Smoosh(r)
      pack == ParseModuli(s.prefs.moduli)
  IN  IF s.prefs.moduli = Unset \/ DOMAIN pack = {} THEN { Fail(s, "moduli") }
      ELSE { ExpectPacket(Send([s EXCEPT !.sizes = sizes, !.group = g], "gexGroup", g), {"gexInit"}) :
               g \in GetModulus(pack, sizes.min, sizes.preferred, sizes.max) }

ParseGexGroup(s, g) ==
  IF BitLength(g.p) \notin MinBits .. MaxBits THEN { Fail(s, "size") }
  ELSE { LET e == ModularExp(g.g, x, g.p) IN
         ExpectPacket(Send([s EXCEPT !.group = g, !.x = x, !.e = e], "gexInit", e), {"gexReply"}) :
         x \in Drawable(g.p) }

ParseGexInit(s, e) ==
  IF OutOfRange(e, s.group.p) THEN { Fail(s, "range") }
  ELSE { Reply([s EXCEPT !.e = e, !.x = x, !.f = ModularExp(s.group.g, x, s.group.p)], "gexReply") :
           x \in Drawable(s.group.p) }

\* Seeded bug: the client's keys are used in both directions.
ParseNewKeysSameLetters(s, e) ==
  [ SwitchInbound(s, "server") EXCEPT !.localInit = Unset, !.remoteInit = Unset, !.K = Unset,
                                   !.done = TRUE, !.clear = TRUE ]

ParseNewKeys(s, e) ==
  [ SwitchInbound(s, e) EXCEPT !.localInit = Unset, !.remoteInit = Unset, !.K = Unset,
                                 !.done = TRUE, !.clear = TRUE ]

NegotiateKeys(s, e, init) ==
  LET mine == IF s.localInit = Unset THEN AnnounceKex(s, e) ELSE s
      parsed == ParseKexInit([mine EXCEPT !.clear = FALSE], e, init)
  IN  IF parsed.failed # "no" THEN {parsed} ELSE StartKex(parsed, e)

-----------------------------------------------------------------------------
(* Steps *)

Alive(e) == end[e].failed = "no"

\* An exchange is under way at an end from its KEXINIT to the other's NEWKEYS.
InExchange(e) == end[e].localInit # Unset

\* run: the first KEXINIT
Begin(e) ==
  /\ Alive(e) /\ end[e].inits = 0
  /\ end' = [end EXCEPT ![e] = ExpectPacket(AnnounceKex(@, e), {"kexinit"})]
  /\ UNCHANGED <<request, login, overlapped>>

\* renegotiate_keys, at any time, or the loop when the packetizer wants new keys
Renegotiate(e) ==
  /\ Alive(e) /\ end[e].done
  /\ end[e].inits <= MaxKexes
  /\ overlapped' = (overlapped \/ InExchange(e) \/ login = "asked")
  /\ end' = [end EXCEPT ![e] = AnnounceKex(@, e)]
  /\ UNCHANGED <<request, login>>

\* _send_user_message
SendUserMessage(e) ==
  /\ Alive(e) /\ end[e].clear /\ end[e].authenticated
  /\ end[e].data < MaxData
  /\ end' = [end EXCEPT ![e] = [Send(@, "data", Unset) EXCEPT !.data = @ + 1]]
  /\ UNCHANGED <<request, login, overlapped>>

\* Messages of the login do not wait for clear_to_send.
AskLogin ==
  /\ Alive("client") /\ end["client"].done /\ login = "no"
  /\ end' = [end EXCEPT !["client"] = Send(@, "auth", Unset)]
  /\ login' = "asked"
  /\ overlapped' = (overlapped \/ \E e \in Ends : InExchange(e))
  /\ UNCHANGED request

\* What the handlers make of end e
HandledBy(s, e, m) ==
  CASE m.type = "kexinit"    -> NegotiateKeys(s, e, m.body)
    [] m.type = "dhInit"     -> { ParseDhInit(s, m.body) }
    [] m.type = "gexRequest" -> ParseGexRequest(s, m.body)
    [] m.type = "gexGroup"   -> ParseGexGroup(s, m.body)
    [] m.type = "gexInit"    -> ParseGexInit(s, m.body)
    [] m.type \in {"dhReply", "gexReply"} -> { ParseReply(s, m.body) }
    [] m.type = "newkeys"    -> { ParseNewKeys(s, e) }
    [] m.type = "auth"       -> { AuthTrigger(Send(s, "success", Unset)) }
    [] m.type = "success"    -> { AuthTrigger(s) }
    [] m.type = "data"       -> { s }

\* run: the next message
Receive(e) ==
  LET m == Head(end[Peer(e)].wire) IN
  /\ Alive(e) /\ end[e].inits > 0 /\ end[Peer(e)].wire # <<>>
  /\ \E s \in IF m.seal # end[e].in THEN { Fail(end[e], "garbled") }
              ELSE IF end[e].expects # {} /\ m.type \notin end[e].expects THEN { Fail(end[e], "expecting") }
              ELSE HandledBy([end[e] EXCEPT !.expects = {}], e, m) :
       end' = [end EXCEPT ![e] = s, ![Peer(e)].wire = Tail(@)]
  /\ login' = IF m.type = "success" THEN "done" ELSE login
  /\ UNCHANGED <<request, overlapped>>

KexNext ==
  \/ \E e \in Ends : Begin(e) \/ Renegotiate(e) \/ SendUserMessage(e) \/ Receive(e)
  \/ AskLogin

KexSpec == KexInit /\ [][KexNext]_kexVars

-----------------------------------------------------------------------------
InCommon(l) == Range(end["client"].prefs[l]) \cap Range(end["server"].prefs[l])

Compatible ==
  /\ \A l \in {"kex", "ciphers", "macs", "compression"} : InCommon(l) # {}
  /\ InCommon("keys") \cap end["server"].prefs.held # {}

Mirrored(c, s) ==
  /\ c.in = s.out /\ c.out = s.in /\ c.sessionId = s.sessionId /\ c.H = s.H
  /\ c.agreed.kex = s.agreed.kex /\ c.agreed.key = s.agreed.key

\* Both ends come to the same keys, and each switches to them at the same
\* message as the other (transport.py:1884-2131, kex_group1.py, kex_gex.py):
\* no message meets an end that cannot read it or does not expect it; when
\* nothing is under way, no exchange is left half done, and what one end sends
\* with is what the other receives with, in each direction with other keys and
\* under the hash of the first exchange.  An end that gives up has a reason:
\* nothing in common, or moduli that do not fit.  Exchanges and logins that
\* overlap, and requests that the server has to change, are left out.
KeysAgree ==
  LET c == end["client"]
      s == end["server"]
      Quiet == c.wire = <<>> /\ s.wire = <<>> /\ Alive("client") /\ Alive("server")
      Suits(b) == b >= Max({request.min, MinBits}) /\ b < Min({request.max, MaxBits})
  IN  ~overlapped =>
        /\ \A e \in Ends : end[e].failed \notin {"garbled", "expecting", "range"}
        /\ c.failed = "signature" => Smoosh(request) # request
        /\ \A e \in Ends : end[e].failed = "incompatible" => ~Compatible
        /\ c.failed = "size" => \A b \in DOMAIN ParseModuli(s.prefs.moduli) : ~Suits(b)
        /\ s.failed = "moduli" => DOMAIN ParseModuli(s.prefs.moduli) = {}
        /\ Quiet /\ c.inits > 0 /\ s.inits > 0 =>
             ~InExchange("client") /\ ~InExchange("server") /\ Mirrored(c, s)
        /\ \A e \in Ends : end[e].done =>
             /\ end[e].in.keys # end[e].out.keys
             /\ end[e].sessionId[1][1].cookie[2] = 0 /\ end[e].sessionId[1][2].cookie[2] = 0

\* The draws of _roll_random and KexGex._generate_x reach every number that
\* they should, and a modulus has the smallest size from the preferred one on,
\* or else the largest one above the least, wherever there is one below max.
RollsRight(n) == RollRandom(n) = 0 .. n - 1
SecretsRight(p) == GenerateX(p) = 2 .. Q(p) - 1
ModulusRight(sizes, min, prefer, max) ==
  LET b == GoodSize([z \in sizes |-> <<>>], min, prefer, max)
      Fits(z) == z >= min /\ z < max
  IN  min <= prefer /\ prefer <= max =>
        /\ (\E z \in sizes : Fits(z)) => Fits(b)
        /\ \A z \in sizes : Fits(z) => IF b >= prefer THEN z >= b \/ z < prefer ELSE z <= b
=============================================================================
