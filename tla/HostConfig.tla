----------------------------- MODULE HostConfig -----------------------------
(***************************************************************************)
(* SSHConfig of the vendored paramiko: the settings that a file like       *)
(* ~/.ssh/config has for a host.                                           *)
(*                                                                         *)
(* A line is a record [key, value], with the key "" if it is empty or a    *)
(* comment; a value is a sequence of tokens, some of which are variables.  *)
(* The value of a Host line is a sequence of patterns, each with the set   *)
(* of names that it matches.                                               *)
(***************************************************************************)
EXTENDS Integers, SequencesExt

Lists == {"identityfile", "localforward", "remoteforward"}
NoProxy == [key |-> "proxycommand", value |-> <<"none">>]

\* The lines before the first Host apply to every host: no patterns stand for *.
Block(hosts) == [hosts |-> hosts, config |-> <<>>]
EveryHost == Block(<<>>)

\* The first value of a key counts, but for those that are lists.
AddSetting(config, line) ==
  IF line.key \in Lists
  THEN IF line.key \in DOMAIN config THEN [config EXCEPT ![line.key] = Append(@, line.value)]
       ELSE (line.key :> <<line.value>>) @@ config
  ELSE config @@ (line.key :> line.value)

ParseLine(r, line) ==
  IF line.key = "" \/ line = NoProxy THEN r
  ELSE IF line.key = "host" THEN [blocks |-> Append(r.blocks, r.host), host |-> Block(line.value)]
  ELSE [r EXCEPT !.host.config = AddSetting(@, line)]

Parse(lines) ==
  LET r == FoldLeft(ParseLine, [blocks |-> <<>>, host |-> EveryHost], lines)
  IN  Append(r.blocks, r.host)

\* A pattern that is negated ends the search.
Allowed(hosts, hostname) ==
  LET Step(answer, pattern) ==
        IF answer = "never" \/ hostname \notin pattern.names THEN answer
        ELSE IF pattern.negated THEN "never" ELSE "yes"
  IN  IF hosts = <<>> THEN TRUE ELSE FoldLeft(Step, "no", hosts) = "yes"

\* identityfile is the only list that goes on from one block to the next.
Gather(blocks) ==
  LET Add(ret, block) ==
        [ key \in DOMAIN ret \cup DOMAIN block.config |->
            IF key \notin DOMAIN ret THEN block.config[key]
            ELSE IF key = "identityfile" /\ key \in DOMAIN block.config
              THEN ret[key] \o block.config[key]
            ELSE ret[key] ]
  IN  FoldLeft(Add, <<>>, blocks)

-----------------------------------------------------------------------------
(* Variables *)

Replace(value, find, by) ==
  FlattenSeq([i \in DOMAIN value |-> IF value[i] = find THEN by ELSE <<value[i]>>])

\* LazyFqdn: the first name with a dot that the resolver has for the family of
\* the config, or that of getfqdn, which does not know of families
Fqdn(config, env) ==
  LET dotted == SelectSeq(env.canonnames, LAMBDA c : c.dotted)
  IN  IF "addressfamily" \notin DOMAIN config \/ config["addressfamily"] = <<"any">> \/ dotted = <<>>
      THEN env.fqdn ELSE dotted[1].name

SshPort == <<"22">>

Replacements(config, hostname, env) ==
  LET port == IF "port" \in DOMAIN config THEN config["port"] ELSE SshPort
      remoteuser == IF "user" \in DOMAIN config THEN config["user"] ELSE env.user
      name == config["hostname"]
      fqdn == Fqdn(config, env)
  IN  [ controlpath  |-> << <<"%h", name>>, <<"%l", fqdn>>, <<"%L", env.host>>, <<"%n", <<hostname>>>>,
                            <<"%p", port>>, <<"%r", remoteuser>>, <<"%u", env.user>> >>,
        identityfile |-> << <<"~", env.home>>, <<"%d", env.home>>, <<"%h", name>>, <<"%l", fqdn>>,
                            <<"%u", env.user>>, <<"%r", remoteuser>> >>,
        proxycommand |-> << <<"%h", name>>, <<"%p", port>>, <<"%r", remoteuser>> >> ]

ExpandValue(value, replacements) ==
  FoldLeft(LAMBDA v, r : Replace(v, r[1], r[2]), value, replacements)

ExpandVariables(config, hostname, env) ==
  LET named == ("hostname" :> IF "hostname" \in DOMAIN config
                              THEN Replace(config["hostname"], "%h", <<hostname>>) ELSE <<hostname>>)
               @@ config
      table == Replacements(named, hostname, env)
  IN  [ k \in DOMAIN named |->
          IF k \notin DOMAIN table THEN named[k]
          ELSE IF k \in Lists THEN [i \in DOMAIN named[k] |-> ExpandValue(named[k][i], table[k])]
          ELSE ExpandValue(named[k], table[k]) ]

Lookup(blocks, hostname, env) ==
  LET matches == SelectSeq(blocks, LAMBDA b : Allowed(b.hosts, hostname))
  IN  ExpandVariables(Gather(matches), hostname, env)

-----------------------------------------------------------------------------
(* The rules of ssh_config, line by line *)

\* A line applies if the Host line above it has a pattern for the host and no
\* negated one.
Applies(lines, i, hostname) ==
  LET above == {j \in 1 .. i : lines[j].key = "host"}
      patterns == ToSet(lines[CHOOSE j \in above : \A k \in above : k <= j].value)
      Has(negated) == \E p \in patterns : p.negated = negated /\ hostname \in p.names
  IN  lines[i].key \notin {"", "host"} /\ (above = {} \/ (Has(FALSE) /\ ~Has(TRUE)))

\* Every variable of a value is replaced once, by what it stands for.
Meaning(value, replacements) ==
  LET Of(token) == LET r == SelectSeq(replacements, LAMBDA x : x[1] = token) IN
                   IF r = <<>> THEN <<token>> ELSE r[1][2]
  IN  FlattenSeq([i \in DOMAIN value |-> Of(value[i])])

\* The first value that applies is the one that is looked up, identity files
\* are all that apply in the order of the file, and no other setting is there;
\* ProxyCommand none is as if it were not there.  Variables of values that are
\* put in place of others are not looked at.
LookupRight(lines, hostname, env) ==
  LET got == Lookup(Parse(lines), hostname, env)
      Lines(k) == {i \in DOMAIN lines : lines[i].key = k /\ Applies(lines, i, hostname) /\ lines[i] # NoProxy}
      values(k) == [j \in 1 .. Cardinality(Lines(k)) |-> lines[SetToSortSeq(Lines(k), <)[j]].value]
      table == Replacements(got, hostname, env)
      Expanded(k, v) == IF k = "hostname" THEN Replace(v, "%h", <<hostname>>)
                        ELSE IF k \in DOMAIN table THEN Meaning(v, table[k]) ELSE v
      Expected(k) == IF k = "identityfile" THEN [j \in DOMAIN values(k) |-> Expanded(k, values(k)[j])]
                     ELSE Expanded(k, values(k)[1])
  IN  /\ DOMAIN got = {"hostname"} \cup {lines[i].key : i \in {j \in DOMAIN lines : j \in Lines(lines[j].key)}}
      /\ \A k \in DOMAIN got \ {"localforward", "remoteforward"} :
           IF Lines(k) = {} THEN got[k] = <<hostname>> ELSE got[k] = Expected(k)
      \* The other lists are those of the first block that applies.
      /\ \A k \in DOMAIN got \cap {"localforward", "remoteforward"} : IsPrefix(got[k], values(k))
=============================================================================
