# Verification of the vCompute IPMI simulator

InfraSIM (this repository, `idic`) builds small Linux images that behave like
the management side of a server.  The TLA+ modules here model its programs: the
IPMI simulator, the scripts of the virtual BMC, and the vendored SSH libraries
as far as the simulator and their own documentation rely on them.

## 1. Inventory

`vcompute` holds a virtual BMC.  OpenIPMI's `lanserv` answers IPMI, shell
scripts start and stop the virtual host (qemu), and a Python program,
`vcompute/common/scripts/ipmi_sim` (below: *the tool*), lets a user change sensor
readings over an SSH console.  The tool carries its own copies of `sshim` (the
SSH server), `paramiko` (the SSH protocol) and `ecdsa`; most lines of the
program are there, and the console of the tool depends on their threads.

| Component | Source | State | What makes it correct |
|---|---|---|---|
| Threshold sensor control | `sensor.py` (`execute`), `command.py`, `ipmi_sim.py` (`free_resource`), `common.py` | `mode`, `fault_level`, `value`, `quit` and a condition per sensor; `common.lock`, the telnet object | no lost wakeup, value and BMC agree, locks released, commands end |
| Threshold readings, reading factor | `sensor.py` 319-339, 470-585; `command.py` 157-181 | thresholds, mask, format, M, B, exponents | a reading crosses what it should; the round trip gives the raw value again |
| Console | `sshsrv.py`, `command.py` 427-486, `common.msg_queue` | queue of messages, response, history | messages arrive once and in order; the history is bounded |
| SSH server | `modules/sshim/sshim/Server.py` | counter of shells, queue of exceptions, stop flag | `stop` waits for the shells and for no more |
| The process | `ipmi_sim.py`, all of the above | - | Ctrl-C ends every thread |
| Discrete sensors, system event log | `sensor.py` 157-278, `sel.py`, `command.py` | state bits, one SEL object per sensor | object and BMC have the same bits, events are whole |
| SDR parsing | `sdr.py`, `ipmi_sim.py` | sensor list and map | every record once, from its own bytes |
| Chassis control | `conf/ipmi/chassiscontrol`, `startcmd`, `chassisidentify` | qemu, `/boot/bootdev` | a host comes up, with the boot device asked for |
| LAN control, bridge functions | `conf/ipmi/lancontrol`, `network.function` | `/etc/network/interfaces` | other stanzas stay as they are |
| Login, key exchange, packets | paramiko `transport.py`, `auth_handler.py`, `packet.py`, `kex_*.py`, `primes.py` | two ends, their keys, sequence numbers, what is on its way | the ends agree; no byte is read with the wrong key; no call waits for ever |
| Channels | `channel.py`, `buffered_pipe.py` | windows, buffers, closed flags | nothing lost, doubled or overtaken; no writer sleeps for ever |
| SFTP | `sftp_client.py`, `sftp_file.py`, `sftp_server.py`, `sftp_handle.py` | requests in flight, prefetched extents, handles | what is read is what is stored |
| SSH client, known hosts, host settings | `client.py`, `hostkeys.py`, `config.py` | sources of keys, `known_hosts`, settings | a login exactly if the server lets in; keys are kept |
| Keys, encodings, numbers, signatures | `pkey.py`, `rsakey.py`, `dsskey.py`, `ecdsakey.py`, `message.py`, `util.py`, `ber.py`, `ecdsa/*.py` | none | what is written is read back; what is signed verifies |
| Buffered files, line editor | `file.py`, `Server.py` 262-326 | two buffers, position, newline flags | lines arrive whole and in order |
| Boot and service scripts | `pdk/linux/embedded_rootfs` | services | not modelled, see section 5 |

Interactions.  The main thread runs the loop of the SSH server, which negotiates
with a client in place and starts one thread per shell.  A shell reads lines
through the line editor on a channel, and calls `Command_Handler`, which changes
`Sensor` objects directly and wakes their threads through the condition of the
sensor.  Shells and sensor threads talk to `lanserv` through one telnet object
behind `common.lock`, and to the user through `common.msg_queue`, which the shell
that happens to read it next writes to its client.  Ctrl-C reaches the main
thread, which stops the server and, unless another exception takes its place,
calls `free_resource`.  `lanserv` runs the chassis and LAN scripts, one at a time,
next to the `startcmd` of the boot.  Each paramiko transport is a thread of its
own at both ends, which programs wait for.

Hard behaviours.  The attributes of a `Sensor` are read and written by its
thread and by any session without a lock; `mode` is read up to four times per
cycle.  The decision to notify is taken from a mode read earlier.  The quit flag
is tested outside the condition.  Sessions share the history, the response string
and the queue.  A transport has a thread that must not block and does; a channel
prepares a message under one lock and sends it under another; every wait for the
other end must also end when that end is gone.  A prefetch of SFTP is answered on
other requests, in other threads.  Two scripts edit one file.  Each hazard is
listed at its line in `PROJECT.json`, with the properties that cover it.

## 2. Modules

| Module | Models | Source |
|---|---|---|
| `SensorControl` | the threads of the threshold sensors, the two commands that change them, shutdown | `sensor.py` 587-619, 504-585, 170-175; `command.py` 67-181; `common.py` 82-97; `ipmi_sim.py` 43-98; `sshsrv.py` 56 |
| `Thresholds` | the intervals of the draws | `sensor.py` 470-585 |
| `SensorValue` | one draw of one sensor; raw to analog and back, in doubles; get and set of a drawn reading | `sensor.py` 319-339, 504-585; `command.py` 157-181, 203-223 |
| `Console`, `ConsolePromise` | session loop, dispatch, history, queue; what they promise to one user | `sshsrv.py` 41-83; `command.py` 445-486 |
| `SshServer` | the accept loop, the shells, the counter, `stop` | `Server.py`; `sshsrv.py` |
| `Simulator` | composition of `SshServer` and `SensorControl` | `ipmi_sim.py` |
| `DiscreteSensor`, `SensorEvents`, `EventPromise`, `SensorWrites` | state bits; the event log and what it promises; both over one telnet object | `sensor.py` 157-213; `sel.py` 413-554; `command.py` |
| `LanControl`, `ChassisControl`, `BmcScripts` | the file of interfaces and `lancontrol set`; the virtual host and its commands; all together | `conf/ipmi` |
| `SshLogin` | from the banners to a shell, both ends | `transport.py`, `auth_handler.py`, `channel.py`, `Server.py` |
| `SshChannel`, `StreamPromise` | an open channel, both ends; what it promises | `channel.py`, `buffered_pipe.py`, `transport.py` |
| `KeyExchange` | negotiation, both kinds of exchange, the switch of keys | `transport.py` 1625-2131, `kex_group1.py`, `kex_gex.py`, `primes.py` |
| `PacketStream` | framing, sequence numbers, rekeying of one direction | `packet.py` |
| `Sftp` | client, file, prefetch threads and server | `sftp_*.py` |
| `ClientLogin` | `SSHClient._auth` and the choice of an address | `client.py` |
| `KnownHosts` | `HostKeys` and the check of `connect`, several programs | `hostkeys.py`, `client.py` |
| `HostConfig` | `SSHConfig` | `config.py` |
| `NumberTheory`, `Encodings`, `EcSignatures`, `PKeys` | arithmetic, formats, signatures, keys and their files, as operators | `ecdsa/*.py`, `message.py`, `util.py`, `ber.py`, `pkey.py`, `*key.py` |
| `LineFile` | `BufferedFile`, `Script.expect` | `file.py`, `Server.py` 262-326 |
| `SdrFile` | `parse_sdrs`, the map of a controller, `sensor info` | `sdr.py`, `sensor.py`, `command.py` |
| `MC...` | instances for TLC; `MCOneSession`, `MCTwoSessions` and `MCParts` put components that share nothing into one specification | |
| `SensorControlProofs`, `SensorWritesProofs`, `ConsoleProofs`, `SshServerProofs`, `SshChannelProofs`, `SshLoginProofs`, `SftpProofs`, `PartsProofs` (`SensorValue`, `PacketStream`, `BmcScripts`, `ClientLogin`) | theorems, see section 4 | |

### SensorControl

Variables carry the names of the attributes: `mode`, `faultLevel`, `value`,
`quit`.  `cond[s]` says that the thread of `s` holds its condition; a session or
the main thread takes the condition only to notify and releases it at once, and
`Notify` is that whole section (it needs the condition free and changes nothing
that anybody could see in between).  `tpc`, `tval` and `probe` are the program
counter and the locals of a thread, `spc` and `cmd` those of a session, `mpc`
and `mi` those of the main thread.  `tn` is the holder of `common.lock`; `bmc`
is the reading that `lanserv` reports.

One action reads or writes one unprotected attribute, so that interleavings are
those of the Python threads: `TestUser` and `TestAuto` are the two reads of
`mode` at lines 591 and 597, `ProbeLevel` is one comparison of the elif chain on
`fault_level` (each reads the attribute again; the `else` reads nothing), and
`ReadMode`, `SetMode`, `NotifyMode` are lines 95 to 105 of `command.py`.  A
waiting thread is in `waiting` (`wait()`) or `timed` (`wait(5)`); a notification
or the timeout takes it to `wake`, where it has to get the condition again.  A
thread that an exception ends is `dead`, after the `finally` has released the
condition; `randint` on an empty interval and the missing attribute
`fault_level` are the two exceptions that occur.  An early return of a command
whose arguments are wrong changes no sensor and is left to `Console`; the value
that `float` rejects is modelled (`NoReading`), since it comes after the change
of mode.  `Finish` is the end of a command: once Ctrl-C has set `thread_stop`,
the session leaves.  A session that waits for input at that moment can still
execute one command.

Abstractions and assumptions about what is outside:

- `lanserv` answers a connection that it accepts.  `read_some` blocks otherwise,
  with the lock held, and then nothing in the tool works; that is not modelled.
- At the start `bmc = value`: the initial read of `sdr.py` succeeded.
- The intervals are constants (`AutoRange`, `FaultRange`, `Readable`);
  `MCSensorControl` takes them from `Thresholds`.  `int(formula(v))` of a value
  command is the choice of a raw reading.
- `free_resource` also visits discrete sensors, for which no thread exists;
  its steps on them change nothing that is modelled.
- The threads of the sessions are daemons: no step of a session follows
  `exited`.

### Thresholds and SensorValue

A scale of raw readings, the thresholds on it and the interval of each draw are
operators of `Thresholds`.  `SensorValue` draws once, shows the reading and sets
what it has shown.  Python computes the two formulas in doubles once an integer
meets one, and so does the module: a double is a pair `[m, e]`, `m * 2^e` with a
mantissa of at most `Mantissas` (2^53), `Float` rounds to the nearest one, to even
if two are as near, and `Times`, `Over` and `Minus` round their result.
`Thousandths` is `%.3f`, `Truncate` is `int()`.  No operation comes near the limits
of the exponent of a double, and `Float` has none.

### Console and ConsolePromise

`ConsolePromise` says what one user may rely on: a command says its messages in
order, they are owed to the user until an answer delivers them, an answer leaves
nothing but warnings behind, and a command that raises is not answered but its
messages are.  The refinement mapping reads `owed` as the response, the message
in hand and the queue.

A message is identified by the command that put it.  `Kinds` are the commands
by what they do with the queue and the history.  `LoadResponse` and
`SaveResponse` are the two halves of `self.response += ...`.  `Trim` has the
three outcomes of lines 480-484, the `IndexError` of `pop(0)` on an empty
history included, which the bare `except` of the session swallows.
`produced`, `delivered` and `recorded` are history variables: the code does not
have them, and no guard reads them.

### DiscreteSensor, SensorEvents, SensorWrites and EventPromise

`SensorWrites` instantiates the two components, which share `pc` (a session
executes one command at a time) and `tn` (the holder of `common.lock`); a step
of one leaves the variables of the other alone.

A value of a discrete sensor, the string `0xLLHH`, is the set of the states whose
bit is 1; only states 0 to 14 are compared by the code, so state 15 has no place
in it.  `Compare` computes `list_diff` before the lock is taken, `StoreValue`
and then one `ConnectBit`/`SendBit` pair per state follow under it.  `bits` is
what `lanserv` has, `lost` remembers the states whose last command did not get
through (a history variable; no guard reads it).  At the start the value is what
the initial read gave, or `Unread`, the number 0 that `read_sensor_raw_value`
returns when ipmitool fails: `self.value[4:6]` then raises `TypeError`, which the
session swallows.

A SEL object is its direction and its three data bytes, filled in by
`SetData` (one byte per step) and `SetDir` and read by `Format`; the ids of the
sensor do not change after the start.  Byte `i` of event `e` is `e`, so that a
record with bytes of two events is told from a whole one.  `Check` stands for
the tests of `Sensor.set_sel` and the table lookups, after which nothing is
assigned if one of them fails, with an error message or a `KeyError`.  `Format`
is one step although the interpreter reads four attributes in it: sessions that
do not share a sensor cannot tell.

`EventPromise` says that a session's event is added once, as it was asked for,
or dropped.  The refinement mapping takes the arguments of the command until the
line is formatted, and the line from then on.

### SshServer and Simulator

`loop` is where `Server.run` is, `stopper` the thread that calls `stop` (the
main thread in the simulator, `own = FALSE`; another one in the `with` block of
the library, `own = TRUE`), `actor[c]` the thread of a shell.  `Counter` is
modelled with its two halves: `__enter__` reads and stores without the mutex that
`__exit__` takes, so `seen[c]` is what a thread has read, and `raced` (a history
variable) remembers that two threads were between read and store.  `exceptions`
keeps the origin of what `run`, `Handler` and `Actor` queue; `reraise` takes the
oldest.  `Simulator` instantiates `SshServer` and `SensorControl`: a client is a
session while its shell is open, `thread_stop` is the interrupt of
`SensorControl`, and `free_resource` runs only if `KeyboardInterrupt` is what
leaves the server.

### SshLogin

One record per end, `tr[p]`, holds the attributes of the `Transport`; `net[p]` is
what is on its way to `p`, in order.  An action is one message handled by
`Transport.run`, or one call of the program up to its wait; the waits are loops
that look at `active` every tenth of a second, and are modelled as steps that
are enabled when the event is set or the transport is gone.  The two timers are
those of the banner and of the handshake.  An end may lose the connection
(`gone`) or fall silent (`silent`): the connection stays, and nothing more comes.

### SshChannel and StreamPromise

A thread prepares its messages under the lock of the channel and puts them into
`box[p][t]`; it sends them later, one by one, and only while `clear_to_send` is
set, which is how messages of different threads overtake each other in the code.
The wait for the window is modelled with its notification (`writer`), since a
lost one would be a hang; other waits are guards.  The variables of
`StreamPromise` are history variables of `SshChannel`, and the refinement maps
them by name: in each direction the bytes arrive once and in order, and the end
is seen after the last of them.

### KeyExchange and PacketStream

In `KeyExchange` a message carries the state of its sender's cipher, MAC and
compressor (its seal), and a receiver in another state cannot read it.  The
exchange itself is computed, with groups of a few bits; a hash is the tuple of
what goes into it.  `PacketStream` keeps the bytes: a packet is a header, a body
and a MAC, and the socket takes and gives any number of them at a time, while
the limits of packets ask for new keys.  `endA` and `endB` are the packetizers:
`epochOut` and `epochIn` count the keys of a direction, and a packet that is read
with other keys or another number than it was made with is `mangled`.  Packets
are counted per direction, so that one direction may ask for new keys just after
the other was reset; the first exchange comes before any data.

### Sftp

`SFTPClient` numbers its requests and notes who expects the answer
(`expecting`); whoever reads next takes whatever answer comes, and hands it to
the file if it belongs to one.  `threads` are the prefetch threads, `file` the
attributes of one `SFTPFile`, `srv` and `files` the server with its handles.  A
channel holds `Window` packets in each direction; a sender waits when it is full.
`SendFails` is the loss of the connection as the program sends.  A request that was
on its way to the channel gets an exception; one that waited for the window gets the
answer 0 (`channel.py:1171`), `_write_all` makes `EOFError` of it (`sftp.py:135`),
and `BufferedFile.read` takes that for the end of the file (`file.py:171`;
`EndOfFile`).  `cut`, a history variable of the connection, remembers which of the
two it was.

### ClientLogin, KnownHosts, HostConfig

`ClientLogin` walks through the sources of `_auth` in their order and keeps what
the code keeps between them (`two_factor`, the saved exception).  `KnownHosts`
has clients that load, check, add, open for writing (which empties the file),
write and may be killed; `trusted`, `added` and `raced` are history variables.
`HostConfig` and the choice of an address are operators on sequences of lines
and addresses.

### NumberTheory, Encodings, EcSignatures, PKeys, SdrFile, LineFile

Operators named after the functions, with the reference definitions that they
are checked against next to them (`...Right`).  Loops are recursive operators or
folds, so no theorem is stated about these modules.  `Digit`, the number of values
of a byte, and the widths of ints and halves of signatures are constants: the
boundaries that depend on them come close enough to be enumerated.  `LineFile` is
a state machine (one step per piece that the stream delivers) next to the
operator `Expect`, the line editor.

### ChassisControl, LanControl, BmcScripts

`start[p]` is where a `startcmd` is; one was started at boot, the other by a
command.  `qemu[p]` is the process it has launched last, `dying` counts those
killed and not yet gone, which `pidof` still finds.  `Check`, the `pidof` half a
second after the launch, may come at any time, whether qemu is up, still starting or
gone (`startcmd:258-267`); a qemu may take longer than that.  Where startcmd takes a
qemu for running that is dying, or that ends before it comes up, it resets the boot
device and goes: `misjudged`, with `wanted`, `overlapped` and `gaveUp` a history
variable.  A file of interfaces is a sequence of lines, and the edits of `sed` are operators on it (`Split`, `Modified`).

## 3. Runs

| Run | Question | Instance |
|---|---|---|
| `SensorModes` | locks | 1 sensor, 2 sessions, all modes, 2 levels, lanserv may be down |
| `TwoSessions` | the history, with stale counts of it; bits agree with the value, events logged whole | 2 sessions; 4 commands of 2 kinds, history of 1; a sensor each, 2 states, 2 events, a log of 1, lanserv may be down |
| `OneSession` | object and BMC agree; commands end, the console implements its promise | 1 session; 2 sensors, auto and values, lanserv up; 5 commands of every kind, 1 warning, history of 2 |
| `SensorProgress` | no lost wakeup, auto mode refreshes, every command ends, a thread that was told to quit ends | 2 sensors, 1 session, user and auto, lanserv may be down |
| `SshServer` | the counter, `stop`, the threads of shells | 2 clients, 3 connections, both uses of the server |
| `SshLogin` | the two ends agree, nothing is refused, calls return | 3 logins of which 2 may fail, 2 channels, 2 requests, both ends may vanish or fall silent |
| `SshChannel` | window, quiet key exchange, stream, no wait for ever | a window of 2, 3 bytes from the server, 1 key exchange, a client that may die |
| `Sftp` | transfers, writes, calls return | a file of 2 bytes in chunks of 1, 2 packets per direction, 3 entries in batches of 2, 2 threads, ten uses, the connection may drop |
| `SftpShort` | a read that is short without an exception; a violation, see section 6 | as `Sftp` |
| `BmcScripts` | boot order, a host comes up, LAN settings | 2 bridges, 2 commands, 1 retry |
| `Parts` | components that share nothing, see below | under two minutes, 1 680 573 distinct states |
| `Simulator` | the end of the process; a violation, see section 6 | 1 client, 1 sensor |

Bounds.  Sensors interact only through `common.lock`, so two sensors show every
interference between them; two sessions are enough for every race on an
attribute, since a race needs one reader and one writer, and the thread itself
is a third actor.  The history limit of 30 is the constant `Limit`: the code
compares with it in two places and nothing else depends on its size, and
`MaxCommands` lets the history pass it twice.  `MaxWarnings` is 1, as a warning
may come anywhere.  What the history holds too much comes from sessions that count
it before another one lengthens it, so `TwoSessions` has two of them and a limit of 1,
which is passed with the second command; the third and the fourth show that it does
not go on, and that `pop(0)` may find the history empty.
For discrete sensors `TwoSessions` gives each session one of its own
(`MCApart`), as the code works only then; two states are enough for a difference
that has to be sent by several commands and may fail at any of them.  Sensor 1
has no event table, sensor 2 knows both events: an event that is unknown, and one
that overwrites the bytes and the direction of another.

`SshServer`: two shells race on the counter, a third connection comes while one
of them ends.  `SshChannel`: the writer passes its window, one byte read is worth
no adjustment (`Divisor`), and an exchange may begin at any place of that; more
exchanges only repeat it, since every one ends in the state it began in.
`SshLogin`: with `MaxFails` at 2 the server gives up before the client does; a
second channel is what a late answer could be taken for.  `Sftp`: chunks of one
byte make several requests of one read, the window fills up with two packets,
and pipelining looks for answers after one write (`PipelineLimit`; 100 in the
code).  `BmcScripts`: two bridges, so that `startcmd` goes round its loop; a
second command may start while the first `startcmd` is anywhere; one retry shows
giving up, and two processes are enough for one to be taken for the other.

`Parts` puts components that share nothing side by side: a behaviour belongs to
one of them, so that its states are the sum of theirs and not the product.
`OneSession` does the same with the console and the threshold sensors, `TwoSessions`
with the console and the discrete sensors and events; here they share nothing but
the sessions.

- Readings: all subsets of thresholds on a scale of 12 with the sign boundary at
  6, and 1656 reading factors: exponents of B from 0 to 3 and of the result from
  -4 to 1.  Mantissas are at most 2^12, so that these factors are on both sides of
  what a double holds, and all numbers within the integers of TLC.  Below -3 the
  exponent of the result leaves no decimals to compare (`RoundTrip`).
- Login of a client: at most two sources of keys, demands for one
  method, for two or for either, several prompts and rounds, three failures.
- Known hosts: two clients (one adds keys, the other adds or warns), two hosts
  that all start with one key, one of which may get another.
- Packets: bodies of 0 and 2 units, new keys after 3 packets, an overflow of 2,
  sequence numbers modulo 4, a socket of 5 units, a banner read of 3, 9 packets:
  two exchanges and the wrap of the sequence number.
- Buffered files: streams of up to 4 bytes over x, CR and LF, texts of up to 2,
  buffers of 0, 1 or 3, sizes of 1 and 2, lines of up to 5 keys.
- Key exchange: groups of 3 to 8 bits, one further exchange, one message of data
  at each end, preferences that differ.  With two further exchanges the module
  alone passes as well (432 206 states).
- SDR files: up to 3 records of 7 kinds, and every cut of files of 2.
- Host settings: files of up to 3 lines (up to 4 were checked on their own:
  82 742 cases).
- Numbers: up to 300, small primes up to 13, residues of 12 primes; curves over
  7 and 11 in full, over 131 and 139 in samples; integers around every boundary
  of a byte of 7 bits; rsa keys of 3 bytes, dss orders below and above the width
  of half a signature.

Deadlock is not checked (`CHECK_DEADLOCK FALSE`): the process ends, a case is
drawn once, connections close, and the commands are bounded; that somebody waits
who should not is what the liveness properties are for.

Fairness.  `WF` on every step of a thread that is under way: the operating
system schedules every thread.  `SF` only where a thread acquires a lock that
others take and release over and over (`ThreadConnect`, `SessionConnect`,
`NotifyMode`, `FreeNotify`): Python locks do not starve a waiter for ever in
practice, and weak fairness would not give that.  No fairness on user input, on
Ctrl-C, on the loss of a connection, or on which outcome a connection has.
`SshServer`: a negotiation is not fair, since the client may be silent and the
timer of the handshake is cleared by the first packet (`transport.py:1769`).
`SshLogin`: the threads of the transports run, and the timers that are started
fire; the calls of the programs are free.  `SshChannel`: messages are delivered
and read.  `BmcScripts`: a `startcmd` goes on, and a qemu comes up or fails.
`Sftp`: weak fairness is enough, because no thread asks for a lock for ever.

Instances that show the counterexamples of section 6, none of which needs a
change of a specification:

- `SensorProgress` with `SetModes = {"user", "auto", "fault"}` and a level in
  `SetLevels`: `NoLostWakeup` fails.
- `OneSession` with `"user"` in `SetModes`: `BmcAgrees` fails.
- `TwoSessions` with `Reach <- MCTogether`: `BitsAgree` fails; with a like operator
  that puts both sessions at sensor 2, `EventsKept` does.
- `Sftp` with `Length = 5` and `Window = 1`: `CallsReturn` fails.

## 4. Proofs

All statements hold for every number of sensors and sessions, and for every value
of the other constants that satisfies the named assumption of the module
(`ConstantsAssumption`, `DevicesAssumption`, `HalfAssumption`,
`FactorsAssumption`, `MantissasAssumption`, `WritesAssumption`, `ConsoleAssumption`,
`ServerAssumption`, `ChannelAssumption`, `LoginAssumption`, `PacketAssumption`, `SftpAssumption`).  Each theorem
comes with its inductive invariant and what that is needed for.

- `TypeCorrect`, from `TypeInv`: `TypeOK` is not inductive, since a store puts
  `tval` into `value`; `ReadingInHand` says that the thread or session that is
  about to store or send has a reading and not `None`.
- `LocksHeld`: `LockDiscipline` is inductive on top of the types.
- `WakeupNotLost` assumes one session at most and no fault mode.  `NoFault` shows
  that no sensor is then ever in fault mode; `PreModeFresh` relates `pre_mode` to
  the mode of the sensor while the session is between read and notify: nobody
  else changes the mode except `free_resource`, which notifies itself.  An
  instance with fault mode (section 3) shows that this assumption is needed.
- `WriteBackAgrees` assumes one session, neither user nor fault mode asked for,
  and that connections succeed.  `WriteBackInv`: a sensor in user mode has a
  thread that is settled or about to publish no other value (`UserModeSettles`),
  a command that sets a value after leaving auto mode found the thread out of its
  cycle (`CommandsInAuto`), and what is in flight is the current value
  (`InFlightIsCurrent`).  User mode has to be excluded, see section 6.
- `AutoIsNormal`, `FaultIsInItsBand`, `UnsignedDraws`: for a scale of any size
  and any sensor whose thresholds are ordered (`DevicesAssumption`).
- `HistoryBounded`: for any number of sessions and any limit the history exceeds
  its limit by less than the number of sessions.  `HistoryInv` counts the sessions
  that will lengthen the history with no `pop(0)` to come (`Pending`): the length
  and their number together stay below the limit and all sessions, since a
  session becomes one of them only while the history is below its limit.
- `WritesTypeCorrect`: `TypeOK` of both components, typing and no more.  It is not
  inductive, since `SetData` stores bytes of the event of the command; `Arguments`
  says that a command past its arguments has a sensor that its session reaches and a
  known event.
- `BitsKeepAgreeing` assumes that no two sessions reach the same sensor (`Apart`);
  `MCTogether` shows that this is needed.  `WriteLocked` says that the lock of a
  sensor is held exactly by the session that writes it, `DiffFresh` that
  `list_diff` is still the difference from the current value while the session
  waits for the lock, `RestToSend` that what lanserv lacks of the new value is
  still to be sent or lost.
- `EventsAreKept`, a refinement: `OneForm` says that a session has either
  arguments or a formatted line, `FilledIn` that the attributes assigned so far
  belong to its event.  Every step of `SensorEvents` is then an `Ask`, `Add`,
  `Drop` or a stutter of `EventPromise`, and every step of `DiscreteSensor` a
  stutter.

- `ShownGoesBack`: what `sensor value get` shows gives, when it is set again, the raw
  reading it came from, for all bytes of the reading factor with an exponent from 0
  and every raw reading whose integers a double holds (`IntegersExact`); with the 53
  bits of Python that is every reading if the exponent of B is at most 6, and section 6
  gives one beyond.  `Decodes` says that the shifts of `get_reading_factor`
  are two's complement.  `IntegersStay` says that the double next to an integer that it can
  hold is that integer, so that every operation of the two formulas is exact and the
  division of `formula_2` leaves no decimals to cut off.  `ValueInv` ties what is
  shown to the reading that the sensor remembers.  Negative exponents, where doubles
  do round, are model-checked only.
- `ConsoleKeepsPromise`, a refinement, for one session and any limit, number of
  commands and warnings.  `SessionInv`: the response is empty until the messages
  of the command are taken from the queue (`Responding`), the history is what was
  recorded last (`Recording`), a place in the code is reached by certain kinds of
  commands only (`Commanding`), and the list of a `history` is complete when the
  command is recorded (`Listing`).  Every step is then one of `ConsolePromise` or a
  stutter.  One session is assumed because two sessions take messages from each
  other (section 6).
- `CounterIsExact` and `StopWaitsForShells`, for any finite set of clients:
  `MutexHeld` (the mutex belongs to the thread that leaves) and `SeenFresh` (unless
  the counter was raced, there is one thread between its read and its store, and
  what it will store is one off the count).
- `KeyExchangesAreQuiet`: `KexOrder` says what is on its way between the ends during
  a key exchange: one KEXINIT with at most the NEWKEYS behind it, and neither once
  `clear_to_send` is set again.
- `ChannelKeepsPromise`, the refinement of `StreamPromise` by the two ends of a
  channel, for any window, packet size and amount of data.  `Ends` says who may
  have closed, and who has said so; `Delivery` that the bytes of one end are, in
  order and without a gap, in the hands of the reader, in its pipe, on their way,
  or in the message that the writer has prepared, and that the end of the stream
  comes after all of them.  The bytes on their way are described by a relation on
  the queue (`Stream`), with lemmas on what a message more or less does to it.
- `WindowIsConserved`: `Conserved` adds up where the window is: what may be sent,
  what is on its way or unread, what was read and not counted yet, counted and not
  granted, or granted and not arrived; nothing is granted twice, and nothing is
  lost as long as the reader counts.
- `PacketsArriveIntact`, for any bodies, limits, capacity of the socket and width of
  the sequence numbers.  `Sender` says that each packet is made with the keys and
  the number that the one before it leaves (`Chained`), `Receiver` that the reader
  has come to the same keys and number by what it has read, `Prefix` that what was
  read is a prefix of what was sent, and `Flows` that what the reader has in hand,
  its remainder, the socket and the rest of the write are together the packets that
  follow, each whole (`Cut`).  The step that it all is for is the switch of keys: a
  unit of a packet is never read with the keys of another.
- `NothingIsRefused` and `EndsDoAgree`, for any lists of algorithms, methods, kinds of
  channels and requests, any number of logins, channels and requests, and whichever
  end leaves or falls silent.  Both properties look at one end or at one message; the
  invariant `LoginInvariant` has to say what else is on its way.  `Order` puts the
  messages of the handshake in a line (`Turn`): how far an end has come (`At`, `Said`)
  says which message it takes next and how many of the line it has sent, so that what
  is between the ends is the piece of the line from one to the other (`Line`), and
  what belongs to the time after the handshake stands behind it.  `Phase` ties that
  to the program of the end, `Serving` to what the server may be about to send.
  `Handlers` adds that no message for an `AuthHandler` is there before the handler is:
  the client makes its own with the first message it sends, and the server with the
  last of the handshake.  From these follows `NothingRefused`.  For `EndsAgree`, `Alike`
  says that an end past the choice has chosen `Choice` and what each message implies
  about its sender (a DH message comes from a client that has chosen, a reply or
  NEWKEYS means that both have); `Grants` that before the server has granted a login
  there is no sign of one anywhere (`Shut`); `Opening` that a channel whose event is
  set was refused or is among those that the server has accepted, while a late answer
  to an earlier channel sets the event of that one alone; `Asking` that one request, or
  its reply, is under way at a time, and that the actor of a shell was started before
  its reply was owed; `Failures` that the server is gone at the last failure allowed.
- `BootDeviceUsed`, for any number of commands, starts and tries, without an
  assumption on the constants.  What `startcmd` has read from `bootdev` is used two
  steps later, while another `startcmd` may run; so the property is not inductive.
  `BootInv` adds, unless the property is excused anyway (`overlapped`, `gaveUp`,
  `misjudged`): `startcmd` at boot runs only
  where no device was asked for (`BootUnasked`), the file says what was asked for but
  from the moment a host comes up to the one in which `startcmd` restores it
  (`FileAgrees`), and the order in hand, or of the qemu under way, is that of the file
  (`OrderRead`).
- `LoginReturnsRightly`, the half `ReturnsRightly` of `LoginRight`: `_auth` returns only
  if the server has let the client in, or asks for more than `_auth` can give, for any
  keys, files, password and answers, any demands of the server, any `MaxFails`, and
  whenever the connection is lost.  No assumption on the constants is used.  The client
  decides on a message that was made two steps before, so `LoginTold` says what the
  message on its way tells of the server: a success is sent only to a client that is let
  in; a partial success lists exactly what is left, and comes after a password or an
  answer only if the server has accepted one of the two; nothing is on its way to a
  client that awaits nothing.
- `TransfersAreFaithful` and `WritesAreKept`, for a file, folder, chunks and channel of
  any size, any depth of the pipeline and any number of prefetch threads, also when
  the connection is lost.  `TransfersFaithful` asks of a read that returns the bytes
  it is due, or the first of them if the server refused the rest or the connection
  was lost as it waited for the window (`cut`): never other bytes, and never fewer
  without one of the two.  Both properties look at the end of a call; what the call
  gets depends on what is on its way.  `Packets` says that every number on its way, or
  waited for, has been given out, so that a new request cannot get an old answer.  On
  top of it there is one invariant for each kind of program, together `SftpInvariant`:
  - `WriterInv`: each byte up to the position is in the file or on its way
    (`Covered`), and close comes behind the last write (`WriterRequest`), so that with
    pipelining the answer to close tells that nothing is on its way.
  - `ReaderInv`: a response of the file is a piece of it from the offset that the
    client has noted, or that the thread which sent the request is about to note
    (`Noted`, the gap between lines 464 and 465 of `sftp_file.py`); what is buffered
    begins where its key says; a read has the bytes from its start up to the position
    (`Reading`).  It does not matter which call takes a response off the channel.
  - `ListerInv`: the names that the call has, those on their way and those that the
    server still has are the folder, in order (`NamesInOrder`).  `listdir_iter` does not
    look at the numbers of what it takes; so `LastOnTheWay` says that what a call waits
    for is the last packet on its way, and that nothing is left over when it is done.
    Its requests read ahead are answered after the end of the folder, and are taken
    off by `close`.

  `Reads`, `Writes` and `Lists` name the programs that the theorems are about; each
  use of `MCUses` is one of them.  The condition is needed where it excludes something
  the code does badly: a program that writes and seeks leaves gaps, which
  `WritesKept` counts as lost, and one that lists while a prefetch is under way gets
  responses of the file for names.  The properties compare a file with one
  content, so a program reads its file or writes it, and not both.

Only model-checked:

- liveness, out of reach of the prover: `AutoRefreshes`, `CommandsComplete`, `ToldThreadsEnd`,
  `CommandsAnswered`, `StopReturns`, `ShellsEnd`, `SendReturns`, `KexEnds`,
  `CallsReturn` of the login and of SFTP, `HostComesUp`;
- `RoundTrip` where the exponent of the result is negative: the errors of four
  operations that round;
- known hosts, buffered files, keys, signatures and encodings (`HostKeysKept`,
  `LinesArrive`, `KeysRight`, `SignaturesVerify`, `EncodingsInvert`): they are folds and
  recursive operators over data, whose result for every input takes an induction
  that the prover cannot instantiate;
- the other half of `LoginRight`, `RaisesRightly`: whether what the client has suffices
  depends on the whole plan of tries, which a fold puts together;
- the rest of `ClientRight`, and `LanKeepsPlan`: lists of sources, settings and addresses, and the
  lines of a file, are gone through by folds, whose results are compared with what they
  should be; both are inductions over data as well.

## 5. Not modelled

- Build system, kernel configuration, `.emu` and snmprec data: no behaviour.
- Boot and service scripts: one pass over `/etc/rc*.d` in the order of names,
  sequential, without state of its own.
- Of paramiko: agent, GSS-API, proxy command, pageant, pipes, demos, tests, hashed
  host names, `request_old` of the group exchange, calls that are given an event,
  global requests, the stderr stream of a channel, channel timeouts (the
  simulator sets none), append mode and `CHECK_FILE` of SFTP, the generation of
  keys.
- Of ecdsa: `truncate_bits` and `truncate_bytes`, the tables of the named curves,
  versioneer and tests; `six` as a whole, shims of the language.  `Guess` takes the
  exact length of a number in bits, where `bits_and_bytes` rounds up the logarithm
  that a double gives it (`util.py:98-102`); integers in DER are those that the
  assertion of `remove_integer` takes (`der.py:105-106`); the ciphers of key files are
  those in the table (`pkey.py:295`).
- Of the tool: `send_ipmitool_command`, `set_state` (no command reaches it), `sel
  get` and OEM events (they fail before anything is sent), `self.msgs`, which is
  written and never read, logging and wording.
- Of the scripts: the options of qemu other than the boot order, the getters.

## 6. Disagreements found

Two runs are violations.  `Simulator`: `OrderlyShutdown`, from the comment of
`ipmi_sim.py`, "join the sensor thread", fails in two ways.  An exception that a
session queued is re-raised by `stop` in place of `KeyboardInterrupt`
(`Server.py:162`), so that `free_resource` is skipped; and a sensor thread misses
its notification between the test of `quit` and the wait (`sensor.py:588`), so
that its join never returns.  `SftpShort`: `ShortOnlyAtEnd`, from the docstring of
`BufferedFile.read` (`file.py:125`), "Read at most size bytes from the file (less if we
hit the end of the file first)": a read whose request waits for the window when the connection is
lost returns what it has, also nothing, without an exception (`channel.py:1171-1173`,
`sftp.py:134-136`, `file.py:169-172`), and a program takes a piece of the file for
the whole.

The rest was met while modelling; where a property would be false because of it,
the property names the case.

Sensors and console
- A wakeup is lost when a fault cycle ends between the read of `pre_mode` and
  `set_mode` (`command.py:95`, `sensor.py:601`), which may also overwrite the mode
  that was just set.
- `sensor value set` between the two reads of `mode` runs the fault branch of an
  auto sensor (`sensor.py:597`), which ends its thread if no level was ever set.
- A change of `fault_level` during the comparisons yields an `unr` reading
  (`sensor.py:521`); line 34 of the README of the tool promises the level asked
  for.
- `sensor mode set user` and then `sensor value set`, while the cycle that began in
  auto mode still publishes, leave the BMC with the older reading.
- An illegal value takes an auto sensor to user mode before it is rejected
  (`command.py:168`).
- Popen of `send_ipmitool_command` may raise with `common.lock` held
  (`common.py:113`).
- Two sessions that set the same discrete sensor leave bits in `lanserv` that the
  object does not have (`sensor.py:196`); two that add events for the same sensor
  may send a record that mixes both.  That sessions run at the same time is itself
  contrary to a comment (`ipmi_sim.py:85`, "only one session at a time").  They also
  make the history grow beyond its limit, by one less than there are sessions
  (`TwoSessions`).
- A bit whose command was lost is not sent again by a retry with the same value,
  since the value was stored before (`lost` in `BitsAgree`).
- A signed sensor whose upper threshold byte is above 127 loses its thread: `randint`
  gets an empty interval (`UnsignedNeverRaises` excludes these).  A sensor without
  `lc` (or `uc`) may get an `lnr` (`unr`) reading for `lnc` (`unc`).
- The reading factor takes M and the exponent of B as unsigned, M = 0 raises
  `ZeroDivisionError`, a value that is set is not checked against the range, and
  the truncation of a float loses one on the round trip.  With large exponents the
  raw value is lost altogether: for M = 1, B = 511, exponent of B 15 and raw 1, get
  shows 511000000000000000.000, and setting that gives raw 0.
- From reading alone: `sensor value set <id> state <n> 1|0` never works
  (`command.py:147` returns unless there are exactly two arguments); "sel set oem"
  with a record type from 0xC0 on calls methods which the OEM classes do not have;
  the `TypeError` of `with_type` cannot be built (`sensor.py:70`); an illegal
  sensor id gives no message.

SDR file
- A file that is cut off raises `TypeError` at the start and is left behind.
- Commands look only at controller 0x20 (`command.py:25`); other sensors appear in
  `sensor info` only.  Of two records with one number on a controller the later one
  replaces the earlier in the map, though both get threads.
- A sensor of event type 0 makes `sensor info` raise `UnboundLocalError`, a compact
  threshold record `AttributeError`.  The comments of rtm and stm are swapped
  (`sdr.py:135-141`).

SSH server
- `Counter.__enter__` increments without the lock (`Server.py:55`); an
  `SSHException` in one negotiation ends the loop that accepts all others (181).
- A client that is silent after its KEXINIT holds `start_server`, and so the loop
  (78), for ever: the first packet clears the timer of the handshake
  (`transport.py:1769`; the comment at 383 says how long to wait).
- A second request for a shell starts a second `Actor` on the same channel; an
  `Actor` may close before the reply, so that `invoke_shell` raises though the
  shell was granted; `server_accepts` is never emptied by `sshim`.
- The line editor loses the key after an ESC that is no `[` and stores the ESC; a
  CRLF gives an empty command after each line.

Transport and channels
- A DISCONNECT, or a close, clears `active` and sets no event (`transport.py:1732`);
  who passes an event of his own waits for ever, against the docstrings (1212).
- `invoke_shell` waits for ever if the close comes between the test and the clear of
  its event (`channel.py:1072`); its docstring promises an `SSHException`.
- A second login on an authenticated session is ignored and waits for ever.
- The thread of the transport blocks on `clear_to_send` in `_handle_close` during a
  key exchange, until 30 seconds are over; `sendall` loops for ever after
  `shutdown_write` (744); `shutdown_read` feigns the end of the stream although the
  docstring (851) says otherwise; `_send_eof` does not wake a writer; when another
  thread closes, data may be overtaken by the end.
- `in_kex` is cleared before NEWKEYS arrives; `renegotiate_keys` does not look at it;
  messages of a login are not held back by `clear_to_send`, so a login that meets a
  key exchange ends in "Expecting packet".
- A group exchange that asks for sizes outside the limits of the server fails: the
  server hashes its adjusted numbers.  A modulus of exactly the maximum is never
  chosen (`b < max`).

SFTP
- Errors of pipelined writes are lost (`_finish_responses` looks for file objects,
  writes are expected as `type(None)`), against the docstring of `set_pipelined`;
  `put` may then succeed for a file with a hole.  A pipelined write after another
  request waits for ever.
- A prefetch beyond the end of the file raises `EOFError` on whichever read is next,
  and later reads hang; a `readv` whose blocks are buffered starts an empty prefetch
  that never ends; offset 0 of a buffer is taken for `None` (`sftp_file.py:427`).
- A prefetch of more than twice the packets of a window plus two deadlocks with the
  server.
- FSETSTAT with an invalid handle uses the error code as type of the packet
  (`sftp_server.py:420`); `listdir_iter` leaves numbers in `_expecting`, and takes
  the end of the channel for the end of the folder.

Client, known hosts, settings
- `_auth` returns though only part of a login is done when the server asks for a
  factor that is not of two (`AsksForMore`); `isinstance(type(result),
  InteractiveQuery)` is never true, so that a second round of questions is sent as
  a failure; the handler of the fallback raises in the thread of the transport if
  there is more than one prompt.
- A key file that the server refuses ends in "not a valid ... file" of the next
  class of keys, and an unreadable one in `IOError`.
- An address that is listed twice, all refused, lets `connect` go on unconnected.
- `HostKeys.load`: the docstring says that existing entries are replaced, but the old
  key wins.  Two programs that save at once, or one killed between `open('w')` and
  write, lose keys.  A key of another type counts as missing.  `del` of an entry
  deletes nothing; `InvalidHostKey` is no `SSHException`.
- Settings: localforward and remoteforward accumulate only within one block
  (`config.py:84` speaks of all three kinds of lists); a `ProxyCommand none` is
  dropped and does not override a later one; replaced text is searched again.

Numbers, formats and keys
- Extended attributes of SFTP come back with names and values exchanged: the right
  side of the assignment reads first (`sftp_attr.py:114`).  Names with one value become
  one item.  `AttributesInvert` says what arrives.
- `BER.encode` writes booleans and strings, which `decode_next` refuses
  (`ber.py:115-123`, 89-91).
- A file that is line buffered never writes out what has no newline, whatever its
  size: `write` returns before it looks at the size (`file.py:352`), although the
  comment behind it (353-354) says "even if we're line buffering, if the buffer has
  grown past the buffer size, force a flush".
- `read_number` has its test for the end off by one (`IndexError`), bodies shorter than
  their length are accepted, an empty list is read back as one empty name, and a
  counter with initial value 0 starts with the overflow.
- `r` of a signature is not reduced modulo the order, a point is rejected when its
  coordinates reach the order rather than p, and `verifies` raises `TypeError` when
  the sum is the point at infinity; `order_mod(x, m)` gives 2 for x = 1 mod m,
  x > m.
- `verify_ssh_sig` of an ECDSA key raises where the docstring (`pkey.py:159`)
  promises False; an EC key written with a password cannot be read back; a list of
  four or five numbers gives `IndexError` for RSA; a DSS order wider than 160 bits
  makes signatures that do not verify; an ECDSA key of another curve loads from a
  file but is sent as nistp256.
- `readline` with a size may split a CRLF into two lines; a position counts a CRLF as
  one byte; a flush that raises leaves in the buffer what is out already; a `read`
  after a line that ended in CR leaves the flag, so that a later LF may be lost.

Scripts
- `lancontrol`: the range of `sed` runs to the end of the file if no line with a tab
  follows; with two interfaces appended the stanza of the second goes with it, and
  `startcmd` does not add it again.  Between mv and cp there is no file, and an edit
  of `network.function` in that time is lost.
- `startcmd` looks for a qemu half a second after its launch (`startcmd:258-267`) and
  takes any for its own, also one that was killed and is not gone yet, or one that ends
  before it has come up.  Then no host comes up, nobody tries again, and the boot
  device is reset; `HostComesUp` and `BootOrderHonoured` name the case (`misjudged`).
- The boot device is lost when `startcmd` gives up, or if it was set during a start;
  `get boot` creates the file with "default".
- `identify` with interval 0 and no force starts a copy that never ends; `reset` starts a host that was
  off; `power on` right after `power off` finds the dying process and starts
  nothing (`chassiscontrol:92`).

## 7. Plan

1. Proofs: an invariant of `Sftp` for programs that read and list at once, with the
   uses excluded one by one instead of by `Lists`.
2. The stderr stream and the timeouts of channels, two files at a time over SFTP,
   hashed host names, and the agent.
