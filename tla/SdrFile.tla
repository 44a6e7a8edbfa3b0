------------------------------- MODULE SdrFile -------------------------------
(***************************************************************************)
(* The start of the simulator: sdr.parse_sdrs walks over the records that  *)
(* ipmitool has dumped and builds the sensors, the threads are spawned,    *)
(* and sensor info and sensor value get show what was read.                *)
(*                                                                         *)
(* A file is a sequence of bytes.  Numbers are shown as they are: their    *)
(* conversion is that of SensorValue.                                      *)
(***************************************************************************)
EXTENDS Integers, SequencesExt

Failed  == -1     \* what send_ipmitool_command returns
NoValue == -2     \* None

\* Where parse_sdrs reads the fields, from the start of a record
HeaderSize == 5
MaskAt == [ltmLb |-> 14, ltmUb |-> 15, utmLb |-> 16, utmUb |-> 17, rtm |-> 18, stm |-> 19]
CommonAt == MaskAt @@ [ mc |-> 5, lun |-> 6, num |-> 7, cap |-> 11, type |-> 12, event |-> 13,
                        su1 |-> 20, su2 |-> 21 ]
FactorAt == [mLb |-> 24, mUb |-> 25, bLb |-> 26, bUb |-> 27, accuracy |-> 28, exp |-> 29]
ThresholdAt == [unr |-> 36, uc |-> 37, unc |-> 38, lnr |-> 39, lc |-> 40, lnc |-> 41]

FullRecord    == 1
CompactRecord == 2
NameAt(recordType) == IF recordType = FullRecord THEN 48 ELSE 32

FieldsAt(places, file, offset) == [f \in DOMAIN places |-> file[offset + places[f] + 1]]

\* Sensor.__init__: a compact record sets none of the thresholds.
Blank(name, value) == [name |-> name, value |-> value] @@ [t \in DOMAIN ThresholdAt |-> 0]

\* read_sensor_raw_value: 0 if ipmitool fails
Value(event, reading) ==
  IF event = 0 THEN NoValue ELSE IF reading = Failed THEN 0 ELSE reading

\* initialize_sel
InitializeSel(s) ==
  [mc |-> s.mc, gid1 |-> s.mc, gid2 |-> s.lun, type |-> s.type, num |-> s.num, event |-> s.event]

\* The sensor of the record at offset, which ends before next
SensorOf(file, offset, next, recordType, readings) ==
  LET common == FieldsAt(CommonAt, file, offset)
      name   == SubSeq(file, offset + NameAt(recordType) + 1, next)
      others == IF recordType = FullRecord THEN FieldsAt(FactorAt @@ ThresholdAt, file, offset)
                ELSE <<>>
  IN  [sel |-> InitializeSel(common)]
      @@ common @@ others @@ Blank(name, Value(common.event, readings[common.num]))

\* The last byte that is read of a record
LastRead(recordType, offset, next) ==
  LET fields == offset + IF recordType = FullRecord THEN ThresholdAt.lnc ELSE CommonAt.su2
  IN  IF next - 1 > fields /\ next > offset + NameAt(recordType) THEN next - 1 ELSE fields

\* build_sensors: a later sensor replaces one of the same number in the map.
BuildSensor(r, s) ==
  [r EXCEPT !.sensors = Append(@, s), !.idMap = (<<s.num, s.mc>> :> s) @@ @]

\* Beyond the end of the file, ord('') raises TypeError.
RECURSIVE ParseFrom(_, _, _, _)
ParseFrom(file, offset, readings, r) ==
  LET recordType == file[offset + 4]
      next == offset + HeaderSize + file[offset + 5]
  IN  IF offset >= Len(file) THEN r
      ELSE IF offset + 4 >= Len(file) THEN [r EXCEPT !.end = "TypeError"]
      ELSE IF recordType \notin {FullRecord, CompactRecord} THEN ParseFrom(file, next, readings, r)
      ELSE IF LastRead(recordType, offset, next) >= Len(file) THEN [r EXCEPT !.end = "TypeError"]
      ELSE ParseFrom(file, next, readings,
                     BuildSensor(r, SensorOf(file, offset, next, recordType, readings)))

ParseSdrs(file, readings) ==
  ParseFrom(file, 0, readings, [sensors |-> <<>>, idMap |-> <<>>, end |-> "done"])

EventType(s) == IF s.event = 0 THEN "NA" ELSE IF s.event = 1 THEN "threshold" ELSE "discrete"

SpawnSensorThread(sensors) == SelectSeq(sensors, LAMBDA s : EventType(s) = "threshold")

-----------------------------------------------------------------------------
(* Commands that read.  A command returns its messages and how it ended.    *)

DefaultMc == 32

\* Commands name no controller.
GetSensorInstance(idMap, num) ==
  IF <<num, DefaultMc>> \in DOMAIN idMap THEN << idMap[<<num, DefaultMc>>] >> ELSE <<>>

\* The bit of the readable mask without which a threshold is shown as NA
LevelBit == [lnc |-> 1, lc |-> 2, lnr |-> 4, unc |-> 8, uc |-> 16, unr |-> 32]

Raises(s) ==
  IF EventType(s) = "NA" THEN "UnboundLocalError"
  ELSE IF EventType(s) = "threshold" /\ "mLb" \notin DOMAIN s THEN "AttributeError"
  ELSE "no"

\* A number of the table of units, or "discrete"
GetUnit(s) == IF EventType(s) = "threshold" THEN <<s.su2>> ELSE <<>>

OutputInfo(s) ==
  LET shown == { l \in DOMAIN LevelBit :
                   EventType(s) = "threshold" /\ (s.rtm \div LevelBit[l]) % 2 = 1 }
  IN  [ name |-> s.name, num |-> s.num, value |-> s.value, unit |-> GetUnit(s),
        levels |-> [l \in shown |-> s[l]] ]

PutInfo(r, s) ==
  IF Raises(s) # "no" THEN [r EXCEPT !.end = Raises(s)]
  ELSE [r EXCEPT !.messages = Append(@, OutputInfo(s))]

Nothing == [messages |-> <<>>, end |-> "done"]

\* The first number without a sensor ends the command.
OutputSensors(idMap, args) ==
  LET Step(r, num) ==
        LET found == GetSensorInstance(idMap, num) IN
        IF r.end # "done" THEN r
        ELSE IF found = <<>> THEN [r EXCEPT !.messages = Append(@, "not exist"), !.end = "unknown"]
        ELSE PutInfo(r, found[1])
  IN  FoldLeft(Step, Nothing, args)

\* The items of the map come in any order.
DumpAllSensorInfo(idMap) ==
  LET Step(r, key) == IF r.end # "done" THEN r ELSE PutInfo(r, idMap[key])
  IN  { FoldLeft(Step, Nothing, order) : order \in SetToSeqs(DOMAIN idMap) }

GetSensorValue(idMap, args) ==
  LET found == GetSensorInstance(idMap, args[1])
      s == found[1]
  IN  IF Len(args) # 1 THEN [Nothing EXCEPT !.messages = <<"usage">>]
      ELSE IF found = <<>> THEN [Nothing EXCEPT !.messages = <<"not exist">>]
      ELSE IF EventType(s) = "NA" THEN Nothing
      ELSE IF Raises(s) # "no" THEN [Nothing EXCEPT !.end = Raises(s)]
      ELSE [Nothing EXCEPT !.messages = <<[name |-> s.name, value |-> s.value, unit |-> GetUnit(s)]>>]

-----------------------------------------------------------------------------
(* The records as a controller lays them out; "-" is not read.              *)

Gap(n) == [i \in 1 .. n |-> "-"]
Common ==
  Gap(3) \o <<"record", "length", "mc", "lun", "num">> \o Gap(3)
  \o << "cap", "type", "event", "ltmLb", "ltmUb", "utmLb", "utmUb", "rtm", "stm", "su1", "su2" >>
Full ==
  Common \o Gap(2) \o <<"mLb", "mUb", "bLb", "bUb", "accuracy", "exp">> \o Gap(6)
  \o <<"unr", "uc", "unc", "lnr", "lc", "lnc">> \o Gap(6)
Compact == Common \o Gap(10)
Layout(recordType) ==
  CASE recordType = FullRecord -> Full [] recordType = CompactRecord -> Compact
    [] OTHER -> SubSeq(Common, 1, 5)

\* The i-th field of a record has the byte 10 + i where x does not say.
Bytes(x) ==
  LET places == Layout(x.record)
      fields == x @@ [length |-> Len(places) + Len(x.name) - HeaderSize]
  IN  [i \in DOMAIN places |-> IF places[i] \in DOMAIN fields THEN fields[places[i]] ELSE 10 + i]
      \o x.name

Holds(s, x) ==
  LET places == Layout(x.record)
      byte == Bytes(x)
  IN  /\ \A i \in DOMAIN places : places[i] \notin {"-", "record", "length"} => s[places[i]] = byte[i]
      /\ s.name = x.name
      /\ x.record = CompactRecord => \A t \in DOMAIN ThresholdAt : s[t] = 0

-----------------------------------------------------------------------------
(* What is shown *)

\* Every full or compact record becomes one sensor with its own bytes, in the
\* order of the file, and a file that is cut short raises or gives the first of
\* them.
RecordsRight(records, readings) ==
  LET file == FlattenSeq([i \in DOMAIN records |-> Bytes(records[i])])
      known == SelectSeq(records, LAMBDA x : x.record \in {FullRecord, CompactRecord})
      sensors == ParseSdrs(file, readings).sensors
      Cut(n) == ParseSdrs(SubSeq(file, 1, n), readings)
  IN  /\ Len(sensors) = Len(known)
      /\ \A i \in DOMAIN known :
           /\ Holds(sensors[i], known[i])
           /\ sensors[i].value = IF known[i].event = 0 THEN NoValue
                                 ELSE IF readings[known[i].num] = Failed THEN 0
                                 ELSE readings[known[i].num]
      /\ Len(records) <= 2 => \A n \in 0 .. Len(file) : IsPrefix(Cut(n).sensors, sensors)

\* A command finds the last sensor of its number at the usual controller; info
\* without numbers shows every sensor that can be found once, unless one of them
\* cannot be shown, and value get shows what info shows.
CommandsRight(records, readings) ==
  LET r == ParseSdrs(FlattenSeq([i \in DOMAIN records |-> Bytes(records[i])]), readings)
      Named(num) == {i \in DOMAIN r.sensors : r.sensors[i].num = num /\ r.sensors[i].mc = DefaultMc}
      found == Range(r.idMap)
      Shown(num) == OutputSensors(r.idMap, <<num>>)
      Got(num) == GetSensorValue(r.idMap, <<num>>)
  IN  /\ \A num \in DOMAIN readings :
           /\ GetSensorInstance(r.idMap, num) =
                IF Named(num) = {} THEN <<>>
                ELSE << r.sensors[CHOOSE i \in Named(num) : \A j \in Named(num) : j <= i] >>
           /\ Named(num) # {} /\ Shown(num).end = "done" =>
                LET i == Shown(num).messages[1]
                IN  Got(num).messages = <<[name |-> i.name, value |-> i.value, unit |-> i.unit]>>
      /\ \A out \in DumpAllSensorInfo(r.idMap) :
           IF \A s \in found : Raises(s) = "no"
           THEN /\ out.end = "done" /\ Len(out.messages) = Cardinality(found)
                /\ ToSet(out.messages) = {OutputInfo(s) : s \in found}
           ELSE out.end # "done" /\ Len(out.messages) < Cardinality(found)
      /\ \A s \in Range(SpawnSensorThread(r.sensors)) : s.event = 1
      /\ Len(SpawnSensorThread(r.sensors)) = Cardinality({i \in DOMAIN r.sensors : r.sensors[i].event = 1})

SdrsRight(records, readings) == RecordsRight(records, readings) /\ CommandsRight(records, readings)
=============================================================================
