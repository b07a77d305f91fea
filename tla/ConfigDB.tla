------------------------------ MODULE ConfigDB ------------------------------
(***************************************************************************)
(* ConfigDB.cpp: the three configuration tables become protocols, devices, *)
(* peer groups and the lookups of the ingest path.  A column value is what *)
(* SQLite stores, of any type, as CSV imports leave it; a name is a        *)
(* sequence of characters; a text of conn_proto is the number between its  *)
(* parentheses and the number it starts with.  Rows come in any order: the *)
(* queries of header and device rows have no ORDER BY.                     *)
(***************************************************************************)
EXTENDS Integers, Sequences, FiniteSets, SequencesExt

CONSTANTS
  Databases,    \* [schema, headers, fields, devices] to start from
  Rank(_),      \* where a name stands in the order of std::string
  U8, U16, U32, \* 2^8, 2^16 and 2^32: the widths numbers are cut to
  Legal, Digits \* characters an identifier keeps, and those it may not start with

VARIABLES
  db,           \* the open database
  phase,        \* "open", "headers", "fields", "devices", "ready", "failed"
  specs,        \* _specs: data_proto_id -> FrameSpec
  devices,      \* _devices
  groups        \* _groups: [ip, port, row, members], members being indices of devices

vars == <<db, phase, specs, devices, groups>>

\* Column values.
Num(n) == [t |-> "INTEGER", n |-> n]
NumText(n) == [t |-> "TEXT", n |-> n]        \* "73", "0x49"
Junk == [t |-> "JUNK", n |-> 0]              \* text without a number
Null == [t |-> "NULL", n |-> 0]

\* readInt64, and readUInt32
Read(c, dflt) == IF c.t \in {"INTEGER", "TEXT"} THEN c.n ELSE dflt
ReadUInt32(c, dflt) == Read(c, dflt) % U32

\* parseConnProto: "modbus (2)" has 2 in parentheses, "4" starts with 4; -1 is none.
ParseConnProto(p) == IF p.paren > 0 THEN p.paren ELSE IF p.lead >= 0 THEN p.lead ELSE 0

CONN_CUSTOM_DATA == 1
CONN_MODBUS == 2
CONN_HTTP == 3

MakeIdentifier(raw, fallback) ==
  IF raw = <<>> THEN fallback
  ELSE LET out == [i \in DOMAIN raw |-> IF raw[i] \in Legal THEN raw[i] ELSE "_"]
       IN IF out[1] \in Digits THEN <<"_">> \o out ELSE out

Size(code) ==
  CASE code \in {0, 5, 6} -> 1 [] code \in {1, 7} -> 2 [] code \in {2, 3, 8} -> 4 [] code \in {4, 9, 10} -> 8

MapFieldType(code) == code \in 0 .. 10

-----------------------------------------------------------------------------
Init ==
  /\ db \in Databases
  /\ phase = "open" /\ specs = <<>> /\ devices = <<>> /\ groups = <<>>

NoSpec(pid) ==
  [dataProtoId |-> pid, frameType |-> 0, startAddr |-> -1, addrNum |-> 0, payloadMin |-> 0, fields |-> <<>>]

Put(f, k, v) == [x \in DOMAIN f \cup {k} |-> IF x = k THEN v ELSE f[x]]

\* One header row; rows without a positive id are skipped, a later row replaces an
\* earlier one of its id.
AddHeader(ss, r) ==
  LET pid == Read(r.pid, -1)
      modbus == db.schema \in {"new", "legacy"}
  IN IF pid <= 0 THEN ss
     ELSE Put(ss, pid, [NoSpec(pid) EXCEPT
            !.frameType = Read(r.frameType, 0),
            !.startAddr = IF modbus THEN Read(r.startAddr, -1) ELSE -1,
            !.addrNum = IF modbus THEN Read(r.addrNum, 0) ELSE 0])

\* The three queries are tried in turn; a table without any of their columns fails.
LoadHeaders ==
  /\ phase = "open"
  /\ IF db.schema = "missing" THEN phase' = "failed" /\ UNCHANGED specs
     ELSE phase' = "headers" /\ specs' = FoldLeft(AddHeader, specs, db.headers)
  /\ UNCHANGED <<db, devices, groups>>

\* Bits that leave the field are not extracted.
Bits(off, len, size) ==
  IF (len % U8) > 0 /\ (off % U8) + (len % U8) > 8 * size THEN [bitOffset |-> 0, bitLen |-> 0]
  ELSE [bitOffset |-> off % U8, bitLen |-> len % U8]

\* One field row: an unknown type skips it, a missing header row gives a default spec.
AddField(ss, r) ==
  LET pid == Read(r.pid, -1)
      code == Read(r.type, -1)
  IN IF pid <= 0 \/ ~MapFieldType(code) THEN ss
     ELSE LET s == IF pid \in DOMAIN ss THEN ss[pid] ELSE NoSpec(pid)
              off == ReadUInt32(r.byteOffset, 0)
              end == (off + Size(code)) % U32
              f == [name |-> MakeIdentifier(r.name, <<"f", Len(s.fields)>>), code |-> code, byteOffset |-> off,
                    bits |-> Bits(ReadUInt32(r.bitOffset, 0), ReadUInt32(r.bitLen, 0), Size(code))]
          IN Put(ss, pid, [s EXCEPT !.payloadMin = IF end > @ THEN end ELSE @, !.fields = Append(@, f)])

\* The rows come ordered by data_proto_id.
LoadFields ==
  /\ phase = "headers"
  /\ phase' = "fields" /\ specs' = FoldLeft(AddField, specs, db.fields)
  /\ UNCHANGED <<db, devices, groups>>

\* One device row; rows without an id or an ip are skipped.
AddDevice(ds, r) ==
  LET proto == ParseConnProto(r.connProto)
      pid == Read(r.pid, 0)
  IN IF r.deviceId = <<>> \/ r.ip = "" THEN ds
     ELSE Append(ds, [deviceId |-> MakeIdentifier(r.deviceId, <<"device_", Len(ds) + 1>>), ip |-> r.ip,
            devicePort |-> Read(r.devicePort, 0) % U16,
            connProto |-> IF proto = 0 THEN CONN_CUSTOM_DATA ELSE proto,
            localServerPort |-> Read(r.localServerPort, 0) % U16, dataProtoId |-> pid,
            spec |-> IF pid \in DOMAIN specs THEN specs[pid] ELSE NoSpec(0),
            isEvent |-> FALSE, eventType |-> 0, immediateFlush |-> FALSE])

LoadDevices ==
  /\ phase = "fields"
  /\ phase' = "devices" /\ devices' = FoldLeft(AddDevice, <<>>, db.devices)
  /\ UNCHANGED <<db, specs, groups>>

-----------------------------------------------------------------------------
(* rebuildIndexes, as operators of the sequence of devices it works on.       *)
\* The listening ports of the devices of some protocols.
ListenPorts(ds, protos) == {ds[i].localServerPort : i \in {j \in DOMAIN ds : ds[j].connProto \in protos}} \ {0}

\* _httpByPort: the first http device of a port wins; 0 is none.
HttpByPort(ds, port) ==
  SelectInSeq(ds, LAMBDA d : d.connProto = CONN_HTTP /\ d.localServerPort = port /\ port # 0)

\* Mutant: rows without a source port share a group.
AddToGroupMerged(gs, i, d) ==
  LET g == SelectInSeq(gs, LAMBDA x : x.ip = d.ip /\ x.port = d.devicePort)
  IN IF g # 0 THEN [gs EXCEPT ![g].members = Append(@, i)]
     ELSE Append(gs, [ip |-> d.ip, port |-> d.devicePort, members |-> <<i>>])

\* Device i joins the group of its endpoint; without a source port it has its own.
AddToGroup(gs, i, d) ==
  LET g == SelectInSeq(gs, LAMBDA x : x.ip = d.ip /\ x.port = d.devicePort)
  IN IF g # 0 /\ d.devicePort # 0 THEN [gs EXCEPT ![g].members = Append(@, i)]
     ELSE Append(gs, [ip |-> d.ip, port |-> d.devicePort, members |-> <<i>>])

Before(a, b) ==
  a.dataProtoId < b.dataProtoId \/ (a.dataProtoId = b.dataProtoId /\ Rank(a.deviceId) < Rank(b.deviceId))

\* Members by data_proto_id, then by name: the first is the status device.
RankMembers(ds, members) ==
  SortSeq(members, LAMBDA i, j : Before(ds[i], ds[j]))

GroupsOf(ds) ==
  LET gs == FoldLeft(LAMBDA acc, i : AddToGroup(acc, i, ds[i]), <<>>, [i \in DOMAIN ds |-> i])
  IN [g \in DOMAIN gs |-> [gs[g] EXCEPT !.members = RankMembers(ds, @)]]

\* isEvent, eventType and immediateFlush of the k-th member of a group.
Routed(ds, g, k) ==
  LET d == ds[g.members[k]]
  IN [d EXCEPT !.isEvent = k > 1,
               !.eventType = IF k > 1 THEN d.dataProtoId - ds[g.members[1]].dataProtoId ELSE 0,
               !.immediateFlush = k = 1 /\ d.connProto = CONN_CUSTOM_DATA]

RebuildIndexes ==
  /\ phase = "devices" /\ phase' = "ready"
  /\ groups' = GroupsOf(devices)
  /\ devices' = [i \in DOMAIN devices |->
       LET g == CHOOSE x \in ToSet(groups') : i \in ToSet(x.members)
       IN Routed(devices, g, CHOOSE k \in DOMAIN g.members : g.members[k] = i)]
  /\ UNCHANGED <<db, specs>>

-----------------------------------------------------------------------------
\* matchGroup: the group of the endpoint, else the only group of the ip, else 0.
MatchGroup(gs, ip, port) ==
  LET exact == SelectInSeq(gs, LAMBDA g : g.ip = ip /\ g.port = port /\ g.port # 0)
      same == {g \in DOMAIN gs : gs[g].ip = ip}
  IN IF exact # 0 THEN exact
     ELSE IF Cardinality(same) = 1 THEN CHOOSE g \in same : TRUE ELSE 0

\* primary(); 0 is nullptr
MatchDevice(gs, ip, port) ==
  IF MatchGroup(gs, ip, port) = 0 THEN 0 ELSE gs[MatchGroup(gs, ip, port)].members[1]

MatchHttpDevice(ds, gs, ip, port, httpPort) ==
  LET d == MatchDevice(gs, ip, port)
  IN IF d # 0 /\ ds[d].connProto = CONN_HTTP THEN d ELSE HttpByPort(ds, httpPort)

\* byFrameType: the first member with the frame type; 0 is nullptr
ByFrameType(ds, g, ft) ==
  LET k == SelectInSeq(g.members, LAMBDA i : ds[i].spec.frameType = ft)
  IN IF k = 0 THEN 0 ELSE g.members[k]

Next == LoadHeaders \/ LoadFields \/ LoadDevices \/ RebuildIndexes

Spec == Init /\ [][Next]_vars
-----------------------------------------------------------------------------
Ready == phase = "ready"
Ips == {devices[i].ip : i \in DOMAIN devices}
Ports == {devices[i].devicePort : i \in DOMAIN devices} \cup {0, U16 - 1}

\* A peer is matched as ConfigDB.h:80 says: by the exact endpoint, else by an ip that
\* maps to exactly one group.  The rows of an endpoint are one group, however far
\* apart in the table; a row without a source port is alone in its own.
MatchAsDocumented ==
  Ready => \A ip \in Ips, port \in Ports :
    LET at(p) == {i \in DOMAIN devices : devices[i].ip = ip /\ devices[i].devicePort = p}
        endpoints == {devices[i].devicePort : i \in {j \in DOMAIN devices : devices[j].ip = ip}} \ {0}
        nGroups == Cardinality(endpoints) + Cardinality(at(0))
        m == MatchGroup(groups, ip, port)
    IN IF port # 0 /\ at(port) # {} THEN m # 0 /\ ToSet(groups[m].members) = at(port)
       ELSE IF nGroups = 1 THEN m # 0 /\ groups[m].ip = ip ELSE m = 0

\* The route of a frame does not depend on the order in which SQLite returns the rows
\* of device_table, for peers and http requests alike, as long as no two http rows
\* share a listening port.
Permuted(ds) == {[ds EXCEPT ![i] = ds[j], ![j] = ds[i]] : i, j \in DOMAIN ds}
Route(ds, ip, port, ft) ==
  LET gs == GroupsOf(ds)
      g == MatchGroup(gs, ip, port)
  IN IF g = 0 THEN <<>>
     ELSE LET d == ByFrameType(ds, gs[g], ft)
          IN <<ds[gs[g].members[1]].deviceId, IF d = 0 THEN <<>> ELSE ds[d].deviceId>>
HttpRoute(ds, ip, port, hp) ==
  LET d == MatchHttpDevice(ds, GroupsOf(ds), ip, port, hp) IN IF d = 0 THEN <<>> ELSE ds[d].deviceId
FrameTypes == {devices[i].spec.frameType : i \in DOMAIN devices}
OneHttpRowPerPort ==
  \A i, j \in DOMAIN devices : i # j /\ devices[i].connProto = CONN_HTTP /\ devices[j].connProto = CONN_HTTP =>
    devices[i].localServerPort # devices[j].localServerPort
RowOrderIrrelevant ==
  Ready => \A ds \in Permuted(devices), ip \in Ips, port \in Ports :
    /\ \A ft \in FrameTypes : Route(ds, ip, port, ft) = Route(devices, ip, port, ft)
    /\ OneHttpRowPerPort => \A hp \in ListenPorts(devices, {CONN_HTTP}) :
         HttpRoute(ds, ip, port, hp) = HttpRoute(devices, ip, port, hp)

\* An http request is stored for an http device or for none, also when the peer's
\* endpoint belongs to a device of another protocol.
HttpMatchIsHttp ==
  Ready => \A ip \in Ips, port \in Ports, hp \in Ports :
    LET d == MatchHttpDevice(devices, groups, ip, port, hp)
    IN d # 0 => devices[d].connProto = CONN_HTTP

\* What decodePayload asks of a payload of n bytes: payloadMin is a uint32 sum, the end
\* of a field is one of size_t.
Decodable(s, n) ==
  s.payloadMin <= n /\ \A k \in DOMAIN s.fields : s.fields[k].byteOffset + Size(s.fields[k].code) <= n

\* payloadMin is the length the decoder needs: the slicers, which know nothing else of the
\* fields, let a payload through exactly when it holds all of them.  The exception is a
\* layout with a field at the end of the offsets, where the uint32 sum wraps: then none of
\* the payloads that payloadMin lets through decodes, and no byte is read outside one.  The
\* bits to extract lie within the field, so that no shift exceeds its width.
LayoutFits ==
  \A pid \in DOMAIN specs :
    LET s == specs[pid]
        wraps == \E k \in DOMAIN s.fields : s.fields[k].byteOffset + Size(s.fields[k].code) >= U32
    IN /\ \A n \in {s.payloadMin - 1, s.payloadMin, s.payloadMin + 1, U16, U32 - 8} :
            Decodable(s, n) <=> n >= s.payloadMin /\ ~(wraps /\ n <= U32 - 8)
       /\ \A k \in DOMAIN s.fields :
            LET f == s.fields[k]
            IN f.bits.bitLen > 0 => f.bits.bitOffset + f.bits.bitLen <= 8 * Size(f.code)

\* Device and field names are identifiers: no illegal character, no leading digit.
NamesAreIdentifiers ==
  \A i \in DOMAIN devices : LET n == devices[i].deviceId IN
    n # <<>> /\ n[1] \notin Digits /\ \A k \in DOMAIN n : n[k] \in Legal \cup {"_"}

=============================================================================
