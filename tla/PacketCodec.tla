---------------------------- MODULE PacketCodec ----------------------------
(***************************************************************************)
(* The wire format in its three implementations: the gateway-protocol crate *)
(* (doc/gateway-protocol/src/lib.rs), the Python SDK and the JavaScript SDK.*)
(* A packet is a sequence of bytes.  The sizes of the format are constants: *)
(* 256 byte values of which 128 are ASCII, fields of 6, 8, 4 and 2 bytes.   *)
(* An encoder returns a packet or an error, a decoder a header with its     *)
(* payload or an error; errors are compared by what they say, not by type.  *)
(***************************************************************************)
EXTENDS Integers, Sequences, SequencesExt

CONSTANTS Base,        \* how many values a byte has
          AsciiLimit,  \* the first value that is not ASCII
          RoomLen, UserLen, SeqLen, LenLen

ASSUME SizesAssumption ==
  /\ Base \in Nat /\ AsciiLimit \in 2 .. Base - 1
  /\ Base > 4       \* a byte holds every packet type
  /\ {RoomLen, UserLen, SeqLen, LenLen} \subseteq Nat \ {0}

ProtocolVersion == 2
PacketTypes == 1 .. 4
TargetTypes == 1 .. 2

\* Offsets: version, packet type, target type, reserved, then the fields.
RoomAt == 4
UserAt == RoomAt + RoomLen
SeqAt == UserAt + UserLen
LenAt == SeqAt + SeqLen
HeaderLen == LenAt + LenLen

\* What is left of n for the first i of its k bytes.
Leading(n, k) ==
  LET left[i \in 0 .. k] == IF i = k THEN n ELSE left[i + 1] \div Base IN left

\* Mutants: digits that overflow a byte; little-endian.
ToBytesOverflow(n, k) == [i \in 1 .. k |-> Leading(n, k)[i]]
FromLittleEndian(s) == FoldRight(LAMBDA b, n : n * Base + b, s, 0)

\* to_be_bytes and from_be_bytes on k bytes.
ToBytes(n, k) == [i \in 1 .. k |-> Leading(n, k)[i] % Base]
FromBytes(s) == FoldLeft(LAMBDA n, b : n * Base + b, 0, s)

\* The greatest number of k bytes: all of them are 0xFF.
MaxOf(k) == FromBytes([i \in 1 .. k |-> Base - 1])
MaxSeq == MaxOf(SeqLen)
MaxPayload == MaxOf(LenLen)

Field(b, at, n) == SubSeq(b, at + 1, at + n)

Error(what) == [ok |-> FALSE, error |-> what]

\* The first check that fails decides; checks is a list of <<error, failed>>.
FirstFailure(checks) ==
  IF \E i \in DOMAIN checks : checks[i][2]
  THEN checks[CHOOSE i \in DOMAIN checks : checks[i][2] /\ \A j \in 1 .. i - 1 : ~checks[j][2]][1]
  ELSE "none"

-----------------------------------------------------------------------------
(* Fixed-length ASCII fields.                                               *)

IsAscii(s) == \A i \in DOMAIN s : s[i] < AsciiLimit

\* Right-padded with zeros.
Pad(s, n) == [i \in 1 .. n |-> IF i <= Len(s) THEN s[i] ELSE 0]

\* pack_ascii_field returns Some: zeros inside the name are ASCII.
RustPacks(s, n) == IsAscii(s) /\ Len(s) <= n

\* _validate_ascii_field refuses a zero in the name.
PythonPacks(s, n) == Len(s) <= n /\ IsAscii(s) /\ \A i \in DOMAIN s : s[i] # 0

\* packAsciiField refuses it too.
JsPacks(s, n) == Len(s) <= n /\ \A i \in DOMAIN s : s[i] \in 1 .. AsciiLimit - 1

IsZero(b) == b = 0

\* ascii_field_str: up to the first zero, or all of it.
FieldStr(f) ==
  IF Contains(f, 0) THEN SubSeq(f, 1, SelectInSeq(f, IsZero) - 1) ELSE f

\* Mutant: the padding is not looked at.
RustFieldUnpadded(f) == \A i \in 1 .. Len(FieldStr(f)) : f[i] < AsciiLimit /\ f[i] # 0

\* is_valid_ascii_field: ASCII before the first zero, zeros from there on.
RustFieldValid(f) ==
  LET end == Len(FieldStr(f))
  IN  /\ \A i \in 1 .. end : f[i] < AsciiLimit /\ f[i] # 0
      /\ \A i \in end + 1 .. Len(f) : f[i] = 0

\* _decode_ascii_field does not raise.
PythonFieldValid(f) ==
  IF Contains(f, 0)
  THEN /\ \A i \in 1 .. SelectInSeq(f, IsZero) - 1 : f[i] \in 1 .. AsciiLimit - 1
       /\ \A i \in SelectInSeq(f, IsZero) .. Len(f) : f[i] = 0
  ELSE \A i \in DOMAIN f : f[i] < AsciiLimit

\* unpackAsciiField does not throw.
JsFieldValid(f) ==
  LET firstZero == SelectInSeq(f, IsZero)
      dataEnd == IF firstZero = 0 THEN Len(f) ELSE firstZero - 1
  IN  /\ \A i \in 1 .. dataEnd : f[i] < AsciiLimit /\ f[i] # 0
      /\ \A i \in dataEnd + 1 .. Len(f) : f[i] = 0

\* Mutant: the lengths are not looked at.
AdmitsAnyLength(room, user) == IsAscii(room) /\ IsAscii(user)

\* ws_handler upgrades a connection for this room and this user.
Admits(room, user) ==
  IsAscii(room) /\ IsAscii(user) /\ Len(room) <= RoomLen /\ Len(user) <= UserLen

-----------------------------------------------------------------------------
(* Encoders.  A message has a version, a kind, a target, two names, a seq   *)
(* and a payload.                                                           *)

\* A buffer of zeros, and a piece copied into a buffer behind its first bytes.
Blank(n) == [i \in 1 .. n |-> 0]

Put(buf, at, piece) ==
  [i \in DOMAIN buf |-> IF i - at \in DOMAIN piece THEN piece[i - at] ELSE buf[i]]

\* encode_header fills a buffer of the size of the header, part by part.
RustHeader(version, kind, target, roomField, userField, seq, length) ==
  LET b1 == Put(Blank(HeaderLen), 0, <<version, kind, target, 0>>)
      b2 == Put(b1, RoomAt, roomField)
      b3 == Put(b2, UserAt, userField)
      b4 == Put(b3, SeqAt, ToBytes(seq, SeqLen))
  IN  Put(b4, LenAt, ToBytes(length, LenLen))

\* encode appends the payload to it.
RustWire(version, kind, target, roomField, userField, seq, payload) ==
  RustHeader(version, kind, target, roomField, userField, seq, Len(payload)) \o payload

\* The format string of struct.pack lays the parts side by side.
PythonWire(version, kind, target, roomField, userField, seq, payload) ==
  <<version, kind, target, 0>> \o roomField \o userField
    \o ToBytes(seq, SeqLen) \o ToBytes(Len(payload), LenLen) \o payload

\* Mutant: the sequence number is written little-endian.
JsWireLittleEndian(version, kind, target, roomField, userField, seq, payload) ==
  LET b1 == Put(Blank(HeaderLen + Len(payload)), 0, <<version, kind, target, 0>>)
      b2 == Put(b1, RoomAt, roomField)
      b3 == Put(b2, UserAt, userField)
      b4 == Put(b3, SeqAt, Reverse(ToBytes(seq, SeqLen)))
      b5 == Put(b4, LenAt, ToBytes(Len(payload), LenLen))
  IN  Put(b5, HeaderLen, payload)

\* A DataView and a Uint8Array write to one buffer for header and payload.
JsWire(version, kind, target, roomField, userField, seq, payload) ==
  LET b1 == Put(Blank(HeaderLen + Len(payload)), 0, <<version, kind, target, 0>>)
      b2 == Put(b1, RoomAt, roomField)
      b3 == Put(b2, UserAt, userField)
      b4 == Put(b3, SeqAt, ToBytes(seq, SeqLen))
      b5 == Put(b4, LenAt, ToBytes(Len(payload), LenLen))
  IN  Put(b5, HeaderLen, payload)

RustPacket(m) ==
  [ok |-> TRUE, bytes |-> RustWire(m.version, m.kind, m.target, Pad(m.room, RoomLen),
                                   Pad(m.user, UserLen), m.seq, m.payload)]
PythonPacket(m) ==
  [ok |-> TRUE, bytes |-> PythonWire(m.version, m.kind, m.target, Pad(m.room, RoomLen),
                                     Pad(m.user, UserLen), m.seq, m.payload)]
JsPacket(m) ==
  [ok |-> TRUE, bytes |-> JsWire(m.version, m.kind, m.target, Pad(m.room, RoomLen),
                                 Pad(m.user, UserLen), m.seq, m.payload)]

\* PacketHeader::new and encode.  The enums and the u32 exclude other kinds,
\* targets and sequence numbers, and the version is not an argument.
RustTypes(m) ==
  m.version = ProtocolVersion /\ m.kind \in PacketTypes /\ m.target \in TargetTypes
    /\ m.seq \in 0 .. MaxSeq

RustEncode(m) ==
  LET failure == FirstFailure(<< <<"room id", ~RustPacks(m.room, RoomLen)>>,
                                 <<"user id", ~RustPacks(m.user, UserLen)>>,
                                 <<"payload too large", Len(m.payload) > MaxPayload>> >>)
  IN  IF failure = "none" THEN RustPacket(m) ELSE Error(failure)

\* str.encode("ascii") raises before _validate_ascii_field is called.
PythonEncode(m) ==
  LET failure == FirstFailure(<< <<"version", m.version # ProtocolVersion>>,
                                 <<"packet type", m.kind \notin PacketTypes>>,
                                 <<"target type", m.target \notin TargetTypes>>,
                                 <<"sequence", m.seq \notin 0 .. MaxSeq>>,
                                 <<"payload too large", Len(m.payload) > MaxPayload>>,
                                 <<"UnicodeEncodeError", ~IsAscii(m.room) \/ ~IsAscii(m.user)>>,
                                 <<"room id", ~PythonPacks(m.room, RoomLen)>>,
                                 <<"user id", ~PythonPacks(m.user, UserLen)>> >>)
  IN  IF failure = "none" THEN PythonPacket(m) ELSE Error(failure)

JsEncode(m) ==
  LET failure == FirstFailure(<< <<"version", m.version # ProtocolVersion>>,
                                 <<"packet type", m.kind \notin PacketTypes>>,
                                 <<"target type", m.target \notin TargetTypes>>,
                                 <<"sequence", m.seq \notin 0 .. MaxSeq>>,
                                 <<"payload too large", Len(m.payload) > MaxPayload>>,
                                 <<"room id", ~JsPacks(m.room, RoomLen)>>,
                                 <<"user id", ~JsPacks(m.user, UserLen)>> >>)
  IN  IF failure = "none" THEN JsPacket(m) ELSE Error(failure)

-----------------------------------------------------------------------------
(* Decoders.                                                                *)

RoomOf(b) == Field(b, RoomAt, RoomLen)
UserOf(b) == Field(b, UserAt, UserLen)
PayloadOf(b) == SubSeq(b, HeaderLen + 1, Len(b))
LengthMismatch(b) == FromBytes(Field(b, LenAt, LenLen)) # Len(b) - HeaderLen

\* The message in a packet that passed every check.
Decoded(b) ==
  [ok |-> TRUE,
   msg |-> [version |-> b[1], kind |-> b[2], target |-> b[3],
            room |-> FieldStr(RoomOf(b)), user |-> FieldStr(UserOf(b)),
            seq |-> FromBytes(Field(b, SeqAt, SeqLen)), payload |-> PayloadOf(b)]]

Verdict(b, checks) ==
  LET failure == FirstFailure(checks)
  IN  IF failure = "none" THEN Decoded(b) ELSE Error(failure)

RustDecode(b) ==
  IF Len(b) < HeaderLen THEN Error("too short")
  ELSE Verdict(b, << <<"version", b[1] # ProtocolVersion>>,
                     <<"reserved", b[4] # 0>>,
                     <<"packet type", b[2] \notin PacketTypes>>,
                     <<"target type", b[3] \notin TargetTypes>>,
                     <<"room id", ~RustFieldValid(RoomOf(b))>>,
                     <<"user id", ~RustFieldValid(UserOf(b))>>,
                     <<"length", LengthMismatch(b)>> >>)

PythonDecode(b) ==
  IF Len(b) < HeaderLen THEN Error("too short")
  ELSE Verdict(b, << <<"version", b[1] # ProtocolVersion>>,
                     <<"packet type", b[2] \notin PacketTypes>>,
                     <<"target type", b[3] \notin TargetTypes>>,
                     <<"reserved", b[4] # 0>>,
                     <<"room id", ~PythonFieldValid(RoomOf(b))>>,
                     <<"user id", ~PythonFieldValid(UserOf(b))>>,
                     <<"length", LengthMismatch(b)>> >>)

JsDecode(b) ==
  IF Len(b) < HeaderLen THEN Error("too short")
  ELSE Verdict(b, << <<"version", b[1] # ProtocolVersion>>,
                     <<"packet type", b[2] \notin PacketTypes>>,
                     <<"target type", b[3] \notin TargetTypes>>,
                     <<"reserved", b[4] # 0>>,
                     <<"room id", ~JsFieldValid(RoomOf(b))>>,
                     <<"user id", ~JsFieldValid(UserOf(b))>>,
                     <<"length", LengthMismatch(b)>> >>)

-----------------------------------------------------------------------------
(* The gateway relays the header it decoded, encoded again, with the        *)
(* payload: the fields are those of the packet, still padded.               *)

\* Mutant: the relayed packet is numbered anew.
RelayRenumbered(b) ==
  RustWire(b[1], b[2], b[3], RoomOf(b), UserOf(b), 0, PayloadOf(b))

Relay(b) ==
  RustWire(b[1], b[2], b[3], RoomOf(b), UserOf(b), FromBytes(Field(b, SeqAt, SeqLen)), PayloadOf(b))
=============================================================================
