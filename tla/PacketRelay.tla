---------------------------- MODULE PacketRelay ----------------------------
(***************************************************************************)
(* The way of one packet: an encoder, or a stranger on the UDP port, puts   *)
(* bytes on the wire; the gateway decodes them, drops them or relays them;  *)
(* a client decodes what it gets.                                           *)
(***************************************************************************)
EXTENDS PacketCodec

CONSTANTS Messages,    \* the messages applications try to send
          Strangers,   \* bytes that no encoder made
          Origins      \* the encoders in use

ASSUME OriginsAssumption == Origins \subseteq {"rust", "python", "js"}

\* Names are characters, payloads and datagrams are bytes.
ASSUME InputsAssumption ==
  /\ Messages \subseteq [version : Int, kind : Int, target : Int, room : Seq(Nat),
                         user : Seq(Nat), seq : Int, payload : Seq(0 .. Base - 1)]
  /\ Strangers \subseteq Seq(0 .. Base - 1)

VARIABLES stage,       \* where the packet is
          origin,      \* who made it: an encoder, or "stranger"
          msg,         \* what the application asked an encoder to send
          bytes,       \* what is on the wire
          result       \* what the last encoder or decoder said

vars == <<stage, origin, msg, bytes, result>>

Stages == {"start", "refused", "wire", "dropped", "relayed", "received"}

Encode(o, m) ==
  CASE o = "rust" -> RustEncode(m)
    [] o = "python" -> PythonEncode(m)
    [] o = "js" -> JsEncode(m)

Init ==
  /\ stage = "start"
  /\ origin = "none"
  /\ msg = <<>>
  /\ bytes = <<>>
  /\ result = Error("none")

\* An application calls the encoder of its language.
Send(o) ==
  /\ stage = "start"
  /\ \E m \in Messages :
       /\ o = "rust" => RustTypes(m)
       /\ msg' = m
       /\ result' = Encode(o, m)
  /\ origin' = o
  /\ IF result'.ok
     THEN stage' = "wire" /\ bytes' = result'.bytes
     ELSE stage' = "refused" /\ UNCHANGED bytes

Inject ==
  /\ stage = "start"
  /\ bytes' \in Strangers
  /\ origin' = "stranger"
  /\ stage' = "wire"
  /\ UNCHANGED <<msg, result>>

\* The receive loop and dispatch: decode, then header.encode(payload).
Gateway ==
  /\ stage = "wire"
  /\ result' = RustDecode(bytes)
  /\ IF result'.ok
     THEN stage' = "relayed" /\ bytes' = Relay(bytes)
     ELSE stage' = "dropped" /\ UNCHANGED bytes
  /\ UNCHANGED <<origin, msg>>

\* A browser or a Python client decodes the relayed packet.
Receive ==
  /\ stage = "relayed"
  /\ \/ result' = JsDecode(bytes)
     \/ result' = PythonDecode(bytes)
  /\ stage' = "received"
  /\ UNCHANGED <<origin, msg, bytes>>

Next == (\E o \in Origins : Send(o)) \/ Inject \/ Gateway \/ Receive

Spec == Init /\ [][Next]_vars

-----------------------------------------------------------------------------
(* Properties.                                                              *)

TypeOK ==
  /\ stage \in Stages
  /\ origin \in Origins \cup {"none", "stranger"}
  /\ msg \in Messages \cup {<<>>}
  /\ \A i \in DOMAIN bytes : bytes[i] \in 0 .. Base - 1
  /\ result.ok \in BOOLEAN

\* The three decoders accept the same packets and read the same message in
\* them, although their checks are written, and ordered, differently.
DecodersAgree ==
  stage = "wire" =>
    /\ PythonDecode(bytes) = JsDecode(bytes)
    /\ RustDecode(bytes).ok = JsDecode(bytes).ok
    /\ RustDecode(bytes).ok => RustDecode(bytes) = JsDecode(bytes)

\* The two SDKs accept the same messages and make the same bytes of them,
\* and what they accept the crate encodes to these bytes as well, although
\* each of the three puts the packet together in its own way.
EncodersAgree ==
  origin \in Origins =>
    /\ PythonEncode(msg).ok = JsEncode(msg).ok
    /\ JsEncode(msg).ok => PythonEncode(msg) = JsEncode(msg) /\ RustEncode(msg) = JsEncode(msg)

\* The gateway forwards what it accepts byte for byte, although it takes the
\* packet apart and puts it together again.
RelayIsTransparent == [][stage = "wire" /\ stage' = "relayed" => bytes' = bytes]_vars

\* A zero with a character behind it: only the crate packs such a name.
Hole(s) == \E i, j \in DOMAIN s : i < j /\ s[i] = 0 /\ s[j] # 0

\* The message m as it is read: zeros at the end of a name look like padding.
AsRead(m) == [m EXCEPT !.room = FieldStr(@), !.user = FieldStr(@)]

\* What an encoder accepted, the gateway drops exactly if a name has a hole;
\* else a client of any language reads the message that was sent.
SentIsReceived ==
  origin \in Origins =>
    /\ stage = "dropped" => Hole(msg.room) \/ Hole(msg.user)
    /\ stage \in {"relayed", "received"} =>
         ~Hole(msg.room) /\ ~Hole(msg.user) /\ result.ok /\ result.msg = AsRead(msg)

\* The names a connection can have are the names a packet can carry: a message
\* is refused for a name that ws_handler admits only by an SDK and only for a
\* zero in it, and what an encoder packs is admitted.
AdmittedIsAddressable ==
  origin \in Origins =>
    IF Admits(msg.room, msg.user)
    THEN stage = "refused" /\ result.error \in {"room id", "user id", "UnicodeEncodeError"} =>
           origin # "rust" /\ (Contains(msg.room, 0) \/ Contains(msg.user, 0))
    ELSE stage = "refused"
=============================================================================
