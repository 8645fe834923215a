------------------------- MODULE PacketRelayProofs -------------------------
(***************************************************************************)
(* Proofs about the wire format and the way of a packet, for fields of any  *)
(* size, any message and any bytes: TLC checks short fields over few byte   *)
(* values, the theorem covers the real ones.                                *)
(***************************************************************************)
EXTENDS PacketRelay, WellFoundedInduction, TLAPS

-----------------------------------------------------------------------------
(* The order of the checks.                                                 *)

\* A set of naturals that is not empty has a least element.
LEMMA LeastElement ==
  ASSUME NEW S \in SUBSET Nat, S # {}
  PROVE  \E m \in S : \A y \in S : m <= y
<1>1. PICK m \in S : \A y \in S : <<y, m>> \notin OpToRel(<, Nat)
  BY WFMin, NatLessThanWellFounded, Zenon
<1>2. \A y \in S : ~(y < m)
  BY <1>1, Zenon DEF OpToRel
<1> QED
  BY <1>2

\* An encoder or decoder finds no fault when no check fails, and if it names
\* a fault, then its check fails.
LEMMA FirstFailureFails ==
  ASSUME NEW n \in Nat, NEW checks, DOMAIN checks = 1 .. n,
         \A i \in 1 .. n : checks[i][2] \in BOOLEAN /\ checks[i][1] # "none"
  PROVE  /\ FirstFailure(checks) = "none" <=> \A i \in 1 .. n : ~checks[i][2]
         /\ FirstFailure(checks) # "none" =>
              \E i \in 1 .. n : checks[i][2] /\ FirstFailure(checks) = checks[i][1]
<1> DEFINE First(i) == checks[i][2] /\ \A j \in 1 .. i - 1 : ~checks[j][2]
           c == CHOOSE i \in 1 .. n : First(i)
<1>1. CASE \A i \in 1 .. n : ~checks[i][2]
  BY <1>1, Zenon DEF FirstFailure
<1>2. CASE \E i \in 1 .. n : checks[i][2]
  <2> DEFINE F == {i \in 1 .. n : checks[i][2]}
  <2>1. F \in SUBSET Nat /\ F # {}
    BY <1>2
  <2>2. PICK m \in F : \A y \in F : m <= y
    BY <2>1, LeastElement, Zenon
  <2>3. m \in 1 .. n /\ \A j \in 1 .. m - 1 : j \in 1 .. n /\ ~(m <= j)
    BY <2>2
  <2>4. First(m)
    BY <2>2, <2>3, Zenon
  <2>5. c \in 1 .. n /\ First(c)
    BY <2>3, <2>4, Zenon
  <2>6. FirstFailure(checks) = checks[c][1]
    BY <1>2, Zenon DEF FirstFailure
  <2> QED
    BY <2>5, <2>6, Zenon
<1> QED
  BY <1>1, <1>2, Zenon

\* The seven checks of a decoder.
LEMMA OneToSeven ==
  /\ \A i \in 1 .. 7 : i = 1 \/ i = 2 \/ i = 3 \/ i = 4 \/ i = 5 \/ i = 6 \/ i = 7
  /\ 1 \in 1 .. 7 /\ 2 \in 1 .. 7 /\ 3 \in 1 .. 7 /\ 4 \in 1 .. 7
  /\ 5 \in 1 .. 7 /\ 6 \in 1 .. 7 /\ 7 \in 1 .. 7
OBVIOUS

-----------------------------------------------------------------------------
(* Fields.                                                                  *)

\* The first zero of a field.
LEMMA FirstZero ==
  ASSUME NEW f \in Seq(Nat), Contains(f, 0)
  PROVE  LET k == SelectInSeq(f, IsZero)
         IN  k \in 1 .. Len(f) /\ f[k] = 0 /\ \A i \in 1 .. k - 1 : f[i] # 0
<1> DEFINE Z == {i \in 1 .. Len(f) : f[i] = 0}
<1>1. Z # {} /\ Z \in SUBSET Nat
  BY DEF Contains
<1>2. \E x \in Z : \A y \in Z : x <= y
  BY <1>1, LeastElement, Zenon
<1>4. Min(Z) \in Z /\ \A y \in Z : Min(Z) <= y
  BY <1>2, Zenon DEF Min
<1>5. SelectInSeq(f, IsZero) = Min(Z)
  BY <1>1 DEF SelectInSeq, IsZero
<1>6. Min(Z) \in 1 .. Len(f) /\ f[Min(Z)] = 0
  BY <1>4
<1>7. ASSUME NEW i \in 1 .. Min(Z) - 1 PROVE f[i] # 0
  <2>1. i \in 1 .. Len(f) /\ i < Min(Z)
    BY <1>6
  <2> QED
    BY <1>4, <1>6, <2>1
<1> QED
  BY <1>5, <1>6, <1>7

\* SelectInSeq finds no zero where there is none.
LEMMA NoZero ==
  ASSUME NEW f \in Seq(Nat), ~Contains(f, 0)
  PROVE  SelectInSeq(f, IsZero) = 0 /\ \A i \in DOMAIN f : f[i] # 0
BY DEF SelectInSeq, IsZero, Contains

\* Where the text of a field ends.
LEMMA TextEnd ==
  ASSUME NEW f \in Seq(Nat)
  PROVE  /\ Contains(f, 0) => Len(FieldStr(f)) = SelectInSeq(f, IsZero) - 1
         /\ ~Contains(f, 0) => FieldStr(f) = f
<1>1. CASE Contains(f, 0)
  <2>1. SelectInSeq(f, IsZero) \in 1 .. Len(f)
    BY <1>1, FirstZero
  <2> QED
    BY <1>1, <2>1 DEF FieldStr
<1>2. CASE ~Contains(f, 0)
  BY <1>2 DEF FieldStr
<1> QED
  BY <1>1, <1>2

\* The three tests of a field are the same test.
LEMMA FieldsAgree ==
  ASSUME NEW f \in Seq(Nat)
  PROVE  /\ RustFieldValid(f) <=> JsFieldValid(f)
         /\ PythonFieldValid(f) <=> JsFieldValid(f)
<1> DEFINE k == SelectInSeq(f, IsZero)
<1>a. AsciiLimit \in Nat
  BY SizesAssumption
<1>1. CASE Contains(f, 0)
  <2>1. k \in 1 .. Len(f) /\ Len(FieldStr(f)) = k - 1
    BY <1>1, FirstZero, TextEnd
  <2>2. k # 0 /\ (k - 1) + 1 = k
    BY <2>1
  <2>3. RustFieldValid(f) <=> JsFieldValid(f)
    BY <2>1, <2>2 DEF RustFieldValid, JsFieldValid
  <2>4. \A i \in 1 .. k - 1 : f[i] \in 1 .. AsciiLimit - 1 <=> f[i] < AsciiLimit /\ f[i] # 0
    <3>1. \A i \in 1 .. k - 1 : f[i] \in Nat
      BY <2>1
    <3> QED
      BY <1>a, <3>1
  <2>5. PythonFieldValid(f) <=> JsFieldValid(f)
    BY <1>1, <2>2, <2>4 DEF PythonFieldValid, JsFieldValid
  <2> QED
    BY <2>3, <2>5
<1>2. CASE ~Contains(f, 0)
  <2>1. k = 0 /\ FieldStr(f) = f /\ \A i \in DOMAIN f : f[i] # 0
    BY <1>2, NoZero, TextEnd
  <2>2. DOMAIN f = 1 .. Len(f) /\ Len(f) + 1 .. Len(f) = {}
    OBVIOUS
  <2>3. RustFieldValid(f) <=> JsFieldValid(f)
    BY <2>1 DEF RustFieldValid, JsFieldValid
  <2>4. PythonFieldValid(f) <=> JsFieldValid(f)
    BY <1>2, <2>1, <2>2 DEF PythonFieldValid, JsFieldValid
  <2> QED
    BY <2>3, <2>4
<1> QED
  BY <1>1, <1>2

\* The three field checks are Boolean for whatever they are given.
LEMMA ValidityIsBoolean ==
  ASSUME NEW f
  PROVE  /\ RustFieldValid(f) \in BOOLEAN /\ PythonFieldValid(f) \in BOOLEAN
         /\ JsFieldValid(f) \in BOOLEAN
BY DEF RustFieldValid, PythonFieldValid, JsFieldValid

-----------------------------------------------------------------------------
(* Decoders.                                                                *)

\* What every decoder accepts.
Acceptable(b) ==
  /\ b[1] = ProtocolVersion /\ b[2] \in PacketTypes /\ b[3] \in TargetTypes /\ b[4] = 0
  /\ JsFieldValid(RoomOf(b)) /\ JsFieldValid(UserOf(b))
  /\ ~LengthMismatch(b)

\* r is the message of b, or an error that blames a name only if it is wrong.
Says(r, b) ==
  \/ Acceptable(b) /\ r = Decoded(b)
  \/ /\ ~Acceptable(b)
     /\ \E e :
          /\ r = Error(e) /\ e # "UnicodeEncodeError"
          /\ e = "room id" => ~JsFieldValid(RoomOf(b))
          /\ e = "user id" => ~JsFieldValid(UserOf(b))

\* decode of the crate refuses what fails one of the seven checks, and else reads the fields.
LEMMA RustDecodeSays ==
  ASSUME NEW b, ~(Len(b) < HeaderLen), RoomOf(b) \in Seq(Nat), UserOf(b) \in Seq(Nat)
  PROVE  Says(RustDecode(b), b)
<1> DEFINE p1 == b[1] # ProtocolVersion
           p2 == b[4] # 0
           p3 == b[2] \notin PacketTypes
           p4 == b[3] \notin TargetTypes
           p5 == ~RustFieldValid(RoomOf(b))
           p6 == ~RustFieldValid(UserOf(b))
           p7 == LengthMismatch(b)
           checks == << <<"version", p1>>, <<"reserved", p2>>, <<"packet type", p3>>,
                        <<"target type", p4>>, <<"room id", p5>>, <<"user id", p6>>,
                        <<"length", p7>> >>
           first == FirstFailure(checks)
<1>1. RustDecode(b) = IF first = "none" THEN Decoded(b) ELSE Error(first)
  BY Zenon DEF RustDecode, Verdict
<1>2. (p5 <=> ~JsFieldValid(RoomOf(b))) /\ (p6 <=> ~JsFieldValid(UserOf(b)))
  BY FieldsAgree
<1>3. /\ p1 \in BOOLEAN /\ p2 \in BOOLEAN /\ p3 \in BOOLEAN /\ p4 \in BOOLEAN
      /\ p5 \in BOOLEAN /\ p6 \in BOOLEAN /\ p7 \in BOOLEAN
  BY ValidityIsBoolean DEF LengthMismatch
<1>4. Acceptable(b) <=> ~p1 /\ ~p2 /\ ~p3 /\ ~p4 /\ ~p5 /\ ~p6 /\ ~p7
  BY <1>2, Zenon DEF Acceptable
<1> HIDE DEF p1, p2, p3, p4, p5, p6, p7
<1>5. /\ DOMAIN checks = 1 .. 7
      /\ checks[1][1] = "version"
      /\ checks[2][1] = "reserved"
      /\ checks[3][1] = "packet type"
      /\ checks[4][1] = "target type"
      /\ checks[5][1] = "room id"
      /\ checks[6][1] = "user id"
      /\ checks[7][1] = "length"
  OBVIOUS
<1>6. /\ checks[1][2] = p1
      /\ checks[2][2] = p2
      /\ checks[3][2] = p3
      /\ checks[4][2] = p4
      /\ checks[5][2] = p5
      /\ checks[6][2] = p6
      /\ checks[7][2] = p7
  OBVIOUS
<1> HIDE DEF checks
<1>7. \A i \in 1 .. 7 :
        /\ checks[i][1] \notin {"none", "UnicodeEncodeError"}
        /\ checks[i][1] = "room id" => i = 5
        /\ checks[i][1] = "user id" => i = 6
  <2>1. \A i \in 1 .. 7 : checks[i][1] \notin {"none", "UnicodeEncodeError"}
    BY <1>5, OneToSeven, Zenon
  <2>2. \A i \in 1 .. 7 : checks[i][1] = "room id" => i = 5
    BY <1>5, OneToSeven, Zenon
  <2>3. \A i \in 1 .. 7 : checks[i][1] = "user id" => i = 6
    BY <1>5, OneToSeven, Zenon
  <2> QED
    BY <2>1, <2>2, <2>3
<1>8. \A i \in 1 .. 7 : checks[i][2] \in BOOLEAN
  BY <1>3, <1>6, OneToSeven, Zenon
<1>9. /\ first = "none" <=> \A i \in 1 .. 7 : ~checks[i][2]
      /\ first # "none" => \E i \in 1 .. 7 : checks[i][2] /\ first = checks[i][1]
  <2>1. \A i \in 1 .. 7 : checks[i][1] # "none"
    BY <1>7
  <2> QED
    BY <1>5, <1>8, <2>1, FirstFailureFails
<1>10. Acceptable(b) <=> \A i \in 1 .. 7 : ~checks[i][2]
  BY <1>4, <1>6, OneToSeven, Zenon
<1> HIDE DEF first
<1>11. CASE first = "none"
  BY <1>1, <1>9, <1>10, <1>11, Zenon DEF Says
<1>12. CASE first # "none"
  <2>1. PICK i \in 1 .. 7 : checks[i][2] /\ first = checks[i][1]
    BY <1>9, <1>12
  <2>2. first \notin {"none", "UnicodeEncodeError"}
    BY <1>7, <2>1, Zenon
  <2>3. /\ first = "room id" => ~JsFieldValid(RoomOf(b))
        /\ first = "user id" => ~JsFieldValid(UserOf(b))
    BY <1>2, <1>6, <1>7, <2>1, Zenon
  <2> QED
    BY <1>1, <1>9, <1>10, <1>12, <2>2, <2>3, Zenon DEF Says
<1> QED
  BY <1>11, <1>12

\* So does the decode of the JavaScript SDK, in its own order.
LEMMA JsDecodeSays ==
  ASSUME NEW b, ~(Len(b) < HeaderLen), RoomOf(b) \in Seq(Nat), UserOf(b) \in Seq(Nat)
  PROVE  Says(JsDecode(b), b)
<1> DEFINE p1 == b[1] # ProtocolVersion
           p2 == b[2] \notin PacketTypes
           p3 == b[3] \notin TargetTypes
           p4 == b[4] # 0
           p5 == ~JsFieldValid(RoomOf(b))
           p6 == ~JsFieldValid(UserOf(b))
           p7 == LengthMismatch(b)
           checks == << <<"version", p1>>, <<"packet type", p2>>, <<"target type", p3>>,
                        <<"reserved", p4>>, <<"room id", p5>>, <<"user id", p6>>,
                        <<"length", p7>> >>
           first == FirstFailure(checks)
<1>1. JsDecode(b) = IF first = "none" THEN Decoded(b) ELSE Error(first)
  BY Zenon DEF JsDecode, Verdict
<1>2. (p5 <=> ~JsFieldValid(RoomOf(b))) /\ (p6 <=> ~JsFieldValid(UserOf(b)))
  BY FieldsAgree
<1>3. /\ p1 \in BOOLEAN /\ p2 \in BOOLEAN /\ p3 \in BOOLEAN /\ p4 \in BOOLEAN
      /\ p5 \in BOOLEAN /\ p6 \in BOOLEAN /\ p7 \in BOOLEAN
  BY ValidityIsBoolean DEF LengthMismatch
<1>4. Acceptable(b) <=> ~p1 /\ ~p2 /\ ~p3 /\ ~p4 /\ ~p5 /\ ~p6 /\ ~p7
  BY <1>2, Zenon DEF Acceptable
<1> HIDE DEF p1, p2, p3, p4, p5, p6, p7
<1>5. /\ DOMAIN checks = 1 .. 7
      /\ checks[1][1] = "version"
      /\ checks[2][1] = "packet type"
      /\ checks[3][1] = "target type"
      /\ checks[4][1] = "reserved"
      /\ checks[5][1] = "room id"
      /\ checks[6][1] = "user id"
      /\ checks[7][1] = "length"
  OBVIOUS
<1>6. /\ checks[1][2] = p1
      /\ checks[2][2] = p2
      /\ checks[3][2] = p3
      /\ checks[4][2] = p4
      /\ checks[5][2] = p5
      /\ checks[6][2] = p6
      /\ checks[7][2] = p7
  OBVIOUS
<1> HIDE DEF checks
<1>7. \A i \in 1 .. 7 :
        /\ checks[i][1] \notin {"none", "UnicodeEncodeError"}
        /\ checks[i][1] = "room id" => i = 5
        /\ checks[i][1] = "user id" => i = 6
  <2>1. \A i \in 1 .. 7 : checks[i][1] \notin {"none", "UnicodeEncodeError"}
    BY <1>5, OneToSeven, Zenon
  <2>2. \A i \in 1 .. 7 : checks[i][1] = "room id" => i = 5
    BY <1>5, OneToSeven, Zenon
  <2>3. \A i \in 1 .. 7 : checks[i][1] = "user id" => i = 6
    BY <1>5, OneToSeven, Zenon
  <2> QED
    BY <2>1, <2>2, <2>3
<1>8. \A i \in 1 .. 7 : checks[i][2] \in BOOLEAN
  BY <1>3, <1>6, OneToSeven, Zenon
<1>9. /\ first = "none" <=> \A i \in 1 .. 7 : ~checks[i][2]
      /\ first # "none" => \E i \in 1 .. 7 : checks[i][2] /\ first = checks[i][1]
  <2>1. \A i \in 1 .. 7 : checks[i][1] # "none"
    BY <1>7
  <2> QED
    BY <1>5, <1>8, <2>1, FirstFailureFails
<1>10. Acceptable(b) <=> \A i \in 1 .. 7 : ~checks[i][2]
  BY <1>4, <1>6, OneToSeven, Zenon
<1> HIDE DEF first
<1>11. CASE first = "none"
  BY <1>1, <1>9, <1>10, <1>11, Zenon DEF Says
<1>12. CASE first # "none"
  <2>1. PICK i \in 1 .. 7 : checks[i][2] /\ first = checks[i][1]
    BY <1>9, <1>12
  <2>2. first \notin {"none", "UnicodeEncodeError"}
    BY <1>7, <2>1, Zenon
  <2>3. /\ first = "room id" => ~JsFieldValid(RoomOf(b))
        /\ first = "user id" => ~JsFieldValid(UserOf(b))
    BY <1>2, <1>6, <1>7, <2>1, Zenon
  <2> QED
    BY <1>1, <1>9, <1>10, <1>12, <2>2, <2>3, Zenon DEF Says
<1> QED
  BY <1>11, <1>12

\* The two SDKs list their checks in one order.
LEMMA PythonDecodesAsJs ==
  ASSUME NEW b, ~(Len(b) < HeaderLen), RoomOf(b) \in Seq(Nat), UserOf(b) \in Seq(Nat)
  PROVE  PythonDecode(b) = JsDecode(b)
<1>1. /\ (~PythonFieldValid(RoomOf(b))) = (~JsFieldValid(RoomOf(b)))
      /\ (~PythonFieldValid(UserOf(b))) = (~JsFieldValid(UserOf(b)))
  BY FieldsAgree
<1> QED
  BY <1>1, Zenon DEF PythonDecode, JsDecode

\* Whatever the bytes, the decoders agree on them.
LEMMA DecodersAgreeOn ==
  ASSUME NEW b, Len(b) < HeaderLen \/ (RoomOf(b) \in Seq(Nat) /\ UserOf(b) \in Seq(Nat))
  PROVE  /\ PythonDecode(b) = JsDecode(b)
         /\ RustDecode(b).ok = JsDecode(b).ok
         /\ RustDecode(b).ok => RustDecode(b) = JsDecode(b)
<1>1. CASE Len(b) < HeaderLen
  BY <1>1, Zenon DEF PythonDecode, JsDecode, RustDecode
<1>2. CASE ~(Len(b) < HeaderLen)
  <2>1. PythonDecode(b) = JsDecode(b) /\ Says(RustDecode(b), b) /\ Says(JsDecode(b), b)
    BY <1>2, PythonDecodesAsJs, RustDecodeSays, JsDecodeSays
  <2>2. Decoded(b).ok = TRUE /\ \A e : Error(e).ok = FALSE
    BY DEF Decoded, Error
  <2>3. CASE Acceptable(b)
    BY <2>1, <2>2, <2>3, Zenon DEF Says
  <2>4. CASE ~Acceptable(b)
    <3>1. RustDecode(b).ok = FALSE /\ JsDecode(b).ok = FALSE
      BY <2>1, <2>2, <2>4, Zenon DEF Says
    <3> QED
      BY <2>1, <3>1
  <2> QED
    BY <2>3, <2>4
<1> QED
  BY <1>1, <1>2

-----------------------------------------------------------------------------
(* Encoders.                                                                *)

\* The checks of RustEncode.
LEMMA OneToThree ==
  /\ \A i \in 1 .. 3 : i = 1 \/ i = 2 \/ i = 3
  /\ 1 \in 1 .. 3 /\ 2 \in 1 .. 3 /\ 3 \in 1 .. 3
OBVIOUS

\* The checks of the SDK encoders.
LEMMA OneToEight ==
  /\ \A i \in 1 .. 8 : i = 1 \/ i = 2 \/ i = 3 \/ i = 4 \/ i = 5 \/ i = 6 \/ i = 7 \/ i = 8
  /\ 1 \in 1 .. 8 /\ 2 \in 1 .. 8 /\ 3 \in 1 .. 8 /\ 4 \in 1 .. 8
  /\ 5 \in 1 .. 8 /\ 6 \in 1 .. 8 /\ 7 \in 1 .. 8 /\ 8 \in 1 .. 8
OBVIOUS

\* The three tests of a name differ by a zero inside, which Rust packs.
LEMMA PacksAgree ==
  ASSUME NEW s \in Seq(Nat), NEW n
  PROVE  /\ PythonPacks(s, n) <=> JsPacks(s, n)
         /\ JsPacks(s, n) => RustPacks(s, n) /\ IsAscii(s)
         /\ RustPacks(s, n) /\ ~Contains(s, 0) => JsPacks(s, n)
<1>1. \A i \in DOMAIN s : s[i] \in Nat
  OBVIOUS
<1>2. AsciiLimit \in Nat
  BY SizesAssumption
<1>3. \A i \in DOMAIN s : s[i] \in 1 .. AsciiLimit - 1 <=> s[i] < AsciiLimit /\ s[i] # 0
  BY <1>1, <1>2
<1>4. ~Contains(s, 0) <=> \A i \in DOMAIN s : s[i] # 0
  BY DEF Contains
<1> QED
  BY <1>3, <1>4, Zenon DEF PythonPacks, JsPacks, RustPacks, IsAscii

\* What the encoders accept.
RustEncodable(m) ==
  RustPacks(m.room, RoomLen) /\ RustPacks(m.user, UserLen) /\ ~(Len(m.payload) > MaxPayload)

SdkEncodable(m) ==
  /\ m.version = ProtocolVersion /\ m.kind \in PacketTypes /\ m.target \in TargetTypes
  /\ m.seq \in 0 .. MaxSeq /\ ~(Len(m.payload) > MaxPayload)
  /\ JsPacks(m.room, RoomLen) /\ JsPacks(m.user, UserLen)

\* A name is blamed only if it is wrong.
BlamesRightly(e, m, roomPacks, userPacks) ==
  /\ e = "room id" => ~roomPacks
  /\ e = "user id" => ~userPacks
  /\ e = "UnicodeEncodeError" => ~IsAscii(m.room) \/ ~IsAscii(m.user)

\* r is the packet of an encodable message m, or a rightful error.
SaysOf(r, packet, m, encodable, roomPacks, userPacks) ==
  \/ encodable /\ r = packet
  \/ ~encodable /\ \E e : r = Error(e) /\ BlamesRightly(e, m, roomPacks, userPacks)

RustSays(m) ==
  SaysOf(RustEncode(m), RustPacket(m), m, RustEncodable(m),
         RustPacks(m.room, RoomLen), RustPacks(m.user, UserLen))
PythonSays(m) ==
  SaysOf(PythonEncode(m), PythonPacket(m), m, SdkEncodable(m),
         JsPacks(m.room, RoomLen), JsPacks(m.user, UserLen))
JsSays(m) ==
  SaysOf(JsEncode(m), JsPacket(m), m, SdkEncodable(m),
         JsPacks(m.room, RoomLen), JsPacks(m.user, UserLen))

\* PacketHeader::new and encode succeed exactly for what RustEncodable admits.
LEMMA RustEncodeSays ==
  ASSUME NEW m, m.room \in Seq(Nat), m.user \in Seq(Nat)
  PROVE  RustSays(m)
<1> DEFINE p1 == ~RustPacks(m.room, RoomLen)
           p2 == ~RustPacks(m.user, UserLen)
           p3 == Len(m.payload) > MaxPayload
           checks == << <<"room id", p1>>, <<"user id", p2>>, <<"payload too large", p3>> >>
           first == FirstFailure(checks)
<1>1. RustEncode(m) = IF first = "none" THEN RustPacket(m) ELSE Error(first)
  BY Zenon DEF RustEncode
<1>2. /\ RustPacks(m.room, RoomLen) => ~p1
      /\ RustPacks(m.user, UserLen) => ~p2
  BY PacksAgree
<1>3. /\ p1 \in BOOLEAN /\ p2 \in BOOLEAN /\ p3 \in BOOLEAN
  BY DEF RustPacks, PythonPacks, JsPacks, IsAscii
<1>4. RustEncodable(m) <=> ~p1 /\ ~p2 /\ ~p3
  BY PacksAgree, Zenon DEF RustEncodable
<1> HIDE DEF p1, p2, p3
<1>5. /\ DOMAIN checks = 1 .. 3
      /\ checks[1][1] = "room id"
      /\ checks[2][1] = "user id"
      /\ checks[3][1] = "payload too large"
  OBVIOUS
<1>6. /\ checks[1][2] = p1
      /\ checks[2][2] = p2
      /\ checks[3][2] = p3
  OBVIOUS
<1> HIDE DEF checks
<1>7. \A i \in 1 .. 3 :
        /\ checks[i][1] # "none"
        /\ checks[i][1] = "room id" => i = 1
        /\ checks[i][1] = "user id" => i = 2
        /\ checks[i][1] # "UnicodeEncodeError"
  <2>1. \A i \in 1 .. 3 : checks[i][1] # "none"
    BY <1>5, OneToThree, Zenon
  <2>2. \A i \in 1 .. 3 : checks[i][1] = "room id" => i = 1
    BY <1>5, OneToThree, Zenon
  <2>3. \A i \in 1 .. 3 : checks[i][1] = "user id" => i = 2
    BY <1>5, OneToThree, Zenon
  <2>4. \A i \in 1 .. 3 : checks[i][1] # "UnicodeEncodeError"
    BY <1>5, OneToThree, Zenon
  <2> QED
    BY <2>1, <2>2, <2>3, <2>4
<1>8. \A i \in 1 .. 3 : checks[i][2] \in BOOLEAN
  BY <1>3, <1>6, OneToThree, Zenon
<1>9. /\ first = "none" <=> \A i \in 1 .. 3 : ~checks[i][2]
      /\ first # "none" => \E i \in 1 .. 3 : checks[i][2] /\ first = checks[i][1]
  <2>1. \A i \in 1 .. 3 : checks[i][1] # "none"
    BY <1>7
  <2> QED
    BY <1>5, <1>8, <2>1, FirstFailureFails
<1>10. RustEncodable(m) <=> \A i \in 1 .. 3 : ~checks[i][2]
  BY <1>4, <1>6, OneToThree, Zenon
<1> HIDE DEF first
<1>11. CASE first = "none"
  BY <1>1, <1>9, <1>10, <1>11, Zenon DEF SaysOf, RustSays
<1>12. CASE first # "none"
  <2>1. PICK i \in 1 .. 3 : checks[i][2] /\ first = checks[i][1]
    BY <1>9, <1>12
  <2>2. BlamesRightly(first, m, RustPacks(m.room, RoomLen), RustPacks(m.user, UserLen))
    BY <1>2, <1>6, <1>7, <2>1, Zenon DEF BlamesRightly
  <2> QED
    BY <1>1, <1>9, <1>10, <1>12, <2>2, Zenon DEF SaysOf, RustSays
<1> QED
  BY <1>11, <1>12

\* The Python SDK encodes exactly what SdkEncodable admits.
LEMMA PythonEncodeSays ==
  ASSUME NEW m, m.room \in Seq(Nat), m.user \in Seq(Nat)
  PROVE  PythonSays(m)
<1> DEFINE p1 == m.version # ProtocolVersion
           p2 == m.kind \notin PacketTypes
           p3 == m.target \notin TargetTypes
           p4 == m.seq \notin 0 .. MaxSeq
           p5 == Len(m.payload) > MaxPayload
           p6 == ~IsAscii(m.room) \/ ~IsAscii(m.user)
           p7 == ~PythonPacks(m.room, RoomLen)
           p8 == ~PythonPacks(m.user, UserLen)
           checks == << <<"version", p1>>, <<"packet type", p2>>, <<"target type", p3>>,
                        <<"sequence", p4>>, <<"payload too large", p5>>,
                        <<"UnicodeEncodeError", p6>>, <<"room id", p7>>, <<"user id", p8>> >>
           first == FirstFailure(checks)
<1>1. PythonEncode(m) = IF first = "none" THEN PythonPacket(m) ELSE Error(first)
  BY Zenon DEF PythonEncode
<1>2. /\ JsPacks(m.room, RoomLen) => ~p7
      /\ JsPacks(m.user, UserLen) => ~p8
      /\ p6 => ~IsAscii(m.room) \/ ~IsAscii(m.user)
  BY PacksAgree
<1>3. /\ p1 \in BOOLEAN /\ p2 \in BOOLEAN /\ p3 \in BOOLEAN /\ p4 \in BOOLEAN
      /\ p5 \in BOOLEAN /\ p6 \in BOOLEAN /\ p7 \in BOOLEAN /\ p8 \in BOOLEAN
  BY DEF RustPacks, PythonPacks, JsPacks, IsAscii
<1>4. SdkEncodable(m) <=> ~p1 /\ ~p2 /\ ~p3 /\ ~p4 /\ ~p5 /\ ~p6 /\ ~p7 /\ ~p8
  BY PacksAgree, Zenon DEF SdkEncodable
<1> HIDE DEF p1, p2, p3, p4, p5, p6, p7, p8
<1>5. /\ DOMAIN checks = 1 .. 8
      /\ checks[1][1] = "version"
      /\ checks[2][1] = "packet type"
      /\ checks[3][1] = "target type"
      /\ checks[4][1] = "sequence"
      /\ checks[5][1] = "payload too large"
      /\ checks[6][1] = "UnicodeEncodeError"
      /\ checks[7][1] = "room id"
      /\ checks[8][1] = "user id"
  OBVIOUS
<1>6. /\ checks[1][2] = p1
      /\ checks[2][2] = p2
      /\ checks[3][2] = p3
      /\ checks[4][2] = p4
      /\ checks[5][2] = p5
      /\ checks[6][2] = p6
      /\ checks[7][2] = p7
      /\ checks[8][2] = p8
  OBVIOUS
<1> HIDE DEF checks
<1>7. \A i \in 1 .. 8 :
        /\ checks[i][1] # "none"
        /\ checks[i][1] = "room id" => i = 7
        /\ checks[i][1] = "user id" => i = 8
        /\ checks[i][1] = "UnicodeEncodeError" => i = 6
  <2>1. \A i \in 1 .. 8 : checks[i][1] # "none"
    BY <1>5, OneToEight, Zenon
  <2>2. \A i \in 1 .. 8 : checks[i][1] = "room id" => i = 7
    BY <1>5, OneToEight, Zenon
  <2>3. \A i \in 1 .. 8 : checks[i][1] = "user id" => i = 8
    BY <1>5, OneToEight, Zenon
  <2>4. \A i \in 1 .. 8 : checks[i][1] = "UnicodeEncodeError" => i = 6
    BY <1>5, OneToEight, Zenon
  <2> QED
    BY <2>1, <2>2, <2>3, <2>4
<1>8. \A i \in 1 .. 8 : checks[i][2] \in BOOLEAN
  BY <1>3, <1>6, OneToEight, Zenon
<1>9. /\ first = "none" <=> \A i \in 1 .. 8 : ~checks[i][2]
      /\ first # "none" => \E i \in 1 .. 8 : checks[i][2] /\ first = checks[i][1]
  <2>1. \A i \in 1 .. 8 : checks[i][1] # "none"
    BY <1>7
  <2> QED
    BY <1>5, <1>8, <2>1, FirstFailureFails
<1>10. SdkEncodable(m) <=> \A i \in 1 .. 8 : ~checks[i][2]
  BY <1>4, <1>6, OneToEight, Zenon
<1> HIDE DEF first
<1>11. CASE first = "none"
  BY <1>1, <1>9, <1>10, <1>11, Zenon DEF SaysOf, PythonSays
<1>12. CASE first # "none"
  <2>1. PICK i \in 1 .. 8 : checks[i][2] /\ first = checks[i][1]
    BY <1>9, <1>12
  <2>2. BlamesRightly(first, m, JsPacks(m.room, RoomLen), JsPacks(m.user, UserLen))
    BY <1>2, <1>6, <1>7, <2>1, Zenon DEF BlamesRightly
  <2> QED
    BY <1>1, <1>9, <1>10, <1>12, <2>2, Zenon DEF SaysOf, PythonSays
<1> QED
  BY <1>11, <1>12

\* So does the JavaScript SDK.
LEMMA JsEncodeSays ==
  ASSUME NEW m, m.room \in Seq(Nat), m.user \in Seq(Nat)
  PROVE  JsSays(m)
<1> DEFINE p1 == m.version # ProtocolVersion
           p2 == m.kind \notin PacketTypes
           p3 == m.target \notin TargetTypes
           p4 == m.seq \notin 0 .. MaxSeq
           p5 == Len(m.payload) > MaxPayload
           p6 == ~JsPacks(m.room, RoomLen)
           p7 == ~JsPacks(m.user, UserLen)
           checks == << <<"version", p1>>, <<"packet type", p2>>, <<"target type", p3>>,
                        <<"sequence", p4>>, <<"payload too large", p5>>, <<"room id", p6>>,
                        <<"user id", p7>> >>
           first == FirstFailure(checks)
<1>1. JsEncode(m) = IF first = "none" THEN JsPacket(m) ELSE Error(first)
  BY Zenon DEF JsEncode
<1>2. /\ JsPacks(m.room, RoomLen) => ~p6
      /\ JsPacks(m.user, UserLen) => ~p7
  BY PacksAgree
<1>3. /\ p1 \in BOOLEAN /\ p2 \in BOOLEAN /\ p3 \in BOOLEAN /\ p4 \in BOOLEAN
      /\ p5 \in BOOLEAN /\ p6 \in BOOLEAN /\ p7 \in BOOLEAN
  BY DEF RustPacks, PythonPacks, JsPacks, IsAscii
<1>4. SdkEncodable(m) <=> ~p1 /\ ~p2 /\ ~p3 /\ ~p4 /\ ~p5 /\ ~p6 /\ ~p7
  BY PacksAgree, Zenon DEF SdkEncodable
<1> HIDE DEF p1, p2, p3, p4, p5, p6, p7
<1>5. /\ DOMAIN checks = 1 .. 7
      /\ checks[1][1] = "version"
      /\ checks[2][1] = "packet type"
      /\ checks[3][1] = "target type"
      /\ checks[4][1] = "sequence"
      /\ checks[5][1] = "payload too large"
      /\ checks[6][1] = "room id"
      /\ checks[7][1] = "user id"
  OBVIOUS
<1>6. /\ checks[1][2] = p1
      /\ checks[2][2] = p2
      /\ checks[3][2] = p3
      /\ checks[4][2] = p4
      /\ checks[5][2] = p5
      /\ checks[6][2] = p6
      /\ checks[7][2] = p7
  OBVIOUS
<1> HIDE DEF checks
<1>7. \A i \in 1 .. 7 :
        /\ checks[i][1] # "none"
        /\ checks[i][1] = "room id" => i = 6
        /\ checks[i][1] = "user id" => i = 7
        /\ checks[i][1] # "UnicodeEncodeError"
  <2>1. \A i \in 1 .. 7 : checks[i][1] # "none"
    BY <1>5, OneToSeven, Zenon
  <2>2. \A i \in 1 .. 7 : checks[i][1] = "room id" => i = 6
    BY <1>5, OneToSeven, Zenon
  <2>3. \A i \in 1 .. 7 : checks[i][1] = "user id" => i = 7
    BY <1>5, OneToSeven, Zenon
  <2>4. \A i \in 1 .. 7 : checks[i][1] # "UnicodeEncodeError"
    BY <1>5, OneToSeven, Zenon
  <2> QED
    BY <2>1, <2>2, <2>3, <2>4
<1>8. \A i \in 1 .. 7 : checks[i][2] \in BOOLEAN
  BY <1>3, <1>6, OneToSeven, Zenon
<1>9. /\ first = "none" <=> \A i \in 1 .. 7 : ~checks[i][2]
      /\ first # "none" => \E i \in 1 .. 7 : checks[i][2] /\ first = checks[i][1]
  <2>1. \A i \in 1 .. 7 : checks[i][1] # "none"
    BY <1>7
  <2> QED
    BY <1>5, <1>8, <2>1, FirstFailureFails
<1>10. SdkEncodable(m) <=> \A i \in 1 .. 7 : ~checks[i][2]
  BY <1>4, <1>6, OneToSeven, Zenon
<1> HIDE DEF first
<1>11. CASE first = "none"
  BY <1>1, <1>9, <1>10, <1>11, Zenon DEF SaysOf, JsSays
<1>12. CASE first # "none"
  <2>1. PICK i \in 1 .. 7 : checks[i][2] /\ first = checks[i][1]
    BY <1>9, <1>12
  <2>2. BlamesRightly(first, m, JsPacks(m.room, RoomLen), JsPacks(m.user, UserLen))
    BY <1>2, <1>6, <1>7, <2>1, Zenon DEF BlamesRightly
  <2> QED
    BY <1>1, <1>9, <1>10, <1>12, <2>2, Zenon DEF SaysOf, JsSays
<1> QED
  BY <1>11, <1>12

-----------------------------------------------------------------------------
(* Numbers and their bytes.                                                 *)

\* A function on 1 .. n is a sequence of n elements.
LEMMA Enumerated ==
  ASSUME NEW T, NEW n \in Nat, NEW g \in [1 .. n -> T]
  PROVE  g \in Seq(T) /\ Len(g) = n
OBVIOUS

\* What holds at 0 and is handed on holds up to n.
LEMMA UpTo ==
  ASSUME NEW n \in Nat, NEW G, 0 \in G, \A i \in 0 .. n - 1 : i \in G => i + 1 \in G
  PROVE  \A i \in 0 .. n : i \in G
<1> DEFINE B == {i \in 0 .. n : i \notin G}
<1> SUFFICES ASSUME B # {} PROVE FALSE
  OBVIOUS
<1>1. B \in SUBSET Nat
  OBVIOUS
<1>2. PICK m \in B : \A y \in B : m <= y
  BY <1>1, LeastElement, Zenon
<1>3. m \in 0 .. n /\ m \notin G /\ m # 0
  BY <1>2
<1>4. m - 1 \in 0 .. n - 1 /\ m - 1 \in 0 .. n /\ (m - 1) + 1 = m /\ ~(m <= m - 1)
  BY <1>3
<1>5. m - 1 \in G
  BY <1>2, <1>4, Zenon
<1> QED
  BY <1>3, <1>4, <1>5

\* What holds at n and is handed down holds down to 0.
LEMMA DownFrom ==
  ASSUME NEW n \in Nat, NEW G, n \in G, \A i \in 0 .. n - 1 : i + 1 \in G => i \in G
  PROVE  \A i \in 0 .. n : i \in G
<1> DEFINE H == {j \in 0 .. n : n - j \in G}
<1>1. 0 \in H
  OBVIOUS
<1>2. ASSUME NEW j \in 0 .. n - 1, j \in H PROVE j + 1 \in H
  <2>1. n - (j + 1) \in 0 .. n - 1 /\ (n - (j + 1)) + 1 = n - j /\ j + 1 \in 0 .. n
    OBVIOUS
  <2>2. n - (j + 1) \in G
    BY <1>2, <2>1
  <2> QED
    BY <2>1, <2>2
<1> HIDE DEF H
<1>3. \A j \in 0 .. n : j \in H
  BY <1>1, <1>2, UpTo
<1>4. ASSUME NEW i \in 0 .. n PROVE i \in G
  <2>1. n - i \in 0 .. n /\ n - (n - i) = i
    OBVIOUS
  <2> QED
    BY <1>3, <2>1 DEF H
<1> QED
  BY <1>4

\* A byte takes what is above it with the base, and division gives both back.
LEMMA Digits ==
  /\ Base \in Nat /\ Base > 4
  /\ \A n \in Int : n \div Base \in Int /\ n % Base \in 0 .. Base - 1
                    /\ n = (n \div Base) * Base + (n % Base)
  /\ \A q \in Int, r \in 0 .. Base - 1 :
       (q * Base + r) \div Base = q /\ (q * Base + r) % Base = r
<1>1. Base \in Nat /\ Base > 4
  BY SizesAssumption
<1>2. ASSUME NEW n \in Int
      PROVE  /\ n \div Base \in Int /\ n % Base \in 0 .. Base - 1
             /\ n = (n \div Base) * Base + (n % Base)
  BY <1>1
<1>3. ASSUME NEW q \in Int, NEW r \in 0 .. Base - 1
      PROVE  (q * Base + r) \div Base = q /\ (q * Base + r) % Base = r
  BY <1>1
<1> QED
  BY <1>1, <1>2, <1>3

\* The numbers that the leading bytes hold: each is the next one without its
\* last byte.
LEMMA LeadingIs ==
  ASSUME NEW n \in Int, NEW k \in Nat
  PROVE  /\ Leading(n, k) \in [0 .. k -> Int]
         /\ Leading(n, k)[k] = n
         /\ \A i \in 0 .. k - 1 : Leading(n, k)[i] = Leading(n, k)[i + 1] \div Base
<1> DEFINE From(j) == (k - j) .. k
           Solves(f, j) == /\ f[k] = n
                           /\ \A i \in From(j) : i # k => f[i] = f[i + 1] \div Base
           G == {j \in 0 .. k : \E f \in [From(j) -> Int] : Solves(f, j)}
<1>1. 0 \in G
  <2> DEFINE f == [i \in From(0) |-> n]
  <2>1. f \in [From(0) -> Int]
    OBVIOUS
  <2>2. k \in From(0) /\ (\A i \in From(0) : i = k) /\ 0 \in 0 .. k
    OBVIOUS
  <2>3. Solves(f, 0)
    BY <2>2
  <2> QED
    BY <2>1, <2>2, <2>3
<1>2. ASSUME NEW j \in 0 .. k - 1, j \in G PROVE j + 1 \in G
  <2>1. PICK f \in [From(j) -> Int] : Solves(f, j)
    BY <1>2
  <2> DEFINE low == k - (j + 1)
             g == [i \in From(j + 1) |-> IF i = low THEN f[low + 1] \div Base ELSE f[i]]
  <2>2. low + 1 \in From(j) /\ k \in From(j) /\ low # k
    OBVIOUS
  <2>3. \A i \in From(j + 1) : i = low \/ i \in From(j)
    OBVIOUS
  <2>4. \A i \in From(j) : i \in From(j + 1) /\ i # low
    OBVIOUS
  <2>5. \A i \in From(j) : i # k => i + 1 \in From(j)
    OBVIOUS
  <2>6. \A i \in From(j) : f[i] \in Int
    BY <2>1
  <2>7. f[low + 1] \div Base \in Int
    BY <2>2, <2>6, Digits
  <2>8. low \in From(j + 1)
    OBVIOUS
  <2> HIDE DEF low
  <2>9. g \in [From(j + 1) -> Int]
    BY <2>3, <2>6, <2>7, Zenon
  <2>10. \A i \in From(j) : g[i] = f[i]
    BY <2>4, Zenon
  <2>11. g[low] = f[low + 1] \div Base
    BY <2>8, Zenon
  <2> HIDE DEF g, From
  <2>12. Solves(g, j + 1)
    BY <2>1, <2>2, <2>3, <2>5, <2>10, <2>11, Zenon
  <2>13. j + 1 \in 0 .. k
    OBVIOUS
  <2> QED
    BY <2>9, <2>12, <2>13, Zenon
<1> HIDE DEF G
<1>3. k \in G
  BY <1>1, <1>2, UpTo
<1>4. From(k) = 0 .. k
  OBVIOUS
<1>5. PICK f \in [0 .. k -> Int] : Solves(f, k)
  BY <1>3, <1>4, Zenon DEF G
<1> DEFINE Law(h) == h = [i \in 0 .. k |-> IF i = k THEN n ELSE h[i + 1] \div Base]
<1>6. Law(f)
  BY <1>4, <1>5, Zenon
<1>7. Leading(n, k) = CHOOSE h : Law(h)
  BY Zenon DEF Leading
<1>8. Law(Leading(n, k))
  BY <1>6, <1>7, Zenon
<1> DEFINE L == Leading(n, k)
           I == {i \in 0 .. k : L[i] \in Int}
<1> HIDE DEF L, From
<1>9. L = [i \in 0 .. k |-> IF i = k THEN n ELSE L[i + 1] \div Base]
  BY <1>8 DEF L
<1>10. L[k] = n /\ \A i \in 0 .. k - 1 : L[i] = L[i + 1] \div Base
  <2>1. \A i \in 0 .. k - 1 : i \in 0 .. k /\ i # k
    OBVIOUS
  <2>2. k \in 0 .. k
    OBVIOUS
  <2> QED
    BY <1>9, <2>1, <2>2, Zenon
<1>11. \A i \in 0 .. k - 1 : i + 1 \in I => i \in I
  <2> SUFFICES ASSUME NEW i \in 0 .. k - 1, L[i + 1] \in Int PROVE i \in 0 .. k /\ L[i] \in Int
    BY Zenon
  <2>1. i \in 0 .. k
    OBVIOUS
  <2>2. L[i + 1] \div Base \in Int
    BY Digits, Zenon
  <2> QED
    BY <1>10, <2>1, <2>2, Zenon
<1>12. k \in I
  BY <1>10
<1>13. \A i \in 0 .. k : i \in I
  <2> HIDE DEF I
  <2> QED
    BY <1>11, <1>12, DownFrom
<1>14. L \in [0 .. k -> Int]
  <2>1. L = [i \in 0 .. k |-> L[i]]
    BY <1>9, Zenon
  <2>2. \A i \in 0 .. k : L[i] \in Int
    BY <1>13, Zenon
  <2> QED
    BY <2>1, <2>2, Zenon
<1> QED
  BY <1>10, <1>14 DEF L

\* The greatest element of a set of places, and what is left without it.
LEMMA GreatestPlace ==
  ASSUME NEW j \in Nat, NEW t \in SUBSET (1 .. j), t # {}
  PROVE  /\ Max(t) \in t /\ Max(t) \in 1 .. j /\ t \ {Max(t)} \in SUBSET (1 .. j)
         /\ j \in t => Max(t) = j
         /\ \A y \in t : y <= Max(t)
<1> DEFINE U == {j - x : x \in t}
<1>1. U \in SUBSET Nat /\ U # {}
  <2>1. \A x \in t : j - x \in Nat
    OBVIOUS
  <2> QED
    BY <2>1, Zenon
<1>2. PICK u \in U : \A y \in U : u <= y
  BY <1>1, LeastElement, Zenon
<1>3. PICK x \in t : u = j - x
  BY <1>2
<1>4. \A y \in t : x >= y
  <2> SUFFICES ASSUME NEW y \in t PROVE x >= y
    OBVIOUS
  <2>1. j - y \in U
    OBVIOUS
  <2>2. u <= j - y
    BY <1>2, <2>1
  <2>3. x \in Nat /\ y \in Nat
    OBVIOUS
  <2> QED
    BY <1>3, <2>2, <2>3
<1>5. Max(t) \in t /\ \A y \in t : Max(t) >= y
  BY <1>4, Zenon DEF Max
<1>6. Max(t) \in 1 .. j
  BY <1>5
<1>7. j \in t => Max(t) = j
  BY <1>5, <1>6
<1>8. \A y \in t : y <= Max(t)
  BY <1>5, <1>6
<1> QED
  BY <1>5, <1>6, <1>7, <1>8

\* What from_be_bytes computes: each byte is appended to what is read so far.
LEMMA FromBytesIs ==
  ASSUME NEW s \in Seq(Int)
  PROVE  \E v \in [0 .. Len(s) -> Int] :
           /\ v[0] = 0
           /\ \A i \in 1 .. Len(s) : v[i] = v[i - 1] * Base + s[i]
           /\ FromBytes(s) = v[Len(s)]
<1> DEFINE n == Len(s)
           step(f, t) == f[t \ {Max(t)}] * Base + s[Max(t)]
           Folds(f, j) == \A t \in SUBSET (1 .. j) : f[t] = IF t = {} THEN 0 ELSE step(f, t)
           G == {j \in 0 .. n : \E f \in [SUBSET (1 .. j) -> Int] : Folds(f, j)}
<1>1. n \in Nat /\ DOMAIN s = 1 .. n /\ \A i \in 1 .. n : s[i] \in Int
  OBVIOUS
<1> HIDE DEF n
<1>2. 0 \in G
  <2> DEFINE f == [t \in SUBSET (1 .. 0) |-> 0]
  <2>1. f \in [SUBSET (1 .. 0) -> Int]
    OBVIOUS
  <2>2. \A t \in SUBSET (1 .. 0) : t = {}
    OBVIOUS
  <2>3. Folds(f, 0)
    BY <2>2, Zenon
  <2>4. 0 \in 0 .. n
    BY <1>1
  <2> QED
    BY <2>1, <2>3, <2>4, Zenon
<1>3. ASSUME NEW j \in 0 .. n - 1, j \in G PROVE j + 1 \in G
  <2>1. PICK f \in [SUBSET (1 .. j) -> Int] : Folds(f, j)
    BY <1>3
  <2>2. j \in Nat /\ j + 1 \in 0 .. n /\ j + 1 \in 1 .. n /\ j + 1 \in Nat
    BY <1>1
  <2> DEFINE last == j + 1
             g == [t \in SUBSET (1 .. last) |->
                     IF last \in t THEN f[t \ {last}] * Base + s[last] ELSE f[t]]
  <2>3. last \in 0 .. n /\ s[last] \in Int /\ last \in Nat /\ last \notin 1 .. j
    BY <1>1, <2>2
  <2>4. ASSUME NEW t \in SUBSET (1 .. last)
        PROVE  t \ {last} \in SUBSET (1 .. j) /\ (last \notin t => t \in SUBSET (1 .. j))
    <3>1. \A x \in 1 .. last : x = last \/ x \in 1 .. j
      BY <2>2
    <3> QED
      BY <3>1, Zenon
  <2>5. \A t \in SUBSET (1 .. j) : t \in SUBSET (1 .. last) /\ last \notin t
    <3>1. 1 .. j \subseteq 1 .. last
      BY <2>2
    <3> QED
      BY <2>3, <3>1, Zenon
  <2>6. \A t \in SUBSET (1 .. j) : f[t] \in Int
    BY <2>1, Zenon
  <2>l. \A t \in SUBSET (1 .. j) : f[t] * Base + s[last] \in Int
    <3>1. Base \in Int /\ \A x \in Int : x * Base + s[last] \in Int
      BY <2>3, SizesAssumption
    <3> QED
      BY <2>6, <3>1, Zenon
  <2> HIDE DEF last
  <2>7. g \in [SUBSET (1 .. last) -> Int]
    BY <2>4, <2>6, <2>l, Zenon
  <2>8. \A t \in SUBSET (1 .. j) : g[t] = f[t]
    BY <2>5, Zenon
  <2>9. Folds(g, last)
    <3> SUFFICES ASSUME NEW t \in SUBSET (1 .. last) PROVE g[t] = IF t = {} THEN 0 ELSE step(g, t)
      BY Zenon
    <3> HIDE DEF g
    <3>1. CASE last \in t
      <4>1. Max(t) = last /\ t # {}
        BY <2>3, <3>1, GreatestPlace
      <4>2. g[t] = f[t \ {last}] * Base + s[last]
        BY <3>1, Zenon DEF g
      <4>3. g[t \ {last}] = f[t \ {last}]
        BY <2>4, <2>8, Zenon
      <4> QED
        BY <4>1, <4>2, <4>3, Zenon
    <3>2. CASE last \notin t
      <4>1. t \in SUBSET (1 .. j)
        BY <2>4, <3>2, Zenon
      <4>2. g[t] = IF t = {} THEN 0 ELSE step(f, t)
        BY <2>1, <2>8, <4>1, Zenon
      <4>3. CASE t # {}
        <5>1. t \ {Max(t)} \in SUBSET (1 .. j)
          BY <2>2, <4>1, <4>3, GreatestPlace
        <5> QED
          BY <2>8, <4>2, <5>1, Zenon
      <4> QED
        BY <4>2, <4>3, Zenon
    <3> QED
      BY <3>1, <3>2, Zenon
  <2>10. last \in G
    BY <2>3, <2>7, <2>9, Zenon
  <2> QED
    BY <2>10 DEF last
<1> HIDE DEF G
<1>4. n \in G
  <2>1. \A i \in 0 .. n : i \in G
    BY <1>1, <1>2, <1>3, UpTo
  <2> QED
    BY <1>1, <2>1
<1>5. PICK f \in [SUBSET (1 .. n) -> Int] : Folds(f, n)
  BY <1>4, Zenon DEF G
<1> DEFINE Law(h) == h = [t \in SUBSET (1 .. n) |-> IF t = {} THEN 0 ELSE step(h, t)]
           iter == CHOOSE h : Law(h)
<1>6. Law(f)
  BY <1>5, Zenon
<1>7. FromBytes(s) = iter[1 .. n]
  BY <1>1, Zenon DEF FromBytes, FoldLeft, MapThenFoldSet
<1>8. Law(iter)
  BY <1>6, Zenon
<1> HIDE DEF iter, step
<1>9. Folds(iter, n)
  BY <1>8, Zenon
<1> DEFINE v == [i \in 0 .. n |-> iter[1 .. i]]
           I == {i \in 0 .. n : v[i] \in Int}
<1>10. v[0] = 0
  <2>1. 1 .. 0 = {} /\ {} \in SUBSET (1 .. n) /\ 0 \in 0 .. n
    BY <1>1
  <2> QED
    BY <1>9, <2>1, Zenon
<1>11. ASSUME NEW i \in 1 .. n PROVE v[i] = v[i - 1] * Base + s[i]
  <2>1. /\ 1 .. i \in SUBSET (1 .. n) /\ i \in 0 .. n /\ i - 1 \in 0 .. n
        /\ i \in 1 .. i /\ i \in Nat /\ (1 .. i) \ {i} = 1 .. i - 1
    BY <1>1
  <2>2. Max(1 .. i) = i
    BY <2>1, GreatestPlace
  <2>3. iter[1 .. i] = iter[1 .. i - 1] * Base + s[i]
    BY <1>9, <2>1, <2>2, Zenon DEF step
  <2> QED
    BY <2>1, <2>3, Zenon
<1> HIDE DEF v
<1>12. \A i \in 0 .. n : i \in I
  <2>1. 0 \in I
    BY <1>1, <1>10
  <2>2. ASSUME NEW i \in 0 .. n - 1, i \in I PROVE i + 1 \in I
    <3>1. i + 1 \in 1 .. n /\ i + 1 \in 0 .. n /\ (i + 1) - 1 = i
      BY <1>1
    <3>2. v[i + 1] = v[i] * Base + s[i + 1]
      BY <1>11, <3>1
    <3>3. v[i] \in Int /\ s[i + 1] \in Int
      BY <1>1, <2>2, <3>1
    <3>4. v[i + 1] \in Int
      BY <3>2, <3>3, SizesAssumption
    <3> QED
      BY <3>1, <3>4
  <2> HIDE DEF I
  <2> QED
    BY <1>1, <2>1, <2>2, UpTo
<1>13. v \in [0 .. n -> Int]
  <2>1. \A i \in 0 .. n : v[i] \in Int
    BY <1>12, Zenon
  <2>2. v = [i \in 0 .. n |-> v[i]]
    BY Zenon DEF v
  <2> QED
    BY <2>1, <2>2, Zenon
<1>14. FromBytes(s) = v[n]
  <2>1. n \in 0 .. n
    BY <1>1
  <2> QED
    BY <1>7, <2>1, Zenon DEF v
<1> QED
  BY <1>10, <1>11, <1>13, <1>14, Zenon DEF n

Bytes == 0 .. Base - 1

\* Every byte is a natural, and every natural an integer.
LEMMA ByteIsNat ==
  /\ Bytes \subseteq Nat
  /\ \A s \in Seq(Bytes) : s \in Seq(Nat) /\ s \in Seq(Int)
                           /\ \A i \in 1 .. Len(s) : s[i] \in Bytes /\ s[i] \in Nat
<1>1. Base \in Nat
  BY Digits
<1>2. Bytes \subseteq Nat
  BY <1>1 DEF Bytes
<1>3. ASSUME NEW s \in Seq(Bytes)
      PROVE  /\ s \in Seq(Nat) /\ s \in Seq(Int)
             /\ \A i \in 1 .. Len(s) : s[i] \in Bytes /\ s[i] \in Nat
  <2>1. \A i \in 1 .. Len(s) : s[i] \in Bytes
    OBVIOUS
  <2>2. \A i \in 1 .. Len(s) : s[i] \in Nat
    BY <1>2, <2>1
  <2>3. s \in Seq(Nat)
    BY <2>2
  <2>4. s \in Seq(Int)
    BY <2>2
  <2> QED
    BY <2>1, <2>2, <2>3, <2>4
<1> QED
  BY <1>2, <1>3

\* to_be_bytes makes bytes, as many as the field has.
LEMMA ToBytesIs ==
  ASSUME NEW n \in Int, NEW k \in Nat
  PROVE  /\ ToBytes(n, k) \in Seq(Bytes) /\ Len(ToBytes(n, k)) = k
         /\ \A i \in 1 .. k : ToBytes(n, k)[i] = Leading(n, k)[i] % Base
<1>1. ASSUME NEW i \in 1 .. k PROVE Leading(n, k)[i] % Base \in Bytes
  <2>1. Leading(n, k)[i] \in Int
    BY LeadingIs
  <2> QED
    BY <2>1, Digits, Zenon DEF Bytes
<1>2. ToBytes(n, k) \in [1 .. k -> Bytes]
  BY <1>1, Zenon DEF ToBytes
<1>3. ToBytes(n, k) \in Seq(Bytes) /\ Len(ToBytes(n, k)) = k
  BY <1>2, Enumerated
<1>4. \A i \in 1 .. k : ToBytes(n, k)[i] = Leading(n, k)[i] % Base
  BY Zenon DEF ToBytes
<1> QED
  BY <1>3, <1>4

\* from_be_bytes reads an integer.
LEMMA FromBytesIsInt ==
  ASSUME NEW s \in Seq(Int)
  PROVE  FromBytes(s) \in Int
<1>1. PICK v \in [0 .. Len(s) -> Int] : FromBytes(s) = v[Len(s)]
  BY FromBytesIs
<1> QED
  BY <1>1

\* A number that the field can hold loses nothing above its first byte.
LEMMA NothingLost ==
  ASSUME NEW k \in Nat, NEW n \in 0 .. MaxOf(k)
  PROVE  Leading(n, k)[0] = 0
<1> DEFINE top == [i \in 1 .. k |-> Base - 1]
           L == Leading(n, k)
<1>1. top \in Seq(Int) /\ Len(top) = k
  <2>1. top \in [1 .. k -> Int]
    BY SizesAssumption
  <2> QED
    BY <2>1, Enumerated
<1>2. \A i \in 1 .. k : top[i] = Base - 1
  OBVIOUS
<1> HIDE DEF top
<1>3. PICK m \in [0 .. k -> Int] :
        m[0] = 0 /\ (\A i \in 1 .. k : m[i] = m[i - 1] * Base + top[i]) /\ FromBytes(top) = m[k]
  BY <1>1, FromBytesIs
<1>4. n \in Int /\ 0 <= n /\ n <= m[k]
  <2>1. m[k] = MaxOf(k)
    BY <1>3 DEF MaxOf, top
  <2>2. m[k] \in Int
    BY <1>3
  <2> QED
    BY <2>1, <2>2
<1>5. L \in [0 .. k -> Int] /\ L[k] = n /\ \A i \in 0 .. k - 1 : L[i] = L[i + 1] \div Base
  BY <1>4, LeadingIs
<1> HIDE DEF L
<1> DEFINE G == {i \in 0 .. k : 0 <= L[i] /\ L[i] <= m[i]}
<1>6. k \in G
  BY <1>4, <1>5
<1>7. ASSUME NEW i \in 0 .. k - 1, i + 1 \in G PROVE i \in G
  <2>1. i \in 0 .. k /\ i + 1 \in 1 .. k /\ i + 1 \in 0 .. k /\ (i + 1) - 1 = i
    OBVIOUS
  <2>2. L[i + 1] \in Int /\ m[i] \in Int /\ L[i] = L[i + 1] \div Base
    BY <1>3, <1>5, <2>1
  <2>3. 0 <= L[i + 1] /\ L[i + 1] <= m[i] * Base + (Base - 1)
    BY <1>2, <1>3, <1>7, <2>1
  <2>4. \A a, b \in Int : 0 <= a /\ a <= b * Base + (Base - 1) => 0 <= a \div Base /\ a \div Base <= b
    BY SizesAssumption
  <2> QED
    BY <2>1, <2>2, <2>3, <2>4
<1> HIDE DEF G
<1>8. 0 \in G
  <2>1. \A i \in 0 .. k : i \in G
    BY <1>6, <1>7, DownFrom
  <2> QED
    BY <2>1
<1>9. L[0] \in Int
  BY <1>5
<1> QED
  BY <1>3, <1>8, <1>9 DEF G, L

\* What to_be_bytes wrote, from_be_bytes reads, if the field can hold it.
THEOREM NumberIsRead ==
  ASSUME NEW k \in Nat, NEW n \in 0 .. MaxOf(k)
  PROVE  FromBytes(ToBytes(n, k)) = n
<1> DEFINE s == ToBytes(n, k)
           L == Leading(n, k)
<1>1. n \in Int
  OBVIOUS
<1>2. /\ L \in [0 .. k -> Int] /\ L[k] = n /\ L[0] = 0
      /\ \A i \in 0 .. k - 1 : L[i] = L[i + 1] \div Base
  BY <1>1, LeadingIs, NothingLost
<1>3. s \in Seq(Int) /\ Len(s) = k /\ \A i \in 1 .. k : s[i] = L[i] % Base
  BY <1>1, ToBytesIs, ByteIsNat
<1> HIDE DEF s, L
<1>4. PICK v \in [0 .. k -> Int] :
        v[0] = 0 /\ (\A i \in 1 .. k : v[i] = v[i - 1] * Base + s[i]) /\ FromBytes(s) = v[k]
  BY <1>3, FromBytesIs
<1> DEFINE G == {i \in 0 .. k : v[i] = L[i]}
<1>5. 0 \in G
  BY <1>2, <1>4
<1>6. ASSUME NEW i \in 0 .. k - 1, i \in G PROVE i + 1 \in G
  <2>1. i \in 0 .. k /\ i + 1 \in 1 .. k /\ i + 1 \in 0 .. k /\ (i + 1) - 1 = i
    OBVIOUS
  <2>2. v[i + 1] = v[i] * Base + s[i + 1]
    BY <1>4, <2>1
  <2>3. v[i + 1] = (L[i + 1] \div Base) * Base + (L[i + 1] % Base)
    BY <1>2, <1>3, <1>6, <2>1, <2>2
  <2>4. L[i + 1] \in Int
    BY <1>2, <2>1
  <2>5. v[i + 1] = L[i + 1]
    BY <2>3, <2>4, Digits, Zenon
  <2> QED
    BY <2>1, <2>5
<1> HIDE DEF G
<1>7. \A i \in 0 .. k : i \in G
  BY <1>5, <1>6, UpTo
<1>8. v[k] = L[k]
  BY <1>7 DEF G
<1> QED
  BY <1>2, <1>4, <1>8 DEF s

\* What from_be_bytes read, to_be_bytes writes again.
THEOREM BytesAreWritten ==
  ASSUME NEW s \in Seq(Bytes)
  PROVE  ToBytes(FromBytes(s), Len(s)) = s
<1> DEFINE k == Len(s)
           n == FromBytes(s)
           L == Leading(n, k)
<1>1. k \in Nat /\ s \in Seq(Int) /\ \A i \in 1 .. k : s[i] \in Bytes
  BY ByteIsNat
<1>2. n \in Int
  BY <1>1, FromBytesIsInt
<1>3. PICK v \in [0 .. k -> Int] : (\A i \in 1 .. k : v[i] = v[i - 1] * Base + s[i]) /\ n = v[k]
  BY <1>1, FromBytesIs
<1> HIDE DEF k, n
<1>4. L \in [0 .. k -> Int] /\ L[k] = n /\ \A i \in 0 .. k - 1 : L[i] = L[i + 1] \div Base
  BY <1>1, <1>2, LeadingIs
<1>5. \A i \in 1 .. k : ToBytes(n, k)[i] = L[i] % Base
  BY <1>1, <1>2, ToBytesIs
<1> HIDE DEF L
<1>6. ASSUME NEW i \in 1 .. k
      PROVE  v[i] \div Base = v[i - 1] /\ v[i] % Base = s[i]
  <2>1. v[i - 1] \in Int
    BY <1>1
  <2>2. v[i] = v[i - 1] * Base + s[i] /\ s[i] \in 0 .. Base - 1
    BY <1>1, <1>3 DEF Bytes
  <2> QED
    BY <2>1, <2>2, Digits, Zenon
<1> DEFINE G == {i \in 0 .. k : L[i] = v[i]}
<1>7. k \in G
  BY <1>1, <1>3, <1>4
<1>8. ASSUME NEW i \in 0 .. k - 1, i + 1 \in G PROVE i \in G
  <2>1. i \in 0 .. k /\ i + 1 \in 1 .. k /\ (i + 1) - 1 = i
    BY <1>1
  <2> QED
    BY <1>4, <1>6, <1>8, <2>1
<1> HIDE DEF G
<1>9. \A i \in 0 .. k : i \in G
  BY <1>1, <1>7, <1>8, DownFrom
<1>10. \A i \in 1 .. k : L[i] = v[i]
  <2>1. \A i \in 1 .. k : i \in 0 .. k
    BY <1>1
  <2> QED
    BY <1>9, <2>1, Zenon DEF G
<1>11. \A i \in 1 .. k : ToBytes(n, k)[i] = s[i]
  BY <1>5, <1>6, <1>10, Zenon
<1>12. ToBytes(n, k) \in Seq(Bytes) /\ Len(ToBytes(n, k)) = k
  BY <1>1, <1>2, ToBytesIs
<1> QED
  BY <1>11, <1>12 DEF k, n

-----------------------------------------------------------------------------
(* Layout.                                                                  *)

\* The offsets of the fields follow from their sizes.
LEMMA Sizes ==
  /\ RoomLen \in Nat /\ UserLen \in Nat /\ SeqLen \in Nat /\ LenLen \in Nat
  /\ RoomAt = 4 /\ UserAt = 4 + RoomLen /\ SeqAt = 4 + RoomLen + UserLen
  /\ LenAt = 4 + RoomLen + UserLen + SeqLen
  /\ HeaderLen = 4 + RoomLen + UserLen + SeqLen + LenLen
<1>1. RoomLen \in Nat /\ UserLen \in Nat /\ SeqLen \in Nat /\ LenLen \in Nat
  BY SizesAssumption
<1> QED
  BY <1>1 DEF RoomAt, UserAt, SeqAt, LenAt, HeaderLen

\* Where the elements of two sequences are once one is appended to the other.
LEMMA Concatenation ==
  ASSUME NEW S, NEW s \in Seq(S), NEW t \in Seq(S)
  PROVE  /\ s \o t \in Seq(S) /\ Len(s \o t) = Len(s) + Len(t)
         /\ \A i \in 1 .. Len(s) : (s \o t)[i] = s[i]
         /\ \A i \in 1 .. Len(t) : (s \o t)[Len(s) + i] = t[i]
OBVIOUS

\* A piece of a sequence is the sequence that is found there.
LEMMA Piece ==
  ASSUME NEW S, NEW b \in Seq(S), NEW T, NEW f \in Seq(T), NEW at \in Nat,
         \A i \in 1 .. Len(f) : b[at + i] = f[i]
  PROVE  Field(b, at, Len(f)) = f
<1>1. Field(b, at, Len(f)) = [i \in 1 .. Len(f) |-> b[i + (at + 1) - 1]]
  BY DEF Field
<1>2. \A i \in 1 .. Len(f) : b[i + (at + 1) - 1] = f[i]
  OBVIOUS
<1>3. f = [i \in 1 .. Len(f) |-> f[i]]
  OBVIOUS
<1> QED
  BY <1>1, <1>2, <1>3

\* The bytes of a field are those of the packet.
LEMMA FieldBytes ==
  ASSUME NEW b \in Seq(Bytes), NEW at \in Nat, NEW n \in Nat, at + n <= Len(b)
  PROVE  /\ Field(b, at, n) \in Seq(Bytes) /\ Len(Field(b, at, n)) = n
         /\ \A i \in 1 .. n : Field(b, at, n)[i] = b[at + i]
<1>1. Field(b, at, n) = [i \in 1 .. n |-> b[i + (at + 1) - 1]]
  BY DEF Field
<1>2. \A i \in 1 .. n : i + (at + 1) - 1 = at + i /\ at + i \in 1 .. Len(b)
  OBVIOUS
<1>3. Field(b, at, n) = [i \in 1 .. n |-> b[at + i]]
  BY <1>1, <1>2
<1>4. [i \in 1 .. n |-> b[at + i]] \in [1 .. n -> Bytes]
  BY <1>2
<1> QED
  BY <1>3, <1>4, Enumerated

\* The fields and the payload of a packet that has a header.
LEMMA PacketBytes ==
  ASSUME NEW b \in Seq(Bytes), ~(Len(b) < HeaderLen)
  PROVE  /\ b[1] \in Bytes /\ b[2] \in Bytes /\ b[3] \in Bytes
         /\ RoomOf(b) \in Seq(Bytes) /\ Len(RoomOf(b)) = RoomLen
         /\ UserOf(b) \in Seq(Bytes) /\ Len(UserOf(b)) = UserLen
         /\ Field(b, SeqAt, SeqLen) \in Seq(Bytes) /\ Len(Field(b, SeqAt, SeqLen)) = SeqLen
         /\ Field(b, LenAt, LenLen) \in Seq(Bytes) /\ Len(Field(b, LenAt, LenLen)) = LenLen
         /\ PayloadOf(b) = Field(b, HeaderLen, Len(b) - HeaderLen)
         /\ PayloadOf(b) \in Seq(Bytes) /\ Len(PayloadOf(b)) = Len(b) - HeaderLen
<1>1. Len(b) \in Nat /\ HeaderLen \in Nat /\ HeaderLen <= Len(b)
  BY Sizes
<1>2. 1 \in 1 .. Len(b) /\ 2 \in 1 .. Len(b) /\ 3 \in 1 .. Len(b)
  BY <1>1, Sizes
<1>3. RoomOf(b) \in Seq(Bytes) /\ Len(RoomOf(b)) = RoomLen
  BY <1>1, Sizes, FieldBytes DEF RoomOf
<1>4. UserOf(b) \in Seq(Bytes) /\ Len(UserOf(b)) = UserLen
  BY <1>1, Sizes, FieldBytes DEF UserOf
<1>5. Field(b, SeqAt, SeqLen) \in Seq(Bytes) /\ Len(Field(b, SeqAt, SeqLen)) = SeqLen
  BY <1>1, Sizes, FieldBytes
<1>6. Field(b, LenAt, LenLen) \in Seq(Bytes) /\ Len(Field(b, LenAt, LenLen)) = LenLen
  BY <1>1, Sizes, FieldBytes
<1>7. /\ Len(b) - HeaderLen \in Nat /\ HeaderLen + (Len(b) - HeaderLen) = Len(b)
      /\ HeaderLen + (Len(b) - HeaderLen) <= Len(b)
  BY <1>1
<1>8. PayloadOf(b) = Field(b, HeaderLen, Len(b) - HeaderLen)
  BY <1>7, Zenon DEF PayloadOf, Field
<1>9. /\ Field(b, HeaderLen, Len(b) - HeaderLen) \in Seq(Bytes)
      /\ Len(Field(b, HeaderLen, Len(b) - HeaderLen)) = Len(b) - HeaderLen
  BY <1>1, <1>7, FieldBytes
<1> QED
  BY <1>2, <1>3, <1>4, <1>5, <1>6, <1>8, <1>9

\* The names in a packet are sequences of naturals.
LEMMA FieldOfNaturals ==
  ASSUME NEW b \in Seq(Bytes), ~(Len(b) < HeaderLen)
  PROVE  RoomOf(b) \in Seq(Nat) /\ UserOf(b) \in Seq(Nat)
BY PacketBytes, ByteIsNat

\* Where the parts of a packet are.
LaidOut(w, version, kind, target, room, user, seq, payload) ==
  /\ w \in Seq(Bytes) /\ Len(w) = HeaderLen + Len(payload)
  /\ w[1] = version /\ w[2] = kind /\ w[3] = target /\ w[4] = 0
  /\ RoomOf(w) = room /\ UserOf(w) = user
  /\ Field(w, SeqAt, SeqLen) = ToBytes(seq, SeqLen)
  /\ Field(w, LenAt, LenLen) = ToBytes(Len(payload), LenLen)
  /\ PayloadOf(w) = payload

\* What an encoder writes can be read again: the header byte by byte, every
\* field where the offsets say, and the payload behind the header.
LEMMA WireLayout ==
  ASSUME NEW version \in Bytes, NEW kind \in Bytes, NEW target \in Bytes, NEW seq \in Int,
         NEW payload \in Seq(Bytes),
         NEW room \in Seq(Bytes), Len(room) = RoomLen,
         NEW user \in Seq(Bytes), Len(user) = UserLen
  PROVE  LaidOut(PythonWire(version, kind, target, room, user, seq, payload),
                 version, kind, target, room, user, seq, payload)
<1> DEFINE head == <<version, kind, target, 0>>
           D == ToBytes(seq, SeqLen)
           E == ToBytes(Len(payload), LenLen)
           b1 == head \o room
           b2 == b1 \o user
           b3 == b2 \o D
           b4 == b3 \o E
           b == b4 \o payload
<1>1. b = PythonWire(version, kind, target, room, user, seq, payload)
  BY DEF PythonWire
<1>2. D \in Seq(Bytes) /\ Len(D) = SeqLen
  BY ToBytesIs, Sizes
<1>3. E \in Seq(Bytes) /\ Len(E) = LenLen
  <2>1. Len(payload) \in Int
    OBVIOUS
  <2> QED
    BY <2>1, ToBytesIs, Sizes
<1>4. /\ head \in Seq(Bytes) /\ Len(head) = 4
      /\ head[1] = version /\ head[2] = kind /\ head[3] = target /\ head[4] = 0
  <2>1. 0 \in Bytes
    BY Digits DEF Bytes
  <2> QED
    BY <2>1
<1> HIDE DEF D, E, head
<1>6. Len(payload) \in Nat
  OBVIOUS
<1>c. ASSUME NEW s \in Seq(Bytes), NEW t \in Seq(Bytes)
      PROVE  /\ s \o t \in Seq(Bytes) /\ Len(s \o t) = Len(s) + Len(t)
             /\ \A i \in 1 .. Len(s) : (s \o t)[i] = s[i]
             /\ \A i \in 1 .. Len(t) : (s \o t)[Len(s) + i] = t[i]
  BY Concatenation
<1>7. /\ b1 \in Seq(Bytes) /\ Len(b1) = 4 + RoomLen
      /\ \A i \in 1 .. 4 : b1[i] = head[i]
      /\ \A i \in 1 .. Len(room) : b1[4 + i] = room[i]
  <2>1. /\ head \o room \in Seq(Bytes) /\ Len(head \o room) = Len(head) + Len(room)
        /\ \A i \in 1 .. Len(head) : (head \o room)[i] = head[i]
        /\ \A i \in 1 .. Len(room) : (head \o room)[Len(head) + i] = room[i]
    BY <1>4, <1>c, Zenon
  <2> QED
    BY <1>4, <2>1, Sizes
<1> HIDE DEF b1
<1>8. /\ b2 \in Seq(Bytes) /\ Len(b2) = 4 + RoomLen + UserLen
      /\ \A i \in 1 .. Len(b1) : b2[i] = b1[i]
      /\ \A i \in 1 .. Len(user) : b2[Len(b1) + i] = user[i]
  <2>1. /\ b1 \o user \in Seq(Bytes) /\ Len(b1 \o user) = Len(b1) + Len(user)
        /\ \A i \in 1 .. Len(b1) : (b1 \o user)[i] = b1[i]
        /\ \A i \in 1 .. Len(user) : (b1 \o user)[Len(b1) + i] = user[i]
    BY <1>7, <1>c, Zenon
  <2> QED
    BY <1>7, <2>1, Sizes
<1> HIDE DEF b2
<1>9. /\ b3 \in Seq(Bytes) /\ Len(b3) = 4 + RoomLen + UserLen + SeqLen
      /\ \A i \in 1 .. Len(b2) : b3[i] = b2[i]
      /\ \A i \in 1 .. Len(D) : b3[Len(b2) + i] = D[i]
  <2>1. /\ b2 \o D \in Seq(Bytes) /\ Len(b2 \o D) = Len(b2) + Len(D)
        /\ \A i \in 1 .. Len(b2) : (b2 \o D)[i] = b2[i]
        /\ \A i \in 1 .. Len(D) : (b2 \o D)[Len(b2) + i] = D[i]
    BY <1>2, <1>8, <1>c, Zenon
  <2> QED
    BY <1>2, <1>8, <2>1, Sizes
<1> HIDE DEF b3
<1>10. /\ b4 \in Seq(Bytes) /\ Len(b4) = HeaderLen
       /\ \A i \in 1 .. Len(b3) : b4[i] = b3[i]
       /\ \A i \in 1 .. Len(E) : b4[Len(b3) + i] = E[i]
  <2>1. /\ b3 \o E \in Seq(Bytes) /\ Len(b3 \o E) = Len(b3) + Len(E)
        /\ \A i \in 1 .. Len(b3) : (b3 \o E)[i] = b3[i]
        /\ \A i \in 1 .. Len(E) : (b3 \o E)[Len(b3) + i] = E[i]
    BY <1>3, <1>9, <1>c, Zenon
  <2> QED
    BY <1>3, <1>9, <2>1, Sizes
<1> HIDE DEF b4
<1>11. /\ b \in Seq(Bytes) /\ Len(b) = HeaderLen + Len(payload)
       /\ \A i \in 1 .. Len(b4) : b[i] = b4[i]
       /\ \A i \in 1 .. Len(payload) : b[HeaderLen + i] = payload[i]
  <2>1. /\ b4 \o payload \in Seq(Bytes) /\ Len(b4 \o payload) = Len(b4) + Len(payload)
        /\ \A i \in 1 .. Len(b4) : (b4 \o payload)[i] = b4[i]
        /\ \A i \in 1 .. Len(payload) : (b4 \o payload)[Len(b4) + i] = payload[i]
    BY <1>10, <1>c, Zenon
  <2> QED
    BY <1>6, <1>10, <2>1, Sizes
<1> HIDE DEF b
<1>12. \A i \in 1 .. Len(b3) : b[i] = b3[i]
  BY <1>9, <1>10, <1>11, Sizes
<1>13. \A i \in 1 .. Len(b2) : b[i] = b2[i]
  BY <1>8, <1>9, <1>12, Sizes
<1>14. \A i \in 1 .. Len(b1) : b[i] = b1[i]
  BY <1>7, <1>8, <1>13, Sizes
<1>15. b[1] = version /\ b[2] = kind /\ b[3] = target /\ b[4] = 0
  BY <1>4, <1>7, <1>14, Sizes
<1>16. RoomOf(b) = room
  <2>0. \A i \in 1 .. Len(room) : 4 + i \in 1 .. Len(b1)
    BY <1>7, Sizes
  <2>1. \A i \in 1 .. Len(room) : b[4 + i] = room[i]
    BY <1>7, <1>14, <2>0, Zenon
  <2> QED
    BY <1>11, <2>1, Piece, Sizes DEF RoomOf
<1>17. UserOf(b) = user
  <2>0. \A i \in 1 .. Len(user) : Len(b1) + i \in 1 .. Len(b2)
    <3>1. Len(b1) \in Nat /\ Len(user) \in Nat /\ Len(b2) = Len(b1) + Len(user)
      BY <1>7, <1>8, Sizes
    <3> QED
      BY <3>1
  <2>1. \A i \in 1 .. Len(user) : b[4 + RoomLen + i] = user[i]
    BY <1>7, <1>8, <1>13, <2>0, Zenon
  <2>2. 4 + RoomLen \in Nat
    BY Sizes
  <2> QED
    BY <1>11, <2>1, <2>2, Piece, Sizes DEF UserOf
<1>18. Field(b, SeqAt, SeqLen) = D
  <2>0. Len(b2) = SeqAt /\ \A i \in 1 .. Len(D) : Len(b2) + i \in 1 .. Len(b3)
    BY <1>2, <1>8, <1>9, Sizes
  <2>1. \A i \in 1 .. Len(D) : b[SeqAt + i] = D[i]
    BY <1>9, <1>12, <2>0, Zenon
  <2>2. SeqAt \in Nat
    BY Sizes
  <2> QED
    BY <1>2, <1>11, <2>1, <2>2, Piece
<1>19. Field(b, LenAt, LenLen) = E
  <2>0. Len(b3) = LenAt /\ \A i \in 1 .. Len(E) : Len(b3) + i \in 1 .. Len(b4)
    <3>1. Len(b3) \in Nat /\ Len(E) \in Nat /\ Len(b4) = Len(b3) + Len(E) /\ Len(b3) = LenAt
      BY <1>3, <1>9, <1>10, Sizes
    <3> QED
      BY <3>1
  <2>1. \A i \in 1 .. Len(E) : b[LenAt + i] = E[i]
    BY <1>10, <1>11, <2>0, Zenon
  <2>2. LenAt \in Nat
    BY Sizes
  <2> QED
    BY <1>3, <1>11, <2>1, <2>2, Piece
<1>20. PayloadOf(b) = payload
  <2>0. HeaderLen \in Nat
    BY Sizes
  <2>1. Len(b) - HeaderLen = Len(payload) /\ ~(Len(b) < HeaderLen)
    BY <1>6, <1>11, <2>0
  <2>2. PayloadOf(b) = Field(b, HeaderLen, Len(payload))
    BY <1>11, <2>1, PacketBytes
  <2>3. Field(b, HeaderLen, Len(payload)) = payload
    BY <1>11, <2>0, Piece
  <2> QED
    BY <2>2, <2>3
<1> QED
  BY <1>1, <1>11, <1>15, <1>16, <1>17, <1>18, <1>19, <1>20, Zenon DEF D, E, LaidOut

\* Two packets with the same header and the same payload are the same packet.
LEMMA SamePacket ==
  ASSUME NEW b \in Seq(Bytes), NEW c \in Seq(Bytes), ~(Len(b) < HeaderLen), Len(b) = Len(c),
         b[1] = c[1], b[2] = c[2], b[3] = c[3], b[4] = c[4],
         RoomOf(b) = RoomOf(c), UserOf(b) = UserOf(c),
         Field(b, SeqAt, SeqLen) = Field(c, SeqAt, SeqLen),
         Field(b, LenAt, LenLen) = Field(c, LenAt, LenLen),
         PayloadOf(b) = PayloadOf(c)
  PROVE  b = c
<1> DEFINE Same(at, n) == \A i \in 1 .. n : b[at + i] = c[at + i]
           n5 == Len(b) - HeaderLen
<1>1. /\ HeaderLen \in Nat /\ n5 \in Nat /\ Len(b) \in Nat /\ ~(Len(c) < HeaderLen)
      /\ HeaderLen + n5 = Len(b) /\ n5 = Len(c) - HeaderLen
  BY Sizes
<1> HIDE DEF n5
<1>2. ASSUME NEW at \in Nat, NEW n \in Nat, at + n <= Len(b), Field(b, at, n) = Field(c, at, n)
      PROVE  Same(at, n)
  <2>1. \A i \in 1 .. n : Field(b, at, n)[i] = b[at + i]
    BY <1>2, FieldBytes
  <2>2. \A i \in 1 .. n : Field(c, at, n)[i] = c[at + i]
    BY <1>2, FieldBytes
  <2> QED
    BY <1>2, <2>1, <2>2, Zenon
<1>3. /\ RoomAt \in Nat /\ RoomLen \in Nat /\ RoomAt + RoomLen <= Len(b)
      /\ UserAt \in Nat /\ UserLen \in Nat /\ UserAt + UserLen <= Len(b)
      /\ SeqAt \in Nat /\ SeqLen \in Nat /\ SeqAt + SeqLen <= Len(b)
      /\ LenAt \in Nat /\ LenLen \in Nat /\ LenAt + LenLen <= Len(b)
      /\ HeaderLen + n5 <= Len(b)
  BY <1>1, Sizes
<1>4. Field(b, HeaderLen, n5) = Field(c, HeaderLen, n5)
  BY <1>1, PacketBytes DEF n5
<1> HIDE DEF Same
<1>5. Same(RoomAt, RoomLen) /\ Same(UserAt, UserLen)
  BY <1>2, <1>3, Zenon DEF RoomOf, UserOf
<1>6. Same(SeqAt, SeqLen) /\ Same(LenAt, LenLen)
  BY <1>2, <1>3, Zenon
<1>7. Same(HeaderLen, n5)
  BY <1>1, <1>2, <1>3, <1>4, Zenon
<1>8. ASSUME NEW i \in 1 .. Len(b) PROVE b[i] = c[i]
  <2> DEFINE Within(at, n) == i - at \in 1 .. n /\ at + (i - at) = i
  <2>1. \/ i = 1 \/ i = 2 \/ i = 3 \/ i = 4
        \/ Within(RoomAt, RoomLen) \/ Within(UserAt, UserLen) \/ Within(SeqAt, SeqLen)
        \/ Within(LenAt, LenLen) \/ Within(HeaderLen, n5)
    BY <1>1, Sizes
  <2>2. \A at, n : Same(at, n) /\ Within(at, n) => b[i] = c[i]
    BY Zenon DEF Same
  <2> HIDE DEF Within
  <2> QED
    BY <1>5, <1>6, <1>7, <2>1, <2>2
<1> QED
  BY <1>8

-----------------------------------------------------------------------------
(* The three writers make the same packet.                                  *)

\* The piece f stands in b behind the first at bytes.
Stands(b, at, f) == \A i \in 1 .. Len(f) : b[at + i] = f[i]

\* What stands in the first n bytes stays there when these are kept.
LEMMA StaysThere ==
  ASSUME NEW S, NEW f \in Seq(S), NEW at \in Nat, NEW n \in Nat, at + Len(f) <= n,
         NEW b, NEW c, \A i \in 1 .. n : c[i] = b[i], Stands(b, at, f)
  PROVE  Stands(c, at, f)
<1>1. \A i \in 1 .. Len(f) : at + i \in 1 .. n
  OBVIOUS
<1> QED
  BY <1>1, Zenon DEF Stands

\* A piece that is put into a buffer stands there, and nothing before it or in
\* the size of the buffer changes.
LEMMA PutIs ==
  ASSUME NEW buf \in Seq(Bytes), NEW at \in Nat, NEW piece \in Seq(Bytes),
         at + Len(piece) <= Len(buf)
  PROVE  /\ Put(buf, at, piece) \in Seq(Bytes)
         /\ Len(Put(buf, at, piece)) = Len(buf)
         /\ Stands(Put(buf, at, piece), at, piece)
         /\ \A i \in 1 .. at : Put(buf, at, piece)[i] = buf[i]
<1> DEFINE n == Len(buf)
           c == Put(buf, at, piece)
<1>1. DOMAIN buf = 1 .. n /\ n \in Nat /\ DOMAIN piece = 1 .. Len(piece) /\ Len(piece) \in Nat
  OBVIOUS
<1>2. c = [i \in 1 .. n |-> IF i - at \in 1 .. Len(piece) THEN piece[i - at] ELSE buf[i]]
  BY <1>1, Zenon DEF Put
<1>3. \A i \in 1 .. n : buf[i] \in Bytes
  OBVIOUS
<1>4. \A j \in 1 .. Len(piece) : piece[j] \in Bytes
  OBVIOUS
<1>5. c \in [1 .. n -> Bytes]
  BY <1>2, <1>3, <1>4, Zenon
<1>6. c \in Seq(Bytes) /\ Len(c) = n
  BY <1>1, <1>5, Enumerated
<1>7. \A i \in 1 .. Len(piece) : at + i \in 1 .. n /\ (at + i) - at = i
  BY <1>1
<1>8. \A i \in 1 .. at : i \in 1 .. n /\ i - at \notin 1 .. Len(piece)
  BY <1>1
<1> HIDE DEF c
<1>9. Stands(c, at, piece)
  BY <1>2, <1>7 DEF Stands
<1>10. \A i \in 1 .. at : c[i] = buf[i]
  BY <1>2, <1>8
<1> QED
  BY <1>6, <1>9, <1>10 DEF c, n

\* A buffer of zeros is one of bytes.
LEMMA BlankIs ==
  ASSUME NEW n \in Nat
  PROVE  Blank(n) \in Seq(Bytes) /\ Len(Blank(n)) = n
<1>1. 0 \in Bytes
  BY Digits DEF Bytes
<1>2. Blank(n) \in [1 .. n -> Bytes]
  BY <1>1 DEF Blank
<1> QED
  BY <1>2, Enumerated

\* Every part of the header stands at its offset.
HeaderStands(b, head, room, user, s, l) ==
  /\ Stands(b, 0, head) /\ Stands(b, RoomAt, room) /\ Stands(b, UserAt, user)
  /\ Stands(b, SeqAt, s) /\ Stands(b, LenAt, l)

\* The parts of a header, in their sizes.
HeaderParts(head, room, user, s, l) ==
  /\ head \in Seq(Bytes) /\ Len(head) = 4
  /\ room \in Seq(Bytes) /\ Len(room) = RoomLen
  /\ user \in Seq(Bytes) /\ Len(user) = UserLen
  /\ s \in Seq(Bytes) /\ Len(s) = SeqLen
  /\ l \in Seq(Bytes) /\ Len(l) = LenLen

\* A header that is put into a buffer part by part, front to back.
Filled(b0, head, room, user, s, l) ==
  LET b1 == Put(b0, 0, head)
      b2 == Put(b1, RoomAt, room)
      b3 == Put(b2, UserAt, user)
      b4 == Put(b3, SeqAt, s)
  IN  Put(b4, LenAt, l)

\* Then every part stands at its offset.
LEMMA PutHeader ==
  ASSUME NEW b0 \in Seq(Bytes), HeaderLen <= Len(b0),
         NEW head, NEW room, NEW user, NEW s, NEW l, HeaderParts(head, room, user, s, l)
  PROVE  /\ Filled(b0, head, room, user, s, l) \in Seq(Bytes)
         /\ Len(Filled(b0, head, room, user, s, l)) = Len(b0)
         /\ HeaderStands(Filled(b0, head, room, user, s, l), head, room, user, s, l)
<1> DEFINE b1 == Put(b0, 0, head)
           b2 == Put(b1, RoomAt, room)
           b3 == Put(b2, UserAt, user)
           b4 == Put(b3, SeqAt, s)
           b5 == Put(b4, LenAt, l)
<1>1. /\ head \in Seq(Bytes) /\ Len(head) = 4
      /\ room \in Seq(Bytes) /\ Len(room) = RoomLen
      /\ user \in Seq(Bytes) /\ Len(user) = UserLen
      /\ s \in Seq(Bytes) /\ Len(s) = SeqLen
      /\ l \in Seq(Bytes) /\ Len(l) = LenLen
  BY Zenon DEF HeaderParts
<1>2. /\ 0 \in Nat /\ RoomAt \in Nat /\ UserAt \in Nat /\ SeqAt \in Nat /\ LenAt \in Nat
      /\ 0 + Len(head) <= Len(b0) /\ RoomAt + Len(room) <= Len(b0)
      /\ UserAt + Len(user) <= Len(b0) /\ SeqAt + Len(s) <= Len(b0)
      /\ LenAt + Len(l) <= Len(b0)
  <2>1. Len(b0) \in Nat
    OBVIOUS
  <2> QED
    BY <1>1, <2>1, Sizes
<1>3. /\ 0 + Len(head) <= RoomAt /\ 0 + Len(head) <= UserAt /\ 0 + Len(head) <= SeqAt
      /\ 0 + Len(head) <= LenAt
      /\ RoomAt + Len(room) <= UserAt /\ RoomAt + Len(room) <= SeqAt
      /\ RoomAt + Len(room) <= LenAt
      /\ UserAt + Len(user) <= SeqAt /\ UserAt + Len(user) <= LenAt
      /\ SeqAt + Len(s) <= LenAt
  BY <1>1, Sizes
<1>p. ASSUME NEW b \in Seq(Bytes), NEW at \in Nat, NEW f \in Seq(Bytes), at + Len(f) <= Len(b)
      PROVE  /\ Put(b, at, f) \in Seq(Bytes) /\ Len(Put(b, at, f)) = Len(b)
             /\ Stands(Put(b, at, f), at, f)
             /\ \A i \in 1 .. at : Put(b, at, f)[i] = b[i]
  BY <1>p, PutIs
<1>s. ASSUME NEW f \in Seq(Bytes), NEW at \in Nat, NEW n \in Nat, at + Len(f) <= n,
             NEW b, NEW c, \A i \in 1 .. n : c[i] = b[i], Stands(b, at, f)
      PROVE  Stands(c, at, f)
  BY <1>s, StaysThere, Zenon
<1>4. /\ b1 \in Seq(Bytes) /\ Len(b1) = Len(b0) /\ Stands(b1, 0, head)
  BY <1>1, <1>2, <1>p, Zenon
<1> HIDE DEF b1
<1>5. /\ b2 \in Seq(Bytes) /\ Len(b2) = Len(b0) /\ Stands(b2, RoomAt, room)
      /\ \A i \in 1 .. RoomAt : b2[i] = b1[i]
  BY <1>1, <1>2, <1>4, <1>p, Zenon
<1> HIDE DEF b2
<1>6. /\ b3 \in Seq(Bytes) /\ Len(b3) = Len(b0) /\ Stands(b3, UserAt, user)
      /\ \A i \in 1 .. UserAt : b3[i] = b2[i]
  BY <1>1, <1>2, <1>5, <1>p, Zenon
<1> HIDE DEF b3
<1>7. /\ b4 \in Seq(Bytes) /\ Len(b4) = Len(b0) /\ Stands(b4, SeqAt, s)
      /\ \A i \in 1 .. SeqAt : b4[i] = b3[i]
  BY <1>1, <1>2, <1>6, <1>p, Zenon
<1> HIDE DEF b4
<1>8. /\ b5 \in Seq(Bytes) /\ Len(b5) = Len(b0) /\ Stands(b5, LenAt, l)
      /\ \A i \in 1 .. LenAt : b5[i] = b4[i]
  BY <1>1, <1>2, <1>7, <1>p, Zenon
<1> HIDE DEF b5
<1>9. Stands(b2, 0, head)
  BY <1>1, <1>2, <1>3, <1>4, <1>5, <1>s, Zenon
<1>10. Stands(b3, 0, head) /\ Stands(b3, RoomAt, room)
  BY <1>1, <1>2, <1>3, <1>5, <1>6, <1>9, <1>s, Zenon
<1>11. Stands(b4, 0, head) /\ Stands(b4, RoomAt, room) /\ Stands(b4, UserAt, user)
  BY <1>1, <1>2, <1>3, <1>6, <1>7, <1>10, <1>s, Zenon
<1>12. /\ Stands(b5, 0, head) /\ Stands(b5, RoomAt, room) /\ Stands(b5, UserAt, user)
       /\ Stands(b5, SeqAt, s)
  BY <1>1, <1>2, <1>3, <1>7, <1>8, <1>11, <1>s, Zenon
<1> QED
  BY <1>8, <1>12, Zenon DEF Filled, HeaderStands, b1, b2, b3, b4, b5

\* A header is kept with all its parts when what follows it is written.
LEMMA HeaderStays ==
  ASSUME NEW head, NEW room, NEW user, NEW s, NEW l, HeaderParts(head, room, user, s, l),
         NEW b, HeaderStands(b, head, room, user, s, l),
         NEW c, \A i \in 1 .. HeaderLen : c[i] = b[i]
  PROVE  HeaderStands(c, head, room, user, s, l)
<1>1. /\ head \in Seq(Bytes) /\ Len(head) = 4
      /\ room \in Seq(Bytes) /\ Len(room) = RoomLen
      /\ user \in Seq(Bytes) /\ Len(user) = UserLen
      /\ s \in Seq(Bytes) /\ Len(s) = SeqLen
      /\ l \in Seq(Bytes) /\ Len(l) = LenLen
  BY Zenon DEF HeaderParts
<1>2. /\ 0 \in Nat /\ RoomAt \in Nat /\ UserAt \in Nat /\ SeqAt \in Nat /\ LenAt \in Nat
      /\ HeaderLen \in Nat
      /\ 0 + Len(head) <= HeaderLen /\ RoomAt + Len(room) <= HeaderLen
      /\ UserAt + Len(user) <= HeaderLen /\ SeqAt + Len(s) <= HeaderLen
      /\ LenAt + Len(l) <= HeaderLen
  BY <1>1, Sizes
<1>3. /\ Stands(b, 0, head) /\ Stands(b, RoomAt, room) /\ Stands(b, UserAt, user)
      /\ Stands(b, SeqAt, s) /\ Stands(b, LenAt, l)
  BY Zenon DEF HeaderStands
<1>4. Stands(c, 0, head) /\ Stands(c, RoomAt, room) /\ Stands(c, UserAt, user)
  BY <1>1, <1>2, <1>3, StaysThere
<1>5. Stands(c, SeqAt, s) /\ Stands(c, LenAt, l)
  BY <1>1, <1>2, <1>3, StaysThere
<1> QED
  BY <1>4, <1>5, Zenon DEF HeaderStands

\* A packet with its parts at their offsets is laid out, and there is no other.
LEMMA StandingIsLaidOut ==
  ASSUME NEW version \in Bytes, NEW kind \in Bytes, NEW target \in Bytes, NEW seq \in Int,
         NEW payload \in Seq(Bytes), NEW room, NEW user,
         HeaderParts(<<version, kind, target, 0>>, room, user, ToBytes(seq, SeqLen),
                     ToBytes(Len(payload), LenLen)),
         NEW w \in Seq(Bytes), Len(w) = HeaderLen + Len(payload),
         HeaderStands(w, <<version, kind, target, 0>>, room, user, ToBytes(seq, SeqLen),
                      ToBytes(Len(payload), LenLen)),
         Stands(w, HeaderLen, payload)
  PROVE  LaidOut(w, version, kind, target, room, user, seq, payload)
<1> DEFINE head == <<version, kind, target, 0>>
           s == ToBytes(seq, SeqLen)
           l == ToBytes(Len(payload), LenLen)
<1>1. /\ room \in Seq(Bytes) /\ Len(room) = RoomLen
      /\ user \in Seq(Bytes) /\ Len(user) = UserLen
      /\ s \in Seq(Bytes) /\ Len(s) = SeqLen
      /\ l \in Seq(Bytes) /\ Len(l) = LenLen
  BY Zenon DEF HeaderParts
<1>2. /\ Stands(w, 0, head) /\ Stands(w, RoomAt, room) /\ Stands(w, UserAt, user)
      /\ Stands(w, SeqAt, s) /\ Stands(w, LenAt, l)
  BY Zenon DEF HeaderStands
<1> HIDE DEF s, l
<1>3. w[1] = version /\ w[2] = kind /\ w[3] = target /\ w[4] = 0
  <2>1. \A i \in 1 .. 4 : w[0 + i] = head[i]
    BY <1>2 DEF Stands
  <2> QED
    BY <2>1
<1>4. RoomAt \in Nat /\ UserAt \in Nat /\ SeqAt \in Nat /\ LenAt \in Nat /\ HeaderLen \in Nat
  BY Sizes
<1>5. RoomOf(w) = room
  BY <1>1, <1>2, <1>4, Piece DEF RoomOf, Stands
<1>6. UserOf(w) = user
  BY <1>1, <1>2, <1>4, Piece DEF UserOf, Stands
<1>7. Field(w, SeqAt, SeqLen) = s
  BY <1>1, <1>2, <1>4, Piece DEF Stands
<1>8. Field(w, LenAt, LenLen) = l
  BY <1>1, <1>2, <1>4, Piece DEF Stands
<1>9. Len(payload) \in Nat
  OBVIOUS
<1>10. Len(w) - HeaderLen = Len(payload) /\ ~(Len(w) < HeaderLen)
  BY <1>4, <1>9
<1>11. PayloadOf(w) = Field(w, HeaderLen, Len(payload))
  BY <1>10, PacketBytes
<1>12. Field(w, HeaderLen, Len(payload)) = payload
  BY <1>4, Piece DEF Stands
<1> QED
  BY <1>3, <1>5, <1>6, <1>7, <1>8, <1>11, <1>12, Zenon DEF LaidOut, s, l

\* Packets with the same parts are the same.
LEMMA OneLayout ==
  ASSUME NEW version, NEW kind, NEW target, NEW room, NEW user, NEW seq,
         NEW payload \in Seq(Bytes),
         NEW b, LaidOut(b, version, kind, target, room, user, seq, payload),
         NEW c, LaidOut(c, version, kind, target, room, user, seq, payload)
  PROVE  b = c
<1>1. /\ b \in Seq(Bytes) /\ c \in Seq(Bytes)
      /\ Len(b) = HeaderLen + Len(payload) /\ Len(b) = Len(c)
      /\ b[1] = c[1] /\ b[2] = c[2] /\ b[3] = c[3] /\ b[4] = c[4]
      /\ RoomOf(b) = RoomOf(c) /\ UserOf(b) = UserOf(c)
      /\ Field(b, SeqAt, SeqLen) = Field(c, SeqAt, SeqLen)
      /\ Field(b, LenAt, LenLen) = Field(c, LenAt, LenLen)
      /\ PayloadOf(b) = PayloadOf(c)
  BY Zenon DEF LaidOut
<1>2. Len(payload) \in Nat /\ HeaderLen \in Nat
  BY Sizes
<1>3. ~(Len(b) < HeaderLen)
  BY <1>1, <1>2
<1> QED
  BY <1>1, <1>3, SamePacket, Zenon

\* For fields of any size: a header buffer with the payload appended (lib.rs),
\* parts side by side (struct.pack) and writes to the offsets of one buffer
\* (DataView) are the same bytes.
THEOREM WritersAgree ==
  ASSUME NEW version \in Bytes, NEW kind \in Bytes, NEW target \in Bytes, NEW seq \in Int,
         NEW payload \in Seq(Bytes),
         NEW room \in Seq(Bytes), Len(room) = RoomLen,
         NEW user \in Seq(Bytes), Len(user) = UserLen
  PROVE  /\ RustWire(version, kind, target, room, user, seq, payload)
              = PythonWire(version, kind, target, room, user, seq, payload)
         /\ JsWire(version, kind, target, room, user, seq, payload)
              = PythonWire(version, kind, target, room, user, seq, payload)
<1> DEFINE head == <<version, kind, target, 0>>
           s == ToBytes(seq, SeqLen)
           l == ToBytes(Len(payload), LenLen)
           P == PythonWire(version, kind, target, room, user, seq, payload)
<1>1. Len(payload) \in Nat /\ HeaderLen \in Nat /\ HeaderLen + Len(payload) \in Nat
      /\ HeaderLen <= HeaderLen + Len(payload)
  BY Sizes
<1>2. HeaderParts(head, room, user, s, l)
  <2>1. head \in Seq(Bytes) /\ Len(head) = 4
    <3>1. 0 \in Bytes
      BY Digits DEF Bytes
    <3> QED
      BY <3>1
  <2>2. s \in Seq(Bytes) /\ Len(s) = SeqLen
    BY ToBytesIs, Sizes
  <2>3. l \in Seq(Bytes) /\ Len(l) = LenLen
    <3>1. Len(payload) \in Int
      OBVIOUS
    <3> QED
      BY <3>1, ToBytesIs, Sizes
  <2> QED
    BY <2>1, <2>2, <2>3, Zenon DEF HeaderParts
<1>3. LaidOut(P, version, kind, target, room, user, seq, payload)
  BY WireLayout, Zenon
<1>c. ASSUME NEW f \in Seq(Bytes), NEW g \in Seq(Bytes)
      PROVE  /\ f \o g \in Seq(Bytes) /\ Len(f \o g) = Len(f) + Len(g)
             /\ \A i \in 1 .. Len(f) : (f \o g)[i] = f[i]
             /\ \A i \in 1 .. Len(g) : (f \o g)[Len(f) + i] = g[i]
  BY Concatenation
<1> HIDE DEF P
<1>4. RustWire(version, kind, target, room, user, seq, payload) = P
  <2> DEFINE b0 == Blank(HeaderLen)
             b5 == Filled(b0, head, room, user, s, l)
             w == b5 \o payload
  <2>1. RustWire(version, kind, target, room, user, seq, payload) = w
    BY Zenon DEF RustWire, RustHeader, Filled
  <2>2. b0 \in Seq(Bytes) /\ Len(b0) = HeaderLen
    BY <1>1, BlankIs
  <2> HIDE DEF head, s, l, b0
  <2>3. b5 \in Seq(Bytes) /\ Len(b5) = HeaderLen /\ HeaderStands(b5, head, room, user, s, l)
    <3>1. HeaderLen <= Len(b0)
      BY <1>1, <2>2
    <3>2. /\ b5 \in Seq(Bytes) /\ Len(b5) = Len(b0)
          /\ HeaderStands(b5, head, room, user, s, l)
      BY <1>2, <2>2, <3>1, PutHeader
    <3> QED
      BY <2>2, <3>2
  <2> HIDE DEF b5
  <2>4. /\ w \in Seq(Bytes) /\ Len(w) = HeaderLen + Len(payload)
        /\ \A i \in 1 .. HeaderLen : w[i] = b5[i]
        /\ \A i \in 1 .. Len(payload) : w[HeaderLen + i] = payload[i]
    <3>1. /\ b5 \o payload \in Seq(Bytes) /\ Len(b5 \o payload) = Len(b5) + Len(payload)
          /\ \A i \in 1 .. Len(b5) : (b5 \o payload)[i] = b5[i]
          /\ \A i \in 1 .. Len(payload) : (b5 \o payload)[Len(b5) + i] = payload[i]
      BY <1>c, <2>3, Zenon
    <3> QED
      BY <2>3, <3>1, Zenon
  <2> HIDE DEF w
  <2>5. HeaderStands(w, head, room, user, s, l) /\ Stands(w, HeaderLen, payload)
    BY <1>2, <2>3, <2>4, HeaderStays, Zenon DEF Stands
  <2>6. LaidOut(w, version, kind, target, room, user, seq, payload)
    BY <1>2, <2>4, <2>5, StandingIsLaidOut, Zenon DEF head, s, l
  <2> QED
    BY <1>3, <2>1, <2>6, OneLayout, Zenon
<1>5. JsWire(version, kind, target, room, user, seq, payload) = P
  <2> DEFINE b0 == Blank(HeaderLen + Len(payload))
             b5 == Filled(b0, head, room, user, s, l)
             w == Put(b5, HeaderLen, payload)
  <2>1. JsWire(version, kind, target, room, user, seq, payload) = w
    BY Zenon DEF JsWire, Filled
  <2>2. b0 \in Seq(Bytes) /\ Len(b0) = HeaderLen + Len(payload)
    BY <1>1, BlankIs
  <2> HIDE DEF head, s, l, b0
  <2>3. /\ b5 \in Seq(Bytes) /\ Len(b5) = HeaderLen + Len(payload)
        /\ HeaderStands(b5, head, room, user, s, l)
    <3>1. HeaderLen <= Len(b0)
      BY <1>1, <2>2
    <3>2. /\ b5 \in Seq(Bytes) /\ Len(b5) = Len(b0)
          /\ HeaderStands(b5, head, room, user, s, l)
      BY <1>2, <2>2, <3>1, PutHeader
    <3> QED
      BY <2>2, <3>2
  <2> HIDE DEF b5
  <2>4. /\ w \in Seq(Bytes) /\ Len(w) = HeaderLen + Len(payload)
        /\ Stands(w, HeaderLen, payload)
        /\ \A i \in 1 .. HeaderLen : w[i] = b5[i]
    <3>1. HeaderLen + Len(payload) <= Len(b5)
      BY <1>1, <2>3
    <3> QED
      BY <1>1, <2>3, <3>1, PutIs, Zenon
  <2> HIDE DEF w
  <2>5. HeaderStands(w, head, room, user, s, l)
    BY <1>2, <2>3, <2>4, HeaderStays, Zenon
  <2>6. LaidOut(w, version, kind, target, room, user, seq, payload)
    BY <1>2, <2>4, <2>5, StandingIsLaidOut, Zenon DEF head, s, l
  <2> QED
    BY <1>3, <2>1, <2>6, OneLayout, Zenon
<1> QED
  BY <1>4, <1>5 DEF P

\* A packet that was taken apart and put together again is the packet.
LEMMA RelayIsThePacket ==
  ASSUME NEW b \in Seq(Bytes), ~(Len(b) < HeaderLen), Acceptable(b)
  PROVE  Relay(b) = b
<1> DEFINE s == Field(b, SeqAt, SeqLen)
           l == Field(b, LenAt, LenLen)
           version == b[1]
           kind == b[2]
           target == b[3]
           room == RoomOf(b)
           user == UserOf(b)
           payload == PayloadOf(b)
           seq == FromBytes(s)
           c == Relay(b)
<1>1. /\ version \in Bytes /\ kind \in Bytes /\ target \in Bytes
      /\ room \in Seq(Bytes) /\ Len(room) = RoomLen
      /\ user \in Seq(Bytes) /\ Len(user) = UserLen
      /\ s \in Seq(Bytes) /\ Len(s) = SeqLen
      /\ l \in Seq(Bytes) /\ Len(l) = LenLen
      /\ payload \in Seq(Bytes) /\ Len(payload) = Len(b) - HeaderLen
  BY PacketBytes
<1>2. b[4] = 0 /\ FromBytes(l) = Len(b) - HeaderLen
  BY DEF Acceptable, LengthMismatch
<1>3. c = RustWire(version, kind, target, room, user, seq, payload)
  BY Zenon DEF Relay
<1> HIDE DEF s, l, version, kind, target, room, user, payload, c
<1>4. seq \in Int
  BY <1>1, ByteIsNat, FromBytesIsInt
<1>5. ToBytes(seq, SeqLen) = s /\ ToBytes(Len(payload), LenLen) = l
  <2>1. ToBytes(FromBytes(s), Len(s)) = s /\ ToBytes(FromBytes(l), Len(l)) = l
    BY <1>1, BytesAreWritten
  <2> QED
    BY <1>1, <1>2, <2>1
<1> HIDE DEF seq
<1>6. /\ c \in Seq(Bytes) /\ Len(c) = HeaderLen + Len(payload)
      /\ c[1] = version /\ c[2] = kind /\ c[3] = target /\ c[4] = 0
      /\ RoomOf(c) = room /\ UserOf(c) = user
      /\ Field(c, SeqAt, SeqLen) = ToBytes(seq, SeqLen)
      /\ Field(c, LenAt, LenLen) = ToBytes(Len(payload), LenLen)
      /\ PayloadOf(c) = payload
  <2>1. LaidOut(PythonWire(version, kind, target, room, user, seq, payload),
                version, kind, target, room, user, seq, payload)
    BY <1>1, <1>4, WireLayout, Zenon
  <2>2. RustWire(version, kind, target, room, user, seq, payload)
          = PythonWire(version, kind, target, room, user, seq, payload)
    BY <1>1, <1>4, WritersAgree
  <2> QED
    BY <1>3, <2>1, <2>2, Zenon DEF LaidOut
<1>7. Len(b) = Len(c)
  <2>1. Len(b) \in Nat /\ HeaderLen \in Nat
    BY Sizes
  <2> QED
    BY <1>1, <1>6, <2>1
<1>8. b = c
  BY <1>2, <1>5, <1>6, <1>7, SamePacket, Zenon DEF s, l, version, kind, target, room, user, payload
<1> QED
  BY <1>8 DEF c

\* A name of ASCII characters is padded to a field of bytes.
LEMMA PadIsField ==
  ASSUME NEW s \in Seq(Nat), IsAscii(s), NEW n \in Nat
  PROVE  Pad(s, n) \in Seq(Bytes) /\ Len(Pad(s, n)) = n
<1>1. AsciiLimit \in 0 .. Base - 1 /\ Base \in Nat /\ 0 \in Bytes
  BY SizesAssumption DEF Bytes
<1>2. \A x \in Nat : x < AsciiLimit => x \in Bytes
  BY <1>1 DEF Bytes
<1>3. \A i \in DOMAIN s : s[i] \in Nat /\ s[i] < AsciiLimit
  BY DEF IsAscii
<1>4. \A i \in 1 .. n : i <= Len(s) => i \in DOMAIN s
  OBVIOUS
<1>5. \A i \in 1 .. n : (IF i <= Len(s) THEN s[i] ELSE 0) \in Bytes
  BY <1>1, <1>2, <1>3, <1>4, Zenon
<1>6. Pad(s, n) \in [1 .. n -> Bytes]
  BY <1>5, Zenon DEF Pad
<1> QED
  BY <1>6, Enumerated

\* A name without a zero passes the test of a field and is read as it is.
LEMMA PlainNameIsRead ==
  ASSUME NEW s \in Seq(Nat), NEW n \in Nat, JsPacks(s, n)
  PROVE  JsFieldValid(Pad(s, n)) /\ FieldStr(Pad(s, n)) = s
<1> DEFINE f == Pad(s, n)
           k == SelectInSeq(f, IsZero)
<1>1. /\ f \in Seq(Nat) /\ Len(f) = n /\ DOMAIN f = 1 .. n /\ Len(s) \in 0 .. n
      /\ \A i \in 1 .. Len(s) : f[i] = s[i]
      /\ \A i \in Len(s) + 1 .. n : f[i] = 0
  <2>1. f \in [1 .. n -> Nat]
    BY DEF Pad
  <2>2. f \in Seq(Nat) /\ Len(f) = n
    BY <2>1, Enumerated
  <2> QED
    BY <2>2 DEF Pad, JsPacks
<1>2. AsciiLimit \in Nat /\ \A i \in 1 .. Len(s) : s[i] \in 1 .. AsciiLimit - 1
  BY SizesAssumption DEF JsPacks
<1>3. \A i \in 1 .. Len(s) : f[i] < AsciiLimit /\ f[i] # 0
  <2>1. \A x \in 1 .. AsciiLimit - 1 : x < AsciiLimit /\ x # 0
    BY <1>2
  <2> HIDE DEF f
  <2> QED
    BY <1>1, <1>2, <2>1, Zenon
<1> HIDE DEF f
<1>4. CASE Len(s) < n
  <2>1. f[Len(s) + 1] = 0 /\ Contains(f, 0)
    BY <1>1, <1>4 DEF Contains
  <2>2. k \in 1 .. n /\ f[k] = 0 /\ \A i \in 1 .. k - 1 : f[i] # 0
    BY <1>1, <2>1, FirstZero
  <2>3. k = Len(s) + 1
    BY <1>1, <1>3, <1>4, <2>1, <2>2
  <2> HIDE DEF k
  <2>4. JsFieldValid(f)
    BY <1>1, <1>3, <2>3 DEF JsFieldValid, k
  <2>5. FieldStr(f) = SubSeq(f, 1, Len(s))
    BY <1>1, <2>1, <2>3 DEF FieldStr, k
  <2>6. SubSeq(f, 1, Len(s)) = s
    BY <1>1
  <2> QED
    BY <2>4, <2>5, <2>6 DEF f
<1>5. CASE Len(s) = n
  <2>1. \A i \in 1 .. n : f[i] # 0
    BY <1>3, <1>5
  <2>2. ~Contains(f, 0)
    BY <1>1, <2>1 DEF Contains
  <2>3. k = 0 /\ FieldStr(f) = f
    BY <1>1, <2>2, NoZero, TextEnd
  <2>4. JsFieldValid(f)
    BY <1>1, <1>3, <1>5, <2>3 DEF JsFieldValid
  <2>5. f = s
    BY <1>1, <1>5
  <2> QED
    BY <2>3, <2>4, <2>5 DEF f
<1> QED
  BY <1>1, <1>4, <1>5

\* A name is read up to its first zero, and passes the test of a field unless
\* it goes on behind it.
LEMMA PadIsRead ==
  ASSUME NEW s \in Seq(Nat), NEW n \in Nat, RustPacks(s, n)
  PROVE  (JsFieldValid(Pad(s, n)) <=> ~Hole(s)) /\ FieldStr(Pad(s, n)) = FieldStr(s)
<1>1. CASE ~Contains(s, 0)
  <2>1. ~Hole(s)
    BY <1>1, NoZero DEF Hole
  <2>2. FieldStr(s) = s
    BY <1>1, TextEnd
  <2>3. JsPacks(s, n)
    BY <1>1, PacksAgree
  <2> QED
    BY <2>1, <2>2, <2>3, PlainNameIsRead
<1>2. CASE Contains(s, 0)
  <2> DEFINE f == Pad(s, n)
             k == SelectInSeq(s, IsZero)
             kf == SelectInSeq(f, IsZero)
  <2>1. /\ f \in Seq(Nat) /\ Len(f) = n /\ Len(s) \in 0 .. n
        /\ \A i \in 1 .. Len(s) : f[i] = s[i]
        /\ \A i \in Len(s) + 1 .. n : f[i] = 0
    <3>1. f \in [1 .. n -> Nat]
      BY DEF Pad
    <3>2. f \in Seq(Nat) /\ Len(f) = n
      BY <3>1, Enumerated
    <3> QED
      BY <3>2 DEF Pad, RustPacks
  <2>2. k \in 1 .. Len(s) /\ s[k] = 0 /\ \A i \in 1 .. k - 1 : s[i] # 0
    BY <1>2, FirstZero
  <2> HIDE DEF f, k
  <2>3. k \in 1 .. n /\ f[k] = 0 /\ \A i \in 1 .. k - 1 : i \in 1 .. Len(s) /\ f[i] # 0
    BY <2>1, <2>2
  <2>4. Contains(f, 0)
    BY <2>1, <2>3 DEF Contains
  <2>5. kf \in 1 .. n /\ f[kf] = 0 /\ \A i \in 1 .. kf - 1 : f[i] # 0
    BY <2>1, <2>4, FirstZero
  <2>6. kf = k
    BY <2>3, <2>5
  <2>7. FieldStr(f) = SubSeq(f, 1, k - 1) /\ FieldStr(s) = SubSeq(s, 1, k - 1)
    BY <1>2, <2>4, <2>6, Zenon DEF FieldStr, k
  <2>8. SubSeq(f, 1, k - 1) = SubSeq(s, 1, k - 1)
    BY <2>1, <2>2
  <2>9. JsFieldValid(f) <=> /\ \A i \in 1 .. k - 1 : f[i] < AsciiLimit /\ f[i] # 0
                            /\ \A i \in k .. n : f[i] = 0
    <3>1. kf # 0 /\ (k - 1) + 1 = k /\ Len(f) = n
      BY <2>1, <2>3, <2>5
    <3> HIDE DEF kf
    <3> QED
      BY <2>6, <3>1 DEF JsFieldValid, kf
  <2>10. \A i \in 1 .. k - 1 : f[i] < AsciiLimit /\ f[i] # 0
    <3>1. \A i \in 1 .. Len(s) : s[i] < AsciiLimit
      BY DEF RustPacks, IsAscii
    <3> QED
      BY <2>1, <2>3, <3>1, Zenon
  <2>11. Hole(s) <=> \E j \in k .. Len(s) : s[j] # 0
    <3>1. ASSUME NEW i \in 1 .. Len(s), NEW j \in 1 .. Len(s), i < j, s[i] = 0
          PROVE  j \in k .. Len(s)
      <4>1. ~(i \in 1 .. k - 1)
        BY <2>2, <3>1
      <4> QED
        BY <2>2, <3>1, <4>1
    <3>2. ASSUME NEW j \in k .. Len(s), s[j] # 0 PROVE k < j /\ j \in 1 .. Len(s)
      BY <2>2, <3>2
    <3>3. DOMAIN s = 1 .. Len(s)
      OBVIOUS
    <3> QED
      BY <2>2, <3>1, <3>2, <3>3, Zenon DEF Hole
  <2>12. (\A i \in k .. n : f[i] = 0) <=> \A j \in k .. Len(s) : s[j] = 0
    <3>1. \A i \in k .. n : i \in k .. Len(s) \/ i \in Len(s) + 1 .. n
      BY <2>1, <2>2
    <3>2. \A i \in k .. Len(s) : i \in 1 .. Len(s) /\ i \in k .. n
      BY <2>1, <2>2
    <3> QED
      BY <2>1, <3>1, <3>2, Zenon
  <2> QED
    BY <2>7, <2>8, <2>9, <2>10, <2>11, <2>12, Zenon DEF f
<1> QED
  BY <1>1, <1>2

-----------------------------------------------------------------------------
(* Messages and packets.                                                    *)

\* A message is a record of integers, names and bytes.
LEMMA Inputs ==
  ASSUME NEW m \in Messages
  PROVE  /\ m.version \in Int /\ m.kind \in Int /\ m.target \in Int /\ m.seq \in Int
         /\ m.room \in Seq(Nat) /\ m.user \in Seq(Nat) /\ m.payload \in Seq(Bytes)
         /\ m = [version |-> m.version, kind |-> m.kind, target |-> m.target, room |-> m.room,
                 user |-> m.user, seq |-> m.seq, payload |-> m.payload]
<1>1. m \in [version : Int, kind : Int, target : Int, room : Seq(Nat), user : Seq(Nat),
             seq : Int, payload : Seq(Bytes)]
  BY InputsAssumption, Zenon DEF Bytes
<1> HIDE DEF Bytes
<1> QED
  BY <1>1

\* The greatest numbers of the fields are integers.
LEMMA MaxOfIsInt ==
  ASSUME NEW k \in Nat
  PROVE  MaxOf(k) \in Int
<1>1. [i \in 1 .. k |-> Base - 1] \in [1 .. k -> Int]
  BY SizesAssumption
<1>2. [i \in 1 .. k |-> Base - 1] \in Seq(Int)
  BY <1>1, Enumerated
<1> QED
  BY <1>2, FromBytesIsInt, Zenon DEF MaxOf

\* A name that ws_handler admits can be packed: by the crate, and by the SDKs
\* unless it has a zero inside.
LEMMA AdmittedCanBePacked ==
  ASSUME NEW m \in Messages, Admits(m.room, m.user)
  PROVE  /\ RustPacks(m.room, RoomLen) /\ RustPacks(m.user, UserLen)
         /\ IsAscii(m.room) /\ IsAscii(m.user)
         /\ JsPacks(m.room, RoomLen) \/ Contains(m.room, 0)
         /\ JsPacks(m.user, UserLen) \/ Contains(m.user, 0)
<1>1. /\ RustPacks(m.room, RoomLen) /\ RustPacks(m.user, UserLen)
      /\ IsAscii(m.room) /\ IsAscii(m.user)
  BY DEF Admits, RustPacks
<1> QED
  BY <1>1, Inputs, PacksAgree

\* The crate and the SDKs blame names by different tests.
Blamed(o, e, m) ==
  IF o = "rust" THEN BlamesRightly(e, m, RustPacks(m.room, RoomLen), RustPacks(m.user, UserLen))
  ELSE BlamesRightly(e, m, JsPacks(m.room, RoomLen), JsPacks(m.user, UserLen))

\* What any encoder accepts.
Sendable(m) == RustTypes(m) /\ RustEncodable(m)

\* The parts of a message that can be sent.
LEMMA SendableParts ==
  ASSUME NEW m \in Messages, Sendable(m)
  PROVE  /\ m.version \in Bytes /\ m.kind \in Bytes /\ m.target \in Bytes
         /\ m.seq \in Int /\ m.payload \in Seq(Bytes)
         /\ Pad(m.room, RoomLen) \in Seq(Bytes) /\ Len(Pad(m.room, RoomLen)) = RoomLen
         /\ Pad(m.user, UserLen) \in Seq(Bytes) /\ Len(Pad(m.user, UserLen)) = UserLen
<1>1. m.version \in Bytes /\ m.kind \in Bytes /\ m.target \in Bytes
  BY SizesAssumption DEF Sendable, RustTypes, ProtocolVersion, PacketTypes, TargetTypes, Bytes
<1>2. IsAscii(m.room) /\ IsAscii(m.user)
  BY DEF Sendable, RustEncodable, RustPacks
<1>3. /\ Pad(m.room, RoomLen) \in Seq(Bytes) /\ Len(Pad(m.room, RoomLen)) = RoomLen
      /\ Pad(m.user, UserLen) \in Seq(Bytes) /\ Len(Pad(m.user, UserLen)) = UserLen
  BY <1>2, Inputs, PadIsField, Sizes
<1>4. m.seq \in Int /\ m.payload \in Seq(Bytes)
  BY Inputs
<1> QED
  BY <1>1, <1>3, <1>4

\* The encoders make the same packet of it.
LEMMA PacketsAgree ==
  ASSUME NEW m \in Messages, Sendable(m)
  PROVE  RustPacket(m) = PythonPacket(m) /\ JsPacket(m) = PythonPacket(m)
<1> DEFINE room == Pad(m.room, RoomLen)
           user == Pad(m.user, UserLen)
<1>1. /\ m.version \in Bytes /\ m.kind \in Bytes /\ m.target \in Bytes
      /\ m.seq \in Int /\ m.payload \in Seq(Bytes)
      /\ room \in Seq(Bytes) /\ Len(room) = RoomLen
      /\ user \in Seq(Bytes) /\ Len(user) = UserLen
  BY SendableParts
<1> HIDE DEF room, user
<1>2. /\ RustWire(m.version, m.kind, m.target, room, user, m.seq, m.payload)
           = PythonWire(m.version, m.kind, m.target, room, user, m.seq, m.payload)
      /\ JsWire(m.version, m.kind, m.target, room, user, m.seq, m.payload)
           = PythonWire(m.version, m.kind, m.target, room, user, m.seq, m.payload)
  BY <1>1, WritersAgree
<1> QED
  BY <1>2, Zenon DEF RustPacket, PythonPacket, JsPacket, room, user

\* What an encoder makes of a message.
LEMMA EncodeSays ==
  ASSUME NEW o \in Origins, NEW m \in Messages, o = "rust" => RustTypes(m)
  PROVE  \/ Encode(o, m) = PythonPacket(m) /\ Sendable(m)
         \/ \E e : Encode(o, m) = Error(e) /\ Blamed(o, e, m)
<1>1. m.room \in Seq(Nat) /\ m.user \in Seq(Nat)
  BY Inputs
<1>2. RustSays(m) /\ PythonSays(m) /\ JsSays(m)
  BY <1>1, RustEncodeSays, PythonEncodeSays, JsEncodeSays
<1>3. SdkEncodable(m) => Sendable(m)
  BY <1>1, PacksAgree, Zenon DEF SdkEncodable, RustEncodable, Sendable, RustTypes
<1>4. \/ Encode(o, m) = RustEncode(m) /\ o = "rust"
      \/ Encode(o, m) = PythonEncode(m) /\ o # "rust"
      \/ Encode(o, m) = JsEncode(m) /\ o # "rust"
  BY OriginsAssumption DEF Encode
<1>5. Sendable(m) => RustPacket(m) = PythonPacket(m) /\ JsPacket(m) = PythonPacket(m)
  BY PacketsAgree
<1> QED
  BY <1>2, <1>3, <1>4, <1>5, Zenon DEF SaysOf, RustSays, PythonSays, JsSays, Sendable, Blamed

\* The encoders agree on every message.
LEMMA EncodersAgreeOn ==
  ASSUME NEW m \in Messages
  PROVE  /\ PythonEncode(m).ok = JsEncode(m).ok
         /\ JsEncode(m).ok => PythonEncode(m) = JsEncode(m) /\ RustEncode(m) = JsEncode(m)
<1>1. m.room \in Seq(Nat) /\ m.user \in Seq(Nat)
  BY Inputs
<1>2. RustSays(m) /\ PythonSays(m) /\ JsSays(m)
  BY <1>1, RustEncodeSays, PythonEncodeSays, JsEncodeSays
<1>3. \A e : Error(e).ok = FALSE
  BY DEF Error
<1>4. CASE SdkEncodable(m)
  <2>1. Sendable(m)
    BY <1>1, <1>4, PacksAgree, Zenon DEF SdkEncodable, RustEncodable, Sendable, RustTypes
  <2>2. RustPacket(m) = PythonPacket(m) /\ JsPacket(m) = PythonPacket(m)
    BY <2>1, PacketsAgree
  <2> QED
    BY <1>2, <1>4, <2>1, <2>2, Zenon DEF SaysOf, RustSays, PythonSays, JsSays, Sendable
<1>5. CASE ~SdkEncodable(m)
  <2>1. PythonEncode(m).ok = FALSE /\ JsEncode(m).ok = FALSE
    BY <1>2, <1>3, <1>5, Zenon DEF SaysOf, PythonSays, JsSays
  <2> QED
    BY <2>1
<1> QED
  BY <1>4, <1>5

\* Where the parts of a message are in its packet.
LEMMA PacketIsLaidOut ==
  ASSUME NEW m \in Messages, Sendable(m)
  PROVE  LaidOut(PythonPacket(m).bytes, m.version, m.kind, m.target, Pad(m.room, RoomLen),
                 Pad(m.user, UserLen), m.seq, m.payload)
<1> DEFINE room == Pad(m.room, RoomLen)
           user == Pad(m.user, UserLen)
<1>1. /\ m.version \in Bytes /\ m.kind \in Bytes /\ m.target \in Bytes
      /\ m.seq \in Int /\ m.payload \in Seq(Bytes)
      /\ room \in Seq(Bytes) /\ Len(room) = RoomLen
      /\ user \in Seq(Bytes) /\ Len(user) = UserLen
  BY SendableParts
<1>2. PythonPacket(m).bytes = PythonWire(m.version, m.kind, m.target, room, user, m.seq, m.payload)
  BY DEF PythonPacket
<1> HIDE DEF room, user
<1>3. LaidOut(PythonWire(m.version, m.kind, m.target, room, user, m.seq, m.payload),
              m.version, m.kind, m.target, room, user, m.seq, m.payload)
  BY <1>1, WireLayout, Zenon
<1> QED
  BY <1>2, <1>3, Zenon DEF room, user

\* A packet is bytes with a whole header; every decoder accepts it if no name
\* has a hole, and what it reads is the message, up to zeros in the names.
LEMMA PacketIsRead ==
  ASSUME NEW m \in Messages, Sendable(m), NEW b, b = PythonPacket(m).bytes
  PROVE  /\ b \in Seq(Bytes) /\ ~(Len(b) < HeaderLen)
         /\ Acceptable(b) <=> ~Hole(m.room) /\ ~Hole(m.user)
         /\ Decoded(b).msg = AsRead(m)
<1>1. LaidOut(b, m.version, m.kind, m.target, Pad(m.room, RoomLen), Pad(m.user, UserLen),
              m.seq, m.payload)
  BY PacketIsLaidOut, Zenon
<1>2. /\ b \in Seq(Bytes) /\ Len(b) = HeaderLen + Len(m.payload)
      /\ b[1] = m.version /\ b[2] = m.kind /\ b[3] = m.target /\ b[4] = 0
      /\ RoomOf(b) = Pad(m.room, RoomLen) /\ UserOf(b) = Pad(m.user, UserLen)
      /\ Field(b, SeqAt, SeqLen) = ToBytes(m.seq, SeqLen)
      /\ Field(b, LenAt, LenLen) = ToBytes(Len(m.payload), LenLen)
      /\ PayloadOf(b) = m.payload
  BY <1>1, Zenon DEF LaidOut
<1>3. Len(m.payload) \in Nat /\ HeaderLen \in Nat
  <2>1. Len(m.payload) \in Nat
    BY Inputs
  <2> QED
    BY <2>1, Sizes
<1>4. ~(Len(b) < HeaderLen) /\ Len(b) - HeaderLen = Len(m.payload)
  BY <1>2, <1>3
<1>5. FromBytes(Field(b, SeqAt, SeqLen)) = m.seq
  <2>1. m.seq \in 0 .. MaxOf(SeqLen) /\ SeqLen \in Nat
    BY Sizes DEF Sendable, RustTypes, MaxSeq
  <2> QED
    BY <1>2, <2>1, NumberIsRead
<1>6. ~LengthMismatch(b)
  <2>1. LenLen \in Nat /\ MaxOf(LenLen) \in Int
    BY Sizes, MaxOfIsInt
  <2>2. ~(Len(m.payload) > MaxOf(LenLen))
    BY Zenon DEF Sendable, RustEncodable, MaxPayload
  <2>3. Len(m.payload) \in 0 .. MaxOf(LenLen)
    BY <1>3, <2>1, <2>2
  <2>4. FromBytes(ToBytes(Len(m.payload), LenLen)) = Len(m.payload)
    BY <2>1, <2>3, NumberIsRead
  <2> QED
    BY <1>2, <1>4, <2>4, Zenon DEF LengthMismatch
<1>7. /\ (JsFieldValid(RoomOf(b)) <=> ~Hole(m.room)) /\ FieldStr(RoomOf(b)) = FieldStr(m.room)
      /\ (JsFieldValid(UserOf(b)) <=> ~Hole(m.user)) /\ FieldStr(UserOf(b)) = FieldStr(m.user)
  <2>1. RustPacks(m.room, RoomLen) /\ RustPacks(m.user, UserLen)
    BY Zenon DEF Sendable, RustEncodable
  <2> QED
    BY <1>2, <2>1, Inputs, PadIsRead, Sizes
<1>8. Acceptable(b) <=> ~Hole(m.room) /\ ~Hole(m.user)
  BY <1>2, <1>6, <1>7, Zenon DEF Acceptable, Sendable, RustTypes
<1>9. Decoded(b).msg = [version |-> m.version, kind |-> m.kind, target |-> m.target,
                        room |-> FieldStr(m.room), user |-> FieldStr(m.user), seq |-> m.seq,
                        payload |-> m.payload]
  BY <1>2, <1>5, <1>7 DEF Decoded
<1>10. AsRead(m) = [version |-> m.version, kind |-> m.kind, target |-> m.target,
                    room |-> FieldStr(m.room), user |-> FieldStr(m.user), seq |-> m.seq,
                    payload |-> m.payload]
  <2>1. m \in [version : Int, kind : Int, target : Int, room : Seq(Nat), user : Seq(Nat),
               seq : Int, payload : Seq(Bytes)]
    BY InputsAssumption, Zenon DEF Bytes
  <2>2. AsRead(m) = [[m EXCEPT !.room = FieldStr(m.room)] EXCEPT !.user = FieldStr(m.user)]
    BY <2>1 DEF AsRead
  <2> DEFINE n == [m EXCEPT !.room = FieldStr(m.room)]
  <2>3. n = [version |-> m.version, kind |-> m.kind, target |-> m.target,
             room |-> FieldStr(m.room), user |-> m.user, seq |-> m.seq, payload |-> m.payload]
    BY <2>1
  <2> HIDE DEF n
  <2>4. [n EXCEPT !.user = FieldStr(m.user)]
           = [version |-> m.version, kind |-> m.kind, target |-> m.target,
              room |-> FieldStr(m.room), user |-> FieldStr(m.user), seq |-> m.seq,
              payload |-> m.payload]
    BY <2>3
  <2> QED
    BY <2>2, <2>4 DEF n
<1> QED
  BY <1>2, <1>4, <1>8, <1>9, <1>10

\* A decoder reads the packet if it is acceptable, and else says what is wrong.
LEMMA DecodeSays ==
  ASSUME NEW b \in Seq(Bytes), NEW r, r \in {RustDecode(b), PythonDecode(b), JsDecode(b)}
  PROVE  \/ ~(Len(b) < HeaderLen) /\ Acceptable(b) /\ r = Decoded(b)
         \/ (Len(b) < HeaderLen \/ ~Acceptable(b)) /\ \E e : r = Error(e)
<1>1. CASE Len(b) < HeaderLen
  BY <1>1, Zenon DEF RustDecode, PythonDecode, JsDecode
<1>2. CASE ~(Len(b) < HeaderLen)
  <2>1. RoomOf(b) \in Seq(Nat) /\ UserOf(b) \in Seq(Nat)
    BY <1>2, FieldOfNaturals
  <2>2. Says(r, b)
    BY <1>2, <2>1, RustDecodeSays, JsDecodeSays, PythonDecodesAsJs, Zenon
  <2> QED
    BY <1>2, <2>2, Zenon DEF Says
<1> QED
  BY <1>1, <1>2

-----------------------------------------------------------------------------
(* The way of a packet.                                                     *)

Holed == Hole(msg.room) \/ Hole(msg.user)

\* A name that ws_handler admits is refused only by an SDK, for a zero in it.
RefusedRightly ==
  Admits(msg.room, msg.user) /\ result.error \in {"room id", "user id", "UnicodeEncodeError"} =>
    origin # "rust" /\ (Contains(msg.room, 0) \/ Contains(msg.user, 0))

OnItsWay == stage \in {"wire", "dropped", "relayed", "received"}

\* Where a message is, and that it arrives.
Sent ==
  /\ msg \in Messages
  /\ \/ stage = "refused" /\ RefusedRightly
     \/ OnItsWay /\ Sendable(msg) /\ bytes = PythonPacket(msg).bytes
  /\ stage = "dropped" => Holed
  /\ stage \in {"relayed", "received"} => ~Holed /\ result.ok /\ result.msg = AsRead(msg)

PInv ==
  /\ stage \in Stages
  /\ origin \in Origins \cup {"none", "stranger"}
  /\ msg \in Messages \cup {<<>>}
  /\ bytes \in Seq(Bytes)
  /\ result.ok \in BOOLEAN
  /\ stage = "start" => origin = "none"
  /\ origin \in Origins => Sent

\* A stranger is no SDK, and nobody is not one either.
LEMMA NotOrigins == "none" \notin Origins /\ "stranger" \notin Origins
BY OriginsAssumption

\* The first stage and a refusal are none of those of a packet on its way.
LEMMA StageNames ==
  /\ "start" \notin {"wire", "dropped", "relayed", "received"}
  /\ "refused" \notin {"wire", "dropped", "relayed", "received"}
OBVIOUS

\* What a result is.
LEMMA ResultKinds ==
  /\ \A m : PythonPacket(m).ok = TRUE
  /\ \A b : Decoded(b).ok = TRUE
  /\ \A e : Error(e).ok = FALSE /\ Error(e).error = e
BY DEF PythonPacket, Decoded, Error

\* Nothing was sent yet.
LEMMA InitPInv == Init => PInv
<1> SUFFICES ASSUME Init PROVE PInv
  OBVIOUS
<1>1. /\ stage \in Stages /\ stage = "start" /\ origin = "none" /\ origin \notin Origins
      /\ msg = <<>> /\ bytes \in Seq(Bytes)
  BY NotOrigins DEF Init, Stages
<1>2. result.ok \in BOOLEAN
  BY ResultKinds DEF Init
<1> QED
  BY <1>1, <1>2, Zenon DEF PInv

\* What an encoder makes is the packet of the message it was given.
LEMMA SendKeeps ==
  ASSUME PInv, NEW o \in Origins, Send(o)
  PROVE  PInv'
<1>1. PICK m \in Messages : (o = "rust" => RustTypes(m)) /\ msg' = m /\ result' = Encode(o, m)
  BY Zenon DEF Send
<1>2. /\ origin' = o
      /\ result'.ok => stage' = "wire" /\ bytes' = result'.bytes
      /\ ~result'.ok => stage' = "refused" /\ bytes' = bytes
  BY Zenon DEF Send
<1>3. CASE Encode(o, m) = PythonPacket(m) /\ Sendable(m)
  <2>1. result'.ok = TRUE /\ stage' = "wire" /\ bytes' = PythonPacket(m).bytes
    BY <1>1, <1>2, <1>3, ResultKinds
  <2>2. bytes' \in Seq(Bytes)
    BY <1>3, <2>1, PacketIsRead
  <2>3. OnItsWay' /\ stage' \in Stages /\ stage' \notin {"start", "dropped", "relayed", "received"}
    BY <2>1 DEF OnItsWay, Stages
  <2>4. Sent'
    BY <1>1, <1>3, <2>1, <2>3, Zenon DEF Sent
  <2> QED
    BY <1>1, <1>2, <2>1, <2>2, <2>3, <2>4, Zenon DEF PInv
<1>4. CASE \E e : Encode(o, m) = Error(e) /\ Blamed(o, e, m)
  <2>1. PICK e : Encode(o, m) = Error(e) /\ Blamed(o, e, m)
    BY <1>4
  <2>2. result'.ok = FALSE /\ result'.error = e /\ stage' = "refused" /\ bytes' = bytes
    BY <1>1, <1>2, <2>1, ResultKinds
  <2>3. ASSUME Admits(m.room, m.user), e \in {"room id", "user id", "UnicodeEncodeError"}
        PROVE  o # "rust" /\ (Contains(m.room, 0) \/ Contains(m.user, 0))
    <3>1. e = "room id" \/ e = "user id" \/ e = "UnicodeEncodeError"
      BY <2>3
    <3> QED
      BY <2>1, <2>3, <3>1, AdmittedCanBePacked, Zenon DEF Blamed, BlamesRightly
  <2>4. stage' \in Stages /\ stage' \notin {"start", "dropped", "relayed", "received"}
    BY <2>2 DEF Stages
  <2>5. RefusedRightly'
    BY <1>1, <1>2, <2>2, <2>3, Zenon DEF RefusedRightly
  <2>6. Sent'
    BY <1>1, <2>2, <2>4, <2>5, Zenon DEF Sent
  <2> QED
    BY <1>1, <1>2, <2>2, <2>4, <2>6, Zenon DEF PInv
<1> QED
  BY <1>1, <1>3, <1>4, EncodeSays

\* Of a stranger's bytes nothing is claimed.
LEMMA InjectKeeps ==
  ASSUME PInv, Inject
  PROVE  PInv'
<1>1. bytes' \in Seq(Bytes) /\ origin' = "stranger" /\ stage' = "wire"
      /\ msg' = msg /\ result' = result
  BY InputsAssumption DEF Inject, Bytes
<1>2. origin' \notin Origins /\ stage' \in Stages /\ stage' # "start"
  BY <1>1, NotOrigins DEF Stages
<1> QED
  BY <1>1, <1>2, Zenon DEF PInv

\* The packet of a message on its way is acceptable unless a name has a hole,
\* and is read as the message.
LEMMA SentIsDecoded ==
  ASSUME PInv, origin \in Origins, OnItsWay
  PROVE  /\ ~(Len(bytes) < HeaderLen) /\ (Acceptable(bytes) <=> ~Holed)
         /\ Decoded(bytes).msg = AsRead(msg)
<1>1. msg \in Messages /\ Sendable(msg) /\ bytes = PythonPacket(msg).bytes
  BY StageNames, Zenon DEF PInv, Sent, OnItsWay
<1> QED
  BY <1>1, PacketIsRead, Zenon DEF Holed

\* dispatch encodes the decoded header again and gets the packet it decoded.
LEMMA GatewayIsTransparent ==
  ASSUME PInv, Gateway
  PROVE  bytes' = bytes
<1>1. /\ result' = RustDecode(bytes) /\ bytes \in Seq(Bytes)
      /\ bytes' = bytes \/ (result'.ok /\ bytes' = Relay(bytes))
  BY Zenon DEF Gateway, PInv
<1>2. CASE result'.ok
  <2>1. ~(Len(bytes) < HeaderLen) /\ Acceptable(bytes)
    BY <1>1, <1>2, DecodeSays, ResultKinds
  <2> QED
    BY <1>1, <2>1, RelayIsThePacket
<1> QED
  BY <1>1, <1>2

\* A decoding step moves a packet on: it is read as it was sent, or dropped.
LEMMA DecodingKeeps ==
  ASSUME PInv, OnItsWay, UNCHANGED <<origin, msg, bytes>>,
         result' \in {RustDecode(bytes), PythonDecode(bytes), JsDecode(bytes)},
         OnItsWay', stage' \in Stages, stage' = "dropped" => ~result'.ok,
         stage' \in {"relayed", "received"} => result'.ok \/ (origin \in Origins => ~Holed)
  PROVE  PInv'
<1>1. bytes \in Seq(Bytes) /\ origin' = origin /\ msg' = msg /\ bytes' = bytes
  BY Zenon DEF PInv
<1>2. \/ ~(Len(bytes) < HeaderLen) /\ Acceptable(bytes) /\ result' = Decoded(bytes)
      \/ (Len(bytes) < HeaderLen \/ ~Acceptable(bytes)) /\ \E e : result' = Error(e)
  <2>1. ASSUME NEW r, r \in {RustDecode(bytes), PythonDecode(bytes), JsDecode(bytes)}
        PROVE  \/ ~(Len(bytes) < HeaderLen) /\ Acceptable(bytes) /\ r = Decoded(bytes)
               \/ (Len(bytes) < HeaderLen \/ ~Acceptable(bytes)) /\ \E e : r = Error(e)
    BY <1>1, <2>1, DecodeSays
  <2> QED
    BY <2>1, Zenon
<1>3. result'.ok \in BOOLEAN
  BY <1>2, ResultKinds
<1>4. stage' # "start" /\ stage # "refused" /\ stage' # "refused"
  BY StageNames DEF OnItsWay
<1>5. ASSUME origin \in Origins PROVE Sent'
  <2>1. msg \in Messages /\ Sendable(msg) /\ bytes = PythonPacket(msg).bytes
    BY <1>4, <1>5, Zenon DEF PInv, Sent
  <2>2. IF Holed THEN ~result'.ok ELSE result'.ok /\ result'.msg = AsRead(msg)
    <3>1. /\ ~(Len(bytes) < HeaderLen) /\ (Acceptable(bytes) <=> ~Holed)
          /\ Decoded(bytes).msg = AsRead(msg)
      BY <1>5, SentIsDecoded
    <3>2. CASE Holed
      BY <1>2, <3>1, <3>2, ResultKinds
    <3>3. CASE ~Holed
      BY <1>2, <3>1, <3>3, ResultKinds
    <3> QED
      BY <3>2, <3>3
  <2>3. Holed' <=> Holed
    BY <1>1, Zenon DEF Holed
  <2>4. AsRead(msg') = AsRead(msg)
    BY <1>1, Zenon
  <2> QED
    BY <1>1, <1>5, <2>1, <2>2, <2>3, <2>4, Zenon DEF Sent
<1> QED
  BY <1>1, <1>3, <1>4, <1>5, Zenon DEF PInv

\* The gateway forwards or drops.
LEMMA GatewayKeeps ==
  ASSUME PInv, Gateway
  PROVE  PInv'
<1>1. /\ stage = "wire" /\ result' = RustDecode(bytes) /\ UNCHANGED <<origin, msg>>
      /\ result'.ok => stage' = "relayed"
      /\ ~result'.ok => stage' = "dropped"
  BY Zenon DEF Gateway
<1>2. bytes' = bytes
  BY GatewayIsTransparent
<1>3. OnItsWay /\ OnItsWay' /\ stage' \in Stages /\ (stage' = "dropped" => ~result'.ok)
      /\ (stage' \in {"relayed", "received"} => result'.ok)
  BY <1>1 DEF OnItsWay, Stages
<1> QED
  BY <1>1, <1>2, <1>3, DecodingKeeps

\* The decoders of the SDKs read what was relayed.
LEMMA ReceiveKeeps ==
  ASSUME PInv, Receive
  PROVE  PInv'
<1>1. /\ stage = "relayed" /\ stage' = "received" /\ UNCHANGED <<origin, msg, bytes>>
      /\ result' = JsDecode(bytes) \/ result' = PythonDecode(bytes)
  BY Zenon DEF Receive
<1>2. OnItsWay /\ OnItsWay' /\ stage' \in Stages /\ stage' # "dropped"
  BY <1>1 DEF OnItsWay, Stages
<1>3. origin \in Origins => ~Holed
  BY <1>1, Zenon DEF PInv, Sent
<1> QED
  BY <1>1, <1>2, <1>3, DecodingKeeps

\* Every step keeps the invariant.
LEMMA NextPInv == PInv /\ [Next]_vars => PInv'
<1> SUFFICES ASSUME PInv, [Next]_vars PROVE PInv'
  OBVIOUS
<1>1. CASE \E o \in Origins : Send(o)
  BY <1>1, SendKeeps
<1>2. CASE Inject
  BY <1>2, InjectKeeps
<1>3. CASE Gateway
  BY <1>3, GatewayKeeps
<1>4. CASE Receive
  BY <1>4, ReceiveKeeps
<1>5. CASE UNCHANGED vars
  <2>1. UNCHANGED <<stage, origin, msg, bytes, result>>
    BY <1>5, Zenon DEF vars
  <2> QED
    BY <2>1, Zenon DEF PInv, Sent, OnItsWay, Holed, RefusedRightly
<1> QED
  BY <1>1, <1>2, <1>3, <1>4, <1>5, Zenon DEF Next

\* Types hold: what is on the wire are bytes.
LEMMA PacketTyped == PInv => TypeOK
<1> SUFFICES ASSUME PInv PROVE TypeOK
  OBVIOUS
<1>1. bytes \in Seq(Bytes)
  BY Zenon DEF PInv
<1>2. \A i \in DOMAIN bytes : bytes[i] \in Bytes
  BY <1>1
<1> QED
  BY <1>2, Zenon DEF PInv, TypeOK, Bytes

\* The decoders agree on whatever is on the wire.
LEMMA DecodersDoAgree == PInv => DecodersAgree
<1> SUFFICES ASSUME PInv PROVE DecodersAgree
  OBVIOUS
<1>1. Len(bytes) < HeaderLen \/ (RoomOf(bytes) \in Seq(Nat) /\ UserOf(bytes) \in Seq(Nat))
  BY FieldOfNaturals, Zenon DEF PInv
<1> QED
  BY <1>1, DecodersAgreeOn, Zenon DEF DecodersAgree

\* The encoders agree on whatever is sent.
LEMMA EncodersDoAgree == PInv => EncodersAgree
<1> SUFFICES ASSUME PInv, origin \in Origins
             PROVE  /\ PythonEncode(msg).ok = JsEncode(msg).ok
                    /\ JsEncode(msg).ok =>
                         PythonEncode(msg) = JsEncode(msg) /\ RustEncode(msg) = JsEncode(msg)
  BY Zenon DEF EncodersAgree
<1>1. msg \in Messages
  BY Zenon DEF PInv, Sent
<1> QED
  BY <1>1, EncodersAgreeOn

\* No name that is admitted is refused but for a zero, and no other is sent.
LEMMA AdmittedAreAddressed == PInv => AdmittedIsAddressable
<1> SUFFICES ASSUME PInv, origin \in Origins
             PROVE  IF Admits(msg.room, msg.user)
                    THEN stage = "refused" => RefusedRightly
                    ELSE stage = "refused"
  BY Zenon DEF AdmittedIsAddressable, RefusedRightly
<1>1. Sendable(msg) => Admits(msg.room, msg.user)
  BY DEF Sendable, RustEncodable, RustPacks, Admits
<1>2. Sent
  BY Zenon DEF PInv
<1> QED
  BY <1>1, <1>2, StageNames, Zenon DEF Sent, OnItsWay

\* What was sent is dropped only with a hole, and is read as it was sent.
LEMMA SentAreReceived == PInv => SentIsReceived
BY Zenon DEF PInv, Sent, SentIsReceived, Holed

\* The inductive invariant holds in every reachable state.
THEOREM PacketInvariant == Spec => []PInv
BY InitPInv, NextPInv, PTL DEF Spec

\* For fields of any size, names of any characters and bytes of any kind: the
\* three decoders (lib.rs, gateway_protocol.py, gateway_protocol.js) accept the
\* same packets and read the same message in them, the SDKs encode alike and
\* the crate encodes what they do, and a name that ws_handler admits is the
\* reason why a packet is refused only for a zero in it, and only in an SDK.
THEOREM CodecsAgree ==
  Spec => [](TypeOK /\ DecodersAgree /\ EncodersAgree /\ AdmittedIsAddressable)
BY PacketInvariant, PacketTyped, DecodersDoAgree, EncodersDoAgree, AdmittedAreAddressed, PTL

\* What an encoder accepts the gateway forwards, and a client of any language
\* reads the very message that was sent: version, kind, target, names, sequence
\* number and payload, for sequence numbers and payloads of any size that the
\* fields can hold.  The exception are the zeros in names that the crate lets
\* pass (lib.rs:304): at the end they are read as padding, and with a character
\* behind them the gateway drops the packet.
THEOREM MessageArrives == Spec => []SentIsReceived
BY PacketInvariant, SentAreReceived, PTL

\* Whatever bytes the gateway accepts, an encoder's or a stranger's, it
\* forwards byte for byte, although dispatch decodes and encodes the header.
THEOREM RelayForwardsBytes == Spec => RelayIsTransparent
<1>1. PInv /\ [Next]_vars => [stage = "wire" /\ stage' = "relayed" => bytes' = bytes]_vars
  <2> SUFFICES ASSUME PInv, [Next]_vars, stage' = "relayed", ~UNCHANGED vars
               PROVE  bytes' = bytes
    BY Zenon
  <2>1. ASSUME NEW o \in Origins, Send(o) PROVE FALSE
    BY <2>1 DEF Send
  <2>2. CASE Inject
    BY <2>2 DEF Inject
  <2>3. CASE Receive
    BY <2>3 DEF Receive
  <2>4. CASE Gateway
    BY <2>4, GatewayIsTransparent
  <2> QED
    BY <2>1, <2>2, <2>3, <2>4 DEF Next
<1> QED
  BY <1>1, PacketInvariant, PTL DEF Spec, RelayIsTransparent
=============================================================================
