SPECIFICATION Spec
CONSTANTS
  Base = 8
  AsciiLimit = 6
  RoomLen = 2
  UserLen = 2
  SeqLen = 2
  LenLen = 1
  Messages <- SomeMessages
  Strangers <- SomeStrangers
  Origins <- AllOrigins
INVARIANTS TypeOK DecodersAgree EncodersAgree SentIsReceived AdmittedIsAddressable
PROPERTY RelayIsTransparent
CHECK_DEADLOCK FALSE
