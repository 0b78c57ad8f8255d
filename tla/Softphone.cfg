SPECIFICATION PhoneSpec
CONSTANTS
  Callees = {c1, c2}
  Stranger = Stranger
  NoCall = NoCall
  MaxCalls = 2
  MaxDials = 2
PROPERTY LiveCallStays
CHECK_DEADLOCK FALSE
