SPECIFICATION Spec
CONSTANTS
    Radix = 2
    Magic = 10
    Versions = {0, 13}
    Times = {1, 201}
    MaxString = 2
    MaxPayload = 2
    Strings <- MCStrings
    Payloads <- MCPayloads
    sha256 <- MCsha256
    Nil = Nil
INVARIANTS
    WholeIsRead
    TornIsRefused
    DamageIsRefused
CHECK_DEADLOCK FALSE
