SPECIFICATION Spec
CONSTANTS
    Text <- MCText
    Empty = ""
    Trim <- MCTrim
    DigitLen <- MCDigitLen
    E164 <- MCE164
    DefaultPurpose = "sms_mfa"
    Keys = {"k1", "k2"}
    KeyOf <- MCKeyOf
    Minute = 1
    None = None
    c1 = c1
    c2 = c2
    Policy <- TwinSeconds
    Nonces = {n1, n2}
    Driver = "dynamodb"
    MaxStray = 0
    Second = 2
    LongText = {}
    Workers = {w1, w2}
    Ready = TRUE
    SendInputs <- TwinSends
    VerifyInputs <- StrangerVerifies
    Skew = 0
    MaxClock = 3
    CountCap = 3
    OneAtATime = TRUE
SYMMETRY Interchangeable
INVARIANTS SingleUse GuessBudget
PROPERTIES DeletionJustified
