SPECIFICATION Spec
CONSTANTS
    Text <- MCText
    Empty = ""
    Trim <- MCTrim
    DigitLen <- MCDigitLen
    E164 <- MCE164
    DefaultPurpose = "sms_mfa"
    Keys = {"k1", "k2"}
    KeyOf <- MCKeyOf
    Minute = 1
    None = None
    c1 = c1
    c2 = c2
    Policy <- TwinPolicy
    Nonces = {n1, n2}
    Driver = "firestore"
    MaxStray = 0
    Second = 1
    LongText = {}
    Workers = {w1, w2}
    Ready = TRUE
    SendInputs <- TwinSends
    VerifyInputs <- TwinVerifies
    Skew = 0
    MaxClock = 2
    CountCap = 1
    OneAtATime = TRUE
SYMMETRY Interchangeable
PROPERTIES ImplementsLedger
