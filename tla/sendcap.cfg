SPECIFICATION Spec
CONSTANTS
    Text <- MCText
    Empty = ""
    Trim <- MCTrim
    DigitLen <- MCDigitLen
    E164 <- MCE164
    DefaultPurpose = "sms_mfa"
    Keys = {"k1", "k2"}
    KeyOf <- MCKeyOf
    Minute = 1
    None = None
    c1 = c1
    c2 = c2
    Policy <- TwinPolicy
    Nonces = {n1, n2, n3}
    Driver = "dynamodb"
    MaxStray = 0
    Second = 1
    LongText = {"a"}
    Workers = {w1, w2}
    Ready = TRUE
    SendInputs <- OneSend
    VerifyInputs <- NoVerify
    Skew = 0
    MaxClock = 0
    CountCap = 0
    OneAtATime = TRUE
SYMMETRY Alike
INVARIANTS SendCap
