SPECIFICATION Spec
CONSTANTS
    Text <- MCText
    Empty = ""
    Trim <- MCTrim
    DigitLen <- MCDigitLen
    E164 <- MCE164
    DefaultPurpose = "sms_mfa"
    Keys = {"k1", "k2"}
    KeyOf <- MCKeyOf
    Minute = 1
    None = None
    c1 = c1
    c2 = c2
    Policy <- UnsetPolicy
    Nonces = {n1}
    Driver = "dynamodb"
    MaxStray = 1
    Second = 1
    LongText = {}
    Workers = {w1}
    Ready = TRUE
    SendInputs <- OneSend
    VerifyInputs <- MixedVerifies
    Skew = 1
    MaxClock = 9
    CountCap = 0
    OneAtATime = FALSE
SYMMETRY Interchangeable
INVARIANTS Lifetime LimitsAsDocumented

