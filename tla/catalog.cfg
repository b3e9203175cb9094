SPECIFICATION HttpSpec
CONSTANTS
    Text <- MCText
    Empty = ""
    Trim <- MCTrim
    DigitLen <- MCDigitLen
    E164 = {"+1"}
    DefaultPurpose = "sms_mfa"
    Keys = {"k"}
    KeyOf <- MCKeyOf
    Minute = 1
    None = None
    c1 = c1
    Policy <- MCPolicy
    Nonces = {n1}
    Driver = "firestore"
    MaxStray = 0
    LongText = {}
    Workers = {w1, w2}
    Ready = TRUE
    SendInputs <- MCSends
    VerifyInputs <- MCVerifies
    Skew = 0
    MaxClock = 2
    CountCap = 1
    OneAtATime = FALSE
    Requests <- MCRequests
    ServiceToken = "api"
    Second = 1
    Secrets = {"key", "weak"}
    Long = {"key"}
    MaxTokens = 3
INVARIANTS FormatErrorsNamed
