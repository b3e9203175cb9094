SPECIFICATION Spec
CONSTANTS
    Text <- MCText
    Empty = ""
    Trim <- MCTrim
    DigitLen <- MCDigitLen
    E164 = {}
    DefaultPurpose = "sms_mfa"
    Keys = {"k"}
    KeyOf <- MCKeyOf
    Nonces = {n1}
    Minute = 1
    None = None
    Policy <- MCPolicy
    Second = 2
    Secrets = {"key1", "key2", "key2 ", "weak"}
    Long = {"key1", "key2"}
    Subjects = {"", "a", " a", "b"}
    Skew = 1
    MaxClock = 9
    MaxTokens = 2
INVARIANTS TypeOK NeverTooLong NotCutShort
