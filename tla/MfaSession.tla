------------------------------ MODULE MfaSession ------------------------------
(***************************************************************************)
(* internal/application/smsotp/session.go: the MFA session token a caller  *)
(* gets after a successful verify, and its validation, by any instance of  *)
(* the service.  A token is a payload and the MAC of a payload; time in a  *)
(* payload is in whole seconds while the clock is finer.                   *)
(***************************************************************************)
EXTENDS OtpDomain, FiniteSets

CONSTANTS
    Second,     \* clock units in a second
    Secrets,    \* values SMS_MFA_SESSION_SECRET is deployed with
    Long,       \* texts of 32 bytes or more
    Subjects,   \* subjects as callers write them
    Skew,       \* how far an instance's wall clock may be off
    MaxClock,   \* bound on the clock
    MaxTokens   \* bound on the tokens signed

ASSUME SessionAssumption ==
    /\ Second \in Nat \ {0}
    /\ Secrets \subseteq Text /\ Long \subseteq Text /\ Subjects \subseteq Text
    /\ Skew \in Nat /\ MaxClock \in Nat /\ MaxTokens \in Nat

VARIABLES
    clock,   \* true time
    secret,  \* the secret the running instances were deployed with
    signed   \* history: what was signed, for whom, when and with what

sessionVars == <<clock, secret, signed>>

-----------------------------------------------------------------------------

MFASessionTTL ==
    IF Policy.SessionTTL > 0 THEN Policy.SessionTTL ELSE 480 * Minute

Methods == {"sms"}

Claims == [sub : Text, method : Methods, exp : Int]

(* Deviation: a digest without a key. *)
PlainDigest(payload, key) == [payload |-> payload]

Mac(payload, key) == [payload |-> payload, key |-> key]

Usable(key) == Trim[key] \in Long

Unix(time) == time \div Second

(* Deviation: the lifetime told to the caller is rounded up. *)
SignRoundedUp(subject, now, key) ==
    LET claims == [sub |-> NormalizeSubject(subject), method |-> "sms",
                   exp |-> Unix(now + MFASessionTTL)]
    IN  IF NormalizeSubject(subject) = Empty \/ ~Usable(key)
          THEN None
          ELSE [payload |-> claims, mac |-> Mac(claims, Trim[key]),
                expiresIn |-> (MFASessionTTL + Second - 1) \div Second]

Sign(subject, now, key) ==
    LET claims == [sub |-> NormalizeSubject(subject), method |-> "sms",
                   exp |-> Unix(now + MFASessionTTL)]
    IN  IF NormalizeSubject(subject) = Empty \/ ~Usable(key)
          THEN None
          ELSE [payload |-> claims, mac |-> Mac(claims, Trim[key]),
                expiresIn |-> MFASessionTTL \div Second]

(* Deviation: the second of expiry is still valid. *)
ValidateThroughExpiry(token, subject, now, key) ==
    /\ NormalizeSubject(subject) # Empty
    /\ Usable(key)
    /\ token.mac = Mac(token.payload, Trim[key])
    /\ token.payload.sub = NormalizeSubject(subject)
    /\ token.payload.method = "sms"
    /\ Unix(now) <= token.payload.exp

(* A token presented is two parts; any other text is not valid. *)
Validate(token, subject, now, key) ==
    /\ NormalizeSubject(subject) # Empty
    /\ Usable(key)
    /\ token.mac = Mac(token.payload, Trim[key])
    /\ token.payload.sub = NormalizeSubject(subject)
    /\ token.payload.method = "sms"
    /\ Unix(now) < token.payload.exp

-----------------------------------------------------------------------------

Readings == clock - Skew .. clock + Skew

Init ==
    /\ clock = 0
    /\ secret \in Secrets
    /\ signed = {}

(* handler.verify signs once the code is redeemed; an error gives no token. *)
SignIn(subject) ==
    /\ Cardinality(signed) < MaxTokens
    /\ \E now \in Readings :
         LET token == Sign(subject, now, secret)
         IN  /\ token # None
             /\ signed' = signed \cup {[token |-> token, born |-> clock,
                                       subject |-> subject, key |-> secret]}
    /\ UNCHANGED <<clock, secret>>

(* A deployment with another secret. *)
Redeploy(value) ==
    /\ value # secret
    /\ secret' = value
    /\ UNCHANGED <<clock, signed>>

Tick ==
    /\ clock < MaxClock
    /\ clock' = clock + 1
    /\ UNCHANGED <<secret, signed>>

Next ==
    \/ \E subject \in Subjects : SignIn(subject)
    \/ \E value \in Secrets : Redeploy(value)
    \/ Tick

Spec == Init /\ [][Next]_sessionVars

-----------------------------------------------------------------------------

Token == [payload : Claims, mac : [payload : Claims, key : Text],
          expiresIn : Int]

TypeOK ==
    /\ clock \in 0 .. MaxClock
    /\ secret \in Secrets
    /\ signed \subseteq [token : Token, born : Nat, subject : Subjects,
                         key : Secrets]

(* A token whose two parts come from tokens that were signed, or from one. *)
Spliced(a, b) == [payload |-> a.token.payload, mac |-> b.token.mac]

Valid(token, subject) ==
    \E now \in Readings : Validate(token, subject, now, secret)

(* Whatever parts a presented token is put together from, some instance    *)
(* finds it valid only for a subject that was signed in under the secret   *)
(* now deployed (both compared as trimmed), and for no longer than the TTL *)
(* after that, up to the difference of two wall clocks.  The rounding to   *)
(* whole seconds never lengthens a session.                                *)
NeverTooLong ==
    \A a, b \in signed, subject \in Subjects :
      Valid(Spliced(a, b), subject) =>
        \E s \in signed :
          /\ NormalizeSubject(s.subject) = NormalizeSubject(subject)
          /\ Trim[s.key] = Trim[secret]
          /\ clock < s.born + MFASessionTTL + 2 * Skew

(* The caller is told expires_in: every instance with the signing secret   *)
(* takes the token for that long, less the second lost by rounding and the *)
(* difference of two wall clocks.                                          *)
NotCutShort ==
    \A s \in signed :
      /\ Trim[s.key] = Trim[secret]
      /\ clock - s.born + 2 * Skew <= (s.token.expiresIn - 1) * Second
      => \A now \in Readings : Validate(s.token, s.subject, now, secret)
=============================================================================
