------------------------------ MODULE OtpDomain ------------------------------
(***************************************************************************)
(* internal/domain/smsotp: the policy, the normalisation of request        *)
(* fields and the stored challenge.                                        *)
(*                                                                         *)
(* Request texts are members of Text.  What the code computes from their   *)
(* characters is a parameter: Trim is strings.TrimSpace, DigitLen[t] is    *)
(* the length of a text made of ASCII digits only and 0 for any other, and *)
(* E164 holds the texts the phone pattern accepts.                         *)
(***************************************************************************)
EXTENDS Integers

CONSTANTS
    Text, Empty, Trim, DigitLen, E164, DefaultPurpose,
    Keys,     \* the values of a challenge key
    KeyOf,    \* digest of subject "|" purpose; two pairs may share a key
    Nonces,   \* the random nonces the generator can draw
    Policy,   \* the configured policy; a field that is not positive is unset
    Minute,   \* clock units in a minute
    None      \* no challenge (a nil pointer, a missing document)

ASSUME TextAssumption ==
    /\ {Empty, DefaultPurpose} \subseteq Text
    /\ E164 \subseteq Text
    /\ Trim \in [Text -> Text]
    /\ DigitLen \in [Text -> Nat]
    /\ \A t \in Text : Trim[Trim[t]] = Trim[t]
    /\ Trim[DefaultPurpose] = DefaultPurpose
    /\ DefaultPurpose # Empty

ASSUME KeyAssumption == KeyOf \in [Text \X Text -> Keys]

ASSUME PolicyAssumption ==
    /\ Minute \in Nat \ {0}
    /\ Policy \in [TTL : Int, RateLimitWindow : Int, RateLimitMax : Int,
                   MaxAttempts : Int, CodeLength : Int, SessionTTL : Int]

-----------------------------------------------------------------------------
(* Policy: every accessor falls back to its default on an unset field.     *)

(* Deviation: the default of the rate-limit window. *)
TtlOfWindow == IF Policy.TTL > 0 THEN Policy.TTL ELSE 10 * Minute

OTPTTL == IF Policy.TTL > 0 THEN Policy.TTL ELSE 5 * Minute

Window ==
    IF Policy.RateLimitWindow > 0 THEN Policy.RateLimitWindow ELSE 10 * Minute

MaxRequests == IF Policy.RateLimitMax > 0 THEN Policy.RateLimitMax ELSE 3

AllowedAttempts == IF Policy.MaxAttempts > 0 THEN Policy.MaxAttempts ELSE 5

Digits == IF Policy.CodeLength \in 6 .. 8 THEN Policy.CodeLength ELSE 6

-----------------------------------------------------------------------------
(* Request fields.                                                         *)

NormalizeSubject(value) == Trim[value]

NormalizePhone(value) == Trim[value]

ValidPhone(value) == NormalizePhone(value) \in E164

ValidOTPCode(value, length) == DigitLen[Trim[value]] = length

NormalizePurpose(value) ==
    IF Trim[value] = Empty THEN DefaultPurpose ELSE Trim[value]

ChallengeKey(subject, purpose) ==
    KeyOf[NormalizeSubject(subject), NormalizePurpose(purpose)]

-----------------------------------------------------------------------------
(* The stored challenge.  Both digests are keyed and taken as collision    *)
(* free: a digest is the record of what went into it.                      *)

(* Deviation: the number itself instead of its digest. *)
PhoneInClear(phone) == [number |-> NormalizePhone(phone)]

PhoneHash(phone) == [digestOf |-> NormalizePhone(phone)]

Hash(subject, phoneHash, purpose, code, nonce) ==
    [subject |-> subject, phoneHash |-> phoneHash, purpose |-> purpose,
     code |-> code, nonce |-> nonce]

PhoneHashes == [digestOf : Text]

Challenge ==
    [subject : Text, phoneHash : PhoneHashes, purpose : Text,
     hash : [subject : Text, phoneHash : PhoneHashes, purpose : Text,
             code : Text, nonce : Nonces],
     nonce : Nonces, expiresAt : Int, sentAt : Int,
     requestCount : Int, attempts : Int]

ASSUME NoneAssumption == None \notin Challenge

(* Deviation: a code lives as long as the rate-limit window. *)
ExpiredWithWindow(challenge, now) == now - challenge.sentAt > Window

Expired(challenge, now) == now > challenge.expiresAt

(* Deviation: one attempt more. *)
AttemptsExceeded(challenge) == challenge.attempts > AllowedAttempts

AttemptsExhausted(challenge) == challenge.attempts >= AllowedAttempts
=============================================================================
