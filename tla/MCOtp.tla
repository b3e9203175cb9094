-------------------------------- MODULE MCOtp --------------------------------
(***************************************************************************)
(* Instances of OtpProperties for TLC.  The texts are few, and chosen so   *)
(* that the cases of the code meet: a subject that needs trimming, a blank *)
(* purpose, two identities whose "subject|purpose" is the same text, a     *)
(* phone that is not E.164 and a code that is too short.                   *)
(***************************************************************************)
EXTENDS OtpProperties, TLC

CONSTANTS c1, c2  \* the two codes the generator can draw

MCText == {"", "a", " a", "b|c", "a|b", "c", "sms_mfa", "+1", "+2", "12345",
           c1, c2}

MCTrim == [t \in MCText |-> IF t = " a" THEN "a" ELSE t]

MCDigitLen ==
    [t \in MCText |-> CASE t \in {c1, c2} -> 6 [] t = "12345" -> 5 [] OTHER -> 0]

MCE164 == {"+1", "+2"}

(* "a|b" with "c" and "a" with "b|c" are the same text "a|b|c". *)
MCKeyOf ==
    [p \in MCText \X MCText |->
       IF p \in {<<"a|b", "c">>, <<"a", "b|c">>} THEN "k1" ELSE "k2"]

SendOf(subject, phone, purpose) ==
    [subject |-> subject, phone |-> phone, purpose |-> purpose]

VerifyOf(subject, phone, purpose, code) ==
    [subject |-> subject, phone |-> phone, purpose |-> purpose, code |-> code]

PolicyOf(ttl, window, max, attempts) ==
    [TTL |-> ttl, RateLimitWindow |-> window, RateLimitMax |-> max,
     MaxAttempts |-> attempts, CodeLength |-> 0, SessionTTL |-> 0]

(* Two identities on one key. *)
TwinSends == {SendOf(" a", "+1", "b|c"), SendOf("a|b", "+2", "c")}
TwinVerifies == {VerifyOf("a", "+1", "b|c", c) : c \in {c1, c2}}

(* One of them with the phone of the other, too. *)
StrangerVerifies ==
    TwinVerifies \cup {VerifyOf("a", "+2", "b|c", c) : c \in {c1, c2}}

TwinPolicy == PolicyOf(1, 2, 2, 2)

(* A code outlives the second in which DynamoDB may sweep it early. *)
TwinSeconds == PolicyOf(2, 2, 2, 2)

(* One identity, with the default purpose. *)
OneSend == {SendOf("a", "+1", "")}
OneVerify == {VerifyOf("a", "+1", "sms_mfa", c) : c \in {c1, c2}}

(* Requests that Send and Verify refuse at once. *)
MixedSends == OneSend \cup {SendOf("", "+1", ""), SendOf("a", "12345", "")}
MixedVerifies == OneVerify \cup {VerifyOf("a", "+1", "", "12345")}

NoVerify == {}
QuickPolicy == PolicyOf(1, 2, 2, 1)

(* Nothing injected: every field of the policy is unset. *)
UnsetPolicy == PolicyOf(0, 0, 0, 0)

Alike == Permutations(Workers) \cup Permutations(Nonces)

Interchangeable == Alike \cup Permutations({c1, c2})
=============================================================================
