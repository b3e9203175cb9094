------------------------------- MODULE MCSession -------------------------------
(***************************************************************************)
(* MfaSession for TLC: two subjects, one of them also written with a blank *)
(* around it, two usable secrets and one that is too short, and seconds of *)
(* two clock units, so that tokens are signed on and between seconds.      *)
(***************************************************************************)
EXTENDS MfaSession

MCText == {"", "a", " a", "b", "sms_mfa", "key1", "key2", "key2 ", "weak"}

MCTrim ==
    [t \in MCText |-> CASE t = " a" -> "a" [] t = "key2 " -> "key2"
                        [] OTHER -> t]

MCDigitLen == [t \in MCText |-> 0]

MCKeyOf == [p \in MCText \X MCText |-> "k"]

MCPolicy ==
    [TTL |-> 0, RateLimitWindow |-> 0, RateLimitMax |-> 0, MaxAttempts |-> 0,
     CodeLength |-> 0, SessionTTL |-> 7]
=============================================================================
