-------------------------------- MODULE MCHttp --------------------------------
(***************************************************************************)
(* HttpApi for TLC: a subject with a phone, written with a blank around it *)
(* too, and one without, for whom nobody may be vouched; the requests      *)
(* reach every answer of the handler.                                      *)
(***************************************************************************)
EXTENDS HttpApi

CONSTANTS c1  \* the code the generator draws

MCText == {"", "a", " a", "b", "sms_mfa", "+1", "12345", "api", "key", "weak",
           c1}

MCTrim == [t \in MCText |-> IF t = " a" THEN "a" ELSE t]

MCDigitLen ==
    [t \in MCText |-> CASE t = c1 -> 6 [] t = "12345" -> 5 [] OTHER -> 0]

MCKeyOf == [p \in MCText \X MCText |-> "k"]

MCPolicy ==
    [TTL |-> 1, RateLimitWindow |-> 2, RateLimitMax |-> 1, MaxAttempts |-> 1,
     CodeLength |-> 0, SessionTTL |-> 1]

RequestOf(route, subject, code) ==
    [route |-> route, bearer |-> "api", wellFormed |-> TRUE,
     subject |-> subject, phone |-> "+1", purpose |-> "", code |-> code]

MCRequests ==
    {RequestOf("send", "a", ""), RequestOf("send", "", ""),
     RequestOf("verify", " a", c1), RequestOf("verify", "a", "12345"),
     RequestOf("validate", "a", ""), RequestOf("validate", "b", ""),
     RequestOf("health", "", ""),
     [RequestOf("verify", "a", c1) EXCEPT !.bearer = "weak"],
     [RequestOf("verify", "a", c1) EXCEPT !.wellFormed = FALSE]}

MCSends == {SendOf(r) : r \in {r \in MCRequests : r.route = "send"}}

MCVerifies == {VerifyOf(r) : r \in {r \in MCRequests : r.route = "verify"}}
=============================================================================
