-------------------------------- MODULE HttpApi --------------------------------
(***************************************************************************)
(* internal/adapters/httpapi/handler.go: a request from its arrival to its *)
(* answer, composed of the use cases (OtpService) and the session service  *)
(* (MfaSession), which share the clock.  TimeoutHandler answers a caller   *)
(* in place of a handler that is late; the handler itself goes on.         *)
(***************************************************************************)
EXTENDS OtpService

CONSTANTS
    Requests,      \* the requests callers make
    ServiceToken,  \* SMS_OTP_SERVICE_API_TOKEN
    Secrets, Long, MaxTokens  \* of MfaSession

VARIABLES
    http,    \* the request every handler serves
    reply,   \* what the last step told a caller, and the code it spent
    secret,  \* of MfaSession
    signed   \* of MfaSession

Session == INSTANCE MfaSession WITH Subjects <- Text

httpVars == <<vars, http, reply, secret, signed>>

-----------------------------------------------------------------------------

Routes == {"health", "send", "verify", "validate", "unknown"}

SendOf(r) == [subject |-> r.subject, phone |-> r.phone, purpose |-> r.purpose]

VerifyOf(r) ==
    [subject |-> r.subject, phone |-> r.phone, purpose |-> r.purpose,
     code |-> r.code]

(* bearer is what follows "Bearer " in the header, Empty when that is not  *)
(* how it begins; wellFormed: one JSON object of the route's fields, in no *)
(* more than 4096 bytes.  The body has arrived when it is read.            *)
HttpRequest ==
    [route : Routes, bearer : Text, wellFormed : BOOLEAN,
     subject : Text, phone : Text, purpose : Text, code : Text]

ASSUME HttpAssumption ==
    /\ Requests \subseteq HttpRequest
    /\ \A r \in Requests :
         /\ r.route = "send" => SendOf(r) \in SendInputs
         /\ r.route = "verify" => VerifyOf(r) \in VerifyInputs
    /\ ServiceToken \in Text /\ CountCap > 0
    /\ Secrets \subseteq Text /\ Long \subseteq Text /\ MaxTokens \in Nat
    /\ None \notin Session!Token

Serving ==
    [stage : {"free", "serving", "signing"}, request : Requests \cup {None},
     late : BOOLEAN, open : BOOLEAN, nonce : Nonces \cup {None}]

Free ==
    [stage |-> "free", request |-> None, late |-> FALSE, open |-> FALSE,
     nonce |-> None]

(* What a caller can be told: errors.go, the successes, and the answer of  *)
(* TimeoutHandler; or nothing.                                             *)
ErrorCodes ==
    {"unauthorized", "not_found", "invalid_request", "rate_limited",
     "invalid_code", "challenge_expired", "service_not_configured",
     "operation_failed"}

ReplyCodes ==
    ErrorCodes \cup {"ok", "sent", "token", "valid", "not_valid", "timeout", "none"}

Reply ==
    [code : ReplyCodes, request : Requests \cup {None},
     nonce : Nonces \cup {None}]

NoReply == [code |-> "none", request |-> None, nonce |-> None]

HttpInit ==
    /\ Init
    /\ http = [w \in Workers |-> Free]
    /\ reply = NoReply
    /\ Session!Init

-----------------------------------------------------------------------------
(* What the caller is answered.                                            *)

(* Deviation: an internal failure looks like a refusal. *)
FailureHidden(result) ==
    CASE result = "invalid_input"  -> "invalid_request"
      [] result = "not_configured" -> "service_not_configured"
      [] result = "expired_code"   -> "challenge_expired"
      [] result = "failed"         -> "invalid_code"
      [] OTHER                     -> result

(* Deviation: the use case's name of an error is the caller's. *)
AnswerInside(result) == result

AnswerTo(result) ==
    CASE result = "invalid_input"  -> "invalid_request"
      [] result = "not_configured" -> "service_not_configured"
      [] result = "expired_code"   -> "challenge_expired"
      [] result = "failed"         -> "operation_failed"
      [] OTHER                     -> result

Say(code, request, nonce) ==
    reply' = [code |-> code, request |-> request, nonce |-> nonce]

(* Deviation: a late answer is written after the one of the timeout. *)
FinishAnyway(w, h, code, nonce) ==
    /\ http' = [http EXCEPT ![w] = Free]
    /\ reply' = [code |-> code, request |-> h.request, nonce |-> nonce]

(* The handler is done; the answer of one that is too late is dropped. *)
Finish(w, h, code, nonce) ==
    /\ http' = [http EXCEPT ![w] = Free]
    /\ reply' = IF h.open
                  THEN [code |-> code, request |-> h.request, nonce |-> nonce]
                  ELSE NoReply

GoOn(w, h) ==
    /\ http' = [http EXCEPT ![w] = h]
    /\ reply' = NoReply

(* The code that the request has issued or redeems. *)
Spends(w) ==
    IF req[w].pc \in {"send_put", "send_sms", "redeem"}
      THEN req[w].challenge.nonce
      ELSE None

(* Deviation: a token is signed whatever the use case answers. *)
SignsOnAnyAnswer(w, h) ==
    \/ Busy(w)' /\ GoOn(w, h)
    \/ ~Busy(w)' /\ GoOn(w, [h EXCEPT !.stage = "signing", !.nonce = Spends(w)])

(* A step of the use case, for the handler: no more than a step, the end   *)
(* of a successful Verify, or an end that is answered at once.             *)
Follow(w, h) ==
    \/ Busy(w)' /\ GoOn(w, h)
    \/ /\ ~Busy(w)' /\ answer' = "verified"
       /\ GoOn(w, [h EXCEPT !.stage = "signing", !.nonce = Spends(w)])
    \/ /\ ~Busy(w)' /\ answer' # "verified"
       /\ Finish(w, h, AnswerTo(answer'), Spends(w))

-----------------------------------------------------------------------------
(* A request arrives.                                                      *)

Authorized(bearer) ==
    Trim[ServiceToken] # Empty /\ Trim[bearer] = Trim[ServiceToken]

Decoded(r) ==
    /\ r.route \in {"send", "verify", "validate"}
    /\ Authorized(r.bearer)
    /\ r.wellFormed

(* Health is asked without a token, and no body is read before the token   *)
(* and the route are known.                                                *)
Refusal(r) ==
    IF r.route = "health" THEN "ok"
    ELSE IF ~Authorized(r.bearer) THEN "unauthorized"
    ELSE IF r.route = "unknown" THEN "not_found"
    ELSE "invalid_request"

AnswerAtOnce(w, r) ==
    /\ http[w].stage = "free"
    /\ ~Decoded(r)
    /\ Say(Refusal(r), r, None)
    /\ UNCHANGED <<vars, http, secret, signed>>

Serve(w, r) ==
    /\ http[w].stage = "free"
    /\ Decoded(r)
    /\ \/ r.route = "send"
          /\ (SendReject(w, SendOf(r)) \/ SendBegin(w, SendOf(r)))
       \/ r.route = "verify"
          /\ (VerifyReject(w, VerifyOf(r)) \/ VerifyBegin(w, VerifyOf(r)))
    /\ Follow(w, [Free EXCEPT !.stage = "serving", !.request = r,
                              !.open = TRUE])
    /\ UNCHANGED <<secret, signed>>

(* The token presented is made of parts of signed ones, or of none. *)
ValidateSession(w, r) ==
    /\ http[w].stage = "free"
    /\ Decoded(r) /\ r.route = "validate"
    /\ \/ \E a, b \in signed, now \in Readings :
            /\ Session!Validate(Session!Spliced(a, b), r.subject, now, secret)
            /\ Say("valid", r, None)
       \/ Say("not_valid", r, None)
    /\ UNCHANGED <<vars, http, secret, signed>>

-----------------------------------------------------------------------------
(* A handler at work.                                                      *)

Inner(w) ==
    /\ http[w].stage = "serving"
    /\ HandlerStep(w)
    /\ Follow(w, http[w])
    /\ UNCHANGED <<secret, signed>>

(* The code is redeemed by now.  Sign gets the subject as it was written.  *)
SignToken(w) ==
    /\ http[w].stage = "signing"
    /\ Session!SignIn(http[w].request.subject)
    /\ Finish(w, http[w], "token", http[w].nonce)
    /\ UNCHANGED vars

SignFails(w) ==
    /\ http[w].stage = "signing"
    /\ \E now \in Readings :
         Session!Sign(http[w].request.subject, now, secret) = None
    /\ Finish(w, http[w], "service_not_configured", http[w].nonce)
    /\ UNCHANGED <<vars, secret, signed>>

(* The time is up, or the caller is gone: the request's context ends.      *)
Expire(w) ==
    /\ http[w].stage # "free" /\ ~http[w].late
    /\ Timeout(w) \/ (~Busy(w) /\ UNCHANGED vars)
    /\ GoOn(w, [http[w] EXCEPT !.late = TRUE])
    /\ UNCHANGED <<secret, signed>>

(* TimeoutHandler finds the context ended before the handler is done. *)
GiveUp(w) ==
    /\ http[w].late /\ http[w].open
    /\ http' = [http EXCEPT ![w] = [@ EXCEPT !.open = FALSE]]
    /\ Say("timeout", http[w].request, None)
    /\ UNCHANGED <<vars, secret, signed>>

(* The caller of a process that ends gets no answer. *)
Die(w) ==
    /\ Crash(w) \/ (http[w].stage = "signing" /\ Driver # "memory"
                      /\ UNCHANGED vars)
    /\ http' = IF Driver = "memory" THEN [v \in Workers |-> Free]
                                    ELSE [http EXCEPT ![w] = Free]
    /\ reply' = NoReply
    /\ UNCHANGED <<secret, signed>>

Outside ==
    /\ StoreStep \/ Tick
    /\ reply' = NoReply
    /\ UNCHANGED <<http, secret, signed>>

HttpNext ==
    \/ \E w \in Workers :
         \/ \E r \in Requests :
              AnswerAtOnce(w, r) \/ Serve(w, r) \/ ValidateSession(w, r)
         \/ Inner(w) \/ SignToken(w) \/ SignFails(w)
         \/ Expire(w) \/ GiveUp(w) \/ Die(w)
    \/ Outside

(* The timer of TimeoutHandler fires and its goroutine runs; a handler     *)
(* whose context has ended gets an error from its call and returns.  A     *)
(* store or provider need never answer by itself.                          *)
Fairness ==
    \A w \in Workers :
      /\ WF_httpVars(Expire(w))
      /\ WF_httpVars(GiveUp(w))
      /\ WF_httpVars(http[w].late /\ Inner(w))
      /\ WF_httpVars(SignToken(w) \/ SignFails(w))

HttpSpec == HttpInit /\ [][HttpNext]_httpVars

FairHttpSpec == HttpSpec /\ Fairness

-----------------------------------------------------------------------------

HttpTypeOK ==
    /\ TypeOK /\ Session!TypeOK
    /\ http \in [Workers -> Serving]
    /\ reply \in Reply

(* A redeemed code of the subject, as it stands once trimmed. *)
Proved(subject) ==
    \E n \in Nonces :
      /\ ledger[n].uses > 0
      /\ ledger[n].challenge.subject = NormalizeSubject(subject)

(* From end to end: whatever token is presented, the service calls it      *)
(* valid only for a subject for whom Send issued a code that Verify later  *)
(* accepted, however timeouts, crashes and other requests interleave.      *)
VouchedFor == reply.code = "valid" => Proved(reply.request.subject)

Refusals == ErrorCodes \ {"operation_failed"}

(* The caller can act on its answer: "sent" is said of a code that is      *)
(* stored and on its way, a token is given for the caller's own code, and  *)
(* after a refusal the request has neither issued a code nor used one up.  *)
(* Only "operation_failed" and "timeout" leave that open, unless signing   *)
(* lacks a secret (handler.go verify).                                     *)
AnswersAreTrue ==
    /\ reply.code = "sent" =>
         ledger[reply.nonce].acked /\ ledger[reply.nonce].delivered
    /\ reply.code = "token" =>
         LET e == ledger[reply.nonce]
         IN  /\ e.uses > 0
             /\ e.challenge.subject = NormalizeSubject(reply.request.subject)
             /\ e.challenge.phoneHash = PhoneHash(reply.request.phone)
             /\ e.challenge.hash.code = Trim[reply.request.code]
    /\ reply.code \in Refusals /\ Session!Usable(secret) => reply.nonce = None

Acts(w) ==
    /\ http[w].stage # "free"
    /\ <<req[w], http[w]>>' # <<req[w], http[w]>>

Closes(w) == http[w].open /\ ~http'[w].open

(* The timeout, the handler and the end of the process race for the answer *)
(* (TimeoutMiddleware): a caller gets one answer, to its own request, or   *)
(* its connection ends with the process.  A handler whose caller has been  *)
(* answered goes on, but says nothing more.                                *)
AnsweredOnce ==
    [][\A w \in Workers : Acts(w) =>
         IF Closes(w)
           THEN \/ reply'.code # "none" /\ reply'.request = http[w].request
                \/ \E v \in Workers : Die(v)
           ELSE reply' = NoReply]_httpVars

(* A handler comes to its end though the store or the provider never       *)
(* answers, so that it can serve the next request.                         *)
HandlersFinish ==
    \A w \in Workers : http[w].stage # "free" ~> http[w].stage = "free"

(* docs/error-catalog.md gives invalid_request for an "invalid E.164 phone *)
(* number, missing required fields, or invalid OTP format".                *)
FormatErrorsNamed ==
    reply.request # None /\ Decoded(reply.request) /\ Ready =>
      /\ reply.request.route = "send" /\ ~Sendable(reply.request)
           => reply.code = "invalid_request"
      /\ reply.request.route = "verify" /\ ~Verifiable(reply.request)
           => reply.code = "invalid_request"
=============================================================================
