------------------------------ MODULE OtpService ------------------------------
(***************************************************************************)
(* internal/application/smsotp/usecases.go: Send and Verify, run by        *)
(* handlers that share one challenge store.  A handler is a request being  *)
(* served; it is interrupted at every call of the store and of the SMS     *)
(* provider, and keeps between calls the challenge it has read.            *)
(***************************************************************************)
EXTENDS ChallengeStore

CONSTANTS
    Workers,       \* the handlers, over all the instances of the service
    Ready,         \* ports wired and both secrets strong (usecases.go ready)
    SendInputs,    \* the fields of POST send requests, as received
    VerifyInputs,  \* the fields of POST verify requests, as received
    Skew,          \* how far an instance's wall clock may be off
    MaxClock,      \* bound on the clock
    CountCap,      \* bound on the counters of the history
    OneAtATime     \* TRUE: the callers never overlap requests on one key

ASSUME ServiceAssumption ==
    /\ {Ready, OneAtATime} \subseteq BOOLEAN
    /\ SendInputs \subseteq [subject : Text, phone : Text, purpose : Text]
    /\ VerifyInputs \subseteq
         [subject : Text, phone : Text, purpose : Text, code : Text]
    /\ {Skew, MaxClock, CountCap} \subseteq Nat

VARIABLES
    clock,   \* true time
    req,     \* the local state of every handler
    answer,  \* what the last step returned to a caller of the service
    ledger   \* history: what became of the challenge of every nonce

vars == <<challenges, stray, clock, req, answer, ledger>>

-----------------------------------------------------------------------------

Pcs == {"idle", "send_get", "send_put", "send_sms",
        "verify_get", "judge", "purge", "bump", "redeem"}

Answers == {"none", "sent", "verified", "failed", "not_configured",
            "invalid_input", "invalid_code", "rate_limited", "expired_code"}

(* now is Send's reading of its instance's clock, at the true time of the  *)
(* handler's last reading, and verdict what Verify returns after a purge.  *)
Request ==
    [pc : Pcs, subject : Text, phone : Text, purpose : Text, code : Text,
     now : Int, at : Int, challenge : Challenge \cup {None},
     cancelled : BOOLEAN, verdict : Answers]

Idle ==
    [pc |-> "idle", subject |-> Empty, phone |-> Empty, purpose |-> Empty,
     code |-> Empty, now |-> 0, at |-> 0, challenge |-> None,
     cancelled |-> FALSE, verdict |-> "none"]

(* Of the challenge with a nonce: its content and true time of issue,      *)
(* whether the store acknowledged it and the SMS left, how often Verify    *)
(* accepted its code and how many wrong codes it acknowledged against it,  *)
(* both counted up to CountCap.                                            *)
Entry ==
    [challenge : Challenge \cup {None}, born : Int, acked : BOOLEAN,
     delivered : BOOLEAN, uses : 0 .. CountCap, wrong : 0 .. CountCap]

Unissued ==
    [challenge |-> None, born |-> 0, acked |-> FALSE, delivered |-> FALSE,
     uses |-> 0, wrong |-> 0]

TypeOK ==
    /\ StoreTypeOK
    /\ clock \in 0 .. MaxClock
    /\ req \in [Workers -> Request]
    /\ answer \in Answers
    /\ ledger \in [Nonces -> Entry]

Init ==
    /\ StoreInit
    /\ clock = 0
    /\ req = [w \in Workers |-> Idle]
    /\ answer = "none"
    /\ ledger = [n \in Nonces |-> Unissued]

-----------------------------------------------------------------------------
(* The request a handler serves.                                           *)

Busy(w) == req[w].pc # "idle"

Key(w) == ChallengeKey(req[w].subject, req[w].purpose)

Reads(w) == GetChallenge(Key(w), req[w].cancelled)

Readings == clock - Skew .. clock + Skew

Admitted(subject, purpose) ==
    OneAtATime =>
      \A v \in Workers : Busy(v) => Key(v) # ChallengeKey(subject, purpose)

Start(w, pc, in, code, now) ==
    /\ ~Busy(w)
    /\ Admitted(in.subject, in.purpose)
    /\ req' = [req EXCEPT ![w] =
         [Idle EXCEPT !.pc = pc, !.subject = NormalizeSubject(in.subject),
                      !.phone = NormalizePhone(in.phone),
                      !.purpose = NormalizePurpose(in.purpose),
                      !.code = code, !.now = now, !.at = clock]]
    /\ answer' = "none"

(* The handler returns and keeps nothing. *)
Return(w, result) ==
    /\ req' = [req EXCEPT ![w] = Idle]
    /\ answer' = result

(* The handler goes on to its next call. *)
Proceed(w, pc, challenge) ==
    /\ req' = [req EXCEPT ![w] = [@ EXCEPT !.pc = pc, !.challenge = challenge]]
    /\ answer' = "none"

Count(n) == IF n < CountCap THEN n + 1 ELSE n

-----------------------------------------------------------------------------
(* Send.                                                                   *)

Sendable(in) == NormalizeSubject(in.subject) # Empty /\ ValidPhone(in.phone)

SendReject(w, in) ==
    /\ ~Busy(w)
    /\ ~Ready \/ ~Sendable(in)
    /\ Return(w, IF Ready THEN "invalid_input" ELSE "not_configured")
    /\ UNCHANGED <<storeVars, clock, ledger>>

(* The clock is read before the store is. *)
SendBegin(w, in) ==
    /\ Ready /\ Sendable(in)
    /\ \E now \in Readings : Start(w, "send_get", in, Empty, now)
    /\ UNCHANGED <<storeVars, clock, ledger>>

(* Deviation: the end of the window still counts. *)
InClosedWindow(existing, now) ==
    existing # None /\ now - existing.sentAt <= Window

InWindow(existing, now) ==
    existing # None /\ now - existing.sentAt < Window

Limited(existing, now) ==
    InWindow(existing, now) /\ existing.requestCount >= MaxRequests

RequestCount(existing, now) ==
    IF InWindow(existing, now) THEN existing.requestCount + 1 ELSE 1

SendLimited(w) ==
    /\ req[w].pc = "send_get"
    /\ \E existing \in Reads(w) : Limited(existing, req[w].now)
    /\ Return(w, "rate_limited")
    /\ UNCHANGED <<storeVars, clock, ledger>>

(* The random source fails. *)
SendNoCode(w) ==
    /\ req[w].pc = "send_get"
    /\ \E existing \in Reads(w) : ~Limited(existing, req[w].now)
    /\ Return(w, "failed")
    /\ UNCHANGED <<storeVars, clock, ledger>>

Codes == {t \in Text : DigitLen[t] = Digits}

NewChallenge(w, existing, code, nonce) ==
    LET r == req[w]
        phoneHash == PhoneHash(r.phone)
    IN  [subject |-> r.subject, phoneHash |-> phoneHash, purpose |-> r.purpose,
         hash |-> Hash(r.subject, phoneHash, r.purpose, code, nonce),
         nonce |-> nonce, expiresAt |-> r.now + OTPTTL, sentAt |-> r.now,
         requestCount |-> RequestCount(existing, r.now), attempts |-> 0]

(* An error of the read is ignored: the send goes on as if it were the     *)
(* first one.  A nonce is never drawn twice.                               *)
SendIssue(w) ==
    /\ req[w].pc = "send_get"
    /\ \E existing \in Reads(w), code \in Codes, nonce \in Nonces :
         LET challenge == NewChallenge(w, existing, code, nonce)
         IN  /\ ~Limited(existing, req[w].now)
             /\ ledger[nonce].challenge = None
             /\ Proceed(w, "send_put", challenge)
             /\ ledger' = [ledger EXCEPT ![nonce] =
                  [Unissued EXCEPT !.challenge = challenge,
                                   !.born = req[w].at]]
    /\ UNCHANGED <<storeVars, clock>>

(* Deviation: the SMS is sent although the store did not acknowledge. *)
SendPutAnyway(w) ==
    /\ req[w].pc = "send_put"
    /\ \E outcome \in Outcomes(req[w].cancelled) :
         /\ PutChallenge(Key(w), req[w].challenge, outcome)
         /\ ledger' = [ledger EXCEPT
              ![req[w].challenge.nonce].acked = outcome = "ok"]
    /\ Proceed(w, "send_sms", req[w].challenge)
    /\ UNCHANGED clock

SendPut(w) ==
    /\ req[w].pc = "send_put"
    /\ \E outcome \in Outcomes(req[w].cancelled) :
         /\ PutChallenge(Key(w), req[w].challenge, outcome)
         /\ IF outcome = "ok"
              THEN /\ Proceed(w, "send_sms", req[w].challenge)
                   /\ ledger' = [ledger EXCEPT
                        ![req[w].challenge.nonce].acked = TRUE]
              ELSE /\ Return(w, "failed")
                   /\ UNCHANGED ledger
    /\ UNCHANGED clock

(* Deviation: the call does not end with the request's context. *)
SmsUnbounded(cancelled) == IF cancelled THEN {} ELSE {"refused", "lost", "ok"}

(* The provider is reached over HTTP: an error does not tell whether the   *)
(* SMS left.                                                               *)
SmsOutcomes(cancelled) == {"refused", "lost"} \cup IF cancelled THEN {} ELSE {"ok"}

SendSms(w) ==
    /\ req[w].pc = "send_sms"
    /\ \E outcome \in SmsOutcomes(req[w].cancelled) :
         /\ Return(w, IF outcome = "ok" THEN "sent" ELSE "failed")
         /\ ledger' = [ledger EXCEPT
              ![req[w].challenge.nonce].delivered = @ \/ outcome # "refused"]
    /\ UNCHANGED <<storeVars, clock>>

-----------------------------------------------------------------------------
(* Verify.                                                                 *)

Verifiable(in) == Sendable(in) /\ ValidOTPCode(in.code, Digits)

VerifyReject(w, in) ==
    /\ ~Busy(w)
    /\ ~Ready \/ ~Verifiable(in)
    /\ Return(w, IF Ready THEN "invalid_code" ELSE "not_configured")
    /\ UNCHANGED <<storeVars, clock, ledger>>

VerifyBegin(w, in) ==
    /\ Ready /\ Verifiable(in)
    /\ Start(w, "verify_get", in, Trim[in.code], 0)
    /\ UNCHANGED <<storeVars, clock, ledger>>

(* No challenge, or the store did not answer. *)
VerifyMiss(w) ==
    /\ req[w].pc = "verify_get"
    /\ None \in Reads(w)
    /\ Return(w, "invalid_code")
    /\ UNCHANGED <<storeVars, clock, ledger>>

VerifyFetch(w) ==
    /\ req[w].pc = "verify_get"
    /\ \E challenge \in Reads(w) \ {None} : Proceed(w, "judge", challenge)
    /\ UNCHANGED <<storeVars, clock, ledger>>

(* The clock is read once the challenge has been: both may be out of date  *)
(* when the store is written.                                              *)
Stale(challenge, now) ==
    Expired(challenge, now) \/ AttemptsExhausted(challenge)

(* A challenge past its end is to be deleted, whoever asks. *)
VerifyStale(w) ==
    /\ req[w].pc = "judge"
    /\ \E now \in Readings :
         /\ Stale(req[w].challenge, now)
         /\ req' = [req EXCEPT ![w] = [@ EXCEPT
              !.pc = "purge", !.at = clock,
              !.verdict = IF Expired(req[w].challenge, now)
                            THEN "expired_code" ELSE "invalid_code"]]
    /\ answer' = "none"
    /\ UNCHANGED <<storeVars, clock, ledger>>

(* The store's answer to the delete is ignored. *)
VerifyPurge(w) ==
    /\ req[w].pc = "purge"
    /\ \E outcome \in Outcomes(req[w].cancelled) :
         DeleteChallenge(Key(w), outcome)
    /\ Return(w, req[w].verdict)
    /\ UNCHANGED <<clock, ledger>>

(* Deviation: whatever lies under the key is taken for the requester's. *)
MatchesKey(w, challenge) ==
    ChallengeKey(challenge.subject, challenge.purpose) = Key(w)

Matches(w, challenge) ==
    /\ challenge.subject = req[w].subject
    /\ challenge.phoneHash = PhoneHash(req[w].phone)
    /\ challenge.purpose = req[w].purpose

(* Deviation: a challenge of somebody else is removed. *)
MismatchPurges(w) ==
    /\ req[w].pc = "judge"
    /\ \E now \in Readings : ~Stale(req[w].challenge, now)
    /\ ~Matches(w, req[w].challenge)
    /\ req' = [req EXCEPT ![w] =
         [@ EXCEPT !.pc = "purge", !.verdict = "invalid_code"]]
    /\ answer' = "none"
    /\ UNCHANGED <<storeVars, clock, ledger>>

(* Two identities share the key, or the phone is another one: no attempt   *)
(* is counted.                                                             *)
VerifyMismatch(w) ==
    /\ req[w].pc = "judge"
    /\ \E now \in Readings : ~Stale(req[w].challenge, now)
    /\ ~Matches(w, req[w].challenge)
    /\ Return(w, "invalid_code")
    /\ UNCHANGED <<storeVars, clock, ledger>>

RightCode(w, challenge) ==
    challenge.hash = Hash(req[w].subject, PhoneHash(req[w].phone),
                          req[w].purpose, req[w].code, challenge.nonce)

(* Deviations: the attempt is not counted; the rest is not written back. *)
Uncharged(challenge) == challenge

ChargedAfresh(challenge) ==
    [challenge EXCEPT !.attempts = @ + 1, !.requestCount = 1]

Charged(challenge) == [challenge EXCEPT !.attempts = @ + 1]

(* The handler goes on with a challenge that is its own and not stale. *)
Accept(w, pc, challenge) ==
    /\ req[w].pc = "judge"
    /\ \E now \in Readings : ~Stale(req[w].challenge, now)
    /\ Matches(w, req[w].challenge)
    /\ req' = [req EXCEPT ![w] = [@ EXCEPT
         !.pc = pc, !.challenge = challenge, !.at = clock]]
    /\ answer' = "none"
    /\ UNCHANGED <<storeVars, clock, ledger>>

(* The whole challenge read before is written back with one attempt more. *)
VerifyWrong(w) ==
    /\ Accept(w, "bump", Charged(req[w].challenge))
    /\ ~RightCode(w, req[w].challenge)

(* The store's answer is ignored: an attempt may go unrecorded. *)
VerifyBump(w) ==
    /\ req[w].pc = "bump"
    /\ \E outcome \in Outcomes(req[w].cancelled) :
         /\ PutChallenge(Key(w), req[w].challenge, outcome)
         /\ ledger' = IF outcome = "ok"
              THEN [ledger EXCEPT ![req[w].challenge.nonce].wrong =
                      Count(@)]
              ELSE ledger
    /\ Return(w, "invalid_code")
    /\ UNCHANGED clock

VerifyRight(w) ==
    /\ Accept(w, "redeem", req[w].challenge)
    /\ RightCode(w, req[w].challenge)

(* Deviations: the store's answer is ignored; nothing is deleted. *)
RedeemAnyway(w) ==
    /\ req[w].pc = "redeem"
    /\ \E outcome \in Outcomes(req[w].cancelled) :
         DeleteChallenge(Key(w), outcome)
    /\ Return(w, "verified")
    /\ ledger' = [ledger EXCEPT ![req[w].challenge.nonce].uses = Count(@)]
    /\ UNCHANGED clock

RedeemAndKeep(w) ==
    /\ req[w].pc = "redeem"
    /\ Return(w, "verified")
    /\ ledger' = [ledger EXCEPT ![req[w].challenge.nonce].uses = Count(@)]
    /\ UNCHANGED <<storeVars, clock>>

(* Verify succeeds when the delete does, whatever is stored by then. *)
VerifyRedeem(w) ==
    /\ req[w].pc = "redeem"
    /\ \E outcome \in Outcomes(req[w].cancelled) :
         /\ DeleteChallenge(Key(w), outcome)
         /\ IF outcome = "ok"
              THEN /\ Return(w, "verified")
                   /\ ledger' = [ledger EXCEPT
                        ![req[w].challenge.nonce].uses = Count(@)]
              ELSE /\ Return(w, "failed")
                   /\ UNCHANGED ledger
    /\ UNCHANGED clock

-----------------------------------------------------------------------------
(* Around the handlers.                                                    *)

(* TimeoutMiddleware answers the caller and cancels the request's context; *)
(* the handler itself goes on.                                             *)
Timeout(w) ==
    /\ Busy(w) /\ ~req[w].cancelled
    /\ req' = [req EXCEPT ![w].cancelled = TRUE]
    /\ answer' = "none"
    /\ UNCHANGED <<storeVars, clock, ledger>>

(* The process of a handler ends: with the memory store that is the only   *)
(* process, with its documents.                                            *)
Crash(w) ==
    /\ Busy(w) \/ Driver = "memory"
    /\ req' = IF Driver = "memory" THEN [v \in Workers |-> Idle]
                                   ELSE [req EXCEPT ![w] = Idle]
    /\ answer' = "none"
    /\ Restart
    /\ UNCHANGED <<clock, ledger>>

StoreStep ==
    /\ \/ \E write \in stray : Land(write)
       \/ \E k \in Keys : Sweep(k, clock)
    /\ answer' = "none"
    /\ UNCHANGED <<clock, req, ledger>>

Tick ==
    /\ clock < MaxClock
    /\ clock' = clock + 1
    /\ answer' = "none"
    /\ UNCHANGED <<storeVars, req, ledger>>

SendStep(w) ==
    SendLimited(w) \/ SendNoCode(w) \/ SendIssue(w) \/ SendPut(w) \/ SendSms(w)

VerifyStep(w) ==
    \/ VerifyMiss(w) \/ VerifyFetch(w) \/ VerifyMismatch(w)
    \/ VerifyStale(w) \/ VerifyPurge(w)
    \/ VerifyWrong(w) \/ VerifyBump(w)
    \/ VerifyRight(w) \/ VerifyRedeem(w)

HandlerStep(w) == SendStep(w) \/ VerifyStep(w)

Next ==
    \/ \E w \in Workers :
         \/ \E in \in SendInputs : SendReject(w, in) \/ SendBegin(w, in)
         \/ \E in \in VerifyInputs : VerifyReject(w, in) \/ VerifyBegin(w, in)
         \/ HandlerStep(w)
         \/ Timeout(w)
         \/ Crash(w)
    \/ StoreStep
    \/ Tick

Spec == Init /\ [][Next]_vars
=============================================================================
