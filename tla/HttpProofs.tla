------------------------------- MODULE HttpProofs -------------------------------
(***************************************************************************)
(* Proofs about the composed service: every behaviour of HttpApi is one of *)
(* OtpService, so that what is proved of Send and Verify holds behind the  *)
(* API; every answer to a caller is true; and a session is only confirmed  *)
(* for a subject whose code was accepted.                                  *)
(***************************************************************************)
EXTENDS HttpApi, OtpInvariant

-----------------------------------------------------------------------------
(* The composition.                                                        *)

(* A step behind the API is a step of the use cases or leaves them alone.  *)
LEMMA HttpStepIsStep ==
    ASSUME [HttpNext]_httpVars PROVE [Next]_vars
<1>1. ASSUME NEW w \in Workers, NEW r \in Requests, Serve(w, r)
      PROVE  Next
  <2>1. CASE r.route = "send"
    BY <1>1, <2>1, HttpAssumption DEF Serve, Next
  <2>2. CASE r.route = "verify"
    BY <1>1, <2>2, HttpAssumption DEF Serve, Next
  <2> QED
    BY <1>1, <2>1, <2>2 DEF Serve
<1>2. ASSUME NEW w \in Workers, Inner(w) \/ Die(w) \/ Expire(w)
      PROVE  [Next]_vars
  BY <1>2 DEF Inner, Die, Expire, Next
<1>3. ASSUME NEW w \in Workers,
             \/ \E r \in Requests : AnswerAtOnce(w, r) \/ ValidateSession(w, r)
             \/ SignToken(w) \/ SignFails(w) \/ GiveUp(w)
      PROVE  UNCHANGED vars
  BY <1>3 DEF AnswerAtOnce, ValidateSession, SignToken, SignFails, GiveUp
<1>4. CASE Outside
  BY <1>4 DEF Outside, Next
<1>5. CASE UNCHANGED httpVars
  BY <1>5 DEF httpVars
<1> QED
  BY <1>1, <1>2, <1>3, <1>4, <1>5 DEF HttpNext

(* The handlers of the API run Send and Verify as OtpService describes     *)
(* them, with no other access to the store, the history or the handlers.   *)
THEOREM ImplementsUseCases == HttpSpec => Spec
<1>1. HttpInit => Init
  BY DEF HttpInit
<1> QED
  BY <1>1, HttpStepIsStep, PTL DEF HttpSpec, Spec

-----------------------------------------------------------------------------
(* The invariant: a handler serves the request it was given, and signs     *)
(* only for a code that is redeemed.                                       *)

VerifyPcs == {"verify_get", "judge", "purge", "bump", "redeem"}

Spending == {"send_put", "send_sms", "redeem"}

ServesFor(w, r) ==
    /\ req[w].subject = NormalizeSubject(r.subject) /\ req[w].subject # Empty
    /\ req[w].phone = NormalizePhone(r.phone)
    /\ req[w].pc \in VerifyPcs => req[w].code = Trim[r.code]
    /\ req[w].pc = "purge" => req[w].verdict \in {"expired_code", "invalid_code"}

ProvedBy(n, r) ==
    /\ Issued(n) /\ ledger[n].uses > 0
    /\ ledger[n].challenge.subject = NormalizeSubject(r.subject)
    /\ NormalizeSubject(r.subject) # Empty
    /\ ledger[n].challenge.phoneHash = PhoneHash(r.phone)
    /\ ledger[n].challenge.hash.code = Trim[r.code]

Stage(w) ==
    /\ (http[w].stage = "serving") <=> Busy(w)
    /\ http[w].stage = "serving" =>
         http[w].request \in Requests /\ ServesFor(w, http[w].request)
    /\ http[w].stage = "signing" =>
         /\ http[w].request \in Requests /\ http[w].nonce \in Nonces
         /\ ProvedBy(http[w].nonce, http[w].request)

SignedProved ==
    \A s \in signed : \E n \in Nonces :
      /\ Issued(n) /\ ledger[n].uses > 0
      /\ ledger[n].challenge.subject = s.token.payload.sub

HInv ==
    /\ http \in [Workers -> Serving] /\ secret \in Secrets
    /\ \A w \in Workers : Stage(w)
    /\ SignedProved
    /\ VouchedFor /\ AnswersAreTrue

HttpInv == FullInv /\ HInv

(* The invariant holds initially.                                          *)
LEMMA HttpInvInit ==
    ASSUME HttpInit PROVE HttpInv
<1>1. FullInv
  BY InvInit DEF HttpInit
<1>2. http \in [Workers -> Serving] /\ \A w \in Workers : Stage(w)
  BY DEF HttpInit, Init, Free, Serving, Stage, Busy, Idle
<1>3. SignedProved /\ secret \in Secrets
  BY DEF HttpInit, Session!Init, SignedProved
<1>4. VouchedFor /\ AnswersAreTrue
  BY DEF HttpInit, NoReply, VouchedFor, AnswersAreTrue, Refusals, ErrorCodes
<1> QED
  BY <1>1, <1>2, <1>3, <1>4 DEF HttpInv, HInv

-----------------------------------------------------------------------------
(* What the use cases do, as the handler sees it.                          *)

(* A code that was accepted stays accepted.                                *)
LEMMA UsesStay ==
    ASSUME FullInv, [Next]_vars, NEW n \in Nonces, Issued(n), ledger[n].uses > 0
    PROVE  /\ Issued(n)' /\ ledger'[n].uses > 0
           /\ ledger'[n].challenge = ledger[n].challenge
<1>1. TypeInv
  BY DEF FullInv
<1>2. ledger \in [Nonces -> Entry] /\ CountCap \in Nat
  BY <1>1, ServiceAssumption DEF TypeInv, TypeOK
<1>3. ledger'[n].challenge = ledger[n].challenge
  BY <1>1, LedgerGrows DEF LedgerKeeps
<1>4. Issued(n)'
  BY <1>3 DEF Issued
<1>5. ASSUME NEW w \in Workers, SendIssue(w)
      PROVE  ledger'[n].uses > 0
  <2>1. PICK m \in Nonces : IssueOf(w, m)
    BY <1>5, IssueFacts
  <2>2. m # n
    BY <2>1 DEF IssueOf
  <2> QED
    BY <1>1, <2>1, <2>2, IssueEntry
<1>6. ASSUME NEW m, NEW b, \/ ledger' = [ledger EXCEPT ![m].acked = b]
                          \/ ledger' = [ledger EXCEPT ![m].delivered = b]
                          \/ ledger' = [ledger EXCEPT ![m].wrong = b]
                          \/ ledger' = ledger
      PROVE  ledger'[n].uses > 0
  BY <1>2, <1>6 DEF Entry
<1>7. ASSUME NEW m \in Nonces,
             ledger' = [ledger EXCEPT ![m].uses = Count(@)]
      PROVE  ledger'[n].uses > 0
  <2>1. ledger[m].uses \in Nat /\ ledger[n].uses \in Nat
    BY <1>2 DEF Entry
  <2> QED
    BY <1>2, <1>7, <2>1 DEF Entry, Count
<1>8. ASSUME NEW w \in Workers, SendPut(w) \/ SendSms(w) \/ VerifyBump(w)
      PROVE  ledger'[n].uses > 0
  <2>1. CASE SendPut(w)
    BY <1>6, <2>1 DEF SendPut
  <2>2. CASE SendSms(w)
    BY <1>6, <2>2 DEF SendSms
  <2>3. CASE VerifyBump(w)
    BY <1>6, <2>3 DEF VerifyBump
  <2> QED
    BY <1>8, <2>1, <2>2, <2>3
<1>9. ASSUME NEW w \in Workers, VerifyRedeem(w)
      PROVE  ledger'[n].uses > 0
  <2>1. req[w].challenge.nonce \in Nonces
    BY <1>9, HeldGenuine DEF VerifyRedeem, Holding
  <2>2. \/ ledger' = ledger
        \/ ledger' = [ledger EXCEPT ![req[w].challenge.nonce].uses = Count(@)]
    BY <1>9 DEF VerifyRedeem
  <2> QED
    BY <1>6, <1>7, <2>1, <2>2
<1>10. ASSUME NEW w \in Workers, HandlerStep(w), ~SendIssue(w), ~SendPut(w),
              ~SendSms(w), ~VerifyBump(w), ~VerifyRedeem(w)
       PROVE  UNCHANGED ledger
  BY <1>10 DEF HandlerStep, SendStep, VerifyStep, SendLimited, SendNoCode,
     VerifyMiss, VerifyFetch, VerifyMismatch, VerifyStale, VerifyPurge,
     VerifyWrong, VerifyRight, Accept
<1>11. ASSUME NEW w \in Workers, NEW in,
              \/ SendReject(w, in) \/ SendBegin(w, in)
              \/ VerifyReject(w, in) \/ VerifyBegin(w, in)
       PROVE  UNCHANGED ledger
  BY <1>11 DEF SendReject, SendBegin, VerifyReject, VerifyBegin
<1>12. ASSUME \/ StoreStep \/ Tick \/ UNCHANGED vars
              \/ \E w \in Workers : Timeout(w) \/ Crash(w)
       PROVE  UNCHANGED ledger
  BY <1>12 DEF StoreStep, Tick, vars, Timeout, Crash
<1>13. ledger'[n].uses > 0
  BY <1>1, <1>5, <1>6, <1>8, <1>9, <1>10, <1>11, <1>12 DEF Next
<1> QED
  BY <1>3, <1>4, <1>13
Clear == {"invalid_input", "not_configured", "rate_limited", "invalid_code",
          "expired_code"}

(* A step of the use case that serves r: the handler goes on with r, or    *)
(* returns what it has done.                                               *)
Does(w, r) ==
    /\ \A v \in Workers \ {w} : req'[v] = req[v]
    /\ Busy(w)' => ServesFor(w, r)'
    /\ ~Busy(w)' =>
         /\ answer' = "sent" =>
              /\ req[w].pc = "send_sms"
              /\ \E n \in Nonces : /\ n = req[w].challenge.nonce
                                   /\ ledger'[n].acked /\ ledger'[n].delivered
         /\ answer' = "verified" =>
              /\ req[w].pc = "redeem"
              /\ \E n \in Nonces : n = req[w].challenge.nonce /\ ProvedBy(n, r)'
         /\ answer' \in Clear => req[w].pc \notin Spending

(* The first step: the request is refused, or Send or Verify takes it on.  *)
LEMMA BeginDoes ==
    ASSUME FullInv, NEW w \in Workers, NEW r, ~Busy(w),
           \/ SendReject(w, SendOf(r)) \/ SendBegin(w, SendOf(r))
           \/ VerifyReject(w, VerifyOf(r)) \/ VerifyBegin(w, VerifyOf(r))
    PROVE  Does(w, r)
<1>1. req \in [Workers -> Request] /\ req[w].pc = "idle"
  BY DEF FullInv, TypeInv, TypeOK, Busy
<1>2. ASSUME NEW a \in Clear, Return(w, a)
      PROVE  Does(w, r)
  BY <1>1, <1>2 DEF Return, Idle, Does, Busy, Clear, Spending
<1>3. CASE SendReject(w, SendOf(r))
  BY <1>2, <1>3 DEF SendReject, Clear
<1>4. CASE VerifyReject(w, VerifyOf(r))
  BY <1>2, <1>4 DEF VerifyReject, Clear
<1>5. CASE SendBegin(w, SendOf(r))
  <2>1. PICK now : Start(w, "send_get", SendOf(r), Empty, now)
    BY <1>5 DEF SendBegin
  <2>2. NormalizeSubject(r.subject) # Empty
    BY <1>5 DEF SendBegin, Sendable, SendOf
  <2> QED
    BY <1>1, <2>1, <2>2 DEF Start, Idle, SendOf, Does, Busy, ServesFor, VerifyPcs
<1>6. CASE VerifyBegin(w, VerifyOf(r))
  <2>1. Start(w, "verify_get", VerifyOf(r), Trim[r.code], 0)
    BY <1>6 DEF VerifyBegin, VerifyOf
  <2>2. NormalizeSubject(r.subject) # Empty
    BY <1>6 DEF VerifyBegin, Verifiable, Sendable, VerifyOf
  <2> QED
    BY <1>1, <2>1, <2>2 DEF Start, Idle, VerifyOf, Does, Busy, ServesFor, VerifyPcs
<1> QED
  BY <1>3, <1>4, <1>5, <1>6

(* Every later step of Send and Verify.                                    *)
LEMMA HandlerDoes ==
    ASSUME FullInv, FullInv', NEW w \in Workers, NEW r \in Requests,
           ServesFor(w, r), HandlerStep(w)
    PROVE  Does(w, r)
<1>1. /\ req \in [Workers -> Request] /\ req[w] \in Request
      /\ ledger \in [Nonces -> Entry] /\ CountCap \in Nat /\ CountCap > 0
  BY ServiceAssumption, HttpAssumption DEF FullInv, TypeInv, TypeOK
<1>2. ASSUME NEW a, Return(w, a), a # "sent", a # "verified",
             a \in Clear => req[w].pc \notin Spending
      PROVE  Does(w, r)
  BY <1>1, <1>2 DEF Return, Idle, Does, Busy
<1>3. ASSUME NEW pc, NEW c, Proceed(w, pc, c), pc # "purge",
             pc \in VerifyPcs => req[w].pc \in VerifyPcs, pc # "idle"
      PROVE  Does(w, r)
  <2>1. /\ req'[w].pc = pc /\ req'[w].subject = req[w].subject
        /\ req'[w].phone = req[w].phone /\ req'[w].code = req[w].code
        /\ \A v \in Workers \ {w} : req'[v] = req[v]
    BY <1>1, <1>3 DEF Proceed, Request
  <2> QED
    BY <1>3, <2>1 DEF Does, Busy, ServesFor
<1>4. CASE SendLimited(w) \/ SendNoCode(w) \/ VerifyMiss(w) \/ VerifyMismatch(w)
  <2>1. \E a \in {"rate_limited", "failed", "invalid_code"} : Return(w, a)
    BY <1>4 DEF SendLimited, SendNoCode, VerifyMiss, VerifyMismatch
  <2>2. req[w].pc \notin Spending
    BY <1>4
       DEF SendLimited, SendNoCode, VerifyMiss, VerifyMismatch, Spending
  <2> QED
    BY <1>2, <2>1, <2>2
<1>5. CASE SendIssue(w) \/ VerifyFetch(w)
  <2>1. CASE SendIssue(w)
    BY <1>3, <2>1 DEF SendIssue, VerifyPcs
  <2>2. CASE VerifyFetch(w)
    BY <1>3, <2>2 DEF VerifyFetch, VerifyPcs
  <2> QED
    BY <1>5, <2>1, <2>2
<1>6. CASE SendPut(w)
  <2>1. Proceed(w, "send_sms", req[w].challenge) \/ Return(w, "failed")
    BY <1>6 DEF SendPut
  <2> QED
    BY <1>2, <1>3, <2>1 DEF VerifyPcs, Clear
<1>7. CASE SendSms(w)
  <2> DEFINE n == req[w].challenge.nonce
  <2>1. req[w].pc = "send_sms" /\ n \in Nonces /\ ledger[n].acked
    BY <1>7, HeldGenuine DEF SendSms, Holding, FullInv, IInv, SmsSound
  <2>2. PICK outcome \in SmsOutcomes(req[w].cancelled) :
          /\ Return(w, IF outcome = "ok" THEN "sent" ELSE "failed")
          /\ ledger' = [ledger EXCEPT ![n].delivered = @ \/ outcome # "refused"]
    BY <1>7 DEF SendSms
  <2>3. CASE outcome = "ok"
    <3>1. ledger'[n].delivered /\ ledger'[n].acked
      BY <1>1, <2>1, <2>2, <2>3 DEF Entry
    <3> QED
      BY <1>1, <2>1, <2>2, <2>3, <3>1 DEF Return, Idle, Does, Busy, Clear
  <2>4. CASE outcome # "ok"
    BY <1>2, <2>2, <2>4 DEF Clear
  <2> QED
    BY <2>3, <2>4
<1>8. CASE VerifyStale(w)
  <2>1. /\ req'[w].pc = "purge" /\ req'[w].subject = req[w].subject
        /\ req'[w].phone = req[w].phone /\ req'[w].code = req[w].code
        /\ req'[w].verdict \in {"expired_code", "invalid_code"}
        /\ \A v \in Workers \ {w} : req'[v] = req[v]
    BY <1>1, <1>8 DEF VerifyStale, Request
  <2>2. req[w].pc \in VerifyPcs
    BY <1>8 DEF VerifyStale, VerifyPcs
  <2> QED
    BY <2>1, <2>2 DEF Does, Busy, ServesFor
<1>9. CASE VerifyPurge(w)
  <2>1. req[w].pc = "purge" /\ Return(w, req[w].verdict)
    BY <1>9 DEF VerifyPurge
  <2>2. req[w].verdict \in {"expired_code", "invalid_code"}
    BY <2>1 DEF ServesFor
  <2> QED
    BY <1>2, <2>1, <2>2 DEF Spending
<1>10. CASE VerifyWrong(w) \/ VerifyRight(w)
  <2>1. PICK pc, c : pc \in {"bump", "redeem"} /\ Accept(w, pc, c)
    BY <1>10 DEF VerifyWrong, VerifyRight
  <2>2. /\ req'[w].pc = pc /\ req'[w].subject = req[w].subject
        /\ req'[w].phone = req[w].phone /\ req'[w].code = req[w].code
        /\ \A v \in Workers \ {w} : req'[v] = req[v]
    BY <1>1, <2>1 DEF Accept, Request
  <2>3. req[w].pc \in VerifyPcs
    BY <2>1 DEF Accept, VerifyPcs
  <2> QED
    BY <2>1, <2>2, <2>3 DEF Does, Busy, ServesFor
<1>11. CASE VerifyBump(w)
  BY <1>2, <1>11 DEF VerifyBump, Spending
<1>12. CASE VerifyRedeem(w)
  <2>1. req[w].pc = "redeem" /\ req[w].pc \in Holding
    BY <1>12 DEF VerifyRedeem, Holding
  <2>2. PICK n \in Nonces : n = req[w].challenge.nonce
    BY <2>1, HeldGenuine
  <2>3. Issued(n) /\ ledger[n].uses \in Nat
    <3>1. Issued(req[w].challenge.nonce)
      BY <2>1, HeldGenuine
    <3> QED
      BY <1>1, <2>2, <3>1 DEF Entry, Issued
  <2>4. \/ Return(w, "failed")
        \/ /\ Return(w, "verified")
           /\ ledger' = [ledger EXCEPT ![n].uses = Count(@)]
    BY <1>12, <2>2 DEF VerifyRedeem
  <2>5. CASE Return(w, "failed")
    BY <1>2, <2>5 DEF Clear
  <2>6. CASE Return(w, "verified")
             /\ ledger' = [ledger EXCEPT ![n].uses = Count(@)]
    <3>1. ledger'[n].challenge = ledger[n].challenge /\ ledger'[n].uses > 0
      BY <1>1, <2>3, <2>6 DEF Entry, Count
    <3>2. /\ ledger[n].challenge.subject = req[w].subject
          /\ ledger[n].challenge.phoneHash = PhoneHash(req[w].phone)
          /\ ledger[n].challenge.hash.code = req[w].code
      BY <2>1, <2>2 DEF FullInv, IInv, ActsForOwner
    <3>3. PhoneHash(req[w].phone) = PhoneHash(r.phone)
      BY HttpAssumption, TextAssumption
         DEF ServesFor, PhoneHash, NormalizePhone, HttpRequest
    <3>4. ProvedBy(n, r)'
      BY <2>1, <2>3, <3>1, <3>2, <3>3
         DEF ProvedBy, Issued, ServesFor, VerifyPcs
    <3> QED
      BY <1>1, <2>1, <2>2, <2>6, <3>4 DEF Return, Idle, Does, Busy, Clear
  <2> QED
    BY <2>4, <2>5, <2>6
<1> QED
  BY <1>4, <1>5, <1>6, <1>7, <1>8, <1>9, <1>10, <1>11, <1>12
     DEF HandlerStep, SendStep, VerifyStep

-----------------------------------------------------------------------------
(* What the handler makes of it.                                           *)

(* A handler that a step does not touch stays where it is.                 *)
LEMMA StageStays ==
    ASSUME HttpInv, [Next]_vars, NEW v \in Workers,
           http'[v] = http[v], req'[v] = req[v]
    PROVE  Stage(v)'
<1>1. Stage(v) /\ FullInv
  BY DEF HttpInv, HInv
<1>2. CASE http[v].stage # "signing"
  BY <1>1, <1>2 DEF Stage, ServesFor, Busy
<1>3. CASE http[v].stage = "signing"
  <2>1. PICK n \in Nonces : n = http[v].nonce /\ ProvedBy(n, http[v].request)
    BY <1>1, <1>3 DEF Stage
  <2>2. Issued(n)' /\ ledger'[n].uses > 0
        /\ ledger'[n].challenge = ledger[n].challenge
    BY <1>1, <2>1, UsesStay DEF ProvedBy
  <2> QED
    BY <1>1, <1>3, <2>1, <2>2 DEF Stage, ServesFor, Busy, ProvedBy, Issued
<1> QED
  BY <1>2, <1>3

(* Tokens once signed stay justified.                                      *)
LEMMA SignedStay ==
    ASSUME HttpInv, [Next]_vars, signed' = signed
    PROVE  SignedProved'
<1>1. FullInv /\ SignedProved
  BY DEF HttpInv, HInv
<1>2. ASSUME NEW s \in signed
      PROVE  \E n \in Nonces :
               /\ Issued(n)' /\ ledger'[n].uses > 0
               /\ ledger'[n].challenge.subject = s.token.payload.sub
  <2>1. PICK n \in Nonces : /\ Issued(n) /\ ledger[n].uses > 0
                            /\ ledger[n].challenge.subject = s.token.payload.sub
    BY <1>1, <1>2 DEF SignedProved
  <2> QED
    BY <1>1, <2>1, UsesStay
<1> QED
  BY <1>2 DEF SignedProved, Issued

(* Nothing false is said by saying nothing.                                *)
LEMMA Silence ==
    ASSUME reply' = NoReply PROVE VouchedFor' /\ AnswersAreTrue'
BY DEF NoReply, VouchedFor, AnswersAreTrue, Refusals, ErrorCodes

(* The handler goes on, signs, or answers what its use case has done.      *)
LEMMA FollowSound ==
    ASSUME HttpInv, FullInv', [Next]_vars, NEW w \in Workers, NEW h \in Serving,
           NEW r \in Requests, h.request = r, h.stage = "serving",
           Does(w, r), Follow(w, h)
    PROVE  /\ http' \in [Workers -> Serving]
           /\ \A v \in Workers : Stage(v)'
           /\ VouchedFor' /\ AnswersAreTrue'
<1>1. http \in [Workers -> Serving] /\ answer' \in Answers
  BY DEF HttpInv, HInv, FullInv, TypeInv, TypeOK
<1>2. CASE Busy(w)' /\ GoOn(w, h)
  <2>1. Stage(w)'
    BY <1>1, <1>2 DEF GoOn, Does, Stage
  <2> QED
    BY <1>1, <1>2, <2>1, StageStays, Silence DEF GoOn, Does
<1>3. CASE /\ ~Busy(w)' /\ answer' = "verified"
           /\ GoOn(w, [h EXCEPT !.stage = "signing", !.nonce = Spends(w)])
  <2>1. PICK n \in Nonces : n = Spends(w) /\ ProvedBy(n, r)'
    BY <1>3 DEF Does, Spends
  <2>2. [h EXCEPT !.stage = "signing", !.nonce = n] \in Serving
    BY <2>1 DEF Serving
  <2>3. /\ http'[w].stage = "signing" /\ http'[w].nonce = n
        /\ http'[w].request = r
    BY <1>1, <1>3, <2>1 DEF GoOn, Serving
  <2>4. Stage(w)'
    BY <1>3, <2>1, <2>3 DEF Stage
  <2> QED
    BY <1>1, <1>3, <2>1, <2>2, <2>4, StageStays, Silence DEF GoOn, Does
<1>4. CASE /\ ~Busy(w)' /\ answer' # "verified"
           /\ Finish(w, h, AnswerTo(answer'), Spends(w))
  <2>1. Stage(w)'
    BY <1>1, <1>4 DEF Finish, Stage, Free
  <2>2. http' \in [Workers -> Serving]
    BY <1>1, <1>4 DEF Finish, Free, Serving
  <2>3. \A v \in Workers \ {w} : Stage(v)'
    BY <1>1, <1>4, StageStays DEF Finish, Does
  <2>4. CASE ~h.open
    BY <1>4, <2>1, <2>2, <2>3, <2>4, Silence DEF Finish
  <2>5. CASE h.open
    <3>1. reply'.code = AnswerTo(answer') /\ reply'.nonce = Spends(w)
      BY <1>4, <2>5 DEF Finish
    <3>2. reply'.code \notin {"valid", "token"}
      BY <1>1, <3>1 DEF AnswerTo, Answers
    <3>3. reply'.code = "sent" =>
            ledger'[reply'.nonce].acked /\ ledger'[reply'.nonce].delivered
      <4>1. SUFFICES ASSUME answer' = "sent"
            PROVE  /\ ledger'[Spends(w)].acked
                   /\ ledger'[Spends(w)].delivered
        BY <1>1, <3>1 DEF AnswerTo, Answers
      <4> QED
        BY <1>4, <4>1 DEF Does, Spends
    <3>4. reply'.code \in Refusals => reply'.nonce = None
      BY <1>1, <1>4, <3>1
         DEF AnswerTo, Answers, Does, Spends, Spending, Refusals, ErrorCodes, Clear
    <3> QED
      BY <2>1, <2>2, <2>3, <3>2, <3>3, <3>4 DEF VouchedFor, AnswersAreTrue
  <2> QED
    BY <2>4, <2>5
<1> QED
  BY <1>2, <1>3, <1>4 DEF Follow

-----------------------------------------------------------------------------
(* The actions.                                                            *)

Sound ==
    /\ http' \in [Workers -> Serving]
    /\ \A v \in Workers : Stage(v)'
    /\ VouchedFor' /\ AnswersAreTrue'

(* Requests that are answered at once, and answers of TimeoutHandler.      *)
LEMMA AnswerAtOnceSound ==
    ASSUME HttpInv, NEW w \in Workers, NEW r \in Requests, AnswerAtOnce(w, r)
    PROVE  Sound
<1>1. http \in [Workers -> Serving] /\ \A v \in Workers : Stage(v)
  BY DEF HttpInv, HInv
<1>2. \A v \in Workers : Stage(v)'
  BY <1>1, StageStays DEF AnswerAtOnce, vars
<1>3. VouchedFor' /\ AnswersAreTrue'
  BY DEF AnswerAtOnce, Say, Refusal, VouchedFor, AnswersAreTrue, Refusals,
     ErrorCodes
<1> QED
  BY <1>1, <1>2, <1>3 DEF Sound, AnswerAtOnce

(* A token found valid is made of one that was signed for the subject.     *)
LEMMA ValidateSound ==
    ASSUME HttpInv, NEW w \in Workers, NEW r \in Requests, ValidateSession(w, r)
    PROVE  Sound
<1>1. /\ http \in [Workers -> Serving] /\ SignedProved
      /\ \A v \in Workers : Stage(v)
  BY DEF HttpInv, HInv
<1>2. \A v \in Workers : Stage(v)'
  BY <1>1, StageStays DEF ValidateSession, vars
<1>3. AnswersAreTrue'
  BY DEF ValidateSession, Say, AnswersAreTrue, Refusals, ErrorCodes
<1>4. CASE Say("not_valid", r, None)
  BY <1>1, <1>2, <1>3, <1>4 DEF Sound, ValidateSession, Say, VouchedFor
<1>5. CASE \E a, b \in signed, now \in Readings :
             /\ Session!Validate(Session!Spliced(a, b), r.subject, now, secret)
             /\ Say("valid", r, None)
  <2>1. PICK a \in signed, b \in signed, now \in Readings :
          Session!Validate(Session!Spliced(a, b), r.subject, now, secret)
    BY <1>5
  <2>2. a.token.payload.sub = NormalizeSubject(r.subject)
    BY <2>1 DEF Session!Validate, Session!Spliced, Session!NormalizeSubject,
       NormalizeSubject
  <2>3. Proved(r.subject)
    BY <1>1, <2>1, <2>2 DEF SignedProved, Proved
  <2>4. Proved(r.subject)'
    BY <2>3 DEF Proved, ValidateSession, vars
  <2>5. VouchedFor'
    BY <1>5, <2>4 DEF VouchedFor, Say, Proved
  <2> QED
    BY <1>1, <1>2, <1>3, <2>5 DEF Sound, ValidateSession
<1> QED
  BY <1>4, <1>5 DEF ValidateSession

(* The first step of Send and Verify.                                      *)
LEMMA ServeSound ==
    ASSUME HttpInv, FullInv', [Next]_vars, NEW w \in Workers, NEW r \in Requests,
           Serve(w, r)
    PROVE  Sound
<1> DEFINE h == [Free EXCEPT !.stage = "serving", !.request = r, !.open = TRUE]
<1>1. h \in Serving /\ h.request = r /\ h.stage = "serving"
  BY DEF Free, Serving
<1>2. ~Busy(w)
  BY DEF HttpInv, HInv, Stage, Serve
<1>3. Does(w, r)
  BY <1>2, BeginDoes DEF Serve, HttpInv
<1>4. Follow(w, h)
  BY DEF Serve
<1> HIDE DEF h
<1> QED
  BY <1>1, <1>3, <1>4, FollowSound DEF Sound

(* Their later steps.                                                      *)
LEMMA InnerSound ==
    ASSUME HttpInv, FullInv', [Next]_vars, NEW w \in Workers, Inner(w)
    PROVE  Sound
<1>1. PICK h \in Serving : h = http[w]
  BY DEF HttpInv, HInv
<1>2. PICK r \in Requests : r = h.request /\ ServesFor(w, r)
  BY <1>1 DEF HttpInv, HInv, Stage, Inner
<1>3. Does(w, r)
  BY <1>2, HandlerDoes DEF Inner, HttpInv
<1>4. h.stage = "serving" /\ Follow(w, h)
  BY <1>1 DEF Inner
<1> QED
  BY <1>1, <1>2, <1>3, <1>4, FollowSound DEF Sound

(* A handler that signs, or fails to, is done; no use case moves.          *)
LEMMA SigningEnds ==
    ASSUME HttpInv, UNCHANGED vars, NEW w \in Workers, http[w].stage = "signing",
           http' = [http EXCEPT ![w] = Free]
    PROVE  /\ http' \in [Workers -> Serving]
           /\ \A v \in Workers : Stage(v)'
<1>1. /\ http \in [Workers -> Serving]
      /\ \A v \in Workers : Stage(v)
  BY DEF HttpInv, HInv
<1>2. http' \in [Workers -> Serving]
  BY <1>1 DEF Free, Serving
<1>3. Stage(w)'
  BY <1>1 DEF Stage, Free, Busy, vars
<1>4. \A v \in Workers \ {w} : Stage(v)'
  BY <1>1, StageStays DEF vars
<1> QED
  BY <1>2, <1>3, <1>4

(* A token is told for the code of the request, which is redeemed.         *)
LEMMA SignTokenSound ==
    ASSUME HttpInv, NEW w \in Workers, SignToken(w)
    PROVE  Sound
<1>1. Stage(w) /\ http[w].stage = "signing" /\ UNCHANGED vars
  BY DEF HttpInv, HInv, SignToken
<1>2. PICK n \in Nonces : n = http[w].nonce /\ ProvedBy(n, http[w].request)
  BY <1>1 DEF Stage
<1>3. reply' = [code |-> "token", request |-> http[w].request, nonce |-> n]
      \/ reply' = NoReply
  BY <1>2 DEF SignToken, Finish
<1>4. VouchedFor' /\ AnswersAreTrue'
  <2>1. CASE reply' = NoReply
    BY <2>1, Silence
  <2>2. CASE reply' = [code |-> "token", request |-> http[w].request, nonce |-> n]
    BY <1>1, <1>2, <2>2 DEF VouchedFor, AnswersAreTrue, Refusals, ErrorCodes,
       ProvedBy, vars
  <2> QED
    BY <1>3, <2>1, <2>2
<1> QED
  BY <1>1, <1>4, SigningEnds DEF Sound, SignToken, Finish

(* Signing works for a subject that was verified, if the secret is usable. *)
LEMMA SignsIfUsable ==
    ASSUME NEW subject \in Text, NormalizeSubject(subject) # Empty,
           NEW now \in Int, NEW key \in Secrets, Session!Usable(key)
    PROVE  Session!Sign(subject, now, key) # None
<1> DEFINE claims == [sub |-> Session!NormalizeSubject(subject),
                      method |-> "sms",
                      exp |-> Session!Unix(now + Session!MFASessionTTL)]
<1>1. Session!MFASessionTTL \in Int
  BY PolicyAssumption DEF Session!MFASessionTTL
<1>2. /\ (now + Session!MFASessionTTL) \div Second \in Int
      /\ Session!MFASessionTTL \div Second \in Int
  BY <1>1, StoreAssumption
<1>3. claims \in Session!Claims
  BY <1>2, TextAssumption, HttpAssumption
     DEF Session!Claims, Session!Methods, Session!Unix, Session!NormalizeSubject
<1>4. Session!Sign(subject, now, key)
        = [payload |-> claims, mac |-> Session!Mac(claims, Trim[key]),
           expiresIn |-> Session!MFASessionTTL \div Second]
  BY DEF Session!Sign, Session!NormalizeSubject, NormalizeSubject
<1>5. Trim[key] \in Text
  BY TextAssumption, HttpAssumption
<1> HIDE DEF claims
<1>6. Session!Sign(subject, now, key) \in Session!Token
  BY <1>2, <1>3, <1>4, <1>5 DEF Session!Token, Session!Mac
<1> QED
  BY <1>6, HttpAssumption

(* Only a secret that cannot be used leaves a redeemed code without token. *)
LEMMA SignFailsSound ==
    ASSUME HttpInv, NEW w \in Workers, SignFails(w)
    PROVE  Sound
<1>1. /\ Stage(w) /\ http[w].stage = "signing" /\ UNCHANGED <<vars, secret>>
      /\ secret \in Secrets /\ clock \in Nat /\ Skew \in Nat
  BY ServiceAssumption
     DEF HttpInv, HInv, SignFails, FullInv, TypeInv, TypeOK
<1>2. PICK r \in Requests : r = http[w].request
                            /\ NormalizeSubject(r.subject) # Empty
  BY <1>1 DEF Stage, ProvedBy
<1>3. r.subject \in Text
  BY HttpAssumption DEF HttpRequest
<1>4. PICK now \in Readings : Session!Sign(r.subject, now, secret) = None
  BY <1>2 DEF SignFails
<1>5. now \in Int
  BY <1>1, <1>4 DEF Readings
<1>6. PICK key \in Secrets : key = secret
  BY <1>1
<1>7. ~Session!Usable(key)
  BY <1>2, <1>3, <1>4, <1>5, <1>6, SignsIfUsable
<1>8. VouchedFor' /\ AnswersAreTrue'
  <2>1. CASE reply' = NoReply
    BY <2>1, Silence
  <2>2. CASE reply'.code = "service_not_configured"
    BY <1>1, <1>6, <1>7, <2>2
       DEF VouchedFor, AnswersAreTrue, Refusals, ErrorCodes, Session!Usable
  <2> QED
    BY <2>1, <2>2 DEF SignFails, Finish
<1> QED
  BY <1>1, <1>8, SigningEnds DEF Sound, SignFails, Finish

(* A context that ends changes neither the stage nor the request.          *)
LEMMA ExpireSound ==
    ASSUME HttpInv, [Next]_vars, NEW w \in Workers, Expire(w)
    PROVE  Sound
<1>1. /\ http \in [Workers -> Serving] /\ req \in [Workers -> Request]
      /\ \A v \in Workers : Stage(v)
      /\ ledger' = ledger
  BY DEF HttpInv, HInv, FullInv, TypeInv, TypeOK, Expire, Timeout, vars
<1>2. /\ http' \in [Workers -> Serving]
      /\ http'[w] = [http[w] EXCEPT !.late = TRUE]
      /\ \A v \in Workers \ {w} : http'[v] = http[v]
  BY <1>1 DEF Expire, GoOn, Serving
<1>3. /\ req'[w].pc = req[w].pc /\ req'[w].subject = req[w].subject
      /\ req'[w].phone = req[w].phone /\ req'[w].code = req[w].code
      /\ req'[w].verdict = req[w].verdict
      /\ \A v \in Workers \ {w} : req'[v] = req[v]
  BY <1>1 DEF Expire, Timeout, vars, Request
<1>4. /\ http'[w].stage = http[w].stage /\ http'[w].request = http[w].request
      /\ http'[w].nonce = http[w].nonce
  BY <1>1, <1>2 DEF Serving
<1>5. Stage(w)'
  BY <1>1, <1>3, <1>4 DEF Stage, ServesFor, ProvedBy, Issued, Busy
<1>6. \A v \in Workers : Stage(v)'
  BY <1>2, <1>3, <1>5, StageStays
<1> QED
  BY <1>2, <1>6, Silence DEF Sound, Expire, GoOn

(* The caller is answered in place of the handler.                         *)
LEMMA GiveUpSound ==
    ASSUME HttpInv, NEW w \in Workers, GiveUp(w)
    PROVE  Sound
<1>1. /\ http \in [Workers -> Serving] /\ UNCHANGED vars
      /\ \A v \in Workers : Stage(v)
  BY DEF HttpInv, HInv, GiveUp
<1>2. /\ http' \in [Workers -> Serving]
      /\ http'[w].stage = http[w].stage /\ http'[w].request = http[w].request
      /\ http'[w].nonce = http[w].nonce
      /\ \A v \in Workers \ {w} : http'[v] = http[v]
  BY <1>1 DEF GiveUp, Serving
<1>3. Stage(w)'
  BY <1>1, <1>2 DEF Stage, ServesFor, ProvedBy, Issued, Busy, vars
<1>4. \A v \in Workers : Stage(v)'
  BY <1>1, <1>2, <1>3, StageStays DEF vars
<1>5. VouchedFor' /\ AnswersAreTrue'
  BY DEF GiveUp, Say, VouchedFor, AnswersAreTrue, Refusals, ErrorCodes
<1> QED
  BY <1>2, <1>4, <1>5 DEF Sound

(* The handlers that end with their process leave nothing behind.          *)
LEMMA DieSound ==
    ASSUME HttpInv, [Next]_vars, NEW w \in Workers, Die(w)
    PROVE  Sound
<1>1. /\ http \in [Workers -> Serving] /\ req \in [Workers -> Request]
      /\ \A v \in Workers : Stage(v)
  BY DEF HttpInv, HInv, FullInv, TypeInv, TypeOK
<1>2. http' \in [Workers -> Serving]
  BY <1>1 DEF Die, Free, Serving
<1>3. ASSUME NEW v \in Workers, http'[v] = Free, req'[v].pc = "idle"
      PROVE  Stage(v)'
  BY <1>3 DEF Stage, Free, Busy
<1>4. CASE Driver = "memory"
  <2>1. req' = [v \in Workers |-> Idle] /\ http' = [v \in Workers |-> Free]
    BY <1>4 DEF Die, Crash
  <2> QED
    BY <1>2, <1>3, <2>1, Silence DEF Sound, Die, Idle
<1>5. CASE Driver # "memory"
  <2>1. http' = [http EXCEPT ![w] = Free]
    BY <1>5 DEF Die
  <2>2. req' = [req EXCEPT ![w] = Idle]
        \/ (http[w].stage = "signing" /\ req' = req)
    BY <1>5 DEF Die, Crash, vars
  <2>3. req'[w].pc = "idle" /\ \A v \in Workers \ {w} : req'[v] = req[v]
    BY <1>1, <2>2 DEF Idle, Stage, Busy
  <2> QED
    BY <1>1, <1>2, <1>3, <2>1, <2>3, StageStays, Silence DEF Sound, Die
<1> QED
  BY <1>4, <1>5

-----------------------------------------------------------------------------
(* The theorems.                                                           *)

(* A signed token stays one for a redeemed code.                           *)
LEMMA SignedStep ==
    ASSUME HttpInv, [Next]_vars, [HttpNext]_httpVars
    PROVE  SignedProved' /\ secret' \in Secrets
<1>1. CASE UNCHANGED <<secret, signed>>
  BY <1>1, SignedStay DEF HttpInv, HInv
<1>2. ASSUME NEW w \in Workers, SignToken(w)
      PROVE  SignedProved' /\ secret' \in Secrets
  <2>1. Stage(w) /\ http[w].stage = "signing" /\ UNCHANGED <<vars, secret>>
    BY <1>2 DEF HttpInv, HInv, SignToken, Session!SignIn
  <2>2. PICK n \in Nonces : ProvedBy(n, http[w].request)
    BY <2>1 DEF Stage
  <2>3. PICK s : /\ signed' = signed \cup {s}
                 /\ s.token.payload.sub
                      = NormalizeSubject(http[w].request.subject)
    <3>1. PICK now \in Session!Readings :
            LET token == Session!Sign(http[w].request.subject, now, secret)
            IN  /\ token # None
                /\ signed' = signed \cup
                     {[token |-> token, born |-> clock,
                       subject |-> http[w].request.subject, key |-> secret]}
      BY <1>2 DEF SignToken, Session!SignIn
    <3> DEFINE token == Session!Sign(http[w].request.subject, now, secret)
    <3>2. token.payload.sub = NormalizeSubject(http[w].request.subject)
      BY <3>1 DEF Session!Sign, Session!NormalizeSubject, NormalizeSubject
    <3> DEFINE new == [token |-> token, born |-> clock,
                       subject |-> http[w].request.subject, key |-> secret]
    <3>3. signed' = signed \cup {new}
      BY <3>1
    <3>4. new.token.payload.sub = NormalizeSubject(http[w].request.subject)
      BY <3>2
    <3> HIDE DEF token, new
    <3> QED
      BY <3>3, <3>4
  <2>4. \A t \in signed : \E m \in Nonces :
          /\ Issued(m) /\ ledger[m].uses > 0
          /\ ledger[m].challenge.subject = t.token.payload.sub
    BY DEF HttpInv, HInv, SignedProved
  <2>5. \A t \in signed' : \E m \in Nonces :
          /\ Issued(m) /\ ledger[m].uses > 0
          /\ ledger[m].challenge.subject = t.token.payload.sub
    BY <2>2, <2>3, <2>4 DEF ProvedBy
  <2> QED
    BY <2>1, <2>5 DEF SignedProved, Issued, vars, HttpInv, HInv
<1>3. ASSUME HttpNext, \A w \in Workers : ~SignToken(w)
      PROVE  UNCHANGED <<secret, signed>>
  BY <1>3 DEF HttpNext, AnswerAtOnce, Serve, ValidateSession, Inner,
     SignFails, Expire, GiveUp, Die, Outside
<1> QED
  BY <1>1, <1>2, <1>3 DEF httpVars

(* Every step keeps the invariant.                                         *)
LEMMA HttpInvStep ==
    ASSUME HttpInv, [HttpNext]_httpVars PROVE HttpInv'
<1>1. [Next]_vars
  BY HttpStepIsStep
<1>2. FullInv'
  BY <1>1, InvStep DEF HttpInv
<1>3. SignedProved' /\ secret' \in Secrets
  BY <1>1, SignedStep
<1>4. ASSUME NEW w \in Workers, NEW r \in Requests,
             AnswerAtOnce(w, r) \/ Serve(w, r) \/ ValidateSession(w, r)
      PROVE  Sound
  BY <1>1, <1>2, <1>4, AnswerAtOnceSound, ServeSound, ValidateSound
<1>5. ASSUME NEW w \in Workers,
             \/ Inner(w) \/ SignToken(w) \/ SignFails(w)
             \/ Expire(w) \/ GiveUp(w) \/ Die(w)
      PROVE  Sound
  BY <1>1, <1>2, <1>5, InnerSound, SignTokenSound, SignFailsSound,
     ExpireSound, GiveUpSound, DieSound
<1>6. ASSUME Outside PROVE Sound
  <2>1. \A v \in Workers : Stage(v)'
    BY <1>1, <1>6, StageStays DEF Outside, StoreStep, Tick
  <2>2. http' \in [Workers -> Serving]
    BY <1>6 DEF Outside, HttpInv, HInv
  <2>3. VouchedFor' /\ AnswersAreTrue'
    BY <1>6, Silence DEF Outside
  <2> QED
    BY <2>1, <2>2, <2>3 DEF Sound
<1>7. ASSUME UNCHANGED httpVars PROVE Sound
  <2>1. \A v \in Workers : Stage(v)'
    BY <1>1, <1>7, StageStays DEF httpVars, vars
  <2>2. http' \in [Workers -> Serving]
    BY <1>7 DEF httpVars, HttpInv, HInv
  <2>3. VouchedFor' /\ AnswersAreTrue'
    BY <1>7 DEF httpVars, vars, HttpInv, HInv, VouchedFor, Proved,
       AnswersAreTrue, Session!Usable
  <2> QED
    BY <2>1, <2>2, <2>3 DEF Sound
<1>8. Sound
  <2>1. CASE \E w \in Workers, r \in Requests :
               AnswerAtOnce(w, r) \/ Serve(w, r) \/ ValidateSession(w, r)
    BY <1>4, <2>1
  <2>2. CASE \E w \in Workers :
               \/ Inner(w) \/ SignToken(w) \/ SignFails(w)
               \/ Expire(w) \/ GiveUp(w) \/ Die(w)
    BY <1>5, <2>2
  <2> QED
    BY <1>6, <1>7, <2>1, <2>2 DEF HttpNext
<1> QED
  BY <1>2, <1>3, <1>8 DEF HttpInv, HInv, Sound

(* From the request to the session: a token is only called valid for a     *)
(* subject whose code was accepted (handler.go verify, validateSession).   *)
THEOREM SessionsVouchedFor == HttpSpec => []VouchedFor
<1>1. HttpInv => VouchedFor
  BY DEF HttpInv, HInv
<1> QED
  BY <1>1, HttpInvInit, HttpInvStep, PTL DEF HttpSpec

(* Whatever the store and the provider answer, and whenever the time is    *)
(* up, a caller is told only what is true (handler.go writeUseCaseError).  *)
THEOREM CallersToldTheTruth == HttpSpec => []AnswersAreTrue
<1>1. HttpInv => AnswersAreTrue
  BY DEF HttpInv, HInv
<1> QED
  BY <1>1, HttpInvInit, HttpInvStep, PTL DEF HttpSpec

-----------------------------------------------------------------------------
(* The sessions.                                                           *)

(* Send and Verify leave the clock alone.                                  *)
LEMMA HandlersKeepTime ==
    ASSUME NEW w \in Workers, NEW in,
           \/ SendReject(w, in) \/ SendBegin(w, in)
           \/ VerifyReject(w, in) \/ VerifyBegin(w, in)
           \/ HandlerStep(w) \/ Timeout(w) \/ Crash(w)
    PROVE  clock' = clock
<1>1. CASE SendStep(w)
  BY <1>1 DEF SendStep, SendLimited, SendNoCode, SendIssue, SendPut, SendSms
<1>2. CASE VerifyStep(w)
  BY <1>2 DEF VerifyStep, VerifyMiss, VerifyFetch, VerifyMismatch, VerifyStale,
     VerifyPurge, VerifyWrong, VerifyBump, VerifyRight, VerifyRedeem, Accept
<1>3. CASE \/ SendReject(w, in) \/ SendBegin(w, in)
           \/ VerifyReject(w, in) \/ VerifyBegin(w, in)
           \/ Timeout(w) \/ Crash(w)
  BY <1>3 DEF SendReject, SendBegin, VerifyReject, VerifyBegin, Timeout, Crash
<1> QED
  BY <1>1, <1>2, <1>3 DEF HandlerStep

(* A step behind the API signs a token, lets time pass, or leaves the      *)
(* sessions alone.                                                         *)
LEMMA HttpStepIsSessionStep ==
    ASSUME HttpInv, [HttpNext]_httpVars
    PROVE  [Session!Next]_(Session!sessionVars)
<1>1. ASSUME NEW w \in Workers, SignToken(w)
      PROVE  Session!Next
  <2>1. http[w].request.subject \in Text
    BY <1>1, HttpAssumption
       DEF SignToken, HttpInv, HInv, Stage, HttpRequest
  <2> QED
    BY <1>1, <2>1 DEF SignToken, Session!Next
<1>2. CASE Outside
  <2>1. CASE Tick
    BY <1>2, <2>1 DEF Outside, Tick, Session!Next, Session!Tick
  <2>2. CASE StoreStep
    BY <1>2, <2>2 DEF Outside, StoreStep, Session!sessionVars
  <2> QED
    BY <1>2, <2>1, <2>2 DEF Outside
<1>3. ASSUME NEW w \in Workers, NEW r,
             \/ AnswerAtOnce(w, r) \/ Serve(w, r) \/ ValidateSession(w, r)
             \/ Inner(w) \/ SignFails(w) \/ Expire(w) \/ GiveUp(w) \/ Die(w)
      PROVE  UNCHANGED Session!sessionVars
  <2>1. UNCHANGED <<secret, signed>>
    BY <1>3 DEF AnswerAtOnce, Serve, ValidateSession, Inner, SignFails, Expire,
       GiveUp, Die
  <2>2. CASE Serve(w, r) \/ Inner(w) \/ Expire(w) \/ Die(w)
    BY <2>1, <2>2, HandlersKeepTime
       DEF Serve, Inner, Expire, Die, vars, Session!sessionVars
  <2>3. CASE \/ AnswerAtOnce(w, r) \/ ValidateSession(w, r)
             \/ SignFails(w) \/ GiveUp(w)
    BY <2>1, <2>3 DEF AnswerAtOnce, ValidateSession, SignFails, GiveUp, vars,
       Session!sessionVars
  <2> QED
    BY <1>3, <2>2, <2>3
<1>4. CASE UNCHANGED httpVars
  BY <1>4 DEF httpVars, vars, Session!sessionVars
<1> QED
  BY <1>1, <1>2, <1>3, <1>4 DEF HttpNext

(* What the API does with tokens is what MfaSession describes, so that its *)
(* theorems on how long a session lasts hold for the tokens of the API.    *)
THEOREM ImplementsSessions == HttpSpec => Session!Spec
<1>1. HttpInit => Session!Init
  BY DEF HttpInit
<1> QED
  BY <1>1, HttpInvInit, HttpInvStep, HttpStepIsSessionStep, PTL
     DEF HttpSpec, Session!Spec

(* The theorems about sessions, for the constants of the API.              *)
Sessions == INSTANCE SessionProofs WITH Subjects <- Text

(* What MfaSession assumes of its constants holds of those of the API.     *)
LEMMA SessionsAssumed ==
    /\ Sessions!SessionAssumption /\ Sessions!TextAssumption
    /\ Sessions!KeyAssumption /\ Sessions!PolicyAssumption
    /\ Sessions!NoneAssumption
<1>1. Sessions!SessionAssumption
  BY HttpAssumption, ServiceAssumption, StoreAssumption
     DEF Sessions!SessionAssumption
<1>2. Sessions!NoneAssumption
  BY NoneAssumption
     DEF Sessions!NoneAssumption, Sessions!Challenge, Challenge,
         Sessions!PhoneHashes, PhoneHashes
<1> QED
  BY <1>1, <1>2, TextAssumption, KeyAssumption, PolicyAssumption
     DEF Sessions!TextAssumption, Sessions!KeyAssumption,
         Sessions!PolicyAssumption

(* The two instances speak of the same tokens.                             *)
LEMMA SameTokens ==
    /\ Sessions!MFASessionTTL = Session!MFASessionTTL
    /\ Sessions!Token = Session!Token
    /\ Sessions!Readings = Session!Readings
    /\ \A subject, now, key :
         Sessions!Sign(subject, now, key) = Session!Sign(subject, now, key)
    /\ \A token, subject, now, key :
         Sessions!Validate(token, subject, now, key)
           <=> Session!Validate(token, subject, now, key)
BY DEF Sessions!MFASessionTTL, Session!MFASessionTTL, Sessions!Token,
   Session!Token, Sessions!Claims, Session!Claims, Sessions!Methods,
   Session!Methods, Sessions!Readings, Session!Readings, Sessions!Sign,
   Session!Sign, Sessions!Mac, Session!Mac, Sessions!Unix, Session!Unix,
   Sessions!Usable, Session!Usable, Sessions!NormalizeSubject,
   Session!NormalizeSubject, Sessions!Validate, Session!Validate

(* They have the same invariants.                                          *)
LEMMA SameInvariants ==
    /\ Sessions!TypeOK <=> Session!TypeOK
    /\ Sessions!NeverTooLong <=> Session!NeverTooLong
    /\ Sessions!NotCutShort <=> Session!NotCutShort
<1>1. Sessions!TypeOK <=> Session!TypeOK
  BY SameTokens DEF Sessions!TypeOK, Session!TypeOK
<1>2. Sessions!NeverTooLong <=> Session!NeverTooLong
  BY SameTokens
     DEF Sessions!NeverTooLong, Session!NeverTooLong, Sessions!Valid,
         Session!Valid, Sessions!Spliced, Session!Spliced,
         Sessions!NormalizeSubject, Session!NormalizeSubject
<1>3. Sessions!NotCutShort <=> Session!NotCutShort
  BY SameTokens DEF Sessions!NotCutShort, Session!NotCutShort
<1> QED
  BY <1>1, <1>2, <1>3

(* They have the same steps.                                               *)
LEMMA SameSteps ==
    /\ Session!Init => Sessions!Init
    /\ [Session!Next]_(Session!sessionVars)
         => [Sessions!Next]_(Sessions!sessionVars)
<1>1. ASSUME NEW subject \in Text, Session!SignIn(subject)
      PROVE  Sessions!SignIn(subject)
  <2> DEFINE Adds(token) ==
               /\ token # None
               /\ signed' = signed \cup {[token |-> token, born |-> clock,
                                         subject |-> subject, key |-> secret]}
  <2>1. PICK now \in Session!Readings : Adds(Session!Sign(subject, now, secret))
    BY <1>1 DEF Session!SignIn
  <2>2. now \in Sessions!Readings
    BY SameTokens
  <2>3. Adds(Sessions!Sign(subject, now, secret))
    <3> HIDE DEF Adds
    <3>1. Sessions!Sign(subject, now, secret)
            = Session!Sign(subject, now, secret)
      BY SameTokens
    <3> QED
      BY <2>1, <3>1
  <2>4. Sessions!Cardinality(signed) = Session!Cardinality(signed)
    BY DEF Sessions!Cardinality, Session!Cardinality
  <2>5. UNCHANGED <<clock, secret>> /\ Sessions!Cardinality(signed) < MaxTokens
    BY <1>1, <2>4 DEF Session!SignIn
  <2> QED
    BY <2>2, <2>3, <2>5 DEF Sessions!SignIn
<1>2. ASSUME NEW value \in Secrets, Session!Redeploy(value)
      PROVE  Sessions!Redeploy(value)
  BY <1>2 DEF Session!Redeploy, Sessions!Redeploy
<1>3. Session!Tick => Sessions!Tick
  BY DEF Session!Tick, Sessions!Tick
<1>4. Session!Init => Sessions!Init
  BY DEF Session!Init, Sessions!Init
<1> QED
  BY <1>1, <1>2, <1>3, <1>4
     DEF Session!Next, Sessions!Next, Session!sessionVars, Sessions!sessionVars

(* No token that the API hands out, whatever parts of others it is put     *)
(* together with, is called valid for longer than its lifetime.            *)
THEOREM ApiSessionsEnd == HttpSpec => []Session!NeverTooLong
BY ImplementsSessions, SessionsAssumed, SameSteps, SameInvariants,
   Sessions!SessionsEnd, PTL DEF Session!Spec, Sessions!Spec

(* A token of the API is taken by every instance for as long as its caller *)
(* is told in expires_in, but for rounding and skew.                       *)
THEOREM ApiSessionsLast == HttpSpec => []Session!NotCutShort
BY ImplementsSessions, SessionsAssumed, SameSteps, SameInvariants,
   Sessions!SessionsLast, PTL DEF Session!Spec, Sessions!Spec

-----------------------------------------------------------------------------
(* Types.                                                                  *)

ReplyTyped == reply \in Reply

(* A handler spends a nonce or nothing.                                    *)
LEMMA SpendsType ==
    ASSUME FullInv, NEW w \in Workers
    PROVE  Spends(w) \in Nonces \cup {None}
BY HeldGenuine DEF Spends, Holding

(* The answer at the end of a request is of that request.                  *)
LEMMA FinishTyped ==
    ASSUME NEW w, NEW h, NEW code \in ReplyCodes, NEW n \in Nonces \cup {None},
           h.request \in Requests \cup {None}, Finish(w, h, code, n)
    PROVE  ReplyTyped'
BY DEF Finish, NoReply, ReplyTyped, Reply, ReplyCodes

(* So is the answer, if any, to a step of the use case.                    *)
LEMMA FollowTyped ==
    ASSUME FullInv, FullInv', NEW w \in Workers, NEW h,
           h.request \in Requests \cup {None}, Follow(w, h)
    PROVE  ReplyTyped'
<1>1. CASE reply' = NoReply
  BY <1>1 DEF NoReply, ReplyTyped, Reply, ReplyCodes
<1>2. CASE answer' # "verified" /\ Finish(w, h, AnswerTo(answer'), Spends(w))
  <2>1. AnswerTo(answer') \in ReplyCodes
    BY <1>2 DEF FullInv, TypeInv, TypeOK, Answers, AnswerTo, ReplyCodes, ErrorCodes
  <2> QED
    BY <1>2, <2>1, SpendsType, FinishTyped
<1> QED
  BY <1>1, <1>2 DEF Follow, GoOn

(* Every step keeps the types of the answer.                               *)
LEMMA ReplyStep ==
    ASSUME HttpInv, FullInv', ReplyTyped, [HttpNext]_httpVars
    PROVE  ReplyTyped'
<1>1. FullInv /\ http \in [Workers -> Serving]
  BY DEF HttpInv, HInv
<1>2. ASSUME NEW w \in Workers, NEW r \in Requests,
             AnswerAtOnce(w, r) \/ Serve(w, r) \/ ValidateSession(w, r)
      PROVE  ReplyTyped'
  <2>1. CASE Serve(w, r)
    <3> DEFINE h == [Free EXCEPT !.stage = "serving", !.request = r,
                                 !.open = TRUE]
    <3>1. h.request = r /\ Follow(w, h)
      BY <2>1 DEF Serve, Free
    <3> HIDE DEF h
    <3> QED
      BY <1>1, <3>1, FollowTyped
  <2>2. CASE AnswerAtOnce(w, r) \/ ValidateSession(w, r)
    BY <2>2 DEF AnswerAtOnce, ValidateSession, Say, Refusal, ReplyTyped, Reply,
       ReplyCodes, ErrorCodes
  <2> QED
    BY <1>2, <2>1, <2>2
<1>3. ASSUME NEW w \in Workers,
             \/ Inner(w) \/ SignToken(w) \/ SignFails(w)
             \/ Expire(w) \/ GiveUp(w) \/ Die(w)
      PROVE  ReplyTyped'
  <2>1. /\ http[w].request \in Requests \cup {None}
        /\ http[w].nonce \in Nonces \cup {None}
    BY <1>1 DEF Serving
  <2>2. CASE Inner(w)
    BY <1>1, <2>1, <2>2, FollowTyped DEF Inner
  <2>3. CASE SignToken(w) \/ SignFails(w)
    BY <2>1, <2>3, FinishTyped DEF SignToken, SignFails, ReplyCodes, ErrorCodes
  <2>4. CASE Expire(w) \/ GiveUp(w) \/ Die(w)
    BY <2>1, <2>4 DEF Expire, GiveUp, Die, GoOn, Say, NoReply, ReplyTyped, Reply,
       ReplyCodes
  <2> QED
    BY <1>3, <2>2, <2>3, <2>4
<1>4. CASE Outside \/ UNCHANGED httpVars
  BY <1>4 DEF Outside, httpVars, NoReply, ReplyTyped, Reply, ReplyCodes
<1> QED
  BY <1>2, <1>3, <1>4 DEF HttpNext

(* All variables of the composed service keep their types.                 *)
THEOREM HttpTypeCorrect == HttpSpec => []HttpTypeOK
<1>1. HttpInit => HttpInv /\ ReplyTyped
  BY HttpInvInit DEF HttpInit, NoReply, ReplyTyped, Reply, ReplyCodes
<1>2. HttpInv /\ ReplyTyped /\ [HttpNext]_httpVars => (HttpInv /\ ReplyTyped)'
  BY HttpInvStep, ReplyStep DEF HttpInv
<1>3. HttpInv /\ ReplyTyped /\ Session!TypeOK => HttpTypeOK
  BY DEF HttpInv, HInv, FullInv, TypeInv, ReplyTyped, HttpTypeOK
<1>4. HttpSpec => []Session!TypeOK
  BY ImplementsSessions, SessionsAssumed, SameSteps, SameInvariants,
     Sessions!SessionTypeCorrect, PTL DEF Session!Spec, Sessions!Spec
<1> QED
  BY <1>1, <1>2, <1>3, <1>4, PTL DEF HttpSpec

-----------------------------------------------------------------------------
(* One answer to a request.                                                *)

Once(w) ==
    Acts(w) =>
      IF Closes(w)
        THEN \/ reply'.code # "none" /\ reply'.request = http[w].request
             \/ \E v \in Workers : Die(v)
        ELSE reply' = NoReply

(* A step that leaves a handler alone is none of its.                      *)
LEMMA NotItsStep ==
    ASSUME NEW w, req'[w] = req[w], http'[w] = http[w] PROVE Once(w)
BY DEF Once, Acts

(* A handler that says nothing has answered once if its caller still waits.*)
LEMMA OnceSilent ==
    ASSUME http \in [Workers -> Serving], NEW w \in Workers, NEW h,
           h.open = http[w].open, GoOn(w, h)
    PROVE  Once(w)
BY DEF GoOn, Once, Closes

(* A handler that is done answers if its caller still waits.               *)
LEMMA OnceDone ==
    ASSUME http \in [Workers -> Serving], NEW w \in Workers, NEW n,
           NEW code, code # "none", Finish(w, http[w], code, n)
    PROVE  Once(w)
BY DEF Finish, Once, Closes, Free, NoReply, Serving

(* A use case that is done has an answer.                                  *)
LEMMA EndsWithAnswer ==
    ASSUME FullInv, NEW w \in Workers, NEW r, ServesFor(w, r), HandlerStep(w),
           ~Busy(w)'
    PROVE  answer' # "none"
<1>1. req \in [Workers -> Request]
  BY DEF FullInv, TypeInv, TypeOK
<1>2. ASSUME NEW a, a # "none", Return(w, a)
      PROVE  answer' # "none"
  BY <1>2 DEF Return
<1>3. ASSUME NEW pc, pc # "idle", NEW c, Proceed(w, pc, c)
      PROVE  FALSE
  BY <1>1, <1>3 DEF Proceed, Request, Busy
<1>4. CASE SendStep(w)
  <2>1. CASE SendIssue(w)
    BY <1>3, <2>1 DEF SendIssue
  <2>2. CASE SendPut(w)
    BY <1>2, <1>3, <2>2 DEF SendPut
  <2>3. CASE SendLimited(w) \/ SendNoCode(w) \/ SendSms(w)
    BY <1>2, <2>3 DEF SendLimited, SendNoCode, SendSms
  <2> QED
    BY <1>4, <2>1, <2>2, <2>3 DEF SendStep
<1>5. CASE VerifyStep(w)
  <2>1. CASE VerifyFetch(w)
    BY <1>3, <2>1 DEF VerifyFetch
  <2>2. ASSUME NEW pc, pc # "idle", NEW c, Accept(w, pc, c)
        PROVE  FALSE
    BY <1>1, <2>2 DEF Accept, Request, Busy
  <2>3. ~(VerifyWrong(w) \/ VerifyRight(w))
    BY <2>2 DEF VerifyWrong, VerifyRight
  <2>4. ~VerifyStale(w)
    BY <1>1 DEF VerifyStale, Request, Busy
  <2>5. CASE VerifyPurge(w)
    BY <1>2, <2>5 DEF VerifyPurge, ServesFor
  <2>6. CASE VerifyMiss(w) \/ VerifyMismatch(w) \/ VerifyBump(w) \/ VerifyRedeem(w)
    BY <1>2, <2>6 DEF VerifyMiss, VerifyMismatch, VerifyBump, VerifyRedeem
  <2> QED
    BY <1>5, <2>1, <2>3, <2>4, <2>5, <2>6 DEF VerifyStep
<1> QED
  BY <1>4, <1>5 DEF HandlerStep

(* Every step answers at most once, and the right request.                 *)
LEMMA OnceStep ==
    ASSUME HttpInv, FullInv', HttpNext, NEW w \in Workers PROVE Once(w)
<1>1. /\ http \in [Workers -> Serving] /\ req \in [Workers -> Request]
      /\ \A v \in Workers : Stage(v)
  BY DEF HttpInv, HInv, FullInv, TypeInv, TypeOK
<1>2. ASSUME NEW v \in Workers, NEW r \in Requests,
             AnswerAtOnce(v, r) \/ ValidateSession(v, r)
      PROVE  Once(w)
  BY <1>2, NotItsStep DEF AnswerAtOnce, ValidateSession, vars
<1>3. ASSUME NEW v \in Workers, NEW r \in Requests, Serve(v, r)
      PROVE  Once(w)
  <2>1. CASE w = v
    BY <1>3, <2>1 DEF Serve, Once, Acts
  <2>2. CASE w # v
    <3>1. http'[w] = http[w]
      BY <1>1, <1>3, <2>2 DEF Serve, Follow, GoOn, Finish
    <3>2. Does(v, r)
      BY <1>1, <1>3, BeginDoes DEF Serve, HttpInv, Stage
    <3> QED
      BY <2>2, <3>1, <3>2, NotItsStep DEF Does
  <2> QED
    BY <2>1, <2>2
<1>4. ASSUME NEW v \in Workers, Inner(v)
      PROVE  Once(w)
  <2>1. PICK r \in Requests : ServesFor(v, r)
    BY <1>1, <1>4 DEF Inner, Stage
  <2>2. Does(v, r)
    BY <1>4, <2>1, HandlerDoes DEF Inner, HttpInv
  <2>3. CASE w # v
    <3>1. http'[w] = http[w]
      BY <1>1, <1>4, <2>3 DEF Inner, Follow, GoOn, Finish
    <3> QED
      BY <2>2, <2>3, <3>1, NotItsStep DEF Does
  <2>4. CASE w = v
    <3>1. Follow(w, http[w]) /\ HandlerStep(w)
      BY <1>4, <2>4 DEF Inner
    <3>2. CASE GoOn(w, http[w])
      BY <1>1, <3>2, OnceSilent
    <3>3. CASE /\ ~Busy(w)' /\ answer' = "verified"
               /\ GoOn(w, [http[w] EXCEPT !.stage = "signing",
                                          !.nonce = Spends(w)])
      <4> DEFINE h == [http[w] EXCEPT !.stage = "signing", !.nonce = Spends(w)]
      <4>1. h.open = http[w].open
        BY <1>1 DEF Serving
      <4>2. GoOn(w, h)
        BY <3>3
      <4> HIDE DEF h
      <4> QED
        BY <1>1, <4>1, <4>2, OnceSilent
    <3>4. CASE /\ ~Busy(w)' /\ answer' # "verified"
               /\ Finish(w, http[w], AnswerTo(answer'), Spends(w))
      <4>1. answer' # "none" /\ answer' \in Answers
        BY <2>1, <2>4, <3>1, <3>4, EndsWithAnswer
           DEF HttpInv, FullInv, TypeInv, TypeOK
      <4>2. AnswerTo(answer') # "none"
        BY <4>1 DEF AnswerTo, Answers
      <4> QED
        BY <1>1, <3>4, <4>2, OnceDone
    <3> QED
      BY <3>1, <3>2, <3>3, <3>4 DEF Follow
  <2> QED
    BY <2>3, <2>4
<1>5. ASSUME NEW v \in Workers, SignToken(v) \/ SignFails(v)
      PROVE  Once(w)
  <2>1. /\ UNCHANGED req
        /\ \E n, code : code # "none" /\ Finish(v, http[v], code, n)
    BY <1>5 DEF SignToken, SignFails, vars
  <2>2. CASE w # v
    BY <1>1, <2>1, <2>2, NotItsStep DEF Finish
  <2> QED
    BY <1>1, <2>1, <2>2, OnceDone
<1>6. ASSUME NEW v \in Workers, Expire(v)
      PROVE  Once(w)
  <2>1. GoOn(v, [http[v] EXCEPT !.late = TRUE])
    BY <1>6 DEF Expire
  <2>2. CASE w # v
    BY <1>1, <1>6, <2>1, <2>2, NotItsStep DEF GoOn, Expire, Timeout, vars
  <2>3. CASE w = v
    <3> DEFINE h == [http[w] EXCEPT !.late = TRUE]
    <3>1. h.open = http[w].open
      BY <1>1 DEF Serving
    <3>2. GoOn(w, h)
      BY <2>1, <2>3
    <3> HIDE DEF h
    <3> QED
      BY <1>1, <3>1, <3>2, OnceSilent
  <2> QED
    BY <2>2, <2>3
<1>7. ASSUME NEW v \in Workers, GiveUp(v)
      PROVE  Once(w)
  <2>1. CASE w # v
    BY <1>1, <1>7, <2>1, NotItsStep DEF GiveUp, vars
  <2>2. CASE w = v
    <3>1. reply'.code = "timeout" /\ reply'.request = http[w].request
      BY <1>7, <2>2 DEF GiveUp, Say
    <3>2. http[w].open /\ ~http'[w].open
      BY <1>1, <1>7, <2>2 DEF GiveUp, Serving
    <3> QED
      BY <3>1, <3>2 DEF Once, Closes
  <2> QED
    BY <2>1, <2>2
<1>8. ASSUME NEW v \in Workers, Die(v)
      PROVE  Once(w)
  BY <1>8 DEF Die, Once
<1>9. CASE Outside
  <2>1. http' = http /\ reply' = NoReply
    BY <1>9 DEF Outside
  <2>2. ~Closes(w)
    BY <2>1 DEF Closes
  <2> QED
    BY <2>1, <2>2 DEF Once
<1> QED
  BY <1>2, <1>3, <1>4, <1>5, <1>6, <1>7, <1>8, <1>9 DEF HttpNext

(* The timeout, the handler and the end of the process race, and the       *)
(* caller of a request gets one answer or, with the process, none          *)
(* (TimeoutMiddleware).                                                    *)
THEOREM OneAnswerEach == HttpSpec => AnsweredOnce
<1>1. HttpInv /\ HttpInv' /\ [HttpNext]_httpVars =>
        [\A w \in Workers : Acts(w) =>
           IF Closes(w)
             THEN \/ reply'.code # "none" /\ reply'.request = http[w].request
                  \/ \E v \in Workers : Die(v)
             ELSE reply' = NoReply]_httpVars
  BY OnceStep DEF Once, HttpInv
<1> QED
  BY <1>1, HttpInvInit, HttpInvStep, PTL DEF HttpSpec, AnsweredOnce
=============================================================================
