----------------------------- MODULE OtpInvariant -----------------------------
(***************************************************************************)
(* Proof that IInv is an invariant, and of the properties that follow.     *)
(* The core is CopiesStep: a step adds no challenge to those that can      *)
(* reach the store, but for the one a send issues and the one a verify     *)
(* charges; what is true of every copy needs showing for these two only.   *)
(***************************************************************************)
EXTENDS OtpProofs

-----------------------------------------------------------------------------
(* Where the copies after a step come from.                                *)

StoreKeeps ==
    /\ \A k \in Keys :
         challenges'[k] # None => Copy(k, challenges'[k]) \in Copies
    /\ \A s \in stray' : s.value # None => s \in Copies

HandlersKeep ==
    \A w \in Workers :
      req'[w].pc \in Holding => Copy(Key(w)', req'[w].challenge) \in Copies

HandlersKeepBut(v) ==
    \A w \in Workers \ {v} :
      req'[w].pc \in Holding => Copy(Key(w)', req'[w].challenge) \in Copies

(* What is stored or in flight is a copy.                                  *)
LEMMA StoreCopies ==
    /\ \A k \in Keys :
         challenges[k] # None => Copy(k, challenges[k]) \in Copies
    /\ \A s \in stray : s.value # None => s \in Copies
BY DEF Copies

(* Copies come from the store and from the handlers.                       *)
LEMMA AllKeep ==
    ASSUME StoreKeeps, HandlersKeep
    PROVE  Copies' \subseteq Copies
BY DEF StoreKeeps, HandlersKeep, Copies

(* An untouched store holds copies only.                                   *)
LEMMA StoreSame ==
    ASSUME UNCHANGED storeVars PROVE StoreKeeps
BY DEF StoreKeeps, Copies, storeVars

(* A write of a copy, or of nothing, leaves copies only.                   *)
LEMMA StoreApplied ==
    ASSUME StoreTypeOK, NEW k \in Keys, NEW v \in Challenge \cup {None}, NEW o,
           Apply(k, v, o), v # None => Copy(k, v) \in Copies
    PROVE  StoreKeeps
<1>1. ASSUME NEW j \in Keys, challenges'[j] # None
      PROVE  Copy(j, challenges'[j]) \in Copies
  BY <1>1, ApplyFacts DEF Copies
<1>2. ASSUME NEW s \in stray', s.value # None
      PROVE  s \in Copies
  <2>1. CASE s \in stray
    BY <1>2, <2>1 DEF Copies
  <2>2. CASE s = Copy(k, v)
    <3>1. s.value = v
      BY <2>2 DEF Copy
    <3> QED
      BY <1>2, <2>2, <3>1
  <2> QED
    BY <1>2, <2>1, <2>2, ApplyFacts DEF Copy
<1> QED
  BY <1>1, <1>2 DEF StoreKeeps

(* Untouched handlers hold copies only.                                    *)
LEMMA HandlersSame ==
    ASSUME UNCHANGED req PROVE HandlersKeep
BY DEF HandlersKeep, Copies, Key

(* A handler that returns brings no new copy.                              *)
LEMMA HandlerReturns ==
    ASSUME HandlersTyped, NEW w \in Workers, NEW a, Return(w, a)
    PROVE  HandlersKeep
BY IdleType DEF HandlersTyped, Return, HandlersKeep, Copies, Key

(* A handler that goes on with the same request and another challenge.     *)
LEMMA HandlerProceeds ==
    ASSUME HandlersTyped, NEW w \in Workers, NEW r \in Request,
           req' = [req EXCEPT ![w] = r],
           r.subject = req[w].subject, r.purpose = req[w].purpose
    PROVE  /\ HandlersKeepBut(w)
           /\ Key(w)' = Key(w)
           /\ Copy(Key(w), r.challenge) \in Copies => HandlersKeep
<1>1. Key(w)' = Key(w) /\ req'[w] = r
  BY DEF HandlersTyped, Key
<1>2. HandlersKeepBut(w)
  BY DEF HandlersTyped, HandlersKeepBut, Copies, Key
<1> QED
  BY <1>1, <1>2 DEF HandlersKeep, HandlersKeepBut

(* What a handler has read is stored, under its own key.                   *)
LEMMA ReadsCopy ==
    ASSUME TypeInv, NEW w \in Workers, NEW c \in Reads(w), c # None
    PROVE  Copy(Key(w), c) \in Copies /\ c \in Challenge
<1>1. StoreTypeOK /\ HandlersTyped
  BY DEF TypeInv, TypeOK, HandlersTyped
<1> QED
  BY <1>1, ReadsType, KeyType DEF Copies

(* When one handler takes up something new, it is the only new copy.       *)
LEMMA OneNew ==
    ASSUME StoreKeeps, NEW w \in Workers, HandlersKeepBut(w), NEW x \in Copies'
    PROVE  x \in Copies \/ x = Copy(Key(w)', req'[w].challenge)
BY DEF StoreKeeps, HandlersKeepBut, Copies

IssuedCopy(w, x) == SendIssue(w) /\ x = Copy(Key(w), req'[w].challenge)

ChargedCopy(w, x) ==
    VerifyWrong(w) /\ x = Copy(Key(w), Charged(req[w].challenge))

(* The only new copies are an issued and a charged challenge.              *)
LEMMA CopiesStep ==
    ASSUME TypeInv, [Next]_vars, NEW x \in Copies'
    PROVE  x \in Copies \/ \E w \in Workers : IssuedCopy(w, x) \/ ChargedCopy(w, x)
<1>1. /\ StoreTypeOK /\ HandlersTyped /\ clock \in Int
  BY DEF TypeInv, TypeOK, HandlersTyped
<1>2. ASSUME StoreKeeps, HandlersKeep
      PROVE  x \in Copies
  BY <1>2, AllKeep
<1>3. ASSUME NEW w \in Workers, req[w].pc \in Holding
      PROVE  /\ Copy(Key(w), req[w].challenge) \in Copies
             /\ req[w].challenge \in Challenge
  BY <1>3 DEF Copies, TypeInv, Held
<1>4. ASSUME NEW w \in Workers, NEW a, Return(w, a), StoreKeeps
      PROVE  x \in Copies
  BY <1>1, <1>2, <1>4, HandlerReturns
<1>5. ASSUME NEW w \in Workers, SendStep(w)
      PROVE  x \in Copies \/ IssuedCopy(w, x)
  <2>1. req[w] \in Request /\ Key(w) \in Keys
    BY <1>1, KeyType DEF HandlersTyped
  <2>2. CASE SendLimited(w) \/ SendNoCode(w) \/ SendSms(w)
    BY <1>4, <2>2, StoreSame DEF SendLimited, SendNoCode, SendSms
  <2>3. CASE SendIssue(w)
    <3>1. PICK e \in Reads(w), code \in Codes, n \in Nonces :
            Proceed(w, "send_put", NewChallenge(w, e, code, n))
      BY <2>3 DEF SendIssue
    <3>2. NewChallenge(w, e, code, n) \in Challenge
      BY <1>1, <2>1, ReadsType, NewChallengeType DEF Request
    <3> DEFINE r == [req[w] EXCEPT !.pc = "send_put",
                                   !.challenge = NewChallenge(w, e, code, n)]
    <3>3. r \in Request /\ r.subject = req[w].subject /\ r.purpose = req[w].purpose
      BY <2>1, <3>2 DEF Request, Pcs
    <3>4. req' = [req EXCEPT ![w] = r]
      BY <3>1 DEF Proceed
    <3> HIDE DEF r
    <3>5. HandlersKeepBut(w) /\ Key(w)' = Key(w)
      BY <1>1, <3>3, <3>4, HandlerProceeds
    <3>6. StoreKeeps
      BY <2>3, StoreSame DEF SendIssue
    <3> QED
      BY <2>3, <3>5, <3>6, OneNew DEF IssuedCopy
  <2>4. CASE SendPut(w)
    <3>1. req[w].pc \in Holding
      BY <2>4 DEF SendPut, Holding
    <3>2. StoreKeeps
      BY <1>1, <1>3, <2>1, <2>4, <3>1, StoreApplied DEF SendPut, PutChallenge
    <3>3. CASE Return(w, "failed")
      BY <1>4, <3>2, <3>3
    <3>4. CASE Proceed(w, "send_sms", req[w].challenge)
      <4> DEFINE r == [req[w] EXCEPT !.pc = "send_sms", !.challenge = req[w].challenge]
      <4>1. /\ r \in Request /\ r.challenge = req[w].challenge
            /\ r.subject = req[w].subject /\ r.purpose = req[w].purpose
        BY <2>1 DEF Request, Pcs
      <4>2. req' = [req EXCEPT ![w] = r]
        BY <3>4 DEF Proceed
      <4> HIDE DEF r
      <4> QED
        BY <1>1, <1>2, <1>3, <3>1, <3>2, <4>1, <4>2, HandlerProceeds
    <3> QED
      BY <2>4, <3>3, <3>4 DEF SendPut
  <2> QED
    BY <1>5, <2>2, <2>3, <2>4 DEF SendStep
<1>6. ASSUME NEW w \in Workers, VerifyStep(w)
      PROVE  x \in Copies \/ ChargedCopy(w, x)
  <2>1. req[w] \in Request /\ Key(w) \in Keys
    BY <1>1, KeyType DEF HandlersTyped
  <2>2. CASE VerifyMiss(w) \/ VerifyMismatch(w)
    BY <1>4, <2>2, StoreSame DEF VerifyMiss, VerifyMismatch
  <2>3. CASE VerifyFetch(w)
    <3>1. PICK c \in Reads(w) \ {None} : Proceed(w, "judge", c)
      BY <2>3 DEF VerifyFetch
    <3>2. Copy(Key(w), c) \in Copies /\ c \in Challenge
      BY <3>1, ReadsCopy
    <3> DEFINE r == [req[w] EXCEPT !.pc = "judge", !.challenge = c]
    <3>3. /\ r \in Request /\ r.challenge = c
          /\ r.subject = req[w].subject /\ r.purpose = req[w].purpose
      BY <2>1, <3>2 DEF Request, Pcs
    <3>4. req' = [req EXCEPT ![w] = r]
      BY <3>1 DEF Proceed
    <3> HIDE DEF r
    <3>5. StoreKeeps
      BY <2>3, StoreSame DEF VerifyFetch
    <3> QED
      BY <1>1, <1>2, <3>2, <3>3, <3>4, <3>5, HandlerProceeds
  <2>4. CASE VerifyStale(w)
    <3>1. PICK a \in Answers :
            req' = [req EXCEPT ![w] = [@ EXCEPT !.pc = "purge", !.at = clock,
                                                !.verdict = a]]
      BY <2>4 DEF VerifyStale, Answers
    <3> DEFINE r == [req[w] EXCEPT !.pc = "purge", !.at = clock, !.verdict = a]
    <3>2. /\ r \in Request /\ r.challenge = req[w].challenge
          /\ r.subject = req[w].subject /\ r.purpose = req[w].purpose
      BY <1>1, <2>1 DEF Request, Pcs
    <3>3. req' = [req EXCEPT ![w] = r]
      BY <3>1
    <3> HIDE DEF r
    <3>4. StoreKeeps /\ req[w].pc \in Holding
      BY <2>4, StoreSame DEF VerifyStale, Holding
    <3> QED
      BY <1>1, <1>2, <1>3, <3>2, <3>3, <3>4, HandlerProceeds
  <2>5. CASE VerifyPurge(w) \/ VerifyRedeem(w)
    <3>1. StoreKeeps
      BY <1>1, <2>1, <2>5, StoreApplied
         DEF VerifyPurge, VerifyRedeem, DeleteChallenge
    <3> QED
      BY <1>4, <2>5, <3>1 DEF VerifyPurge, VerifyRedeem
  <2>6. CASE VerifyBump(w)
    <3>1. req[w].pc \in Holding
      BY <2>6 DEF VerifyBump, Holding
    <3>2. StoreKeeps
      BY <1>1, <1>3, <2>1, <2>6, <3>1, StoreApplied DEF VerifyBump, PutChallenge
    <3> QED
      BY <1>4, <2>6, <3>2 DEF VerifyBump
  <2>7. ASSUME NEW pc \in Pcs, NEW c \in Challenge, Accept(w, pc, c)
        PROVE  /\ StoreKeeps /\ HandlersKeepBut(w) /\ Key(w)' = Key(w)
               /\ req'[w].challenge = c
    <3> DEFINE r == [req[w] EXCEPT !.pc = pc, !.challenge = c, !.at = clock]
    <3>1. /\ r \in Request /\ r.challenge = c
          /\ r.subject = req[w].subject /\ r.purpose = req[w].purpose
      BY <1>1, <2>1 DEF Request
    <3>2. req' = [req EXCEPT ![w] = r]
      BY <2>7 DEF Accept
    <3> HIDE DEF r
    <3>3. StoreKeeps
      BY <2>7, StoreSame DEF Accept
    <3> QED
      BY <1>1, <3>1, <3>2, <3>3, HandlerProceeds DEF HandlersTyped
  <2>8. CASE VerifyWrong(w)
    <3>1. Accept(w, "bump", Charged(req[w].challenge)) /\ req[w].pc \in Holding
      BY <2>8 DEF VerifyWrong, Accept, Holding
    <3>2. Charged(req[w].challenge) \in Challenge /\ "bump" \in Pcs
      BY <1>3, <3>1 DEF Charged, Challenge, Pcs
    <3> QED
      BY <2>7, <2>8, <3>1, <3>2, OneNew DEF ChargedCopy
  <2>9. CASE VerifyRight(w)
    <3>1. Accept(w, "redeem", req[w].challenge) /\ req[w].pc \in Holding
      BY <2>9 DEF VerifyRight, Accept, Holding
    <3>2. "redeem" \in Pcs
      BY DEF Pcs
    <3> QED
      BY <1>3, <2>7, <3>1, <3>2, OneNew
  <2> QED
    BY <1>6, <2>2, <2>3, <2>4, <2>5, <2>6, <2>8, <2>9 DEF VerifyStep
<1>7. ASSUME NEW w \in Workers, NEW in,
             \/ SendReject(w, in) \/ VerifyReject(w, in)
             \/ in \in SendInputs /\ SendBegin(w, in)
             \/ in \in VerifyInputs /\ VerifyBegin(w, in)
      PROVE  x \in Copies
  <2>1. StoreKeeps
    BY <1>7, StoreSame DEF SendReject, VerifyReject, SendBegin, VerifyBegin
  <2>2. CASE SendReject(w, in) \/ VerifyReject(w, in)
    BY <1>4, <2>1, <2>2 DEF SendReject, VerifyReject
  <2>3. ASSUME NEW pc \in {"send_get", "verify_get"}, NEW code, NEW now,
               Start(w, pc, in, code, now)
        PROVE  HandlersKeep
    <3>1. /\ req'[w].pc \notin Holding
          /\ \A v \in Workers \ {w} : req'[v] = req[v]
      BY <1>1, <2>3 DEF Start, Idle, HandlersTyped, Holding
    <3> QED
      BY <3>1 DEF HandlersKeep, Copies, Key
  <2>4. CASE SendBegin(w, in) \/ VerifyBegin(w, in)
    BY <1>2, <2>1, <2>3, <2>4 DEF SendBegin, VerifyBegin
  <2> QED
    BY <1>7, <2>2, <2>4
<1>8. CASE StoreStep
  <2>1. ASSUME NEW s \in stray, Land(s)
        PROVE  StoreKeeps
    <3>1. s \in Write /\ s = Copy(s.key, s.value)
      BY <1>1 DEF StoreTypeOK, Write, Copy
    <3>2. \A j \in Keys : challenges'[j] \in {challenges[j], s.value} /\
                          (challenges'[j] # challenges[j] => j = s.key)
      BY <1>1, <2>1 DEF Land, StoreTypeOK
    <3>3. stray' \subseteq stray
      BY <2>1 DEF Land
    <3> QED
      BY <2>1, <3>1, <3>2, <3>3, StoreCopies DEF StoreKeeps
  <2>2. ASSUME NEW k \in Keys, Sweep(k, clock)
        PROVE  StoreKeeps
    <3>1. \A j \in Keys : challenges'[j] \in {challenges[j], None}
      BY <1>1, <2>2 DEF Sweep, StoreTypeOK
    <3> QED
      BY <2>2, <3>1, StoreCopies DEF Sweep, StoreKeeps
  <2>3. StoreKeeps
    BY <1>8, <2>1, <2>2 DEF StoreStep
  <2> QED
    BY <1>2, <1>8, <2>3, HandlersSame DEF StoreStep
<1>9. CASE Tick \/ UNCHANGED vars
  BY <1>2, <1>9, StoreSame, HandlersSame DEF Tick, vars, storeVars
<1>10. ASSUME NEW w \in Workers, Timeout(w)
       PROVE  x \in Copies
  <2>1. HandlersKeep
    BY <1>1, <1>10 DEF Timeout, HandlersTyped, Request, HandlersKeep, Copies, Key
  <2> QED
    BY <1>2, <1>10, <2>1, StoreSame DEF Timeout
<1>11. ASSUME NEW w \in Workers, Crash(w)
       PROVE  x \in Copies
  <2>1. HandlersKeep
    BY <1>1, <1>11, IdleType DEF Crash, HandlersTyped, HandlersKeep, Copies, Key
  <2>2. StoreKeeps
    BY <1>1, <1>11 DEF Crash, Restart, StoreKeeps, Copies, StoreTypeOK
  <2> QED
    BY <1>2, <2>1, <2>2
<1> QED
  BY <1>5, <1>6, <1>7, <1>8, <1>9, <1>10, <1>11 DEF Next, HandlerStep

-----------------------------------------------------------------------------
(* What a step does to the ledger: an issue keeps its content and time,    *)
(* and a new one is drawn by SendIssue from what it has read.              *)

LedgerKeeps ==
    \A n \in Nonces : Issued(n) =>
      /\ ledger'[n].challenge = ledger[n].challenge
      /\ ledger'[n].born = ledger[n].born

IssueOf(w, n) ==
    \E e \in Reads(w), code \in Codes :
      LET c == NewChallenge(w, e, code, n)
      IN  /\ ~Limited(e, req[w].now)
          /\ req[w].pc = "send_get"
          /\ Proceed(w, "send_put", c)
          /\ ~Issued(n)
          /\ ledger' = [ledger EXCEPT ![n] =
               [Unissued EXCEPT !.challenge = c, !.born = req[w].at]]

(* An issue is for one nonce.                                              *)
LEMMA IssueFacts ==
    ASSUME NEW w \in Workers, SendIssue(w)
    PROVE  \E n \in Nonces : IssueOf(w, n)
BY DEF SendIssue, IssueOf, Issued

(* What an issue leaves in the history and with its handler.               *)
LEMMA IssueEntry ==
    ASSUME TypeInv, NEW w \in Workers, NEW n \in Nonces, IssueOf(w, n)
    PROVE  /\ \A m \in Nonces \ {n} : ledger'[m] = ledger[m]
           /\ ledger'[n].born = req[w].at
           /\ ~ledger'[n].acked /\ ~ledger'[n].delivered
           /\ \E e \in Reads(w), code \in Codes :
                /\ ~Limited(e, req[w].now)
                /\ ledger'[n].challenge = NewChallenge(w, e, code, n)
                /\ req'[w].challenge = NewChallenge(w, e, code, n)
                /\ NewChallenge(w, e, code, n) \in Challenge
           /\ req'[w].pc = "send_put"
           /\ \A v \in Workers \ {w} : req'[v] = req[v]
<1>1. PICK e \in Reads(w), code \in Codes :
        /\ ~Limited(e, req[w].now)
        /\ Proceed(w, "send_put", NewChallenge(w, e, code, n))
        /\ ledger' = [ledger EXCEPT ![n] =
             [Unissued EXCEPT !.challenge = NewChallenge(w, e, code, n),
                              !.born = req[w].at]]
  BY DEF IssueOf
<1>2. /\ HandlersTyped /\ StoreTypeOK /\ req[w] \in Request
      /\ ledger \in [Nonces -> Entry] /\ req \in [Workers -> Request]
  BY DEF TypeInv, TypeOK, HandlersTyped
<1>3. NewChallenge(w, e, code, n) \in Challenge
  BY <1>2, ReadsType, NewChallengeType DEF Request
<1> DEFINE c == NewChallenge(w, e, code, n)
           entry == [Unissued EXCEPT !.challenge = c, !.born = req[w].at]
<1> HIDE DEF c
<1>4. /\ entry.challenge = c /\ entry.born = req[w].at
      /\ ~entry.acked /\ ~entry.delivered
  BY DEF Unissued
<1>5. ledger' = [ledger EXCEPT ![n] = entry]
  BY <1>1 DEF c
<1> HIDE DEF entry
<1>6. ledger'[n] = entry /\ \A m \in Nonces \ {n} : ledger'[m] = ledger[m]
  BY <1>2, <1>5
<1>7. /\ req'[w].challenge = c /\ req'[w].pc = "send_put"
      /\ \A v \in Workers \ {w} : req'[v] = req[v]
  BY <1>1, <1>2 DEF Proceed, Request, c
<1> QED
  BY <1>1, <1>3, <1>4, <1>6, <1>7 DEF c

(* Steps other than an issue touch only what became of a challenge.        *)
LEMMA LedgerStep ==
    ASSUME TypeInv, [Next]_vars
    PROVE  \/ \E w \in Workers, n \in Nonces : SendIssue(w) /\ IssueOf(w, n)
           \/ \A n \in Nonces : /\ ledger'[n].challenge = ledger[n].challenge
                              /\ ledger'[n].born = ledger[n].born
<1>1. ledger \in [Nonces -> Entry]
  BY DEF TypeInv, TypeOK
<1>2. ASSUME NEW w \in Workers, SendIssue(w)
      PROVE  \E n \in Nonces : IssueOf(w, n)
  BY <1>2, IssueFacts
<1>3. CASE UNCHANGED ledger
  BY <1>3
<1>4. ASSUME NEW n, \/ ledger' = [ledger EXCEPT ![n].acked = TRUE]
                    \/ \E b : ledger' = [ledger EXCEPT ![n].delivered = b]
                    \/ \E b : ledger' = [ledger EXCEPT ![n].wrong = b]
                    \/ \E b : ledger' = [ledger EXCEPT ![n].uses = b]
      PROVE  \A m \in Nonces : /\ ledger'[m].challenge = ledger[m].challenge
                            /\ ledger'[m].born = ledger[m].born
  BY <1>1, <1>4 DEF Entry
<1>5. ASSUME NEW w \in Workers, SendPut(w) \/ SendSms(w)
      PROVE  \A m \in Nonces : /\ ledger'[m].challenge = ledger[m].challenge
                            /\ ledger'[m].born = ledger[m].born
  BY <1>4, <1>5 DEF SendPut, SendSms
<1>6. ASSUME NEW w \in Workers, VerifyBump(w) \/ VerifyRedeem(w)
      PROVE  \A m \in Nonces : /\ ledger'[m].challenge = ledger[m].challenge
                            /\ ledger'[m].born = ledger[m].born
  BY <1>4, <1>6 DEF VerifyBump, VerifyRedeem
<1>7. ASSUME NEW w \in Workers, HandlerStep(w), ~SendIssue(w), ~SendPut(w),
             ~SendSms(w), ~VerifyBump(w), ~VerifyRedeem(w)
      PROVE  UNCHANGED ledger
  BY <1>7 DEF HandlerStep, SendStep, VerifyStep, SendLimited, SendNoCode,
     VerifyMiss, VerifyFetch, VerifyMismatch, VerifyStale, VerifyPurge,
     VerifyWrong, VerifyRight, Accept
<1>8. ASSUME NEW w \in Workers, NEW in,
             \/ SendReject(w, in) \/ SendBegin(w, in)
             \/ VerifyReject(w, in) \/ VerifyBegin(w, in)
      PROVE  UNCHANGED ledger
  BY <1>8 DEF SendReject, SendBegin, VerifyReject, VerifyBegin
<1>9. ASSUME \/ StoreStep \/ Tick \/ UNCHANGED vars
             \/ \E w \in Workers : Timeout(w) \/ Crash(w)
      PROVE  UNCHANGED ledger
  BY <1>9 DEF StoreStep, Tick, vars, Timeout, Crash
<1> QED
  BY <1>2, <1>3, <1>5, <1>6, <1>7, <1>8, <1>9 DEF Next

(* An issue once recorded never changes.                                   *)
LEMMA LedgerGrows ==
    ASSUME TypeInv, [Next]_vars
    PROVE  LedgerKeeps
BY LedgerStep, IssueEntry DEF LedgerKeeps, IssueOf

-----------------------------------------------------------------------------
(* What a step does to a handler: nothing but perhaps cancel it, end it,   *)
(* or one of the steps that take it from one pc to another.                *)

SameRequest(w) ==
    /\ req'[w].pc = req[w].pc
    /\ req'[w].subject = req[w].subject
    /\ req'[w].phone = req[w].phone
    /\ req'[w].purpose = req[w].purpose
    /\ req'[w].code = req[w].code
    /\ req'[w].now = req[w].now
    /\ req'[w].at = req[w].at
    /\ req'[w].challenge = req[w].challenge
    /\ req'[w].verdict = req[w].verdict

Moves(w) ==
    \/ SendIssue(w) /\ req'[w].pc = "send_put"
    \/ /\ SendPut(w) /\ req'[w].pc = "send_sms"
       /\ req'[w].challenge = req[w].challenge
       /\ ledger' = [ledger EXCEPT ![req[w].challenge.nonce].acked = TRUE]
    \/ VerifyFetch(w) /\ req'[w].pc = "judge"
    \/ VerifyStale(w) /\ req'[w].pc = "purge"
    \/ VerifyWrong(w) /\ req'[w].pc = "bump"
    \/ VerifyRight(w) /\ req'[w].pc = "redeem"

Begins(w) ==
    \/ /\ \E in \in SendInputs : SendBegin(w, in)
       /\ req'[w].pc = "send_get"
       /\ req'[w].now \in Readings /\ req'[w].at = clock
    \/ req'[w].pc = "verify_get"

(* A step of a handler moves it alone, or ends it.                         *)
LEMMA HandlerMoves ==
    ASSUME TypeInv, NEW w \in Workers, HandlerStep(w)
    PROVE  /\ \A v \in Workers \ {w} : req'[v] = req[v]
           /\ req'[w].pc = "idle" \/ Moves(w)
<1>1. req \in [Workers -> Request] /\ req[w] \in Request
  BY DEF TypeInv, TypeOK
<1>2. ASSUME NEW a, Return(w, a)
      PROVE  /\ \A v \in Workers \ {w} : req'[v] = req[v]
             /\ req'[w].pc = "idle"
  BY <1>1, <1>2 DEF Return, Idle
<1>3. ASSUME NEW pc, NEW c, Proceed(w, pc, c)
      PROVE  /\ \A v \in Workers \ {w} : req'[v] = req[v]
             /\ req'[w].pc = pc /\ req'[w].challenge = c
  BY <1>1, <1>3 DEF Proceed, Request
<1>4. CASE \/ SendLimited(w) \/ SendNoCode(w) \/ SendSms(w) \/ VerifyMiss(w)
           \/ VerifyMismatch(w) \/ VerifyPurge(w) \/ VerifyBump(w)
           \/ VerifyRedeem(w)
  BY <1>2, <1>4 DEF SendLimited, SendNoCode, SendSms, VerifyMiss,
     VerifyMismatch, VerifyPurge, VerifyBump, VerifyRedeem
<1>5. CASE SendIssue(w)
  <2>1. \E c : Proceed(w, "send_put", c)
    BY <1>5 DEF SendIssue
  <2> QED
    BY <1>3, <1>5, <2>1 DEF Moves
<1>6. CASE SendPut(w)
  <2>1. \/ Return(w, "failed")
        \/ /\ Proceed(w, "send_sms", req[w].challenge)
           /\ ledger' = [ledger EXCEPT ![req[w].challenge.nonce].acked = TRUE]
    BY <1>6 DEF SendPut
  <2> QED
    BY <1>2, <1>3, <1>6, <2>1 DEF Moves
<1>7. CASE VerifyFetch(w)
  BY <1>3, <1>7 DEF VerifyFetch, Moves
<1>8. CASE VerifyStale(w)
  <2>1. /\ \A v \in Workers \ {w} : req'[v] = req[v]
        /\ req'[w].pc = "purge"
    BY <1>1, <1>8 DEF VerifyStale, Request
  <2> QED
    BY <1>8, <2>1 DEF Moves
<1>9. CASE VerifyWrong(w) \/ VerifyRight(w)
  <2>1. ASSUME NEW pc, NEW c, Accept(w, pc, c)
        PROVE  /\ \A v \in Workers \ {w} : req'[v] = req[v]
               /\ req'[w].pc = pc
    BY <1>1, <2>1 DEF Accept, Request
  <2> QED
    BY <1>9, <2>1 DEF VerifyWrong, VerifyRight, Moves
<1> QED
  BY <1>4, <1>5, <1>6, <1>7, <1>8, <1>9 DEF HandlerStep, SendStep, VerifyStep

(* What any step does to a handler.                                        *)
LEMMA RequestStep ==
    ASSUME TypeInv, [Next]_vars, NEW v \in Workers
    PROVE  \/ SameRequest(v)
           \/ req'[v].pc = "idle"
           \/ Begins(v)
           \/ Moves(v)
<1>1. req \in [Workers -> Request]
  BY DEF TypeInv, TypeOK
<1>2. req'[v] = req[v] => SameRequest(v)
  BY DEF SameRequest
<1>3. ASSUME NEW w \in Workers, HandlerStep(w)
      PROVE  req'[v] = req[v] \/ req'[v].pc = "idle" \/ Moves(v)
  BY <1>3, HandlerMoves
<1>4. ASSUME NEW w \in Workers, NEW in \in SendInputs,
             SendReject(w, in) \/ SendBegin(w, in)
      PROVE  req'[v] = req[v] \/ req'[v].pc = "idle" \/ Begins(v)
  <2>1. CASE SendReject(w, in)
    BY <1>1, <2>1 DEF SendReject, Return, Idle
  <2>2. CASE SendBegin(w, in)
    BY <1>1, <2>2 DEF SendBegin, Start, Idle, Begins
  <2> QED
    BY <1>4, <2>1, <2>2
<1>5. ASSUME NEW w \in Workers, NEW in \in VerifyInputs,
             VerifyReject(w, in) \/ VerifyBegin(w, in)
      PROVE  req'[v] = req[v] \/ req'[v].pc = "idle" \/ Begins(v)
  <2>1. CASE VerifyReject(w, in)
    BY <1>1, <2>1 DEF VerifyReject, Return, Idle
  <2>2. CASE VerifyBegin(w, in)
    BY <1>1, <2>2 DEF VerifyBegin, Start, Idle, Begins
  <2> QED
    BY <1>5, <2>1, <2>2
<1>6. ASSUME NEW w \in Workers, Timeout(w)
      PROVE  SameRequest(v)
  BY <1>1, <1>6 DEF Timeout, Request, SameRequest
<1>7. ASSUME NEW w \in Workers, Crash(w)
      PROVE  req'[v] = req[v] \/ req'[v].pc = "idle"
  BY <1>1, <1>7 DEF Crash, Idle
<1>8. CASE StoreStep \/ Tick \/ UNCHANGED vars
  BY <1>2, <1>8 DEF StoreStep, Tick, vars
<1> QED
  BY <1>2, <1>3, <1>4, <1>5, <1>6, <1>7, <1>8 DEF Next

-----------------------------------------------------------------------------
(* The parts of the invariant, one lemma for each.                         *)

FullInv == TypeInv /\ IInv

(* A copy is a challenge under a key.                                      *)
LEMMA CopyTyped ==
    ASSUME TypeInv, NEW x \in Copies
    PROVE  x.key \in Keys /\ x.value \in Challenge
<1>1. StoreTypeOK /\ HandlersTyped
  BY DEF TypeInv, TypeOK, HandlersTyped
<1>2. CASE \E k \in Keys : challenges[k] # None /\ x = Copy(k, challenges[k])
  BY <1>1, <1>2 DEF StoreTypeOK, Copy
<1>3. CASE x \in stray /\ x.value # None
  BY <1>1, <1>3 DEF StoreTypeOK, Write
<1>4. CASE \E w \in Workers : req[w].pc \in Holding
                           /\ x = Copy(Key(w), req[w].challenge)
  BY <1>1, <1>4, KeyType DEF HandlersTyped, Held, Copy
<1> QED
  BY <1>2, <1>3, <1>4 DEF Copies

(* A genuine challenge stays genuine.                                      *)
LEMMA GenuineStays ==
    ASSUME TypeInv, LedgerKeeps, NEW k, NEW c \in Challenge, Genuine(k, c)
    PROVE  Genuine(k, c)'
<1>1. c.nonce \in Nonces
  BY DEF Challenge
<1> QED
  BY <1>1 DEF LedgerKeeps, Genuine, IssuedOn, Issued

(* What a handler reads is of its own key, and as issued but for attempts. *)
LEMMA ReadGenuine ==
    ASSUME FullInv, NEW w \in Workers, NEW c \in Reads(w), c # None
    PROVE  /\ c \in Challenge /\ Genuine(Key(w), c) /\ WithinPolicy(c)
           /\ c.nonce \in Nonces /\ Issued(c.nonce)
           /\ c.requestCount = ledger[c.nonce].challenge.requestCount
           /\ c.sentAt = ledger[c.nonce].challenge.sentAt
<1>1. Copy(Key(w), c) \in Copies /\ c \in Challenge
  BY ReadsCopy DEF FullInv
<1>2. Genuine(Key(w), c) /\ WithinPolicy(c)
  BY <1>1 DEF FullInv, IInv, Provenance, CountersBounded, Copy
<1>3. c.nonce \in Nonces /\ Issued(c.nonce)
  BY <1>1, <1>2 DEF Challenge, Genuine, IssuedOn
<1>4. ledger[c.nonce].challenge \in Challenge
  BY <1>3 DEF FullInv, TypeInv, TypeOK, Entry, Issued
<1> QED
  BY <1>1, <1>2, <1>3, <1>4 DEF Genuine, Challenge

(* What a handler holds is as it was issued, but for the attempts.         *)
LEMMA HeldGenuine ==
    ASSUME FullInv, NEW w \in Workers, req[w].pc \in Holding
    PROVE  LET c == req[w].challenge
           IN  /\ c \in Challenge /\ Genuine(Key(w), c) /\ WithinPolicy(c)
               /\ c.nonce \in Nonces /\ Issued(c.nonce)
               /\ c = [ledger[c.nonce].challenge EXCEPT !.attempts = c.attempts]
               /\ ledger[c.nonce].challenge \in Challenge
<1>1. Copy(Key(w), req[w].challenge) \in Copies /\ req[w].challenge \in Challenge
  BY DEF FullInv, TypeInv, Held, Copies
<1>2. Genuine(Key(w), req[w].challenge) /\ WithinPolicy(req[w].challenge)
  BY <1>1 DEF FullInv, IInv, Provenance, CountersBounded, Copy
<1>3. req[w].challenge.nonce \in Nonces /\ Issued(req[w].challenge.nonce)
  BY <1>1, <1>2 DEF Challenge, Genuine, IssuedOn
<1>4. ledger[req[w].challenge.nonce].challenge \in Challenge
  BY <1>3 DEF FullInv, TypeInv, TypeOK, Entry, Issued
<1> QED
  BY <1>1, <1>2, <1>3, <1>4 DEF Genuine

(* A send that is not refused has a request count in bounds.               *)
LEMMA CountFacts ==
    ASSUME FullInv, NEW w \in Workers, NEW e \in Reads(w),
           ~Limited(e, req[w].now)
    PROVE  RequestCount(e, req[w].now) \in 1 .. MaxRequests
<1>1. CASE InWindow(e, req[w].now)
  <2>1. e \in Challenge /\ WithinPolicy(e)
    BY <1>1, ReadGenuine DEF InWindow
  <2> QED
    BY <1>1, <2>1, PolicyFacts DEF Limited, RequestCount, WithinPolicy, Challenge
<1>2. CASE ~InWindow(e, req[w].now)
  BY <1>2, PolicyFacts DEF RequestCount
<1> QED
  BY <1>1, <1>2

(* A new challenge is well issued.                                         *)
LEMMA NewIsWellIssued ==
    ASSUME FullInv, NEW w \in Workers, NEW e \in Reads(w), NEW code \in Codes,
           NEW n \in Nonces, req[w].pc = "send_get", ~Limited(e, req[w].now)
    PROVE  WellIssued(n, NewChallenge(w, e, code, n), req[w].at)
<1>1. RequestCount(e, req[w].now) \in 1 .. MaxRequests
  BY CountFacts
<1>2. req[w].now - req[w].at \in -Skew .. Skew
  BY DEF FullInv, IInv, ReadingSound
<1> QED
  BY <1>1, <1>2 DEF NewChallenge, WellIssued, Hash

(* Every step keeps the recorded issues sound.                             *)
LEMMA LedgerSoundStep ==
    ASSUME FullInv, [Next]_vars PROVE LedgerSound'
<1>1. TypeInv /\ LedgerSound
  BY DEF FullInv, IInv
<1>2. CASE \A n \in Nonces : /\ ledger'[n].challenge = ledger[n].challenge
                          /\ ledger'[n].born = ledger[n].born
  BY <1>1, <1>2 DEF LedgerSound, Issued, WellIssued
<1>3. ASSUME NEW w \in Workers, NEW n \in Nonces, IssueOf(w, n)
      PROVE  LedgerSound'
  <2>1. req[w].pc = "send_get"
    BY <1>3 DEF IssueOf
  <2>2. WellIssued(n, ledger'[n].challenge, ledger'[n].born)
    BY <1>1, <1>3, <2>1, IssueEntry, NewIsWellIssued
  <2>3. \A m \in Nonces \ {n} : ledger'[m] = ledger[m]
    BY <1>1, <1>3, IssueEntry
  <2> QED
    BY <1>1, <2>2, <2>3 DEF LedgerSound, Issued, WellIssued
<1> QED
  BY <1>1, <1>2, <1>3, LedgerStep

(* Every step keeps copies genuine and their counters in bounds.           *)
LEMMA ProvenanceStep ==
    ASSUME FullInv, TypeInv', [Next]_vars
    PROVE  Provenance' /\ CountersBounded'
<1>1. TypeInv /\ LedgerKeeps
  BY LedgerGrows DEF FullInv
<1>2. SUFFICES ASSUME NEW x \in Copies'
               PROVE  Genuine(x.key, x.value)' /\ WithinPolicy(x.value)
  BY DEF Provenance, CountersBounded
<1>3. CASE x \in Copies
  <2>1. Genuine(x.key, x.value) /\ WithinPolicy(x.value) /\ x.value \in Challenge
    BY <1>1, <1>3, CopyTyped DEF FullInv, IInv, Provenance, CountersBounded
  <2> QED
    BY <1>1, <2>1, GenuineStays
<1>4. ASSUME NEW w \in Workers, IssuedCopy(w, x)
      PROVE  Genuine(x.key, x.value)' /\ WithinPolicy(x.value)
  <2>1. PICK n \in Nonces : IssueOf(w, n)
    BY <1>4, IssueFacts DEF IssuedCopy
  <2>2. PICK e \in Reads(w), code \in Codes :
          /\ ~Limited(e, req[w].now)
          /\ ledger'[n].challenge = NewChallenge(w, e, code, n)
          /\ req'[w].challenge = NewChallenge(w, e, code, n)
          /\ NewChallenge(w, e, code, n) \in Challenge
    BY <1>1, <2>1, IssueEntry
  <2> DEFINE c == NewChallenge(w, e, code, n)
  <2>3. /\ c.subject = req[w].subject /\ c.purpose = req[w].purpose
        /\ c.nonce = n /\ c.attempts = 0
        /\ c.requestCount = RequestCount(e, req[w].now)
    BY DEF NewChallenge
  <2>4. RequestCount(e, req[w].now) \in 1 .. MaxRequests
    BY <2>2, CountFacts
  <2>5. c \in Challenge
    BY <2>2
  <2>6. x.key = Key(w) /\ x.value = c
    BY <1>4, <2>2 DEF IssuedCopy, Copy
  <2> HIDE DEF c
  <2>7. c = [c EXCEPT !.attempts = c.attempts] /\ c # None
    BY <2>5, NoneAssumption DEF Challenge
  <2>8. ledger'[c.nonce].challenge = c
    BY <2>2, <2>3 DEF c
  <2>9. Genuine(x.key, x.value)'
    BY <2>3, <2>6, <2>7, <2>8 DEF Genuine, IssuedOn, Issued, Key
  <2> QED
    BY <2>3, <2>4, <2>6, <2>9, PolicyFacts DEF WithinPolicy
<1>5. ASSUME NEW w \in Workers, ChargedCopy(w, x)
      PROVE  Genuine(x.key, x.value)' /\ WithinPolicy(x.value)
  <2> DEFINE c == req[w].challenge
             i == ledger[c.nonce].challenge
  <2>1. req[w].pc = "judge" /\ req[w].pc \in Holding
    BY <1>5 DEF ChargedCopy, VerifyWrong, Accept, Holding
  <2>2. /\ c \in Challenge /\ Genuine(Key(w), c) /\ WithinPolicy(c)
        /\ c = [i EXCEPT !.attempts = c.attempts] /\ i \in Challenge
    BY <2>1, HeldGenuine
  <2>3. ~AttemptsExhausted(c)
    BY <1>5 DEF ChargedCopy, VerifyWrong, Accept, Stale
  <2>4. x.key = Key(w) /\ x.value = Charged(c)
    BY <1>5 DEF ChargedCopy, Copy
  <2> HIDE DEF c
  <2>5. /\ Charged(c) \in Challenge /\ Charged(c).nonce = c.nonce
        /\ Charged(c).attempts = c.attempts + 1
        /\ Charged(c).requestCount = c.requestCount
        /\ Charged(c) = [i EXCEPT !.attempts = Charged(c).attempts]
    BY <2>2 DEF Charged, Challenge, i
  <2>6. Genuine(Key(w), Charged(c))
    BY <2>2, <2>5 DEF Genuine, i
  <2>7. WithinPolicy(Charged(c))
    BY <2>2, <2>3, <2>5, PolicyFacts DEF WithinPolicy, AttemptsExhausted, Challenge
  <2> QED
    BY <1>1, <2>4, <2>5, <2>6, <2>7, GenuineStays
<1> QED
  BY <1>1, <1>3, <1>4, <1>5, CopiesStep

(* Every step keeps the clock readings of sends near the time.             *)
LEMMA ReadingSoundStep ==
    ASSUME FullInv, [Next]_vars PROVE ReadingSound'
<1>1. SUFFICES ASSUME NEW w \in Workers, req'[w].pc = "send_get"
               PROVE  req'[w].now - req'[w].at \in -Skew .. Skew
  BY DEF ReadingSound
<1>2. CASE SameRequest(w)
  BY <1>1, <1>2 DEF FullInv, IInv, ReadingSound, SameRequest
<1>3. CASE Begins(w)
  <2>1. clock \in Int
    BY DEF FullInv, TypeInv, TypeOK
  <2> QED
    BY <1>1, <1>3, <2>1, ServiceAssumption DEF Begins, Readings
<1> QED
  BY <1>1, <1>2, <1>3, RequestStep DEF Moves, FullInv

(* The handlers that verify has let through, and the judgement itself.     *)
LEMMA AcceptFacts ==
    ASSUME FullInv, NEW w \in Workers, NEW pc \in {"bump", "redeem"},
           NEW c \in {req[w].challenge, Charged(req[w].challenge)},
           Accept(w, pc, c),
           RightCode(w, req[w].challenge) <=> pc = "redeem"
    PROVE  LET issue == ledger[c.nonce].challenge
           IN  /\ req'[w].challenge.nonce = c.nonce
               /\ req'[w].challenge = c
               /\ c.nonce \in Nonces /\ Issued(c.nonce)
               /\ issue.subject = req'[w].subject
               /\ issue.phoneHash = PhoneHash(req'[w].phone)
               /\ issue.purpose = req'[w].purpose
               /\ (issue.hash.code = req'[w].code) <=> (pc = "redeem")
               /\ req'[w].at - ledger[c.nonce].born <= OTPTTL + 2 * Skew
<1> DEFINE d == req[w].challenge
           i == ledger[d.nonce].challenge
<1>1. req[w].pc \in Holding
  BY DEF Accept, Holding
<1>2. /\ d \in Challenge /\ d.nonce \in Nonces /\ Issued(d.nonce)
      /\ d = [i EXCEPT !.attempts = d.attempts] /\ i \in Challenge
  BY <1>1, HeldGenuine
<1>3. /\ d.subject = i.subject /\ d.phoneHash = i.phoneHash
      /\ d.purpose = i.purpose /\ d.hash = i.hash
      /\ d.expiresAt = i.expiresAt /\ c.nonce = d.nonce
  BY <1>2 DEF Challenge, Charged
<1>4. WellIssued(d.nonce, i, ledger[d.nonce].born)
  BY <1>2 DEF FullInv, IInv, LedgerSound
<1>5. req[w] \in Request /\ req \in [Workers -> Request] /\ clock \in Int
      /\ ledger[d.nonce].born \in Int
  BY <1>2 DEF FullInv, TypeInv, TypeOK, Entry
<1>6. /\ req'[w].challenge = c /\ req'[w].at = clock
      /\ req'[w].subject = req[w].subject /\ req'[w].phone = req[w].phone
      /\ req'[w].purpose = req[w].purpose /\ req'[w].code = req[w].code
  BY <1>5 DEF Accept, Request
<1>7. /\ d.subject = req[w].subject /\ d.phoneHash = PhoneHash(req[w].phone)
      /\ d.purpose = req[w].purpose
  BY DEF Accept, Matches
<1>8. (i.hash.code = req[w].code) <=> RightCode(w, d)
  BY <1>3, <1>4, <1>7 DEF RightCode, WellIssued, Hash
<1>9. clock - ledger[d.nonce].born <= OTPTTL + 2 * Skew
  <2>1. PICK now \in Readings : ~Stale(d, now)
    BY DEF Accept
  <2>2. now <= d.expiresAt /\ now >= clock - Skew /\ now \in Int
    BY <1>2, <1>5, <2>1, ServiceAssumption
       DEF Stale, Expired, Readings, Challenge
  <2>3. d.expiresAt = i.sentAt + OTPTTL /\ i.sentAt - ledger[d.nonce].born <= Skew
        /\ i.sentAt \in Int
    BY <1>2, <1>3, <1>4, ServiceAssumption DEF WellIssued, Challenge
  <2> QED
    BY <1>5, <2>2, <2>3, PolicyFacts, ServiceAssumption
<1> QED
  BY <1>2, <1>3, <1>6, <1>7, <1>8, <1>9

(* Every step keeps what charging and redeeming handlers hold.             *)
LEMMA AcceptedStep ==
    ASSUME FullInv, [Next]_vars PROVE ActsForOwner' /\ Lifetime'
<1> DEFINE P(w) ==
      LET n == req[w].challenge.nonce
          issue == ledger[n].challenge
      IN  /\ issue.subject = req[w].subject
          /\ issue.phoneHash = PhoneHash(req[w].phone)
          /\ issue.purpose = req[w].purpose
          /\ (issue.hash.code = req[w].code) <=> (req[w].pc = "redeem")
          /\ req[w].pc = "redeem"
               => req[w].at - ledger[n].born <= OTPTTL + 2 * Skew
<1>1. SUFFICES ASSUME NEW w \in Workers, req'[w].pc \in {"bump", "redeem"}
               PROVE  P(w)'
  BY DEF ActsForOwner, Lifetime
<1>2. TypeInv /\ LedgerKeeps
  BY LedgerGrows DEF FullInv
<1>3. CASE SameRequest(w)
  <2>1. req[w].pc \in {"bump", "redeem"} /\ req[w].pc \in Holding
    BY <1>1, <1>3 DEF SameRequest, Holding
  <2>2. req[w].challenge.nonce \in Nonces /\ Issued(req[w].challenge.nonce)
    BY <2>1, HeldGenuine
  <2>3. P(w)
    BY <2>1 DEF FullInv, IInv, ActsForOwner, Lifetime
  <2> QED
    BY <1>2, <1>3, <2>2, <2>3 DEF SameRequest, LedgerKeeps
<1>4. CASE VerifyWrong(w) /\ req'[w].pc = "bump"
  <2>1. /\ Accept(w, "bump", Charged(req[w].challenge))
        /\ ~RightCode(w, req[w].challenge)
    BY <1>4 DEF VerifyWrong
  <2> QED
    BY <1>2, <1>4, <2>1, AcceptFacts DEF LedgerKeeps
<1>5. CASE VerifyRight(w) /\ req'[w].pc = "redeem"
  <2>1. /\ Accept(w, "redeem", req[w].challenge)
        /\ RightCode(w, req[w].challenge)
    BY <1>5 DEF VerifyRight
  <2> QED
    BY <1>2, <1>5, <2>1, AcceptFacts DEF LedgerKeeps
<1> QED
  BY <1>1, <1>2, <1>3, <1>4, <1>5, RequestStep DEF Moves, Begins

(* What a step does to the flags of an issue.                              *)
LEMMA FlagsStep ==
    ASSUME TypeInv, [Next]_vars, NEW n \in Nonces
    PROVE  \/ \E w \in Workers : IssueOf(w, n)
           \/ /\ ledger[n].acked => ledger'[n].acked
              /\ \/ ledger'[n].delivered => ledger[n].delivered
                 \/ \E w \in Workers : /\ req[w].pc = "send_sms"
                                      /\ req[w].challenge.nonce = n
                                      /\ ledger'[n].acked = ledger[n].acked
<1>1. ledger \in [Nonces -> Entry]
  BY DEF TypeInv, TypeOK
<1>2. CASE UNCHANGED ledger
  BY <1>2
<1>3. ASSUME NEW w \in Workers, SendIssue(w)
      PROVE  (\E v \in Workers : IssueOf(v, n)) \/ ledger'[n] = ledger[n]
  BY <1>3, IssueFacts, IssueEntry
<1>4. ASSUME NEW w \in Workers, SendPut(w)
      PROVE  /\ ledger[n].acked => ledger'[n].acked
             /\ ledger'[n].delivered => ledger[n].delivered
  BY <1>1, <1>4 DEF SendPut, Entry
<1>5. ASSUME NEW w \in Workers, SendSms(w)
      PROVE  /\ ledger[n].acked = ledger'[n].acked
             /\ \/ ledger'[n].delivered => ledger[n].delivered
                \/ req[w].pc = "send_sms" /\ req[w].challenge.nonce = n
  BY <1>1, <1>5 DEF SendSms, Entry
<1>6. ASSUME NEW w \in Workers, VerifyBump(w) \/ VerifyRedeem(w)
      PROVE  /\ ledger[n].acked = ledger'[n].acked
             /\ ledger'[n].delivered = ledger[n].delivered
  <2>1. \/ UNCHANGED ledger
        \/ \E m, b : \/ ledger' = [ledger EXCEPT ![m].wrong = b]
                    \/ ledger' = [ledger EXCEPT ![m].uses = b]
    BY <1>6 DEF VerifyBump, VerifyRedeem
  <2> QED
    BY <1>1, <2>1 DEF Entry
<1>7. ASSUME NEW w \in Workers, HandlerStep(w), ~SendIssue(w), ~SendPut(w),
             ~SendSms(w), ~VerifyBump(w), ~VerifyRedeem(w)
      PROVE  UNCHANGED ledger
  BY <1>7 DEF HandlerStep, SendStep, VerifyStep, SendLimited, SendNoCode,
     VerifyMiss, VerifyFetch, VerifyMismatch, VerifyStale, VerifyPurge,
     VerifyWrong, VerifyRight, Accept
<1>8. ASSUME NEW w \in Workers, NEW in,
             \/ SendReject(w, in) \/ SendBegin(w, in)
             \/ VerifyReject(w, in) \/ VerifyBegin(w, in)
      PROVE  UNCHANGED ledger
  BY <1>8 DEF SendReject, SendBegin, VerifyReject, VerifyBegin
<1>9. ASSUME \/ StoreStep \/ Tick \/ UNCHANGED vars
             \/ \E w \in Workers : Timeout(w) \/ Crash(w)
      PROVE  UNCHANGED ledger
  BY <1>9 DEF StoreStep, Tick, vars, Timeout, Crash
<1>10. ASSUME NEW w \in Workers, HandlerStep(w)
       PROVE  \/ \E v \in Workers : IssueOf(v, n)
              \/ /\ ledger[n].acked => ledger'[n].acked
                 /\ \/ ledger'[n].delivered => ledger[n].delivered
                    \/ \E v \in Workers : /\ req[v].pc = "send_sms"
                                         /\ req[v].challenge.nonce = n
                                         /\ ledger'[n].acked = ledger[n].acked
  BY <1>2, <1>3, <1>4, <1>5, <1>6, <1>7, <1>10
<1> QED
  BY <1>2, <1>8, <1>9, <1>10 DEF Next

(* Every step keeps an SMS behind an acknowledged challenge.               *)
LEMMA SmsStep ==
    ASSUME FullInv, [Next]_vars PROVE SmsSound' /\ PutBeforeSms'
<1>1. TypeInv /\ SmsSound /\ PutBeforeSms
  BY DEF FullInv, IInv
<1>2. SmsSound'
  <2>1. SUFFICES ASSUME NEW w \in Workers, req'[w].pc = "send_sms"
                 PROVE  ledger'[req'[w].challenge.nonce].acked
    BY DEF SmsSound
  <2>2. CASE SameRequest(w)
    <3>1. req[w].pc = "send_sms" /\ req[w].pc \in Holding
      BY <2>1, <2>2 DEF SameRequest, Holding
    <3>2. /\ req[w].challenge.nonce \in Nonces
          /\ Issued(req[w].challenge.nonce)
          /\ ledger[req[w].challenge.nonce].acked
      BY <1>1, <3>1, HeldGenuine DEF SmsSound
    <3> QED
      BY <1>1, <2>2, <3>2, FlagsStep DEF SameRequest, IssueOf
  <2>3. CASE SendPut(w) /\ Moves(w)
    <3>1. req[w].pc = "send_put" /\ req[w].pc \in Holding
      BY <2>3 DEF SendPut, Holding
    <3>2. req[w].challenge.nonce \in Nonces
      BY <3>1, HeldGenuine
    <3>3. /\ req'[w].challenge = req[w].challenge
          /\ ledger' = [ledger EXCEPT ![req[w].challenge.nonce].acked = TRUE]
      BY <2>1, <2>3 DEF Moves
    <3>4. ledger \in [Nonces -> Entry]
      BY <1>1 DEF TypeInv, TypeOK
    <3> QED
      BY <3>2, <3>3, <3>4 DEF Entry
  <2> QED
    BY <1>1, <2>1, <2>2, <2>3, RequestStep DEF Moves, Begins
<1>3. ASSUME NEW n \in Nonces, ledger'[n].delivered
      PROVE  ledger'[n].acked
  <2>1. CASE \E w \in Workers : IssueOf(w, n)
    BY <1>1, <1>3, <2>1, IssueEntry
  <2>2. CASE ledger[n].delivered /\ (ledger[n].acked => ledger'[n].acked)
    BY <1>1, <2>2 DEF PutBeforeSms
  <2>3. CASE \E w \in Workers : /\ req[w].pc = "send_sms"
                              /\ req[w].challenge.nonce = n
                              /\ ledger'[n].acked = ledger[n].acked
    BY <1>1, <2>3 DEF SmsSound
  <2> QED
    BY <1>1, <1>3, <2>1, <2>2, <2>3, FlagsStep
<1> QED
  BY <1>2, <1>3 DEF PutBeforeSms

(* A series stays a series.                                                *)
LEMMA SeriesStays ==
    ASSUME LedgerKeeps, NEW k, NEW length \in Nat,
           NEW f \in [1 .. length -> Nonces], Series(k, f, length)
    PROVE  Series(k, f, length)'
<1>1. ASSUME NEW j \in 1 .. length
      PROVE  /\ IssuedOn(k, f[j]) /\ Issued(f[j])
             /\ ledger'[f[j]].challenge = ledger[f[j]].challenge
  BY <1>1 DEF Series, IssuedOn, LedgerKeeps
<1>2. ASSUME NEW j \in 1 .. length, j > 1
      PROVE  j - 1 \in 1 .. length
  BY <1>2
<1> QED
  BY <1>1, <1>2 DEF Series, IssuedOn, Issued

(* A new issue begins a series or prolongs the one of the challenge read.  *)
LEMMA SeriesIssued ==
    ASSUME FullInv, LedgerKeeps, NEW w \in Workers, NEW n \in Nonces,
           IssueOf(w, n), NEW k, NEW length,
           k = ChallengeKey(ledger'[n].challenge.subject,
                            ledger'[n].challenge.purpose),
           length = ledger'[n].challenge.requestCount
    PROVE  EndsSeries(n, k, length)'
<1>1. PICK e \in Reads(w), code \in Codes :
        /\ ~Limited(e, req[w].now)
        /\ ledger'[n].challenge = NewChallenge(w, e, code, n)
        /\ NewChallenge(w, e, code, n) \in Challenge
  BY IssueEntry DEF FullInv
<1>2. /\ length = RequestCount(e, req[w].now)
      /\ ledger'[n].challenge.sentAt = req[w].now /\ k = Key(w)
      /\ ledger'[n].challenge # None
  BY <1>1, NoneAssumption DEF NewChallenge, Key
<1>3. IssuedOn(k, n)'
  BY <1>2 DEF IssuedOn, Issued
<1>4. CASE ~InWindow(e, req[w].now)
  <2>1. length = 1
    BY <1>2, <1>4 DEF RequestCount
  <2>2. \A j \in 1 .. 1 : j = 1
    OBVIOUS
  <2>3. [j \in 1 .. 1 |-> n] \in [1 .. 1 -> Nonces]
    OBVIOUS
  <2>4. PICK f \in [1 .. 1 -> Nonces] : f = [j \in 1 .. 1 |-> n]
    BY <2>3
  <2>5. f[1] = n
    BY <2>4
  <2>6. /\ IssuedOn(k, f[1])' /\ ledger'[f[1]].challenge.requestCount = 1
    BY <1>2, <1>3, <2>1, <2>5
  <2>7. Series(k, f, 1)'
    BY <2>2, <2>6 DEF Series
  <2> QED
    BY <2>1, <2>5, <2>7 DEF EndsSeries
<1>5. CASE InWindow(e, req[w].now)
  <2>1. e # None /\ req[w].now - e.sentAt < Window
    BY <1>5 DEF InWindow
  <2>2. /\ e \in Challenge /\ Genuine(Key(w), e) /\ WithinPolicy(e)
        /\ e.nonce \in Nonces /\ Issued(e.nonce)
        /\ e.requestCount = ledger[e.nonce].challenge.requestCount
        /\ e.sentAt = ledger[e.nonce].challenge.sentAt
    BY <2>1, ReadGenuine
  <2>3. PICK m \in Nonces, len \in Nat \ {0} : m = e.nonce /\ len = e.requestCount
    BY <2>2 DEF WithinPolicy
  <2>4. EndsSeries(m, k, len)
    BY <1>2, <2>2, <2>3 DEF FullInv, IInv, SeriesSound, Genuine, IssuedOn
  <2>5. PICK f \in [1 .. len -> Nonces] : Series(k, f, len) /\ f[len] = m
    BY <2>4 DEF EndsSeries
  <2>6. Series(k, f, len)' /\ ledger'[m].challenge.sentAt = e.sentAt
    BY <2>2, <2>3, <2>5, SeriesStays DEF LedgerKeeps
  <2> DEFINE g == [j \in 1 .. len + 1 |-> IF j = len + 1 THEN n ELSE f[j]]
  <2>7. g \in [1 .. len + 1 -> Nonces] /\ g[len + 1] = n
    BY <2>5
  <2>8. length = len + 1
    BY <1>2, <1>5, <2>3 DEF RequestCount
  <2>9. \A j \in 1 .. len : g[j] = f[j]
    OBVIOUS
  <2> HIDE DEF g
  <2>10. Series(k, g, len + 1)'
    <3>1. ASSUME NEW j \in 1 .. len
          PROVE  /\ IssuedOn(k, g[j])'
                 /\ ledger'[g[j]].challenge.requestCount = j
                 /\ j > 1 => ledger'[g[j]].challenge.sentAt
                               - ledger'[g[j - 1]].challenge.sentAt < Window
      <4>1. j > 1 => j - 1 \in 1 .. len
        OBVIOUS
      <4> QED
        BY <2>6, <2>9, <4>1 DEF Series
    <3>2. /\ IssuedOn(k, g[len + 1])'
          /\ ledger'[g[len + 1]].challenge.requestCount = len + 1
          /\ ledger'[g[len + 1]].challenge.sentAt
                - ledger'[g[len + 1 - 1]].challenge.sentAt < Window
      <4>1. g[len + 1 - 1] = m
        BY <2>5, <2>9
      <4> QED
        BY <1>2, <1>3, <2>1, <2>6, <2>7, <2>8, <4>1
    <3>3. \A j \in 1 .. len + 1 : j \in 1 .. len \/ j = len + 1
      OBVIOUS
    <3> QED
      BY <3>1, <3>2, <3>3 DEF Series
  <2> QED
    BY <2>7, <2>8, <2>10 DEF EndsSeries
<1> QED
  BY <1>4, <1>5

(* Every step keeps every issue at the end of a series.                    *)
LEMMA SeriesSoundStep ==
    ASSUME FullInv, [Next]_vars PROVE SeriesSound'
<1>1. TypeInv /\ LedgerKeeps
  BY LedgerGrows DEF FullInv
<1>2. SUFFICES ASSUME NEW n \in Nonces, NEW k, NEW length, Issued(n)',
                      k = ChallengeKey(ledger'[n].challenge.subject,
                                       ledger'[n].challenge.purpose),
                      length = ledger'[n].challenge.requestCount
               PROVE  EndsSeries(n, k, length)'
  BY DEF SeriesSound, EndsSeries, Series, IssuedOn, Issued
<1>3. CASE Issued(n)
  <2>1. ledger'[n].challenge = ledger[n].challenge /\ length \in Nat
    BY <1>1, <1>2, <1>3
       DEF LedgerKeeps, FullInv, IInv, LedgerSound, WellIssued
  <2>2. EndsSeries(n, k, length)
    BY <1>2, <1>3, <2>1 DEF FullInv, IInv, SeriesSound
  <2> QED
    BY <1>1, <2>1, <2>2, SeriesStays DEF EndsSeries
<1>4. CASE ~Issued(n)
  <2>1. PICK w \in Workers, m \in Nonces : IssueOf(w, m)
    BY <1>1, <1>2, <1>4, LedgerStep DEF Issued
  <2>2. m = n
    BY <1>1, <1>2, <1>4, <2>1, IssueEntry DEF Issued
  <2> QED
    BY <1>1, <1>2, <2>1, <2>2, SeriesIssued
<1> QED
  BY <1>3, <1>4

-----------------------------------------------------------------------------
(* The invariant.                                                          *)

(* The invariant holds initially.                                          *)
LEMMA InvInit ==
    ASSUME Init PROVE FullInv
<1>1. TypeInv
  BY TypeInit
<1>2. /\ \A k \in Keys : challenges[k] = None
      /\ stray = {}
      /\ \A w \in Workers : req[w].pc = "idle"
      /\ \A n \in Nonces : /\ ledger[n].challenge = None
                           /\ ~ledger[n].delivered
  BY DEF Init, StoreInit, Idle, Unissued
<1>3. Copies = {}
  BY <1>2 DEF Copies, Holding
<1>4. LedgerSound /\ PutBeforeSms /\ SeriesSound
  BY <1>2 DEF LedgerSound, PutBeforeSms, SeriesSound, Issued
<1>5. Provenance /\ CountersBounded
  BY <1>3 DEF Provenance, CountersBounded
<1>6. ReadingSound /\ ActsForOwner /\ Lifetime /\ SmsSound
  BY <1>2 DEF ReadingSound, ActsForOwner, Lifetime, SmsSound
<1> QED
  BY <1>1, <1>4, <1>5, <1>6 DEF FullInv, IInv, TypeInv

(* Every step keeps the invariant.                                         *)
LEMMA InvStep ==
    ASSUME FullInv, [Next]_vars PROVE FullInv'
<1>1. TypeInv'
  BY TypeStep DEF FullInv
<1>2. LedgerSound' /\ SeriesSound'
  BY LedgerSoundStep, SeriesSoundStep
<1>3. Provenance' /\ CountersBounded'
  BY <1>1, ProvenanceStep
<1>4. ReadingSound' /\ ActsForOwner' /\ Lifetime'
  BY ReadingSoundStep, AcceptedStep
<1>5. SmsSound' /\ PutBeforeSms'
  BY SmsStep
<1> QED
  BY <1>1, <1>2, <1>3, <1>4, <1>5 DEF FullInv, IInv, TypeInv

(* The parts of the invariant hold together in every reachable state,      *)
(* however the handlers of Send and Verify interleave and whatever fails.  *)
THEOREM Invariant == Spec => []IInv
<1>1. FullInv => IInv
  BY DEF FullInv
<1> QED
  BY <1>1, InvInit, InvStep, PTL DEF Spec

(* Every challenge stored, held or in flight is one that Send issued for   *)
(* its key, but for the attempts (usecases.go Send, Verify).               *)
THEOREM ProvenanceHolds == Spec => []Provenance
<1>1. IInv => Provenance
  BY DEF IInv
<1> QED
  BY <1>1, Invariant, PTL

(* No copy of a challenge has more attempts or requests than the policy    *)
(* allows, although Send and Verify write what they read without a lock.   *)
THEOREM CountersStayBounded == Spec => []CountersBounded
<1>1. IInv => CountersBounded
  BY DEF IInv
<1> QED
  BY <1>1, Invariant, PTL

(* Verify charges or redeems only a challenge of the requester's identity, *)
(* and redeems it against the code that was drawn for it only.             *)
THEOREM OwnersOnly == Spec => []ActsForOwner
<1>1. IInv => ActsForOwner
  BY DEF IInv
<1> QED
  BY <1>1, Invariant, PTL

(* Verify accepts a code for the TTL only, counted from its issue, up to   *)
(* twice the skew of the wall clocks.                                      *)
THEOREM CodesExpire == Spec => []Lifetime
<1>1. IInv => Lifetime
  BY DEF IInv
<1> QED
  BY <1>1, Invariant, PTL

(* Send hands a code to the SMS provider after the store has acknowledged  *)
(* its challenge, never before.                                            *)
THEOREM StoredBeforeSent == Spec => []PutBeforeSms
<1>1. IInv => PutBeforeSms
  BY DEF IInv
<1> QED
  BY <1>1, Invariant, PTL

-----------------------------------------------------------------------------
(* The limits, of the policy's whatever its fields and of the README when  *)
(* none is set.                                                            *)

CodesSound ==
    \A n \in Nonces :
      Issued(n) => DigitLen[ledger[n].challenge.hash.code] = Digits

VerdictsSound ==
    \A w \in Workers :
      LET held == req[w].challenge
      IN  /\ req[w].pc = "purge" /\ req[w].verdict = "expired_code" =>
               req[w].at - ledger[held.nonce].born > OTPTTL - 2 * Skew
          /\ req[w].pc = "purge" /\ req[w].verdict = "invalid_code" =>
               held.attempts = AllowedAttempts
          /\ req[w].pc = "redeem" => held.attempts < AllowedAttempts

(* Every issued code has the length of the policy.                         *)
LEMMA CodesStep ==
    ASSUME FullInv, CodesSound, [Next]_vars PROVE CodesSound'
<1>1. TypeInv
  BY DEF FullInv
<1>2. SUFFICES ASSUME NEW n \in Nonces, Issued(n)'
               PROVE  DigitLen[ledger'[n].challenge.hash.code] = Digits
  BY DEF CodesSound
<1>3. CASE ledger'[n].challenge = ledger[n].challenge
  BY <1>2, <1>3 DEF CodesSound, Issued
<1>4. ASSUME NEW w \in Workers, IssueOf(w, n)
      PROVE  DigitLen[ledger'[n].challenge.hash.code] = Digits
  <2>1. \E e \in Reads(w), code \in Codes :
          ledger'[n].challenge = NewChallenge(w, e, code, n)
    BY <1>1, <1>4, IssueEntry
  <2> QED
    BY <2>1 DEF NewChallenge, Hash, Codes
<1>5. ASSUME NEW w \in Workers, NEW m \in Nonces, IssueOf(w, m), m # n
      PROVE  ledger'[n].challenge = ledger[n].challenge
  BY <1>1, <1>5, IssueEntry
<1> QED
  BY <1>1, <1>3, <1>4, <1>5, LedgerStep

(* A challenge is withdrawn for the reason that is given.                  *)
LEMMA StaleFacts ==
    ASSUME FullInv, NEW w \in Workers, VerifyStale(w)
    PROVE  LET held == req[w].challenge
           IN  /\ req'[w].challenge = held /\ UNCHANGED ledger
               /\ req'[w].verdict = "expired_code" =>
                    req'[w].at - ledger[held.nonce].born > OTPTTL - 2 * Skew
               /\ req'[w].verdict = "invalid_code" =>
                    held.attempts = AllowedAttempts
<1> DEFINE d == req[w].challenge
           i == ledger[d.nonce].challenge
           born == ledger[d.nonce].born
<1>1. req[w].pc \in Holding
  BY DEF VerifyStale, Holding
<1>2. /\ d \in Challenge /\ d.nonce \in Nonces /\ Issued(d.nonce)
      /\ d = [i EXCEPT !.attempts = d.attempts] /\ i \in Challenge
      /\ WithinPolicy(d)
  BY <1>1, HeldGenuine
<1>3. req \in [Workers -> Request] /\ clock \in Int /\ born \in Int
  BY <1>2 DEF FullInv, TypeInv, TypeOK, Entry
<1>4. PICK now \in Readings :
        /\ Stale(d, now)
        /\ req' = [req EXCEPT ![w] = [@ EXCEPT
             !.pc = "purge", !.at = clock,
             !.verdict = IF Expired(d, now) THEN "expired_code"
                                            ELSE "invalid_code"]]
  BY DEF VerifyStale
<1>5. /\ req'[w].challenge = d /\ req'[w].at = clock
      /\ req'[w].verdict = IF Expired(d, now) THEN "expired_code"
                                              ELSE "invalid_code"
  BY <1>3, <1>4 DEF Request
<1>6. Expired(d, now) => clock - born > OTPTTL - 2 * Skew
  <2>1. /\ d.expiresAt = i.expiresAt /\ i.expiresAt = i.sentAt + OTPTTL
        /\ i.sentAt - born >= -Skew /\ i.sentAt \in Int
    BY <1>2, ServiceAssumption
       DEF FullInv, IInv, LedgerSound, WellIssued, Challenge
  <2>2. now \in Int /\ now <= clock + Skew
    BY <1>3, ServiceAssumption DEF Readings
  <2> QED
    BY <1>3, <2>1, <2>2, PolicyFacts, ServiceAssumption DEF Expired
<1>7. ~Expired(d, now) => d.attempts = AllowedAttempts
  BY <1>2, <1>4, PolicyFacts DEF Stale, AttemptsExhausted, WithinPolicy
<1> QED
  BY <1>5, <1>6, <1>7 DEF VerifyStale

(* Every step keeps the verdicts justified.                                *)
LEMMA VerdictsStep ==
    ASSUME FullInv, VerdictsSound, [Next]_vars PROVE VerdictsSound'
<1> DEFINE P(w) ==
      LET held == req[w].challenge
      IN  /\ req[w].pc = "purge" /\ req[w].verdict = "expired_code" =>
               req[w].at - ledger[held.nonce].born > OTPTTL - 2 * Skew
          /\ req[w].pc = "purge" /\ req[w].verdict = "invalid_code" =>
               held.attempts = AllowedAttempts
          /\ req[w].pc = "redeem" => held.attempts < AllowedAttempts
<1>1. SUFFICES ASSUME NEW w \in Workers, req'[w].pc \in {"purge", "redeem"}
               PROVE  P(w)'
  BY DEF VerdictsSound
<1>2. TypeInv /\ LedgerKeeps
  BY LedgerGrows DEF FullInv
<1>3. CASE SameRequest(w)
  <2>1. req[w].pc \in Holding
    BY <1>1, <1>3 DEF SameRequest, Holding
  <2>2. req[w].challenge.nonce \in Nonces /\ Issued(req[w].challenge.nonce)
    BY <2>1, HeldGenuine
  <2>3. P(w)
    BY DEF VerdictsSound
  <2> QED
    BY <1>2, <1>3, <2>2, <2>3 DEF SameRequest, LedgerKeeps
<1>4. CASE VerifyStale(w) /\ req'[w].pc = "purge"
  BY <1>4, StaleFacts
<1>5. CASE VerifyRight(w) /\ req'[w].pc = "redeem"
  <2>1. Accept(w, "redeem", req[w].challenge)
    BY <1>5 DEF VerifyRight
  <2>2. req'[w].challenge = req[w].challenge /\ ~AttemptsExhausted(req[w].challenge)
    BY <1>2, <2>1 DEF Accept, Stale, TypeInv, TypeOK, Request
  <2>3. req[w].pc \in Holding
    BY <2>1 DEF Accept, Holding
  <2>4. req[w].challenge.attempts \in 0 .. AllowedAttempts
    BY <2>3, HeldGenuine DEF WithinPolicy
  <2>5. req[w].challenge.attempts < AllowedAttempts
    BY <2>2, <2>4, PolicyFacts DEF AttemptsExhausted
  <2> QED
    BY <1>5, <2>2, <2>5
<1> QED
  BY <1>1, <1>2, <1>3, <1>4, <1>5, RequestStep DEF Moves, Begins

Uninjected ==
    Policy.TTL <= 0 /\ Policy.MaxAttempts <= 0 /\ Policy.CodeLength \notin 6 .. 8

(* The limits of an empty policy are those the README names.               *)
LEMMA DocumentedLimits ==
    ASSUME Uninjected, FullInv, CodesSound, VerdictsSound
    PROVE  LimitsAsDocumented
<1>1. OTPTTL = 5 * Minute /\ AllowedAttempts = 5 /\ Digits = 6
  BY PolicyAssumption DEF Uninjected, OTPTTL, AllowedAttempts, Digits
<1>2. ASSUME NEW w \in Workers, req[w].pc = "bump"
      PROVE  req[w].challenge.attempts <= 5
  <2>1. req[w].pc \in Holding
    BY <1>2 DEF Holding
  <2>2. WithinPolicy(req[w].challenge)
    BY <2>1, HeldGenuine
  <2> QED
    BY <1>1, <2>2 DEF WithinPolicy
<1>3. \A w \in Workers : req[w].pc = "redeem" =>
        req[w].at - ledger[req[w].challenge.nonce].born <= 5 * Minute + 2 * Skew
  BY <1>1 DEF FullInv, IInv, Lifetime
<1> QED
  BY <1>1, <1>2, <1>3 DEF LimitsAsDocumented, CodesSound, VerdictsSound

(* With no policy injected (README.md, the default policy), a code has six *)
(* digits, is called expired only after five minutes and withdrawn only    *)
(* after five wrong guesses, and is accepted after neither; up to the skew *)
(* of the clocks, and however requests overlap.                            *)
THEOREM DefaultsAsDocumented ==
    ASSUME Uninjected
    PROVE  Spec => []LimitsAsDocumented
<1>1. Init => FullInv /\ CodesSound /\ VerdictsSound
  <2>1. SUFFICES ASSUME Init PROVE CodesSound /\ VerdictsSound
    BY InvInit
  <2> QED
    BY <2>1 DEF Init, Idle, Unissued, CodesSound, VerdictsSound, Issued
<1>2. /\ FullInv /\ CodesSound /\ VerdictsSound
      /\ [Next]_vars
      => (FullInv /\ CodesSound /\ VerdictsSound)'
  BY InvStep, CodesStep, VerdictsStep
<1>3. FullInv /\ CodesSound /\ VerdictsSound => LimitsAsDocumented
  BY DocumentedLimits
<1> QED
  BY <1>1, <1>2, <1>3, PTL DEF Spec

-----------------------------------------------------------------------------
(* Refusals.                                                               *)

(* A challenge that limits a send ends a series of the allowed length.     *)
LEMMA LimitedIsEarned ==
    ASSUME FullInv, NEW w \in Workers, NEW e \in Reads(w),
           Limited(e, req[w].now)
    PROVE  Earned(Key(w), req[w].now)
<1>1. /\ e # None /\ e.requestCount >= MaxRequests
      /\ req[w].now - e.sentAt < Window
  BY DEF Limited, InWindow
<1>2. /\ Genuine(Key(w), e) /\ WithinPolicy(e)
      /\ e.nonce \in Nonces /\ Issued(e.nonce)
      /\ e.requestCount = ledger[e.nonce].challenge.requestCount
      /\ e.sentAt = ledger[e.nonce].challenge.sentAt
  BY <1>1, ReadGenuine
<1>3. e.requestCount = MaxRequests
  BY <1>1, <1>2, PolicyFacts DEF WithinPolicy
<1>4. EndsSeries(e.nonce, Key(w), MaxRequests)
  BY <1>2, <1>3 DEF FullInv, IInv, SeriesSound, Genuine, IssuedOn
<1> QED
  BY <1>1, <1>2, <1>4 DEF EndsSeries, Earned

(* Only SendLimited refuses with rate_limited.                             *)
LEMMA RefusalStep ==
    ASSUME FullInv, Next, NEW w \in Workers, req[w].pc = "send_get",
           ~Busy(w)', answer' = "rate_limited"
    PROVE  Earned(Key(w), req[w].now)
<1>1. TypeInv /\ req \in [Workers -> Request]
  BY DEF FullInv, TypeInv, TypeOK
<1>2. Busy(w) /\ req'[w] # req[w]
  BY DEF Busy
<1>3. ASSUME NEW v \in Workers, HandlerStep(v)
      PROVE  Earned(Key(w), req[w].now)
  <2>1. v = w
    BY <1>1, <1>2, <1>3, HandlerMoves
  <2>2. SendLimited(w) \/ SendNoCode(w) \/ SendIssue(w)
    BY <1>3, <2>1
       DEF HandlerStep, SendStep, VerifyStep, SendPut, SendSms, VerifyMiss,
           VerifyFetch, VerifyMismatch, VerifyStale, VerifyPurge, VerifyWrong,
           VerifyBump, VerifyRight, VerifyRedeem, Accept
  <2>3. SendLimited(w)
    BY <2>2 DEF SendNoCode, SendIssue, Return, Proceed
  <2> QED
    BY <2>3, LimitedIsEarned DEF SendLimited
<1>4. ASSUME NEW v \in Workers, NEW in,
             \/ SendReject(v, in) \/ VerifyReject(v, in)
      PROVE  FALSE
  BY <1>1, <1>2, <1>4 DEF SendReject, VerifyReject, Return, Busy
<1>5. ASSUME NEW v \in Workers, NEW in,
             \/ SendBegin(v, in) \/ VerifyBegin(v, in)
      PROVE  FALSE
  BY <1>5 DEF SendBegin, VerifyBegin, Start
<1>6. ASSUME NEW v \in Workers, Timeout(v) \/ Crash(v)
      PROVE  FALSE
  BY <1>6 DEF Timeout, Crash
<1>7. ~(StoreStep \/ Tick)
  BY DEF StoreStep, Tick
<1> QED
  BY <1>3, <1>4, <1>5, <1>6, <1>7 DEF Next

(* Send refuses a code only on a key that was issued the allowed number of *)
(* codes in a row, each within the window of the one before.               *)
THEOREM RefusalsAreEarned == Spec => RefusalEarned
<1>1. FullInv /\ [Next]_vars =>
        [\A w \in Workers :
           req[w].pc = "send_get" /\ ~Busy(w)' /\ answer' = "rate_limited"
             => Earned(Key(w), req[w].now)]_vars
  BY RefusalStep
<1> QED
  BY <1>1, InvInit, InvStep, PTL DEF Spec, RefusalEarned
=============================================================================
