----------------------------- MODULE OtpExclusive -----------------------------
(***************************************************************************)
(* Proof that a code is accepted once and stands a bounded number of wrong *)
(* guesses, when the callers never overlap two requests on one key and no  *)
(* failed write takes effect later.  Without the first, both are violated. *)
(***************************************************************************)
EXTENDS OtpInvariant, FiniteSetTheorems

Exclusive == OneAtATime /\ MaxStray = 0

-----------------------------------------------------------------------------
(* No write is left in flight.                                             *)

(* A write that cannot be late leaves none in flight.                      *)
LEMMA ApplyLeavesNone ==
    ASSUME Exclusive, stray = {}, NEW k, NEW v, NEW o, Apply(k, v, o)
    PROVE  stray' = {}
<1>1. Cardinality(stray) = 0
  BY FS_EmptySet
<1> QED
  BY <1>1 DEF Exclusive, Apply

(* No step leaves a write in flight.                                       *)
LEMMA StrayStep ==
    ASSUME Exclusive, stray = {}, [Next]_vars
    PROVE  stray' = {}
<1>1. ASSUME NEW w \in Workers, HandlerStep(w)
      PROVE  stray' = {}
  <2>1. UNCHANGED storeVars \/ \E k, v, o : Apply(k, v, o)
    BY <1>1
       DEF HandlerStep, SendStep, VerifyStep, SendLimited, SendNoCode, SendIssue,
           SendPut, SendSms, VerifyMiss, VerifyFetch, VerifyMismatch,
           VerifyStale, VerifyPurge, VerifyWrong, VerifyBump, VerifyRight,
           VerifyRedeem, Accept, PutChallenge, DeleteChallenge
  <2> QED
    BY <2>1, ApplyLeavesNone DEF storeVars
<1>2. ASSUME NEW w \in Workers, NEW in,
             \/ SendReject(w, in) \/ SendBegin(w, in)
             \/ VerifyReject(w, in) \/ VerifyBegin(w, in)
             \/ Timeout(w) \/ Crash(w)
      PROVE  stray' = {}
  BY <1>2 DEF SendReject, SendBegin, VerifyReject, VerifyBegin, Timeout, Crash,
     Restart, storeVars
<1>3. ASSUME StoreStep \/ Tick \/ UNCHANGED vars
      PROVE  stray' = {}
  BY <1>3 DEF StoreStep, Land, Sweep, Tick, vars, storeVars
<1> QED
  BY <1>1, <1>2, <1>3 DEF Next

-----------------------------------------------------------------------------
(* No two handlers serve one key.                                          *)

(* Normalising the fields of a request first does not change its key.      *)
LEMMA KeyNormal ==
    ASSUME NEW s \in Text, NEW p \in Text
    PROVE  ChallengeKey(NormalizeSubject(s), NormalizePurpose(p))
             = ChallengeKey(s, p)
<1>1. NormalizeSubject(NormalizeSubject(s)) = NormalizeSubject(s)
  BY TextAssumption DEF NormalizeSubject
<1>2. NormalizePurpose(NormalizePurpose(p)) = NormalizePurpose(p)
  BY TextAssumption DEF NormalizePurpose
<1> QED
  BY <1>1, <1>2 DEF ChallengeKey

(* A handler at work keeps its key or ends.                                *)
KeysKeep ==
    \A v \in Workers : ~Busy(v)' \/ (Busy(v) /\ Key(v)' = Key(v))

(* One handler begins, on a key that no other serves.                      *)
BeginsAlone(w) ==
    \A v \in Workers \ {w} :
      req'[v] = req[v] /\ (Busy(v) => Key(v) # Key(w)')

(* A request begins on a key that no other serves.                         *)
LEMMA StartsAlone ==
    ASSUME Exclusive, HandlersTyped, NEW w \in Workers, NEW pc, NEW in,
           {in.subject, in.purpose} \subseteq Text, NEW code, NEW now,
           Start(w, pc, in, code, now)
    PROVE  BeginsAlone(w)
<1>1. /\ ~Busy(w)
      /\ \A v \in Workers : Busy(v) => Key(v) # ChallengeKey(in.subject, in.purpose)
  BY DEF Exclusive, Start, Admitted
<1>2. /\ req'[w].subject = NormalizeSubject(in.subject)
      /\ req'[w].purpose = NormalizePurpose(in.purpose)
      /\ \A v \in Workers \ {w} : req'[v] = req[v]
  BY DEF HandlersTyped, Start, Idle
<1>3. Key(w)' = ChallengeKey(in.subject, in.purpose)
  BY <1>2, KeyNormal DEF Key
<1> QED
  BY <1>1, <1>2, <1>3 DEF BeginsAlone

(* What a step does to the keys being served.                              *)
LEMMA KeyStep ==
    ASSUME Exclusive, TypeInv, [Next]_vars
    PROVE  KeysKeep \/ \E w \in Workers : BeginsAlone(w)
<1>1. HandlersTyped /\ req \in [Workers -> Request]
  BY DEF TypeInv, TypeOK, HandlersTyped
<1>2. ASSUME NEW w \in Workers,
             \A v \in Workers \ {w} : req'[v] = req[v],
             \/ req'[w].pc = "idle"
             \/ /\ req[w].pc # "idle"
                /\ req'[w].subject = req[w].subject
                /\ req'[w].purpose = req[w].purpose
      PROVE  KeysKeep
  BY <1>2 DEF KeysKeep, Busy, Key
<1>3. ASSUME NEW w \in Workers, NEW a, Return(w, a)
      PROVE  KeysKeep
  BY <1>1, <1>2, <1>3 DEF Return, Idle
<1>4. ASSUME NEW w \in Workers, HandlerStep(w)
      PROVE  KeysKeep
  <2>1. ASSUME NEW pc, NEW c, req[w].pc # "idle", Proceed(w, pc, c)
        PROVE  KeysKeep
    BY <1>1, <1>2, <2>1 DEF Proceed, Request
  <2>2. CASE SendIssue(w) \/ SendPut(w) \/ VerifyFetch(w)
    <3>1. \/ \E a : Return(w, a)
          \/ req[w].pc # "idle" /\ \E pc, c : Proceed(w, pc, c)
      BY <2>2 DEF SendIssue, SendPut, VerifyFetch
    <3> QED
      BY <1>3, <2>1, <3>1
  <2>3. CASE VerifyStale(w)
    BY <1>1, <1>2, <2>3 DEF VerifyStale, Request
  <2>4. CASE VerifyWrong(w) \/ VerifyRight(w)
    <3>1. PICK pc, c : Accept(w, pc, c)
      BY <2>4 DEF VerifyWrong, VerifyRight
    <3> QED
      BY <1>1, <1>2, <3>1 DEF Accept, Request
  <2>5. CASE \/ SendLimited(w) \/ SendNoCode(w) \/ SendSms(w) \/ VerifyMiss(w)
             \/ VerifyMismatch(w) \/ VerifyPurge(w) \/ VerifyBump(w)
             \/ VerifyRedeem(w)
    BY <1>3, <2>5 DEF SendLimited, SendNoCode, SendSms, VerifyMiss,
       VerifyMismatch, VerifyPurge, VerifyBump, VerifyRedeem
  <2> QED
    BY <1>4, <2>2, <2>3, <2>4, <2>5 DEF HandlerStep, SendStep, VerifyStep
<1>5. ASSUME NEW w \in Workers, NEW in,
             SendReject(w, in) \/ VerifyReject(w, in)
      PROVE  KeysKeep
  BY <1>3, <1>5 DEF SendReject, VerifyReject
<1>6. ASSUME NEW w \in Workers, NEW in \in SendInputs, SendBegin(w, in)
      PROVE  BeginsAlone(w)
  <2>1. {in.subject, in.purpose} \subseteq Text
    BY ServiceAssumption
  <2> QED
    BY <1>1, <1>6, <2>1, StartsAlone DEF SendBegin
<1>7. ASSUME NEW w \in Workers, NEW in \in VerifyInputs, VerifyBegin(w, in)
      PROVE  BeginsAlone(w)
  <2>1. {in.subject, in.purpose} \subseteq Text
    BY ServiceAssumption
  <2> QED
    BY <1>1, <1>7, <2>1, StartsAlone DEF VerifyBegin
<1>8. ASSUME NEW w \in Workers, Timeout(w)
      PROVE  KeysKeep
  BY <1>1, <1>8 DEF Timeout, Request, KeysKeep, Busy, Key
<1>9. ASSUME NEW w \in Workers, Crash(w)
      PROVE  KeysKeep
  BY <1>1, <1>9 DEF Crash, Idle, KeysKeep, Busy, Key
<1>10. CASE StoreStep \/ Tick \/ UNCHANGED vars
  BY <1>10 DEF StoreStep, Tick, vars, KeysKeep, Busy, Key
<1> QED
  BY <1>4, <1>5, <1>6, <1>7, <1>8, <1>9, <1>10 DEF Next

(* Every step keeps the handlers on different keys.                        *)
LEMMA AloneStep ==
    ASSUME Exclusive, TypeInv, Alone, [Next]_vars
    PROVE  Alone'
<1>1. CASE KeysKeep
  BY <1>1 DEF KeysKeep, Alone
<1>2. ASSUME NEW w \in Workers, BeginsAlone(w)
      PROVE  Alone'
  BY <1>2 DEF BeginsAlone, Alone, Busy, Key
<1> QED
  BY <1>1, <1>2, KeyStep

-----------------------------------------------------------------------------
(* What a step does to the counts of the history.                          *)

CountsKeep ==
    \A n \in Nonces :
      \/ ledger'[n].uses = ledger[n].uses /\ ledger'[n].wrong = ledger[n].wrong
      \/ ledger'[n].uses = 0 /\ ledger'[n].wrong = 0

Charges(w) ==
    /\ req[w].pc = "bump"
    /\ PutChallenge(Key(w), req[w].challenge, "ok")
    /\ ledger' = [ledger EXCEPT ![req[w].challenge.nonce].wrong = Count(@)]
    /\ Return(w, "invalid_code")

Redeems(w) ==
    /\ req[w].pc = "redeem"
    /\ DeleteChallenge(Key(w), "ok")
    /\ ledger' = [ledger EXCEPT ![req[w].challenge.nonce].uses = Count(@)]
    /\ Return(w, "verified")

(* What a step does to the counts of accepted and wrong codes.             *)
LEMMA CountsStep ==
    ASSUME TypeInv, [Next]_vars
    PROVE  CountsKeep \/ \E w \in Workers : Charges(w) \/ Redeems(w)
<1>1. ledger \in [Nonces -> Entry]
  BY DEF TypeInv, TypeOK
<1>2. ASSUME UNCHANGED ledger
      PROVE  CountsKeep
  BY <1>2 DEF CountsKeep
<1>3. ASSUME NEW m, NEW b,
             \/ ledger' = [ledger EXCEPT ![m].acked = b]
             \/ ledger' = [ledger EXCEPT ![m].delivered = b]
      PROVE  CountsKeep
  <2>1. ASSUME NEW n \in Nonces
        PROVE  ledger'[n].uses = ledger[n].uses /\ ledger'[n].wrong = ledger[n].wrong
    BY <1>1, <1>3 DEF Entry
  <2> QED
    BY <2>1 DEF CountsKeep
<1>4. ASSUME NEW w \in Workers, HandlerStep(w)
      PROVE  CountsKeep \/ Charges(w) \/ Redeems(w)
  <2>1. CASE SendIssue(w)
    <3>1. PICK n, c :
            /\ n \in Nonces
            /\ ledger' = [ledger EXCEPT ![n] =
                 [Unissued EXCEPT !.challenge = c, !.born = req[w].at]]
      BY <2>1 DEF SendIssue
    <3>2. \A m \in Nonces \ {n} : ledger'[m] = ledger[m]
      BY <1>1, <3>1
    <3>3. ledger'[n].uses = 0 /\ ledger'[n].wrong = 0
      BY <1>1, <3>1 DEF Unissued
    <3> QED
      BY <3>2, <3>3 DEF CountsKeep
  <2>2. CASE SendPut(w)
    <3>1. \/ UNCHANGED ledger
          \/ \E m : ledger' = [ledger EXCEPT ![m].acked = TRUE]
      BY <2>2 DEF SendPut
    <3> QED
      BY <1>2, <1>3, <3>1
  <2>3. CASE SendSms(w)
    <3>1. \E m, b : ledger' = [ledger EXCEPT ![m].delivered = b]
      BY <2>3 DEF SendSms
    <3> QED
      BY <1>3, <3>1
  <2>4. CASE VerifyBump(w)
    <3>1. Charges(w) \/ UNCHANGED ledger
      BY <2>4 DEF VerifyBump, Charges
    <3> QED
      BY <1>2, <3>1
  <2>5. CASE VerifyRedeem(w)
    <3>1. Redeems(w) \/ UNCHANGED ledger
      BY <2>5 DEF VerifyRedeem, Redeems
    <3> QED
      BY <1>2, <3>1
  <2>6. CASE \/ SendLimited(w) \/ SendNoCode(w) \/ VerifyMiss(w)
             \/ VerifyFetch(w) \/ VerifyMismatch(w) \/ VerifyStale(w)
             \/ VerifyPurge(w) \/ VerifyWrong(w) \/ VerifyRight(w)
    BY <1>2, <2>6
       DEF SendLimited, SendNoCode, VerifyMiss, VerifyFetch, VerifyMismatch,
           VerifyStale, VerifyPurge, VerifyWrong, VerifyRight, Accept
  <2> QED
    BY <1>4, <2>1, <2>2, <2>3, <2>4, <2>5, <2>6
       DEF HandlerStep, SendStep, VerifyStep
<1>5. ASSUME NEW w \in Workers, NEW in,
             \/ SendReject(w, in) \/ SendBegin(w, in)
             \/ VerifyReject(w, in) \/ VerifyBegin(w, in)
             \/ Timeout(w) \/ Crash(w)
      PROVE  UNCHANGED ledger
  BY <1>5 DEF SendReject, SendBegin, VerifyReject, VerifyBegin, Timeout, Crash
<1>6. ASSUME StoreStep \/ Tick \/ UNCHANGED vars
      PROVE  UNCHANGED ledger
  BY <1>6 DEF StoreStep, Tick, vars
<1> QED
  BY <1>2, <1>4, <1>5, <1>6 DEF Next

-----------------------------------------------------------------------------
(* The step of the invariant.                                              *)

ExclusiveInv == FullInv /\ XInv

(* An acknowledged charge or redemption leaves no other copy.              *)
LEMMA NoOtherCopy ==
    ASSUME ExclusiveInv, FullInv', KeysKeep, stray' = {},
           NEW w \in Workers, req[w].pc \in {"bump", "redeem"},
           NEW v \in Challenge \cup {None}, Apply(Key(w), v, "ok"),
           NEW a, Return(w, a), LedgerKeeps,
           NEW x \in Copies', x.value.nonce = req[w].challenge.nonce
    PROVE  x.value = v /\ v # None
<1>1. /\ TypeInv /\ HandlersTyped /\ StoreTypeOK
      /\ TypeInv' /\ Provenance'
  BY DEF ExclusiveInv, FullInv, IInv, TypeInv, TypeOK, HandlersTyped
<1>2. req[w].pc \in Holding
  BY DEF Holding
<1>3. /\ req[w].challenge.nonce \in Nonces
      /\ Genuine(Key(w), req[w].challenge)
      /\ req[w].challenge \in Challenge
  BY <1>2, HeldGenuine DEF ExclusiveInv
<1>4. IssuedOn(Key(w), x.value.nonce)
  BY <1>3 DEF Genuine
<1>5. Genuine(x.key, x.value)'
  BY <1>1 DEF Provenance
<1>6. x.key = Key(w)
  BY <1>3, <1>4, <1>5 DEF Genuine, IssuedOn, Issued, LedgerKeeps
<1>7. CASE \E k \in Keys : challenges'[k] # None /\ x = Copy(k, challenges'[k])
  <2>1. PICK k \in Keys : challenges'[k] # None /\ x = Copy(k, challenges'[k])
    BY <1>7
  <2>2. k = Key(w) /\ x.value = challenges'[k]
    BY <1>6, <2>1 DEF Copy
  <2>3. challenges'[k] = v
    BY <1>1, <2>1, <2>2 DEF Apply, StoreTypeOK
  <2> QED
    BY <2>1, <2>2, <2>3
<1>8. ASSUME NEW u \in Workers, req'[u].pc \in Holding,
             x = Copy(Key(u)', req'[u].challenge)
      PROVE  FALSE
  <2>1. req'[w].pc = "idle"
    BY <1>1 DEF HandlersTyped, Return, Idle
  <2>2. u # w /\ Busy(u)' /\ Busy(w)
    BY <1>8, <2>1 DEF Holding, Busy
  <2>3. Busy(u) /\ Key(u)' = Key(u)
    BY <2>2 DEF KeysKeep
  <2>4. Key(u) = Key(w)
    BY <1>6, <1>8, <2>3 DEF Copy
  <2> QED
    BY <2>2, <2>3, <2>4 DEF ExclusiveInv, XInv, Alone
<1> QED
  BY <1>7, <1>8 DEF Copies

(* The acknowledged charge of one attempt.                                 *)
LEMMA ChargeStep ==
    ASSUME ExclusiveInv, FullInv', KeysKeep, LedgerKeeps, stray' = {},
           Copies' \subseteq Copies, NEW w \in Workers, Charges(w)
    PROVE  Budgeted' /\ SingleUse' /\ GuessBudget'
<1> DEFINE c == req[w].challenge
           n == c.nonce
<1>1. /\ TypeInv /\ HandlersTyped /\ ledger \in [Nonces -> Entry]
      /\ Provenance' /\ TypeInv'
  BY DEF ExclusiveInv, FullInv, IInv, TypeInv, TypeOK, HandlersTyped
<1>2. /\ c \in Challenge /\ WithinPolicy(c) /\ n \in Nonces
      /\ ledger[n].wrong < c.attempts /\ ledger[n] \in Entry
  BY <1>1, HeldGenuine DEF Charges, Holding, ExclusiveInv, XInv, Budgeted
<1>3. /\ Apply(Key(w), c, "ok") /\ Return(w, "invalid_code")
      /\ req[w].pc \in {"bump", "redeem"}
      /\ ledger' = [ledger EXCEPT ![n].wrong = Count(@)]
  BY DEF Charges, PutChallenge
<1>4. /\ \A m \in Nonces : ledger'[m].uses = ledger[m].uses
      /\ \A m \in Nonces \ {n} : ledger'[m].wrong = ledger[m].wrong
      /\ ledger'[n].wrong = Count(ledger[n].wrong)
  BY <1>1, <1>2, <1>3 DEF Entry
<1>5. /\ ledger'[n].wrong \in Nat
      /\ ledger'[n].wrong <= c.attempts /\ ledger'[n].wrong <= AllowedAttempts
  BY <1>2, <1>4, ServiceAssumption, PolicyFacts
     DEF Count, Entry, Challenge, WithinPolicy
<1> HIDE DEF c, n
<1>6. ASSUME NEW x \in Copies'
      PROVE  /\ ledger'[x.value.nonce].uses = 0
             /\ ledger'[x.value.nonce].wrong <= x.value.attempts
  <2>1. /\ ledger[x.value.nonce].uses = 0
        /\ ledger[x.value.nonce].wrong <= x.value.attempts
        /\ x.value.nonce \in Nonces
    BY <1>1, <1>6, CopyTyped DEF ExclusiveInv, XInv, Budgeted, Challenge
  <2>2. x.value.nonce = n => x.value = c
    BY <1>2, <1>3, <1>6, NoOtherCopy DEF c, n
  <2> QED
    BY <1>4, <1>5, <2>1, <2>2
<1>7. ASSUME NEW v \in Workers, req'[v].pc = "bump"
      PROVE  ledger'[req'[v].challenge.nonce].wrong < req'[v].challenge.attempts
  <2>1. v # w /\ req'[v] = req[v] /\ req[v].pc = "bump"
    BY <1>1, <1>3, <1>7 DEF HandlersTyped, Return, Idle
  <2>2. /\ Busy(v) /\ Busy(w) /\ req[v].pc \in Holding
        /\ req[w].pc \in Holding
    BY <1>3, <2>1 DEF Busy, Holding
  <2>3. Key(v) # Key(w)
    BY <2>1, <2>2 DEF ExclusiveInv, XInv, Alone
  <2>4. /\ Genuine(Key(v), req[v].challenge) /\ Genuine(Key(w), c)
        /\ req[v].challenge.nonce \in Nonces
    BY <2>2, HeldGenuine DEF c, ExclusiveInv
  <2>5. req[v].challenge.nonce # n
    BY <2>3, <2>4 DEF n, Genuine, IssuedOn
  <2> QED
    BY <1>4, <2>1, <2>4, <2>5 DEF ExclusiveInv, XInv, Budgeted
<1>8. SingleUse' /\ GuessBudget'
  BY <1>4, <1>5 DEF ExclusiveInv, XInv, SingleUse, GuessBudget
<1> QED
  BY <1>6, <1>7, <1>8 DEF Budgeted

(* The acknowledged redemption.                                            *)
LEMMA RedeemStep ==
    ASSUME ExclusiveInv, FullInv', KeysKeep, LedgerKeeps, stray' = {},
           Copies' \subseteq Copies, NEW w \in Workers, Redeems(w)
    PROVE  Budgeted' /\ SingleUse' /\ GuessBudget'
<1> DEFINE c == req[w].challenge
           n == c.nonce
<1>1. /\ TypeInv /\ HandlersTyped /\ ledger \in [Nonces -> Entry]
  BY DEF ExclusiveInv, FullInv, TypeInv, TypeOK, HandlersTyped
<1>2. /\ c \in Challenge /\ n \in Nonces /\ ledger[n] \in Entry
      /\ Copy(Key(w), c) \in Copies
  BY <1>1, HeldGenuine DEF Redeems, Holding, ExclusiveInv, Copies
<1>3. /\ Apply(Key(w), None, "ok") /\ Return(w, "verified")
      /\ req[w].pc \in {"bump", "redeem"}
      /\ ledger' = [ledger EXCEPT ![n].uses = Count(@)]
  BY DEF Redeems, DeleteChallenge
<1>4. /\ \A m \in Nonces : ledger'[m].wrong = ledger[m].wrong
      /\ \A m \in Nonces \ {n} : ledger'[m].uses = ledger[m].uses
      /\ ledger'[n].uses = Count(ledger[n].uses)
  BY <1>1, <1>2, <1>3 DEF Entry
<1>5. ledger[n].uses = 0
  BY <1>2 DEF ExclusiveInv, XInv, Budgeted, Copy
<1>6. ledger'[n].uses <= 1
  BY <1>4, <1>5, ServiceAssumption DEF Count
<1> HIDE DEF c, n
<1>7. ASSUME NEW x \in Copies'
      PROVE  /\ ledger'[x.value.nonce].uses = 0
             /\ ledger'[x.value.nonce].wrong <= x.value.attempts
  <2>1. /\ ledger[x.value.nonce].uses = 0
        /\ ledger[x.value.nonce].wrong <= x.value.attempts
        /\ x.value.nonce \in Nonces
    BY <1>1, <1>7, CopyTyped DEF ExclusiveInv, XInv, Budgeted, Challenge
  <2>2. x.value.nonce # n
    BY <1>3, <1>7, NoOtherCopy DEF c, n
  <2> QED
    BY <1>4, <2>1, <2>2
<1>8. ASSUME NEW v \in Workers, req'[v].pc = "bump"
      PROVE  ledger'[req'[v].challenge.nonce].wrong < req'[v].challenge.attempts
  <2>1. req'[v] = req[v] /\ req[v].pc = "bump" /\ req[v].pc \in Holding
    BY <1>1, <1>3, <1>8 DEF HandlersTyped, Return, Idle, Holding
  <2>2. req[v].challenge.nonce \in Nonces
    BY <2>1, HeldGenuine DEF ExclusiveInv
  <2> QED
    BY <1>4, <2>1, <2>2 DEF ExclusiveInv, XInv, Budgeted
<1>9. SingleUse' /\ GuessBudget'
  BY <1>4, <1>6 DEF ExclusiveInv, XInv, SingleUse, GuessBudget
<1> QED
  BY <1>7, <1>8, <1>9 DEF Budgeted

(* Any other step: a new copy is a new challenge or one charged on paper.  *)
LEMMA KeepStep ==
    ASSUME ExclusiveInv, FullInv', [Next]_vars, CountsKeep
    PROVE  Budgeted' /\ SingleUse' /\ GuessBudget'
<1>1. /\ TypeInv /\ req \in [Workers -> Request]
      /\ TypeInv' /\ CountersBounded'
      /\ ledger \in [Nonces -> Entry]
  BY DEF ExclusiveInv, FullInv, IInv, TypeInv, TypeOK
<1>2. ASSUME NEW n \in Nonces, NEW a \in Nat,
             ledger[n].uses = 0, ledger[n].wrong <= a
      PROVE  ledger'[n].uses = 0 /\ ledger'[n].wrong <= a
  BY <1>2 DEF CountsKeep
<1>3. ASSUME NEW w \in Workers, VerifyWrong(w)
      PROVE  LET c == req[w].challenge
             IN  /\ c \in Challenge /\ c.nonce \in Nonces
                 /\ c.attempts \in Nat
                 /\ Charged(c).nonce = c.nonce
                 /\ Charged(c).attempts = c.attempts + 1
                 /\ ledger[c.nonce].uses = 0
                 /\ ledger[c.nonce].wrong <= c.attempts
  <2> DEFINE c == req[w].challenge
  <2>1. req[w].pc \in Holding
    BY <1>3 DEF VerifyWrong, Accept, Holding
  <2>2. /\ c \in Challenge /\ c.nonce \in Nonces /\ WithinPolicy(c)
        /\ Copy(Key(w), c) \in Copies
    BY <2>1, HeldGenuine DEF ExclusiveInv, Copies
  <2>3. c.attempts \in Nat
    BY <2>2 DEF WithinPolicy
  <2>4. ledger[c.nonce].uses = 0 /\ ledger[c.nonce].wrong <= c.attempts
    BY <2>2 DEF ExclusiveInv, XInv, Budgeted, Copy
  <2>5. Charged(c).nonce = c.nonce /\ Charged(c).attempts = c.attempts + 1
    BY <2>2 DEF Charged, Challenge
  <2> QED
    BY <2>2, <2>3, <2>4, <2>5
<1>4. ASSUME NEW x \in Copies'
      PROVE  /\ ledger'[x.value.nonce].uses = 0
             /\ ledger'[x.value.nonce].wrong <= x.value.attempts
  <2>1. CASE x \in Copies
    <3>1. /\ ledger[x.value.nonce].uses = 0
          /\ ledger[x.value.nonce].wrong <= x.value.attempts
          /\ x.value.nonce \in Nonces
      BY <1>1, <2>1, CopyTyped DEF ExclusiveInv, XInv, Budgeted, Challenge
    <3>2. x.value.attempts \in Nat
      BY <1>1 DEF CountersBounded, WithinPolicy
    <3> QED
      BY <1>2, <3>1, <3>2
  <2>2. ASSUME NEW w \in Workers, IssuedCopy(w, x)
        PROVE  /\ ledger'[x.value.nonce].uses = 0
               /\ ledger'[x.value.nonce].wrong <= x.value.attempts
    <3>1. PICK n \in Nonces : IssueOf(w, n)
      BY <2>2, IssueFacts DEF IssuedCopy
    <3>2. ledger'[n].uses = 0 /\ ledger'[n].wrong = 0
      <4>1. PICK c : ledger' = [ledger EXCEPT ![n] =
                       [Unissued EXCEPT !.challenge = c, !.born = req[w].at]]
        BY <3>1 DEF IssueOf
      <4> QED
        BY <1>1, <4>1 DEF Unissued
    <3>3. req'[w].challenge.nonce = n /\ req'[w].challenge.attempts = 0
      <4>1. \E e, code : req'[w].challenge = NewChallenge(w, e, code, n)
        BY <1>1, <3>1, IssueEntry
      <4> QED
        BY <4>1 DEF NewChallenge
    <3> QED
      BY <2>2, <3>2, <3>3 DEF IssuedCopy, Copy
  <2>3. ASSUME NEW w \in Workers, ChargedCopy(w, x)
        PROVE  /\ ledger'[x.value.nonce].uses = 0
               /\ ledger'[x.value.nonce].wrong <= x.value.attempts
    <3> DEFINE c == req[w].challenge
    <3>1. VerifyWrong(w) /\ x.value = Charged(c)
      BY <2>3 DEF ChargedCopy, Copy
    <3>2. ledger'[c.nonce].uses = 0 /\ ledger'[c.nonce].wrong <= c.attempts
      BY <1>2, <1>3, <3>1
    <3>3. ledger'[c.nonce].wrong \in Int
      BY <1>1, <1>3, <3>1, ServiceAssumption DEF TypeInv, TypeOK, Entry
    <3>4. /\ x.value.nonce = c.nonce /\ x.value.attempts = c.attempts + 1
          /\ c.attempts \in Nat
      BY <1>3, <3>1
    <3> QED
      BY <3>2, <3>3, <3>4
  <2> QED
    BY <1>1, <1>4, <2>1, <2>2, <2>3, CopiesStep
<1>5. ASSUME NEW v \in Workers, req'[v].pc = "bump"
      PROVE  ledger'[req'[v].challenge.nonce].wrong < req'[v].challenge.attempts
  <2>1. CASE SameRequest(v)
    <3>1. /\ req[v].pc = "bump" /\ req[v].pc \in Holding
          /\ req'[v].challenge = req[v].challenge
      BY <1>5, <2>1 DEF SameRequest, Holding
    <3>2. /\ req[v].challenge.nonce \in Nonces
          /\ req[v].challenge.attempts \in Nat
      <4>1. /\ req[v].challenge.nonce \in Nonces
            /\ WithinPolicy(req[v].challenge)
        BY <3>1, HeldGenuine DEF ExclusiveInv
      <4> QED
        BY <4>1, PolicyFacts DEF WithinPolicy
    <3>3. ledger[req[v].challenge.nonce].wrong < req[v].challenge.attempts
      BY <3>1 DEF ExclusiveInv, XInv, Budgeted
    <3>4. ledger[req[v].challenge.nonce].wrong \in Nat
      BY <1>1, <3>2, ServiceAssumption DEF Entry
    <3> QED
      BY <3>1, <3>2, <3>3, <3>4 DEF CountsKeep
  <2>2. CASE VerifyWrong(v)
    <3>1. req'[v].challenge = Charged(req[v].challenge)
      BY <1>1, <2>2 DEF VerifyWrong, Accept, Request
    <3>2. ledger'[req[v].challenge.nonce].wrong <= req[v].challenge.attempts
      BY <1>2, <1>3, <2>2
    <3>3. ledger'[req[v].challenge.nonce].wrong \in Int
      BY <1>1, <1>3, <2>2, ServiceAssumption DEF TypeInv, TypeOK, Entry
    <3> QED
      BY <1>3, <2>2, <3>1, <3>2, <3>3
  <2> QED
    BY <1>1, <1>5, <2>1, <2>2, RequestStep DEF Moves, Begins
<1>6. SingleUse' /\ GuessBudget'
  BY PolicyFacts DEF CountsKeep, ExclusiveInv, XInv, SingleUse, GuessBudget
<1> QED
  BY <1>4, <1>5, <1>6 DEF Budgeted

(* The invariant holds initially.                                          *)
LEMMA ExclusiveInit ==
    ASSUME Init PROVE ExclusiveInv
<1>1. FullInv
  BY InvInit
<1>2. /\ \A k \in Keys : challenges[k] = None
      /\ stray = {}
      /\ \A w \in Workers : req[w].pc = "idle"
      /\ \A n \in Nonces : ledger[n].uses = 0 /\ ledger[n].wrong = 0
  BY DEF Init, StoreInit, Idle, Unissued
<1>3. Copies = {}
  BY <1>2 DEF Copies, Holding
<1> QED
  BY <1>1, <1>2, <1>3, PolicyFacts
     DEF ExclusiveInv, XInv, Alone, Busy, Budgeted, SingleUse, GuessBudget

(* Every step keeps the invariant.                                         *)
LEMMA ExclusiveStep ==
    ASSUME Exclusive, ExclusiveInv, [Next]_vars PROVE ExclusiveInv'
<1>1. /\ FullInv /\ TypeInv /\ stray = {} /\ Alone
      /\ req \in [Workers -> Request]
  BY DEF ExclusiveInv, FullInv, XInv, TypeInv, TypeOK
<1>2. FullInv' /\ LedgerKeeps
  BY <1>1, InvStep, LedgerGrows
<1>3. stray' = {} /\ Alone'
  BY <1>1, StrayStep, AloneStep
<1>4. ASSUME NEW w \in Workers, Charges(w) \/ Redeems(w)
      PROVE  Budgeted' /\ SingleUse' /\ GuessBudget'
  <2>1. /\ \A v \in Workers \ {w} : req'[v] = req[v]
        /\ req'[w].pc = "idle" /\ answer' # "none"
    BY <1>1, <1>4 DEF Charges, Redeems, Return, Idle
  <2>2. KeysKeep
    BY <2>1 DEF KeysKeep, Busy, Key
  <2>3. \A v \in Workers : ~SendIssue(v) /\ ~VerifyWrong(v)
    BY <2>1 DEF SendIssue, Proceed, VerifyWrong, Accept
  <2>4. Copies' \subseteq Copies
    BY <1>1, <2>3, CopiesStep DEF IssuedCopy, ChargedCopy
  <2> QED
    BY <1>2, <1>3, <1>4, <2>2, <2>4, ChargeStep, RedeemStep
<1>5. Budgeted' /\ SingleUse' /\ GuessBudget'
  BY <1>1, <1>2, <1>4, CountsStep, KeepStep
<1> QED
  BY <1>2, <1>3, <1>5 DEF ExclusiveInv, XInv

(* Callers that never overlap two requests on one key, and a store whose   *)
(* failed writes do not take effect later, see every code accepted by      *)
(* Verify at most once, whatever else fails.                               *)
THEOREM CodesAreUsedOnce ==
    ASSUME Exclusive PROVE Spec => []SingleUse
<1>1. ExclusiveInv => SingleUse
  BY DEF ExclusiveInv, XInv
<1>2. ExclusiveInv /\ [Next]_vars => ExclusiveInv'
  BY ExclusiveStep
<1> QED
  BY <1>1, <1>2, ExclusiveInit, PTL DEF Spec

(* Under the same conditions no code stands more acknowledged wrong        *)
(* guesses than the policy's maximum of failed attempts.                   *)
THEOREM GuessesAreLimited ==
    ASSUME Exclusive PROVE Spec => []GuessBudget
<1>1. ExclusiveInv => GuessBudget
  BY DEF ExclusiveInv, XInv
<1>2. ExclusiveInv /\ [Next]_vars => ExclusiveInv'
  BY ExclusiveStep
<1> QED
  BY <1>1, <1>2, ExclusiveInit, PTL DEF Spec
=============================================================================
