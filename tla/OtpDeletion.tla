------------------------------ MODULE OtpDeletion ------------------------------
(***************************************************************************)
(* Proof that a code disappears only for a reason.  The core is            *)
(* StoreChanges: a document changes by the write of a handler on its key,  *)
(* by the sweeper, or with the memory store's process; so the document     *)
(* that a handler judged is the one it deletes.                            *)
(***************************************************************************)
EXTENDS OtpExclusive

-----------------------------------------------------------------------------
(* What a step does to the store.                                          *)

WriterPcs == {"send_put", "purge", "bump", "redeem"}

(* A handler writes what it holds, or deletes, and returns unless it goes  *)
(* on to send the SMS.                                                     *)
Writes(w) ==
    /\ req[w].pc \in WriterPcs
    /\ req'[w].pc \notin Judging \cup {"send_put"}
    /\ \E o : Apply(Key(w),
                    IF req[w].pc \in {"purge", "redeem"} THEN None
                    ELSE req[w].challenge, o)

StoreChanged(k) ==
    \/ challenges'[k] = challenges[k]
    \/ \E w \in Workers : Writes(w) /\ Key(w) = k
    \/ Sweep(k, clock) /\ UNCHANGED <<clock, req, ledger>>
    \/ Driver = "memory" /\ \A w \in Workers : req'[w].pc = "idle"

(* A step of a handler leaves the store alone or is a write of what the    *)
(* handler holds.                                                          *)
LEMMA HandlerWrites ==
    ASSUME TypeInv, NEW w \in Workers, HandlerStep(w)
    PROVE  UNCHANGED challenges \/ Writes(w)
<1>1. HandlersTyped
  BY DEF TypeInv, TypeOK, HandlersTyped
<1>2. ASSUME NEW a, Return(w, a) PROVE req'[w].pc = "idle"
  BY <1>1, <1>2 DEF HandlersTyped, Return, Idle
<1>3. CASE SendPut(w)
  <2>1. \E a : Return(w, a) \/ Proceed(w, "send_sms", req[w].challenge)
    BY <1>3 DEF SendPut
  <2>2. req'[w].pc \in {"idle", "send_sms"}
    BY <1>1, <1>2, <2>1 DEF HandlersTyped, Proceed, Request
  <2>3. req[w].pc = "send_put" /\ \E o : Apply(Key(w), req[w].challenge, o)
    BY <1>3 DEF SendPut, PutChallenge
  <2> QED
    BY <2>2, <2>3 DEF Writes, WriterPcs, Judging
<1>4. CASE VerifyBump(w)
  <2>1. /\ req[w].pc = "bump" /\ \E o : Apply(Key(w), req[w].challenge, o)
        /\ req'[w].pc = "idle"
    BY <1>2, <1>4 DEF VerifyBump, PutChallenge
  <2> QED
    BY <2>1 DEF Writes, WriterPcs, Judging
<1>5. CASE VerifyPurge(w) \/ VerifyRedeem(w)
  <2>1. /\ req[w].pc \in {"purge", "redeem"} /\ \E o : Apply(Key(w), None, o)
        /\ req'[w].pc = "idle"
    BY <1>2, <1>5 DEF VerifyPurge, VerifyRedeem, DeleteChallenge
  <2> QED
    BY <2>1 DEF Writes, WriterPcs, Judging
<1>6. CASE \/ SendLimited(w) \/ SendNoCode(w) \/ SendIssue(w) \/ SendSms(w)
           \/ VerifyMiss(w) \/ VerifyFetch(w) \/ VerifyMismatch(w)
           \/ VerifyStale(w) \/ VerifyWrong(w) \/ VerifyRight(w)
  BY <1>6 DEF SendLimited, SendNoCode, SendIssue, SendSms, VerifyMiss,
     VerifyFetch, VerifyMismatch, VerifyStale, VerifyWrong, VerifyRight, Accept,
     storeVars
<1> QED
  BY <1>3, <1>4, <1>5, <1>6 DEF HandlerStep, SendStep, VerifyStep

(* A document changes for one of four reasons only.                        *)
LEMMA StoreChanges ==
    ASSUME TypeInv, stray = {}, [Next]_vars, NEW k \in Keys
    PROVE  StoreChanged(k)
<1>1. /\ StoreTypeOK /\ HandlersTyped
  BY DEF TypeInv, TypeOK, HandlersTyped
<1>2. CASE UNCHANGED challenges
  BY <1>2 DEF StoreChanged
<1>3. ASSUME NEW w \in Workers, Writes(w) PROVE StoreChanged(k)
  <2>1. CASE Key(w) = k
    BY <1>3, <2>1 DEF StoreChanged
  <2>2. CASE Key(w) # k
    BY <1>1, <1>3, <2>2 DEF Writes, Apply, StoreTypeOK, StoreChanged
  <2> QED
    BY <2>1, <2>2
<1>4. ASSUME NEW j \in Keys, Sweep(j, clock), UNCHANGED <<clock, req, ledger>>
      PROVE  StoreChanged(k)
  <2>1. CASE j = k
    BY <1>4, <2>1 DEF StoreChanged
  <2>2. CASE j # k
    BY <1>1, <1>4, <2>2 DEF Sweep, StoreTypeOK, StoreChanged
  <2> QED
    BY <2>1, <2>2
<1>5. ASSUME NEW w \in Workers, Crash(w) PROVE StoreChanged(k)
  <2>1. CASE Driver = "memory"
    BY <1>5, <2>1 DEF Crash, Idle, StoreChanged
  <2>2. CASE Driver # "memory"
    BY <1>5, <2>2 DEF Crash, Restart, StoreChanged
  <2> QED
    BY <2>1, <2>2
<1>6. CASE StoreStep
  BY <1>4, <1>6 DEF StoreStep, Land
<1>7. ASSUME NEW w \in Workers, NEW in,
             \/ SendReject(w, in) \/ SendBegin(w, in)
             \/ VerifyReject(w, in) \/ VerifyBegin(w, in) \/ Timeout(w)
      PROVE  UNCHANGED challenges
  BY <1>7 DEF SendReject, SendBegin, VerifyReject, VerifyBegin, Timeout,
     storeVars
<1>8. CASE Tick \/ UNCHANGED vars
  BY <1>2, <1>8 DEF Tick, vars, storeVars
<1>9. ASSUME NEW w \in Workers, HandlerStep(w) PROVE StoreChanged(k)
  BY <1>2, <1>3, <1>9, HandlerWrites
<1> QED
  BY <1>2, <1>5, <1>6, <1>7, <1>8, <1>9 DEF Next

(* While a handler that will write is at work, its key is its own.         *)
LEMMA NoOtherWriter ==
    ASSUME ExclusiveInv, [Next]_vars, NEW w \in Workers, SameRequest(w),
           req[w].pc \in Judging \cup {"send_put"}
    PROVE  \/ challenges'[Key(w)] = challenges[Key(w)]
           \/ Sweep(Key(w), clock)
<1>1. TypeInv /\ stray = {} /\ HandlersTyped
  BY DEF ExclusiveInv, FullInv, XInv, TypeInv, TypeOK, HandlersTyped
<1>2. Key(w) \in Keys
  BY <1>1, KeyType
<1>3. ASSUME NEW v \in Workers, Writes(v), Key(v) = Key(w) PROVE FALSE
  <2>1. Busy(v) /\ Busy(w)
    BY <1>3 DEF Writes, WriterPcs, Judging, Busy
  <2>2. v = w
    BY <1>3, <2>1 DEF ExclusiveInv, XInv, Alone
  <2> QED
    BY <1>3, <2>2 DEF Writes, SameRequest
<1>4. ~\A v \in Workers : req'[v].pc = "idle"
  BY DEF SameRequest, Judging
<1> QED
  BY <1>1, <1>2, <1>3, <1>4, StoreChanges DEF StoreChanged

-----------------------------------------------------------------------------
(* What a handler judges is what is stored.                                *)

JudgingInv == ExclusiveInv /\ JInv

(* Verify's first read is of what is stored.                               *)
LEMMA FetchMoves ==
    ASSUME TypeInv, NEW w \in Workers, VerifyFetch(w)
    PROVE  /\ Key(w)' = Key(w) /\ UNCHANGED challenges
           /\ req'[w].pc = "judge"
           /\ req'[w].challenge = challenges[Key(w)]
           /\ challenges[Key(w)] # None
<1>1. /\ StoreTypeOK /\ HandlersTyped /\ req \in [Workers -> Request]
  BY DEF TypeInv, TypeOK, HandlersTyped
<1>2. PICK c \in Reads(w) \ {None} : Proceed(w, "judge", c)
  BY DEF VerifyFetch
<1>3. c = challenges[Key(w)]
  BY <1>1, <1>2, ReadsType
<1>4. /\ req'[w].pc = "judge" /\ req'[w].challenge = c
      /\ req'[w].subject = req[w].subject
      /\ req'[w].purpose = req[w].purpose
  BY <1>1, <1>2 DEF Proceed, Request
<1> QED
  BY <1>2, <1>3, <1>4 DEF Key, VerifyFetch, storeVars

(* The judgement reads the clock, not the store.                           *)
LEMMA JudgeMoves ==
    ASSUME TypeInv, NEW w \in Workers,
           VerifyStale(w) \/ VerifyWrong(w) \/ VerifyRight(w)
    PROVE  /\ Key(w)' = Key(w) /\ UNCHANGED <<challenges, clock>>
           /\ req[w].pc = "judge"
           /\ \/ /\ req'[w].pc = "purge"
                 /\ VerifyStale(w)
                 /\ req'[w].challenge = req[w].challenge
              \/ /\ req'[w].pc = "bump"
                 /\ req'[w].challenge = Charged(req[w].challenge)
              \/ /\ req'[w].pc = "redeem"
                 /\ req'[w].challenge = req[w].challenge
<1>1. req \in [Workers -> Request]
  BY DEF TypeInv, TypeOK
<1>2. CASE VerifyStale(w)
  <2>1. PICK v : req' = [req EXCEPT ![w] =
                    [@ EXCEPT !.pc = "purge", !.at = clock, !.verdict = v]]
    BY <1>2 DEF VerifyStale
  <2>2. /\ req'[w].pc = "purge" /\ req'[w].challenge = req[w].challenge
        /\ req'[w].subject = req[w].subject
        /\ req'[w].purpose = req[w].purpose
    BY <1>1, <2>1 DEF Request
  <2>3. req[w].pc = "judge" /\ UNCHANGED <<challenges, clock>>
    BY <1>2 DEF VerifyStale, storeVars
  <2> QED
    BY <1>2, <2>2, <2>3 DEF Key
<1>3. ASSUME NEW pc, NEW c, Accept(w, pc, c)
      PROVE  /\ req'[w].pc = pc /\ req'[w].challenge = c
             /\ Key(w)' = Key(w) /\ UNCHANGED <<challenges, clock>>
             /\ req[w].pc = "judge"
  BY <1>1, <1>3 DEF Accept, Request, Key, storeVars
<1> QED
  BY <1>2, <1>3 DEF VerifyWrong, VerifyRight

(* A charge taken back is the challenge before it.                         *)
LEMMA ChargedBack ==
    ASSUME NEW c \in Challenge
    PROVE  [Charged(c) EXCEPT !.attempts = @ - 1] = c
<1> DEFINE d == [Charged(c) EXCEPT !.attempts = @ - 1]
<1>1. Charged(c) \in Challenge /\ Charged(c).attempts - 1 = c.attempts
  BY DEF Charged, Challenge
<1>2. d \in Challenge /\ d.attempts = c.attempts
  BY <1>1 DEF Challenge
<1>3. /\ d.subject = c.subject /\ d.phoneHash = c.phoneHash
      /\ d.purpose = c.purpose /\ d.hash = c.hash /\ d.nonce = c.nonce
      /\ d.expiresAt = c.expiresAt /\ d.sentAt = c.sentAt
      /\ d.requestCount = c.requestCount
  BY DEF Charged, Challenge
<1> QED
  BY <1>2, <1>3 DEF Challenge

(* Every step keeps what Verify judges the document stored, or none is.    *)
LEMMA UndisturbedStep ==
    ASSUME JudgingInv, [Next]_vars PROVE Undisturbed'
<1>1. TypeInv
  BY DEF JudgingInv, ExclusiveInv, FullInv
<1> SUFFICES ASSUME NEW w \in Workers, req'[w].pc \in Judging
             PROVE  challenges'[Key(w)'] \in {None, ReadCopy(w)'}
  BY DEF Undisturbed
<1>2. CASE SameRequest(w)
  <2>1. /\ Key(w)' = Key(w) /\ ReadCopy(w)' = ReadCopy(w)
        /\ req[w].pc \in Judging
    BY <1>2 DEF SameRequest, Key, ReadCopy
  <2>2. challenges[Key(w)] \in {None, ReadCopy(w)}
    BY <2>1 DEF JudgingInv, JInv, Undisturbed
  <2>3. challenges'[Key(w)] \in {None, challenges[Key(w)]}
    <3>1. CASE Sweep(Key(w), clock)
      <4>1. Key(w) \in Keys /\ StoreTypeOK
        BY <1>1, KeyType DEF TypeInv, TypeOK, HandlersTyped
      <4> QED
        BY <3>1, <4>1 DEF Sweep, StoreTypeOK
    <3> QED
      BY <1>2, <2>1, <3>1, NoOtherWriter DEF JudgingInv
  <2> QED
    BY <2>1, <2>2, <2>3
<1>3. CASE VerifyFetch(w)
  BY <1>1, <1>3, FetchMoves DEF ReadCopy
<1>4. CASE VerifyStale(w) \/ VerifyWrong(w) \/ VerifyRight(w)
  <2>1. req[w].pc = "judge" /\ req[w].pc \in Holding
    BY <1>1, <1>4, JudgeMoves DEF Holding
  <2>2. req[w].challenge \in Challenge
    BY <1>1, <2>1 DEF TypeInv, Held
  <2>3. challenges[Key(w)] \in {None, req[w].challenge}
    BY <2>1 DEF JudgingInv, JInv, Undisturbed, Judging, ReadCopy
  <2>4. ReadCopy(w)' = req[w].challenge
    BY <1>1, <1>4, <2>2, ChargedBack, JudgeMoves DEF ReadCopy
  <2> QED
    BY <1>1, <1>4, <2>3, <2>4, JudgeMoves
<1> QED
  BY <1>1, <1>2, <1>3, <1>4, RequestStep DEF Judging, Begins, Moves

(* The clock does not run back.                                            *)
LEMMA ClockStep ==
    ASSUME TypeInv, [Next]_vars PROVE clock' \in Nat /\ clock' >= clock
<1>1. clock \in Nat
  BY ServiceAssumption DEF TypeInv, TypeOK
<1>2. ASSUME NEW w \in Workers, NEW in,
             \/ SendReject(w, in) \/ SendBegin(w, in)
             \/ VerifyReject(w, in) \/ VerifyBegin(w, in)
      PROVE  clock' = clock
  BY <1>2 DEF SendReject, SendBegin, VerifyReject, VerifyBegin
<1>3. ASSUME NEW w \in Workers, HandlerStep(w) \/ Timeout(w) \/ Crash(w)
      PROVE  clock' = clock
  BY <1>3 DEF HandlerStep, SendStep, VerifyStep, SendLimited, SendNoCode,
     SendIssue, SendPut, SendSms, VerifyMiss, VerifyFetch, VerifyMismatch,
     VerifyStale, VerifyPurge, VerifyWrong, VerifyBump, VerifyRight,
     VerifyRedeem, Accept, Timeout, Crash
<1>4. CASE StoreStep \/ Tick \/ UNCHANGED vars
  BY <1>1, <1>4 DEF StoreStep, Tick, vars
<1> QED
  BY <1>1, <1>2, <1>3, <1>4 DEF Next

(* Every step keeps what Verify purges over.                               *)
LEMMA PurgeStep ==
    ASSUME JudgingInv, [Next]_vars PROVE PurgeDeserved'
<1>1. TypeInv /\ clock \in Nat /\ Skew \in Nat
  BY ServiceAssumption DEF JudgingInv, ExclusiveInv, FullInv, TypeInv, TypeOK
<1> SUFFICES ASSUME NEW w \in Workers, req'[w].pc = "purge"
             PROVE  \/ clock' + Skew > req'[w].challenge.expiresAt
                    \/ AttemptsExhausted(req'[w].challenge)
  BY DEF PurgeDeserved, AttemptsExhausted
<1>2. CASE SameRequest(w)
  <2>1. /\ req'[w].challenge = req[w].challenge
        /\ \/ clock + Skew > req[w].challenge.expiresAt
           \/ AttemptsExhausted(req[w].challenge)
    BY <1>2 DEF SameRequest, JudgingInv, JInv, PurgeDeserved
  <2>2. req[w].challenge.expiresAt \in Int
    BY <1>1, <1>2 DEF SameRequest, TypeInv, Held, Holding, Challenge
  <2> QED
    BY <1>1, <2>1, <2>2, ClockStep
<1>3. CASE VerifyStale(w)
  <2>1. PICK now \in Readings : Stale(req[w].challenge, now)
    BY <1>3 DEF VerifyStale
  <2>2. req'[w].challenge = req[w].challenge /\ clock' = clock
    BY <1>1, <1>3, JudgeMoves
  <2>3. req[w].challenge.expiresAt \in Int
    BY <1>1, <1>3 DEF VerifyStale, TypeInv, Held, Holding, Challenge
  <2> QED
    BY <1>1, <2>1, <2>2, <2>3 DEF Stale, Expired, Readings
<1>4. CASE VerifyWrong(w) \/ VerifyRight(w)
  BY <1>1, <1>3, <1>4, JudgeMoves
<1> QED
  BY <1>1, <1>2, <1>3, <1>4, RequestStep DEF Begins, Moves

(* The invariant holds initially.                                          *)
LEMMA JudgingInit ==
    ASSUME Init PROVE JudgingInv
<1>1. \A w \in Workers : req[w].pc = "idle"
  BY DEF Init, Idle
<1> QED
  BY <1>1, ExclusiveInit DEF JudgingInv, JInv, Undisturbed, PurgeDeserved, Judging

(* Every step keeps the invariant.                                         *)
LEMMA JudgingStep ==
    ASSUME Exclusive, JudgingInv, [Next]_vars PROVE JudgingInv'
BY ExclusiveStep, UndisturbedStep, PurgeStep DEF JudgingInv, JInv

-----------------------------------------------------------------------------
(* Deletions.                                                              *)

(* DynamoDB sweeps a document at most a second before its code ends.       *)
LEMMA SweepFacts ==
    ASSUME NEW c \in Challenge
    PROVE  SweepTime(c) \in Int /\ SweepTime(c) + Second > c.expiresAt
<1>1. Second \in Nat \ {0} /\ c.expiresAt \in Int
  BY StoreAssumption DEF Challenge
<1> QED
  BY <1>1, SMT DEF SweepTime

Over(c) ==
    \/ clock + Skew + Second > c.expiresAt
    \/ AttemptsExhausted(c)
    \/ Redeeming(c.nonce)

(* A document that goes was over, or is the one being redeemed.            *)
LEMMA DeletedIsOver ==
    ASSUME JudgingInv, Driver # "memory", [Next]_vars, NEW k \in Keys,
           challenges[k] # None, challenges'[k] = None
    PROVE  Over(challenges[k])
<1> DEFINE c == challenges[k]
<1>1. /\ TypeInv /\ StoreTypeOK /\ stray = {} /\ c \in Challenge
      /\ clock \in Nat /\ Skew \in Nat /\ Second \in Nat \ {0}
      /\ c.expiresAt \in Int
  BY ServiceAssumption, StoreAssumption
     DEF JudgingInv, ExclusiveInv, FullInv, XInv, TypeInv, TypeOK, StoreTypeOK,
         Challenge
<1>2. CASE Sweep(k, clock)
  <2>1. clock >= SweepTime(c)
    BY <1>2 DEF Sweep
  <2> QED
    BY <1>1, <2>1, SweepFacts DEF Over
<1>3. ASSUME NEW w \in Workers, Writes(w), Key(w) = k PROVE Over(c)
  <2>1. req[w].pc \in {"purge", "redeem"}
    <3>1. CASE req[w].pc \in {"send_put", "bump"}
      <4>1. req[w].challenge \in Challenge /\ req[w].challenge # None
        BY <1>1, <3>1, NoneAssumption DEF TypeInv, Held, Holding
      <4>2. PICK o : Apply(k, req[w].challenge, o)
        BY <1>3, <3>1 DEF Writes
      <4>3. challenges'[k] # None
        BY <1>1, <4>1, <4>2, NoneAssumption DEF Apply, StoreTypeOK
      <4> QED
        BY <4>3
    <3> QED
      BY <1>3, <3>1 DEF Writes, WriterPcs
  <2>2. c = req[w].challenge
    BY <1>3, <2>1 DEF JudgingInv, JInv, Undisturbed, Judging, ReadCopy
  <2>3. CASE req[w].pc = "purge"
    BY <1>1, <2>2, <2>3 DEF JudgingInv, JInv, PurgeDeserved, Over
  <2>4. CASE req[w].pc = "redeem"
    BY <2>2, <2>4 DEF Over, Redeeming
  <2> QED
    BY <2>1, <2>3, <2>4
<1> QED
  BY <1>1, <1>2, <1>3, StoreChanges DEF StoreChanged

(* For callers that never overlap two requests on one key, over a remote   *)
(* store whose failed writes do not take effect later: a challenge goes    *)
(* only once it is over (or in its last second), out of attempts or being  *)
(* redeemed with its own code.  No failure, and no request of somebody     *)
(* else with the same key, takes a live code away.                         *)
THEOREM DeletionsAreJustified ==
    ASSUME Exclusive, Driver # "memory" PROVE Spec => DeletionJustified
<1>1. JudgingInv /\ [Next]_vars => JudgingInv'
  BY JudgingStep
<1>2. JudgingInv /\ [Next]_vars =>
        [\A k \in Keys : challenges[k] # None /\ challenges'[k] = None =>
           \/ clock + Skew + Second > challenges[k].expiresAt
           \/ AttemptsExhausted(challenges[k])
           \/ Redeeming(challenges[k].nonce)]_vars
  BY DeletedIsOver DEF Over
<1> QED
  BY <1>1, <1>2, JudgingInit, PTL DEF Spec, DeletionJustified
=============================================================================
