------------------------------ MODULE OtpProofs ------------------------------
(***************************************************************************)
(* Type correctness of OtpService for all handlers, keys and nonces, every *)
(* policy, driver and clock skew, and the facts on its operators that the  *)
(* other proofs cite.                                                      *)
(***************************************************************************)
EXTENDS OtpProperties, TLAPS

(* Every accessor of the policy gives a positive number.                   *)
LEMMA PolicyFacts ==
    /\ OTPTTL \in Nat \ {0}
    /\ Window \in Nat \ {0}
    /\ MaxRequests \in Nat \ {0}
    /\ AllowedAttempts \in Nat \ {0}
BY PolicyAssumption
   DEF OTPTTL, Window, MaxRequests, AllowedAttempts

(* A key is computed for every subject and purpose.                        *)
LEMMA KeyFacts ==
    ASSUME NEW s \in Text, NEW p \in Text
    PROVE  /\ ChallengeKey(s, p) \in Keys
           /\ NormalizePurpose(p) \in Text
           /\ NormalizeSubject(s) \in Text
           /\ NormalizePhone(s) \in Text
<1>1. NormalizeSubject(s) \in Text /\ NormalizePurpose(p) \in Text
  BY TextAssumption DEF NormalizeSubject, NormalizePurpose
<1>2. KeyOf[NormalizeSubject(s), NormalizePurpose(p)] \in Keys
  BY <1>1, KeyAssumption
<1> QED
  BY <1>1, <1>2, TextAssumption DEF ChallengeKey, NormalizePhone

(* A write replaces one document, leaves all as they were, or leaves a     *)
(* write in flight.                                                        *)
LEMMA ApplyFacts ==
    ASSUME StoreTypeOK, NEW k \in Keys, NEW v \in Challenge \cup {None},
           NEW o, Apply(k, v, o)
    PROVE  /\ StoreTypeOK'
           /\ \A j \in Keys : \/ challenges'[j] = challenges[j]
                            \/ (j = k /\ challenges'[j] = v)
           /\ \A s \in stray' : s \in stray \/ s = [key |-> k, value |-> v]
BY DEF StoreTypeOK, Apply, Write

-----------------------------------------------------------------------------
(* Type correctness.  A handler that will use a challenge holds one.       *)

Held == \A w \in Workers :
          req[w].pc \in Holding => req[w].challenge \in Challenge

TypeInv == TypeOK /\ Held

HandlersTyped ==
    req \in [Workers -> Request] /\ answer \in Answers /\ Held

(* An idle handler is a well-typed request that holds no challenge.        *)
LEMMA IdleType == Idle \in Request /\ Idle.pc \notin Holding
BY TextAssumption DEF Idle, Request, Pcs, Answers, Holding

(* The entry of an unissued nonce is well typed.                           *)
LEMMA UnissuedType == Unissued \in Entry
BY ServiceAssumption DEF Unissued, Entry

(* A return keeps the types of the handlers.                               *)
LEMMA ReturnType ==
    ASSUME HandlersTyped, NEW w \in Workers, NEW a \in Answers, Return(w, a)
    PROVE  HandlersTyped'
BY IdleType DEF HandlersTyped, Return, Held

(* Going on with a challenge keeps the types of the handlers.              *)
LEMMA ProceedType ==
    ASSUME HandlersTyped, NEW w \in Workers, NEW pc \in Pcs,
           NEW c \in Challenge, Proceed(w, pc, c)
    PROVE  HandlersTyped'
<1>1. [req[w] EXCEPT !.pc = pc, !.challenge = c] \in Request
  BY DEF HandlersTyped, Request
<1>2. "none" \in Answers
  BY DEF Answers
<1> QED
  BY <1>1, <1>2 DEF HandlersTyped, Proceed, Held, Request

(* Every handler has a key.                                                *)
LEMMA KeyType ==
    ASSUME HandlersTyped, NEW w \in Workers
    PROVE  Key(w) \in Keys
BY KeyFacts DEF HandlersTyped, Request, Key

(* A read gives the stored document or nothing.                            *)
LEMMA ReadsType ==
    ASSUME StoreTypeOK, HandlersTyped, NEW w \in Workers, NEW c \in Reads(w)
    PROVE  c \in {None, challenges[Key(w)]} /\ c \in Challenge \cup {None}
<1>1. Key(w) \in Keys
  BY KeyType
<1>2. c \in {None, challenges[Key(w)]}
  BY StoreAssumption
     DEF Reads, GetChallenge, MemoryReads, FirestoreReads, DynamoDBReads
<1> QED
  BY <1>1, <1>2 DEF StoreTypeOK

(* The updates of the history keep its type.                               *)
LEMMA LedgerType ==
    ASSUME ledger \in [Nonces -> Entry], NEW n \in Nonces
    PROVE  /\ [ledger EXCEPT ![n].acked = TRUE] \in [Nonces -> Entry]
           /\ [ledger EXCEPT ![n].wrong = Count(@)] \in [Nonces -> Entry]
           /\ [ledger EXCEPT ![n].uses = Count(@)] \in [Nonces -> Entry]
<1>1. ledger[n] \in Entry
  OBVIOUS
<1>2. \A m \in 0 .. CountCap : Count(m) \in 0 .. CountCap
  BY ServiceAssumption DEF Count
<1> QED
  BY <1>1, <1>2 DEF Entry

(* What Send puts together is a challenge.                                 *)
LEMMA NewChallengeType ==
    ASSUME HandlersTyped, NEW w \in Workers, NEW e \in Challenge \cup {None},
           NEW code \in Codes, NEW n \in Nonces, req[w].now \in Int
    PROVE  NewChallenge(w, e, code, n) \in Challenge
<1>1. RequestCount(e, req[w].now) \in Int
  BY DEF RequestCount, InWindow, Challenge
<1>2. /\ req[w].subject \in Text /\ req[w].purpose \in Text
      /\ PhoneHash(req[w].phone) \in PhoneHashes
  BY TextAssumption
     DEF HandlersTyped, Request, PhoneHash, PhoneHashes, NormalizePhone
<1> QED
  BY <1>1, <1>2, PolicyFacts DEF NewChallenge, Hash, Challenge, Codes

(* A beginning request keeps the types of the handlers.                    *)
LEMMA StartType ==
    ASSUME HandlersTyped, clock \in Nat, NEW w \in Workers,
           NEW pc \in Pcs \ Holding, NEW in, {in.subject, in.phone, in.purpose} \subseteq Text,
           NEW code \in Text, NEW now \in Int, Start(w, pc, in, code, now)
    PROVE  HandlersTyped'
<1> DEFINE r == [Idle EXCEPT !.pc = pc, !.subject = NormalizeSubject(in.subject),
                      !.phone = NormalizePhone(in.phone),
                      !.purpose = NormalizePurpose(in.purpose),
                      !.code = code, !.now = now, !.at = clock]
<1>1. r \in Request /\ r.pc = pc
  <2>1. /\ NormalizeSubject(in.subject) \in Text
        /\ NormalizePhone(in.phone) \in Text
        /\ NormalizePurpose(in.purpose) \in Text
    BY KeyFacts
  <2>2. pc \in Pcs /\ clock \in Int
    OBVIOUS
  <2> QED
    BY <2>1, <2>2, IdleType DEF Request
<1>2. req' = [req EXCEPT ![w] = r] /\ answer' = "none"
  BY DEF Start
<1> HIDE DEF r
<1> QED
  BY <1>1, <1>2 DEF HandlersTyped, Held, Answers

(* The steps of Send keep all types.                                       *)
LEMMA SendStepType ==
    ASSUME TypeInv, NEW w \in Workers, SendStep(w)
    PROVE  TypeInv'
<1>1. /\ StoreTypeOK /\ HandlersTyped /\ clock \in 0 .. MaxClock
      /\ ledger \in [Nonces -> Entry]
  BY DEF TypeInv, TypeOK, HandlersTyped
<1>2. req[w] \in Request /\ Key(w) \in Keys
  BY <1>1, KeyType DEF HandlersTyped
<1>3. SUFFICES /\ StoreTypeOK' /\ HandlersTyped' /\ clock' = clock
               /\ ledger' \in [Nonces -> Entry]
  BY <1>1 DEF TypeInv, TypeOK, HandlersTyped
<1>4. CASE SendLimited(w) \/ SendNoCode(w)
  <2>1. \E a \in Answers : Return(w, a)
    BY <1>4 DEF SendLimited, SendNoCode, Answers
  <2>2. UNCHANGED <<challenges, stray, clock, ledger>>
    BY <1>4 DEF SendLimited, SendNoCode, storeVars
  <2> QED
    BY <1>1, <2>1, <2>2, ReturnType DEF StoreTypeOK
<1>5. CASE SendIssue(w)
  <2>1. PICK e \in Reads(w), code \in Codes, n \in Nonces :
          LET c == NewChallenge(w, e, code, n)
          IN  /\ Proceed(w, "send_put", c)
              /\ ledger' = [ledger EXCEPT ![n] =
                   [Unissued EXCEPT !.challenge = c, !.born = req[w].at]]
    BY <1>5 DEF SendIssue
  <2>2. NewChallenge(w, e, code, n) \in Challenge
    BY <1>1, <1>2, <2>1, ReadsType, NewChallengeType DEF Request
  <2>3. HandlersTyped'
    BY <1>1, <2>1, <2>2, ProceedType DEF Pcs
  <2>4. ledger' \in [Nonces -> Entry]
    <3> DEFINE c == NewChallenge(w, e, code, n)
               entry == [Unissued EXCEPT !.challenge = c, !.born = req[w].at]
    <3>1. req[w].at \in Int
      BY <1>2 DEF Request
    <3>2. entry \in Entry
      BY <2>2, <3>1, UnissuedType DEF Entry
    <3>3. ledger' = [ledger EXCEPT ![n] = entry]
      BY <2>1
    <3> HIDE DEF entry
    <3> QED
      BY <1>1, <3>2, <3>3
  <2> QED
    BY <1>1, <1>5, <2>3, <2>4 DEF SendIssue, storeVars, StoreTypeOK
<1>6. CASE SendPut(w)
  <2>1. req[w].challenge \in Challenge /\ req[w].challenge.nonce \in Nonces
    BY <1>1, <1>6 DEF SendPut, HandlersTyped, Held, Holding, Challenge
  <2>2. StoreTypeOK'
    BY <1>1, <1>2, <1>6, <2>1, ApplyFacts DEF SendPut, PutChallenge
  <2>3. HandlersTyped'
    <3>1. \/ Proceed(w, "send_sms", req[w].challenge)
          \/ Return(w, "failed")
      BY <1>6 DEF SendPut
    <3> QED
      BY <1>1, <2>1, <3>1, ProceedType, ReturnType DEF Pcs, Answers
  <2>4. ledger' \in [Nonces -> Entry]
    BY <1>1, <1>6, <2>1, LedgerType DEF SendPut
  <2> QED
    BY <1>6, <2>2, <2>3, <2>4 DEF SendPut
<1>7. CASE SendSms(w)
  <2>1. req[w].challenge.nonce \in Nonces
    BY <1>1, <1>7 DEF SendSms, HandlersTyped, Held, Holding, Challenge
  <2>2. HandlersTyped'
    BY <1>1, <1>7, ReturnType DEF SendSms, Answers
  <2>3. ledger' \in [Nonces -> Entry]
    <3>1. PICK b \in BOOLEAN :
             ledger' = [ledger EXCEPT ![req[w].challenge.nonce].delivered = b]
      BY <1>7 DEF SendSms
    <3>2. ledger[req[w].challenge.nonce] \in Entry
      BY <1>1, <2>1
    <3> QED
      BY <1>1, <2>1, <3>1, <3>2 DEF Entry
  <2> QED
    BY <1>1, <1>7, <2>2, <2>3 DEF SendSms, storeVars, StoreTypeOK
<1> QED
  BY <1>4, <1>5, <1>6, <1>7 DEF SendStep

(* The steps of Verify keep all types.                                     *)
LEMMA VerifyStepType ==
    ASSUME TypeInv, NEW w \in Workers, VerifyStep(w)
    PROVE  TypeInv'
<1>1. /\ StoreTypeOK /\ HandlersTyped /\ clock \in 0 .. MaxClock
      /\ ledger \in [Nonces -> Entry]
  BY DEF TypeInv, TypeOK, HandlersTyped
<1>2. req[w] \in Request /\ Key(w) \in Keys /\ clock \in Int
  BY <1>1, KeyType DEF HandlersTyped
<1>3. SUFFICES /\ StoreTypeOK' /\ HandlersTyped' /\ clock' = clock
               /\ ledger' \in [Nonces -> Entry]
  BY <1>1 DEF TypeInv, TypeOK, HandlersTyped
<1>4. req[w].pc \in Holding =>
        /\ req[w].challenge \in Challenge
        /\ req[w].challenge.nonce \in Nonces
  BY <1>1 DEF HandlersTyped, Held, Challenge
<1>5. CASE VerifyMiss(w) \/ VerifyMismatch(w)
  <2>1. Return(w, "invalid_code") /\ UNCHANGED <<challenges, stray, clock, ledger>>
    BY <1>5 DEF VerifyMiss, VerifyMismatch, storeVars
  <2> QED
    BY <1>1, <2>1, ReturnType DEF StoreTypeOK, Answers
<1>6. CASE VerifyFetch(w)
  <2>1. PICK c \in Reads(w) \ {None} : Proceed(w, "judge", c)
    BY <1>6 DEF VerifyFetch
  <2>2. HandlersTyped'
    BY <1>1, <2>1, ReadsType, ProceedType DEF Pcs
  <2> QED
    BY <1>1, <1>6, <2>2 DEF VerifyFetch, storeVars, StoreTypeOK
<1>7. CASE VerifyStale(w)
  <2>1. PICK a \in Answers :
          /\ req' = [req EXCEPT ![w] = [@ EXCEPT !.pc = "purge", !.at = clock,
                                                !.verdict = a]]
          /\ answer' = "none"
    BY <1>7 DEF VerifyStale, Answers
  <2>2. "purge" \in Pcs /\ "none" \in Answers /\ req[w].pc \in Holding
    BY <1>7 DEF VerifyStale, Pcs, Answers, Holding
  <2>3. [req[w] EXCEPT !.pc = "purge", !.at = clock, !.verdict = a] \in Request
    BY <1>2, <2>2 DEF Request
  <2>4. HandlersTyped'
    BY <1>1, <1>4, <2>1, <2>2, <2>3 DEF HandlersTyped, Held, Request
  <2> QED
    BY <1>1, <1>7, <2>4 DEF VerifyStale, storeVars, StoreTypeOK
<1>8. CASE VerifyPurge(w)
  <2>1. req[w].verdict \in Answers
    BY <1>2 DEF Request
  <2>2. HandlersTyped'
    BY <1>1, <1>8, <2>1, ReturnType DEF VerifyPurge
  <2>3. StoreTypeOK'
    BY <1>1, <1>2, <1>8, ApplyFacts DEF VerifyPurge, DeleteChallenge
  <2> QED
    BY <1>1, <1>8, <2>2, <2>3 DEF VerifyPurge
<1>9. ASSUME NEW pc \in {"bump", "redeem"}, NEW c, Accept(w, pc, c),
             c \in {req[w].challenge, Charged(req[w].challenge)}
      PROVE  StoreTypeOK' /\ HandlersTyped' /\ UNCHANGED <<clock, ledger>>
  <2>1. req[w].pc \in Holding
    BY <1>9 DEF Accept, Holding
  <2>2. c \in Challenge
    BY <1>4, <1>9, <2>1 DEF Charged, Challenge
  <2>3. pc \in Pcs /\ "none" \in Answers
    BY <1>9 DEF Pcs, Answers
  <2>4. [req[w] EXCEPT !.pc = pc, !.challenge = c, !.at = clock] \in Request
    BY <1>2, <2>2, <2>3 DEF Request
  <2>5. HandlersTyped'
    BY <1>1, <1>9, <2>2, <2>3, <2>4 DEF Accept, HandlersTyped, Held, Request
  <2> QED
    BY <1>1, <1>9, <2>5 DEF Accept, storeVars, StoreTypeOK
<1>10. CASE VerifyWrong(w) \/ VerifyRight(w)
  BY <1>1, <1>9, <1>10 DEF VerifyWrong, VerifyRight
<1>11. CASE VerifyBump(w)
  <2>1. req[w].challenge \in Challenge /\ req[w].challenge.nonce \in Nonces
    BY <1>4, <1>11 DEF VerifyBump, Holding
  <2>2. StoreTypeOK'
    BY <1>1, <1>2, <1>11, <2>1, ApplyFacts DEF VerifyBump, PutChallenge
  <2>3. HandlersTyped'
    BY <1>1, <1>11, ReturnType DEF VerifyBump, Answers
  <2>4. ledger' \in [Nonces -> Entry]
    BY <1>1, <1>11, <2>1, LedgerType DEF VerifyBump
  <2> QED
    BY <1>11, <2>2, <2>3, <2>4 DEF VerifyBump
<1>12. CASE VerifyRedeem(w)
  <2>1. req[w].challenge.nonce \in Nonces
    BY <1>4, <1>12 DEF VerifyRedeem, Holding
  <2>2. StoreTypeOK'
    BY <1>1, <1>2, <1>12, ApplyFacts DEF VerifyRedeem, DeleteChallenge
  <2>3. HandlersTyped'
    BY <1>1, <1>12, ReturnType DEF VerifyRedeem, Answers
  <2>4. ledger' \in [Nonces -> Entry]
    BY <1>1, <1>12, <2>1, LedgerType DEF VerifyRedeem
  <2> QED
    BY <1>12, <2>2, <2>3, <2>4 DEF VerifyRedeem
<1> QED
  BY <1>5, <1>6, <1>7, <1>8, <1>10, <1>11, <1>12 DEF VerifyStep

(* So do the steps around the handlers.                                    *)
LEMMA OtherStepType ==
    ASSUME TypeInv,
           \/ StoreStep \/ Tick
           \/ \E w \in Workers : Timeout(w) \/ Crash(w)
    PROVE  TypeInv'
<1>1. /\ StoreTypeOK /\ HandlersTyped /\ clock \in 0 .. MaxClock
      /\ ledger \in [Nonces -> Entry]
  BY DEF TypeInv, TypeOK, HandlersTyped
<1>2. SUFFICES /\ StoreTypeOK' /\ HandlersTyped' /\ clock' \in 0 .. MaxClock
               /\ ledger' = ledger
  BY <1>1 DEF TypeInv, TypeOK, HandlersTyped
<1>3. "none" \in Answers
  BY DEF Answers
<1>4. CASE StoreStep
  <2>1. StoreTypeOK'
    BY <1>1, <1>4 DEF StoreStep, Land, Sweep, StoreTypeOK, Write
  <2> QED
    BY <1>1, <1>3, <1>4, <2>1 DEF StoreStep, HandlersTyped, Held
<1>5. CASE Tick
  BY <1>1, <1>3, <1>5, ServiceAssumption
     DEF Tick, storeVars, StoreTypeOK, HandlersTyped, Held
<1>6. ASSUME NEW w \in Workers, Timeout(w)
      PROVE  StoreTypeOK' /\ HandlersTyped' /\ UNCHANGED <<clock, ledger>>
  <2>1. [req[w] EXCEPT !.cancelled = TRUE] \in Request
    BY <1>1 DEF HandlersTyped, Request
  <2>2. HandlersTyped'
    BY <1>1, <1>3, <1>6, <2>1 DEF Timeout, HandlersTyped, Held, Request
  <2> QED
    BY <1>1, <1>6, <2>2 DEF Timeout, storeVars, StoreTypeOK
<1>7. ASSUME NEW w \in Workers, Crash(w)
      PROVE  StoreTypeOK' /\ HandlersTyped' /\ UNCHANGED <<clock, ledger>>
  <2>1. StoreTypeOK'
    BY <1>1, <1>7 DEF Crash, Restart, StoreTypeOK
  <2>2. HandlersTyped'
    BY <1>1, <1>3, <1>7, IdleType DEF Crash, HandlersTyped, Held
  <2> QED
    BY <1>7, <2>1, <2>2 DEF Crash
<1> QED
  BY <1>1, <1>4, <1>5, <1>6, <1>7

(* A step is a refusal at the door, a request begun, a handler's step, or  *)
(* one of its surroundings.                                                *)
LEMMA TypeStep ==
    ASSUME TypeInv, [Next]_vars
    PROVE  TypeInv'
<1>1. /\ StoreTypeOK /\ HandlersTyped /\ clock \in 0 .. MaxClock
      /\ ledger \in [Nonces -> Entry]
  BY DEF TypeInv, TypeOK, HandlersTyped
<1>2. ASSUME NEW w \in Workers, NEW in,
             \/ in \in SendInputs /\ (SendReject(w, in) \/ SendBegin(w, in))
             \/ in \in VerifyInputs /\ (VerifyReject(w, in) \/ VerifyBegin(w, in))
      PROVE  TypeInv'
  <2>1. UNCHANGED <<challenges, stray, clock, ledger>>
    BY <1>2 DEF SendReject, SendBegin, VerifyReject, VerifyBegin, storeVars
  <2>2. {in.subject, in.phone, in.purpose} \subseteq Text
    BY <1>2, ServiceAssumption
  <2>3. CASE SendReject(w, in) \/ VerifyReject(w, in)
    <3>1. \E a \in Answers : Return(w, a)
      BY <2>3 DEF SendReject, VerifyReject, Answers
    <3> QED
      BY <1>1, <2>1, <3>1, ReturnType DEF TypeInv, TypeOK, HandlersTyped, StoreTypeOK
  <2>4. CASE SendBegin(w, in)
    <3>1. PICK now \in Readings : Start(w, "send_get", in, Empty, now)
      BY <2>4 DEF SendBegin
    <3>2. now \in Int /\ clock \in Nat /\ Empty \in Text
      BY <1>1, <3>1, ServiceAssumption, TextAssumption DEF Readings
    <3>3. HandlersTyped'
      BY <1>1, <2>2, <3>1, <3>2, StartType DEF Pcs, Holding
    <3> QED
      BY <1>1, <2>1, <3>3 DEF TypeInv, TypeOK, HandlersTyped, StoreTypeOK
  <2>5. CASE in \in VerifyInputs /\ VerifyBegin(w, in)
    <3>1. Trim[in.code] \in Text /\ clock \in Nat
      BY <1>1, <2>5, ServiceAssumption, TextAssumption
    <3>2. HandlersTyped'
      BY <1>1, <2>2, <2>5, <3>1, StartType DEF VerifyBegin, Pcs, Holding
    <3> QED
      BY <1>1, <2>1, <3>2 DEF TypeInv, TypeOK, HandlersTyped, StoreTypeOK
  <2> QED
    BY <1>2, <2>3, <2>4, <2>5
<1>3. CASE UNCHANGED vars
  BY <1>1, <1>3 DEF vars, TypeInv, TypeOK, StoreTypeOK, HandlersTyped, Held
<1> QED
  BY <1>2, <1>3, SendStepType, VerifyStepType, OtherStepType DEF Next, HandlerStep

(* The initial state is well typed.                                        *)
LEMMA TypeInit ==
    ASSUME Init PROVE TypeInv
<1>1. HandlersTyped
  BY IdleType DEF Init, HandlersTyped, Held, Answers
<1> QED
  BY <1>1, UnissuedType, ServiceAssumption
     DEF Init, StoreInit, TypeInv, TypeOK, StoreTypeOK, HandlersTyped

(* All variables keep their types.                                         *)
THEOREM TypeCorrect == Spec => []TypeOK
<1>1. TypeInv => TypeOK
  BY DEF TypeInv
<1> QED
  BY <1>1, TypeInit, TypeStep, PTL DEF Spec
=============================================================================
