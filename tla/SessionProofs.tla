---------------------------- MODULE SessionProofs ----------------------------
(***************************************************************************)
(* Proof that no session token is valid for longer than promised, nor for  *)
(* less than its caller is told, for every lifetime, skew and length of a  *)
(* second.                                                                 *)
(***************************************************************************)
EXTENDS MfaSession, TLAPS

(* A session has a positive lifetime.                                      *)
LEMMA TTLFacts == MFASessionTTL \in Nat \ {0}
BY PolicyAssumption DEF MFASessionTTL

(* Whole seconds are integers and keep the order of times.                 *)
LEMMA UnixFacts ==
    ASSUME NEW a \in Int, NEW b \in Int
    PROVE  Unix(a) \in Int /\ (Unix(a) < Unix(b) => a < b)
<1>1. Second \in Nat \ {0}
  BY SessionAssumption
<1> QED
  BY <1>1, SMT DEF Unix

(* Every token signed is one that Sign gave, at a reading near the time.   *)
SignedSound ==
    \A s \in signed :
      /\ s.token # None
      /\ \E now \in s.born - Skew .. s.born + Skew :
           s.token = Sign(s.subject, now, s.key)

SInv == TypeOK /\ SignedSound

(* What a token that Sign gives is made of.                                *)
LEMMA SignFacts ==
    ASSUME NEW subject \in Subjects, NEW now \in Int, NEW key \in Secrets,
           Sign(subject, now, key) # None
    PROVE  LET token == Sign(subject, now, key)
           IN  /\ token \in Token
               /\ token.payload.sub = NormalizeSubject(subject)
               /\ token.payload.exp = Unix(now + MFASessionTTL)
               /\ token.mac = Mac(token.payload, Trim[key])
<1> DEFINE claims == [sub |-> NormalizeSubject(subject), method |-> "sms",
                      exp |-> Unix(now + MFASessionTTL)]
<1>1. Sign(subject, now, key)
        = [payload |-> claims, mac |-> Mac(claims, Trim[key]),
           expiresIn |-> MFASessionTTL \div Second]
  BY DEF Sign
<1>2. claims \in Claims
  BY TTLFacts, UnixFacts, SessionAssumption, TextAssumption
     DEF Claims, Methods, NormalizeSubject
<1>3. Trim[key] \in Text /\ MFASessionTTL \div Second \in Int
  BY TTLFacts, SessionAssumption, TextAssumption
<1>4. claims.sub = NormalizeSubject(subject)
      /\ claims.exp = Unix(now + MFASessionTTL)
  OBVIOUS
<1> HIDE DEF claims
<1> QED
  BY <1>1, <1>2, <1>3, <1>4 DEF Token, Mac

(* The invariant holds initially.                                          *)
LEMMA SessionInit == Init => SInv
BY SessionAssumption DEF Init, SInv, TypeOK, SignedSound

(* Every step keeps the invariant.                                         *)
LEMMA SessionStep ==
    ASSUME SInv, [Next]_sessionVars PROVE SInv'
<1>1. ASSUME NEW subject \in Subjects, SignIn(subject)
      PROVE  SInv'
  <2>1. PICK now \in Readings :
          /\ Sign(subject, now, secret) # None
          /\ signed' = signed \cup {[token |-> Sign(subject, now, secret),
                                    born |-> clock, subject |-> subject,
                                    key |-> secret]}
    BY <1>1 DEF SignIn
  <2>2. /\ clock \in Nat /\ secret \in Secrets /\ now \in Int
        /\ UNCHANGED <<clock, secret>>
    BY <1>1, <2>1, SessionAssumption DEF SInv, TypeOK, Readings, SignIn
  <2>3. Sign(subject, now, secret) \in Token
    BY <2>1, <2>2, SignFacts
  <2> QED
    BY <2>1, <2>2, <2>3 DEF SInv, TypeOK, SignedSound, Readings
<1>2. ASSUME NEW value \in Secrets, Redeploy(value)
      PROVE  SInv'
  BY <1>2 DEF Redeploy, SInv, TypeOK, SignedSound
<1>3. CASE Tick
  BY <1>3, SessionAssumption DEF Tick, SInv, TypeOK, SignedSound
<1>4. CASE UNCHANGED sessionVars
  BY <1>4 DEF sessionVars, SInv, TypeOK, SignedSound
<1> QED
  BY <1>1, <1>2, <1>3, <1>4 DEF Next

(* A signed token, taken apart.                                            *)
LEMMA SoundToken ==
    ASSUME SInv, NEW s \in signed
    PROVE  /\ s.born \in Nat /\ s.subject \in Subjects /\ s.key \in Secrets
           /\ \E now \in s.born - Skew .. s.born + Skew :
                /\ now \in Int
                /\ s.token \in Token
                /\ s.token.payload.sub = NormalizeSubject(s.subject)
                /\ s.token.payload.exp = Unix(now + MFASessionTTL)
                /\ s.token.mac = Mac(s.token.payload, Trim[s.key])
<1>1. PICK now \in s.born - Skew .. s.born + Skew :
        s.token = Sign(s.subject, now, s.key)
  BY DEF SInv, SignedSound
<1>2. /\ s.born \in Nat /\ s.subject \in Subjects /\ s.key \in Secrets
      /\ s.token # None
  BY DEF SInv, TypeOK, SignedSound
<1>3. now \in Int
  OBVIOUS
<1> QED
  BY <1>1, <1>2, <1>3, SignFacts

(* The invariant bounds every validation.                                  *)
LEMMA NoLongerThanPromised == SInv => NeverTooLong
<1>1. SUFFICES ASSUME SInv, NEW a \in signed, NEW b \in signed,
                      NEW subject \in Subjects, Valid(Spliced(a, b), subject)
               PROVE  /\ NormalizeSubject(b.subject) = NormalizeSubject(subject)
                      /\ Trim[b.key] = Trim[secret]
                      /\ clock < b.born + MFASessionTTL + 2 * Skew
  BY DEF NeverTooLong
<1>2. PICK now \in Readings :
        /\ b.token.mac = Mac(a.token.payload, Trim[secret])
        /\ a.token.payload.sub = NormalizeSubject(subject)
        /\ Unix(now) < a.token.payload.exp
  BY <1>1 DEF Valid, Validate, Spliced
<1>3. PICK at \in b.born - Skew .. b.born + Skew :
        /\ b.token.payload.sub = NormalizeSubject(b.subject)
        /\ b.token.payload.exp = Unix(at + MFASessionTTL)
        /\ b.token.mac = Mac(b.token.payload, Trim[b.key])
  BY <1>1, SoundToken
<1>4. b.token.payload = a.token.payload /\ Trim[b.key] = Trim[secret]
  BY <1>2, <1>3 DEF Mac
<1>5. /\ clock \in Nat /\ Skew \in Nat /\ b.born \in Nat
      /\ now \in Int /\ clock - Skew <= now
      /\ at \in Int /\ at <= b.born + Skew
  BY <1>1, SoundToken, SessionAssumption DEF SInv, TypeOK, Readings
<1>6. now < at + MFASessionTTL
  BY <1>2, <1>3, <1>4, <1>5, TTLFacts, UnixFacts
<1>7. clock < b.born + MFASessionTTL + 2 * Skew
  BY <1>5, <1>6, TTLFacts
<1> QED
  BY <1>2, <1>3, <1>4, <1>7

(* The clock, the secret and the tokens signed keep their types.           *)
THEOREM SessionTypeCorrect == Spec => []TypeOK
<1>1. SInv => TypeOK
  BY DEF SInv
<1> QED
  BY <1>1, SessionInit, SessionStep, PTL DEF Spec

(* A presented token, whatever tokens its parts come from, is valid only   *)
(* for a subject signed in under the secret now deployed and no longer     *)
(* than the lifetime after that, up to the difference of two wall clocks.  *)
THEOREM SessionsEnd == Spec => []NeverTooLong
BY SessionInit, SessionStep, NoLongerThanPromised, PTL DEF Spec

-----------------------------------------------------------------------------
(* Times a second apart are different in whole seconds.                    *)
LEMMA SecondApart ==
    ASSUME NEW a \in Int, NEW b \in Int, a + Second <= b
    PROVE  Unix(a) < Unix(b)
<1> DEFINE p == a \div Second
           q == b \div Second
<1>1. Second \in Nat \ {0}
  BY SessionAssumption
<1>2. /\ p \in Int /\ Second * p <= a
      /\ q \in Int /\ b < Second * q + Second
  BY <1>1, SMT
<1>3. Second * p + Second < Second * q + Second
  <2>1. Second * p \in Int /\ Second * q \in Int
    BY <1>1, <1>2
  <2> HIDE DEF p, q
  <2> QED
    BY <1>1, <1>2, <2>1
<1>4. p < q
  <2> HIDE DEF p, q
  <2>1. SUFFICES ASSUME q <= p PROVE FALSE
    BY <1>2
  <2>2. Second * q <= Second * p
    BY <1>1, <1>2, <2>1, SMT
  <2> QED
    BY <1>1, <1>2, <1>3, <2>2, SMT
<1> QED
  BY <1>4 DEF Unix

(* The lifetime told to the caller, less a second, ends before the token.  *)
LEMMA ToldLifetime ==
    /\ (MFASessionTTL \div Second - 1) * Second \in Int
    /\ (MFASessionTTL \div Second - 1) * Second <= MFASessionTTL - Second
<1> DEFINE t == MFASessionTTL
           q == t \div Second
<1>1. Second \in Nat \ {0} /\ t \in Int
  BY SessionAssumption, TTLFacts
<1> HIDE DEF t
<1>2. q \in Int /\ q * Second <= t
  BY <1>1, SMT
<1> HIDE DEF q
<1>3. (q - 1) * Second = q * Second - Second /\ q * Second \in Int
  BY <1>1, <1>2, SMT
<1> QED
  BY <1>1, <1>2, <1>3 DEF q, t

(* The invariant lets every validation in that time succeed.               *)
LEMMA AsLongAsTold == SInv => NotCutShort
<1>1. SUFFICES ASSUME SInv, NEW s \in signed, Trim[s.key] = Trim[secret],
                      clock - s.born + 2 * Skew
                        <= (s.token.expiresIn - 1) * Second,
                      NEW now \in Readings
               PROVE  Validate(s.token, s.subject, now, secret)
  BY DEF NotCutShort
<1>2. PICK at \in s.born - Skew .. s.born + Skew :
        s.token = Sign(s.subject, at, s.key)
  BY <1>1 DEF SInv, SignedSound
<1>3. /\ s.token # None /\ s.born \in Nat /\ clock \in Nat /\ Skew \in Nat
      /\ s.subject \in Subjects /\ s.key \in Secrets
  BY <1>1, SessionAssumption DEF SInv, SignedSound, TypeOK
<1>4. at \in Int /\ s.born - Skew <= at /\ now \in Int /\ now <= clock + Skew
  BY <1>3 DEF Readings
<1>5. /\ NormalizeSubject(s.subject) # Empty /\ Usable(s.key)
      /\ s.token.expiresIn = MFASessionTTL \div Second
      /\ s.token.payload.method = "sms"
  BY <1>2, <1>3 DEF Sign
<1>6. /\ s.token.payload.sub = NormalizeSubject(s.subject)
      /\ s.token.payload.exp = Unix(at + MFASessionTTL)
      /\ s.token.mac = Mac(s.token.payload, Trim[s.key])
  BY <1>2, <1>3, <1>4, SignFacts
<1>7. now + Second <= at + MFASessionTTL
  <2> DEFINE told == (MFASessionTTL \div Second - 1) * Second
  <2>1. told \in Int /\ told <= MFASessionTTL - Second
    BY ToldLifetime
  <2>2. clock - s.born + 2 * Skew <= told
    BY <1>1, <1>5
  <2>3. Second \in Nat /\ MFASessionTTL \in Nat
    BY SessionAssumption, TTLFacts
  <2> HIDE DEF told
  <2> QED
    BY <1>3, <1>4, <2>1, <2>2, <2>3
<1>8. Unix(now) < s.token.payload.exp
  <2>1. at + MFASessionTTL \in Int
    BY <1>4, TTLFacts
  <2> QED
    BY <1>4, <1>6, <1>7, <2>1, SecondApart
<1> QED
  BY <1>1, <1>5, <1>6, <1>8 DEF Validate, Usable

(* A token is taken for as long as the caller was told, but for a second   *)
(* and the difference of two wall clocks, by every instance that has the   *)
(* secret it was signed with.                                              *)
THEOREM SessionsLast == Spec => []NotCutShort
BY SessionInit, SessionStep, AsLongAsTold, PTL DEF Spec
=============================================================================
