------------------------------ MODULE LedgerProofs ------------------------------
(***************************************************************************)
(* Proof that Send and Verify implement ChallengeLedger: with callers that *)
(* never overlap two requests on one key, over a remote store without a    *)
(* sweeper and without late writes, each write of a handler is one step of *)
(* the ledger and every other step is none.                                *)
(***************************************************************************)
EXTENDS OtpDeletion

Serialized == Exclusive /\ Driver = "firestore"

LedgerInv == JudgingInv /\ LInv

-----------------------------------------------------------------------------
(* The invariant behind the refinement.                                    *)

(* The document on the key of a handler that will write stands still.      *)
LEMMA DocumentStands ==
    ASSUME Serialized, ExclusiveInv, [Next]_vars, NEW w \in Workers,
           SameRequest(w), req[w].pc \in Judging \cup {"send_put"}
    PROVE  challenges'[Key(w)'] = challenges[Key(w)]
<1>1. ~Sweep(Key(w), clock)
  BY DEF Serialized, Sweep
<1>2. Key(w)' = Key(w)
  BY DEF SameRequest, Key
<1> QED
  BY <1>1, <1>2, NoOtherWriter

(* Every step keeps a document under what Verify judges.                   *)
LEMMA PresentStep ==
    ASSUME Serialized, LedgerInv, [Next]_vars PROVE Present'
<1>1. TypeInv /\ ExclusiveInv /\ Present
  BY DEF LedgerInv, LInv, JudgingInv, ExclusiveInv, FullInv
<1> SUFFICES ASSUME NEW w \in Workers, req'[w].pc \in Judging
             PROVE  challenges'[Key(w)'] # None
  BY DEF Present
<1>2. CASE SameRequest(w)
  BY <1>1, <1>2, DocumentStands DEF SameRequest, Present
<1>3. CASE VerifyFetch(w)
  BY <1>1, <1>3, FetchMoves
<1>4. CASE VerifyStale(w) \/ VerifyWrong(w) \/ VerifyRight(w)
  BY <1>1, <1>4, JudgeMoves DEF Present, Judging
<1> QED
  BY <1>1, <1>2, <1>3, <1>4, RequestStep DEF Judging, Begins, Moves

(* What Send puts together, from the document it has read.                 *)
LEMMA IssuedFrom ==
    ASSUME TypeInv, NEW w \in Workers, SendIssue(w)
    PROVE  LET c == req'[w].challenge
           IN  /\ \E e \in {None, challenges[Key(w)]} :
                    c.requestCount = RequestCount(e, req[w].now)
               /\ c.sentAt = req[w].now /\ c.attempts = 0
               /\ Key(w)' = Key(w) /\ UNCHANGED challenges
               /\ req[w].pc = "send_get"
<1>1. /\ StoreTypeOK /\ HandlersTyped /\ req \in [Workers -> Request]
  BY DEF TypeInv, TypeOK, HandlersTyped
<1>2. PICK n \in Nonces : IssueOf(w, n)
  BY IssueFacts
<1>3. PICK e \in Reads(w), code \in Codes :
        req'[w].challenge = NewChallenge(w, e, code, n)
  BY <1>2, IssueEntry
<1>4. e \in {None, challenges[Key(w)]}
  BY <1>1, ReadsType
<1>5. /\ req'[w].challenge.requestCount = RequestCount(e, req[w].now)
      /\ req'[w].challenge.sentAt = req[w].now
      /\ req'[w].challenge.attempts = 0
  BY <1>3 DEF NewChallenge
<1>6. PICK c : Proceed(w, "send_put", c)
  BY DEF SendIssue
<1>7. Key(w)' = Key(w)
  BY <1>1, <1>6 DEF Proceed, Request, Key
<1> QED
  BY <1>4, <1>5, <1>7 DEF SendIssue, storeVars

(* Every step keeps an issue next in number to what is stored.             *)
LEMMA FollowerStep ==
    ASSUME Serialized, LedgerInv, [Next]_vars PROVE Follower'
<1>1. TypeInv /\ ExclusiveInv /\ Follower
  BY DEF LedgerInv, LInv, JudgingInv, ExclusiveInv, FullInv
<1> DEFINE Fits(c, stored) ==
             /\ c.attempts = 0
             /\ \/ c.requestCount = 1
                \/ /\ InWindow(stored, c.sentAt)
                   /\ c.requestCount = stored.requestCount + 1
<1> SUFFICES ASSUME NEW w \in Workers, req'[w].pc = "send_put"
             PROVE  Fits(req'[w].challenge, challenges'[Key(w)'])
  BY DEF Follower, InWindow
<1>2. CASE SameRequest(w)
  <2>1. /\ challenges'[Key(w)'] = challenges[Key(w)]
        /\ req'[w].challenge = req[w].challenge /\ req[w].pc = "send_put"
    BY <1>1, <1>2, DocumentStands DEF SameRequest
  <2> QED
    BY <1>1, <2>1 DEF Follower
<1>3. CASE SendIssue(w)
  BY <1>1, <1>3, IssuedFrom DEF RequestCount, InWindow
<1> QED
  BY <1>1, <1>2, <1>3, RequestStep DEF Begins, Moves

(* Every step keeps the clock readings of sends in bounds.                 *)
LEMMA TimelyStep ==
    ASSUME LedgerInv, [Next]_vars PROVE Timely'
<1>1. /\ TypeInv /\ Timely /\ clock \in 0 .. MaxClock
      /\ Skew \in Nat /\ MaxClock \in Nat
  BY ServiceAssumption
     DEF LedgerInv, LInv, JudgingInv, ExclusiveInv, FullInv, TypeInv, TypeOK
<1>2. Readings \subseteq Times
  BY <1>1 DEF Readings, Times
<1> SUFFICES ASSUME NEW w \in Workers
             PROVE  /\ req'[w].pc = "send_get" => req'[w].now \in Times
                    /\ req'[w].pc = "send_put"
                         => req'[w].challenge.sentAt \in Times
  BY DEF Timely, Times
<1>3. CASE SameRequest(w)
  BY <1>1, <1>3 DEF SameRequest, Timely
<1>4. CASE SendIssue(w) /\ req'[w].pc = "send_put"
  BY <1>1, <1>4, IssuedFrom DEF Timely
<1>5. CASE Begins(w)
  BY <1>2, <1>5 DEF Begins
<1> QED
  BY <1>1, <1>3, <1>4, <1>5, RequestStep DEF Moves

(* Every step keeps the nonces that were not drawn unused.                 *)
LEMMA BlankStep ==
    ASSUME LedgerInv, [Next]_vars PROVE Blank'
<1>1. /\ FullInv /\ TypeInv /\ Blank /\ LedgerKeeps
      /\ ledger \in [Nonces -> Entry]
  BY LedgerGrows
     DEF LedgerInv, LInv, JudgingInv, ExclusiveInv, FullInv, TypeInv, TypeOK
<1> SUFFICES ASSUME NEW n \in Nonces, ~Issued(n)' PROVE ledger'[n].uses = 0
  BY DEF Blank
<1>2. ~Issued(n) /\ ledger[n].uses = 0
  BY <1>1 DEF LedgerKeeps, Issued, Blank
<1>3. CASE CountsKeep
  BY <1>2, <1>3 DEF CountsKeep
<1>4. ASSUME NEW w \in Workers, Charges(w) \/ Redeems(w)
      PROVE  ledger'[n] = ledger[n]
  <2>1. Issued(req[w].challenge.nonce)
    BY <1>1, <1>4, HeldGenuine DEF Charges, Redeems, Holding
  <2> QED
    BY <1>1, <1>2, <1>4, <2>1 DEF Charges, Redeems
<1> QED
  BY <1>1, <1>2, <1>3, <1>4, CountsStep

(* The invariant holds initially.                                          *)
LEMMA LedgerInvInit ==
    ASSUME Init PROVE LedgerInv
<1>1. /\ \A w \in Workers : req[w].pc = "idle"
      /\ \A n \in Nonces : ledger[n].uses = 0
  BY DEF Init, Idle, Unissued
<1> QED
  BY <1>1, JudgingInit
     DEF LedgerInv, LInv, Present, Judging, Follower, Timely, Blank

(* Every step keeps the invariant.                                         *)
LEMMA LedgerInvStep ==
    ASSUME Serialized, LedgerInv, [Next]_vars PROVE LedgerInv'
<1>1. JudgingInv'
  BY JudgingStep DEF Serialized, LedgerInv
<1> QED
  BY <1>1, PresentStep, FollowerStep, TimelyStep, BlankStep DEF LedgerInv, LInv

-----------------------------------------------------------------------------
(* What a step does to the three variables of the ledger.                  *)

(* Of the history, only the counts of acceptances and the challenges       *)
(* themselves are in the ledger.                                           *)
HistoryKeeps ==
    \A n \in Nonces : /\ ledger'[n].uses = ledger[n].uses
                      /\ ledger'[n].challenge = ledger[n].challenge

(* A handler takes up no issue and gives none up.                          *)
NoIssueMoves ==
    \A w \in Workers :
      /\ req'[w].pc = "send_put" <=> req[w].pc = "send_put"
      /\ req'[w].pc = "send_put" => req'[w].challenge = req[w].challenge

(* Flags and wrong guesses are not in the ledger.                          *)
LEMMA HistoryFacts ==
    ASSUME ledger \in [Nonces -> Entry], NEW m, NEW b,
           \/ UNCHANGED ledger
           \/ ledger' = [ledger EXCEPT ![m].acked = b]
           \/ ledger' = [ledger EXCEPT ![m].delivered = b]
           \/ ledger' = [ledger EXCEPT ![m].wrong = b]
    PROVE  HistoryKeeps
BY DEF HistoryKeeps, Entry

(* Used and spent nonces change only with the history and the issues.      *)
LEMMA NoncesKeep ==
    ASSUME HistoryKeeps
    PROVE  /\ SpentNonces' = SpentNonces
           /\ NoIssueMoves => UsedNonces' = UsedNonces
<1>1. SpentNonces' = SpentNonces
  BY DEF HistoryKeeps, SpentNonces
<1>2. ASSUME NoIssueMoves, NEW n \in Nonces
      PROVE  (Issued(n) /\ ~Pending(n))' <=> (Issued(n) /\ ~Pending(n))
  BY <1>2 DEF NoIssueMoves, HistoryKeeps, Issued, Pending
<1> QED
  BY <1>1, <1>2 DEF UsedNonces

(* A send that ends at the store uses up its nonce, which no other send    *)
(* has.                                                                    *)
LEMMA NonceIsUsed ==
    ASSUME ExclusiveInv, HistoryKeeps, NEW w \in Workers,
           req[w].pc = "send_put", req'[w].pc # "send_put",
           \A v \in Workers \ {w} : req'[v] = req[v]
    PROVE  LET n == req[w].challenge.nonce
           IN  /\ n \in Nonces /\ n \notin UsedNonces
               /\ UsedNonces' = UsedNonces \cup {n}
<1>1. PICK n \in Nonces :
        /\ n = req[w].challenge.nonce
        /\ Issued(n) /\ Pending(n) /\ IssuedOn(Key(w), n)
  BY HeldGenuine DEF ExclusiveInv, Holding, Pending, Genuine
<1>2. ASSUME NEW v \in Workers \ {w}, req[v].pc = "send_put"
      PROVE  req[v].challenge.nonce # n
  <2>1. Key(v) # Key(w)
    BY <1>2 DEF ExclusiveInv, XInv, Alone, Busy
  <2>2. IssuedOn(Key(v), req[v].challenge.nonce)
    BY <1>2, HeldGenuine DEF ExclusiveInv, Holding, Genuine
  <2> QED
    BY <1>1, <2>1, <2>2 DEF IssuedOn
<1>3. ~Pending(n)'
  BY <1>1, <1>2 DEF Pending
<1>4. ASSUME NEW m \in Nonces \ {n}
      PROVE  Pending(m)' <=> Pending(m)
  BY <1>1, <1>4 DEF Pending
<1>5. ASSUME NEW m \in Nonces
      PROVE  Issued(m)' <=> Issued(m)
  BY <1>5 DEF HistoryKeeps, Issued
<1> QED
  BY <1>1, <1>3, <1>4, <1>5 DEF UsedNonces

(* An untouched store holds the same live codes.                           *)
LEMMA CodesKeep ==
    ASSUME UNCHANGED challenges PROVE LiveCodes' = LiveCodes
BY DEF LiveCodes, Live

(* A write takes effect at once or never.                                  *)
LEMMA CodesWritten ==
    ASSUME Serialized, ExclusiveInv, NEW k \in Keys, NEW v, NEW o,
           Apply(k, v, o)
    PROVE  /\ o \in {"ok", "lost"} =>
                LiveCodes' = [LiveCodes EXCEPT ![k] = Live(v)]
           /\ o \notin {"ok", "lost"} => LiveCodes' = LiveCodes
<1>1. challenges \in [Keys -> Challenge \cup {None}]
  BY DEF ExclusiveInv, FullInv, TypeInv, TypeOK, StoreTypeOK
<1>2. CASE o \in {"ok", "lost"}
  <2>1. challenges' = [challenges EXCEPT ![k] = v]
    BY <1>2 DEF Apply
  <2>2. \A j \in Keys : challenges'[j] = IF j = k THEN v ELSE challenges[j]
    BY <1>1, <2>1
  <2> QED
    BY <1>2, <2>2 DEF LiveCodes, Live
<1>3. CASE o \notin {"ok", "lost"}
  BY <1>3, CodesKeep DEF Apply
<1> QED
  BY <1>2, <1>3

(* A stored challenge is a live code.                                      *)
LEMMA LiveFacts ==
    ASSUME NEW k \in Keys, challenges[k] \in Challenge
    PROVE  LET c == challenges[k]
           IN  /\ LiveCodes[k] = Live(c) /\ LiveCodes[k] # None
               /\ Live(c) = [nonce |-> c.nonce, attempts |-> c.attempts,
                             requestCount |-> c.requestCount,
                             sentAt |-> c.sentAt]
<1> DEFINE c == challenges[k]
<1>1. LiveCodes[k] = Live(c)
  BY DEF LiveCodes
<1>2. c # None
  BY NoneAssumption
<1>3. [nonce |-> c.nonce, attempts |-> c.attempts,
       requestCount |-> c.requestCount, sentAt |-> c.sentAt]
        \in [nonce : Nonces, attempts : Int, requestCount : Int, sentAt : Int]
  BY DEF Challenge
<1> QED
  BY <1>1, <1>2, <1>3, LiveAssumption DEF Live

(* The ledger follows the same policy.                                     *)
LEMMA SamePolicy ==
    /\ Ledger!Window = Window
    /\ Ledger!MaxRequests = MaxRequests
    /\ Ledger!AllowedAttempts = AllowedAttempts
BY DEF Ledger!Window, Window, Ledger!MaxRequests, MaxRequests,
   Ledger!AllowedAttempts, AllowedAttempts

-----------------------------------------------------------------------------
(* The steps.                                                              *)

(* A step that writes nothing, takes up no issue and gives none up.        *)
LEMMA QuietStep ==
    ASSUME HistoryKeeps, NoIssueMoves, UNCHANGED challenges
    PROVE  UNCHANGED Ledger!ledgerVars
BY NoncesKeep, CodesKeep DEF Ledger!ledgerVars

(* A request that is refused, begins or is cancelled.                      *)
LEMMA RequestMaps ==
    ASSUME LedgerInv, NEW w \in Workers, NEW in,
           \/ SendReject(w, in) \/ SendBegin(w, in)
           \/ VerifyReject(w, in) \/ VerifyBegin(w, in) \/ Timeout(w)
    PROVE  UNCHANGED Ledger!ledgerVars
<1>1. req \in [Workers -> Request] /\ ledger \in [Nonces -> Entry]
  BY DEF LedgerInv, JudgingInv, ExclusiveInv, FullInv, TypeInv, TypeOK
<1>2. UNCHANGED <<challenges, ledger>>
  BY DEF SendReject, SendBegin, VerifyReject, VerifyBegin, Timeout, storeVars
<1>3. ASSUME SendReject(w, in) \/ VerifyReject(w, in)
      PROVE  NoIssueMoves
  <2>1. ~Busy(w) /\ \E a : Return(w, a)
    BY <1>3 DEF SendReject, VerifyReject
  <2> QED
    BY <1>1, <2>1 DEF Return, Busy, Idle, NoIssueMoves
<1>4. ASSUME SendBegin(w, in) \/ VerifyBegin(w, in)
      PROVE  NoIssueMoves
  <2>1. \E pc \in {"send_get", "verify_get"} : \E code, now :
          Start(w, pc, in, code, now)
    BY <1>4 DEF SendBegin, VerifyBegin
  <2> QED
    BY <1>1, <2>1 DEF Start, Busy, Idle, NoIssueMoves
<1>5. ASSUME Timeout(w) PROVE NoIssueMoves
  BY <1>1, <1>5 DEF Timeout, Request, NoIssueMoves
<1> QED
  BY <1>1, <1>2, <1>3, <1>4, <1>5, HistoryFacts, QuietStep

(* What happens around the handlers.                                       *)
LEMMA OutsideMaps ==
    ASSUME Serialized, LedgerInv, StoreStep \/ Tick \/ UNCHANGED vars
    PROVE  UNCHANGED Ledger!ledgerVars
<1>1. ledger \in [Nonces -> Entry] /\ stray = {}
  BY DEF LedgerInv, JudgingInv, ExclusiveInv, FullInv, XInv, TypeInv, TypeOK
<1>2. ~StoreStep
  BY <1>1 DEF StoreStep, Land, Sweep, Serialized
<1>3. UNCHANGED <<challenges, req, ledger>>
  BY <1>2 DEF Tick, vars, storeVars
<1> QED
  BY <1>1, <1>3, HistoryFacts, QuietStep DEF NoIssueMoves

(* A handler that does not write.                                          *)
LEMMA QuietMaps ==
    ASSUME LedgerInv, NEW w \in Workers,
           \/ SendLimited(w) \/ SendNoCode(w) \/ SendSms(w)
           \/ VerifyMiss(w) \/ VerifyFetch(w) \/ VerifyMismatch(w)
           \/ VerifyStale(w) \/ VerifyWrong(w) \/ VerifyRight(w)
    PROVE  UNCHANGED Ledger!ledgerVars
<1>1. /\ TypeInv /\ req \in [Workers -> Request]
      /\ ledger \in [Nonces -> Entry]
  BY DEF LedgerInv, JudgingInv, ExclusiveInv, FullInv, TypeInv, TypeOK
<1>2. UNCHANGED challenges
  BY DEF SendLimited, SendNoCode, SendSms, VerifyMiss, VerifyFetch,
     VerifyMismatch, VerifyStale, VerifyWrong, VerifyRight, Accept, storeVars
<1>3. HistoryKeeps
  <2>1. UNCHANGED ledger \/ \E m, b : ledger' = [ledger EXCEPT ![m].delivered = b]
    BY DEF SendLimited, SendNoCode, SendSms, VerifyMiss, VerifyFetch,
       VerifyMismatch, VerifyStale, VerifyWrong, VerifyRight, Accept
  <2> QED
    BY <1>1, <2>1, HistoryFacts
<1>4. req[w].pc # "send_put"
  BY DEF SendLimited, SendNoCode, SendSms, VerifyMiss, VerifyFetch,
     VerifyMismatch, VerifyStale, VerifyWrong, VerifyRight, Accept
<1>5. req'[w].pc # "send_put"
  <2>1. CASE VerifyFetch(w)
    BY <1>1, <2>1, FetchMoves
  <2>2. CASE VerifyStale(w) \/ VerifyWrong(w) \/ VerifyRight(w)
    BY <1>1, <2>2, JudgeMoves
  <2>3. CASE \/ SendLimited(w) \/ SendNoCode(w) \/ SendSms(w)
             \/ VerifyMiss(w) \/ VerifyMismatch(w)
    <3>1. \E a : Return(w, a)
      BY <2>3 DEF SendLimited, SendNoCode, SendSms, VerifyMiss, VerifyMismatch
    <3> QED
      BY <1>1, <3>1 DEF Return, Idle
  <2> QED
    BY <2>1, <2>2, <2>3
<1>6. \A v \in Workers \ {w} : req'[v] = req[v]
  BY <1>1, HandlerMoves DEF HandlerStep, SendStep, VerifyStep
<1> QED
  BY <1>2, <1>3, <1>4, <1>5, <1>6, QuietStep DEF NoIssueMoves

(* A code that is drawn but not stored is not in the ledger yet.           *)
LEMMA DrawMaps ==
    ASSUME LedgerInv, NEW w \in Workers, SendIssue(w)
    PROVE  UNCHANGED Ledger!ledgerVars
<1>1. /\ TypeInv /\ Blank /\ ledger \in [Nonces -> Entry]
  BY DEF LedgerInv, LInv, JudgingInv, ExclusiveInv, FullInv, TypeInv, TypeOK
<1>2. PICK n \in Nonces : IssueOf(w, n)
  BY IssueFacts
<1>3. /\ \A m \in Nonces \ {n} : ledger'[m] = ledger[m]
      /\ \A v \in Workers \ {w} : req'[v] = req[v]
      /\ req'[w].pc = "send_put" /\ req[w].pc = "send_get" /\ ~Issued(n)
  BY <1>1, <1>2, IssueEntry DEF IssueOf
<1>4. req'[w].challenge.nonce = n
  <2>1. \E e, code : req'[w].challenge = NewChallenge(w, e, code, n)
    BY <1>1, <1>2, IssueEntry
  <2> QED
    BY <2>1 DEF NewChallenge
<1>5. ledger'[n].uses = 0
  <2>1. PICK c : ledger' = [ledger EXCEPT ![n] =
                   [Unissued EXCEPT !.challenge = c, !.born = req[w].at]]
    BY <1>2 DEF IssueOf
  <2> QED
    BY <1>1, <2>1 DEF Unissued
<1>6. SpentNonces' = SpentNonces
  BY <1>1, <1>3, <1>5 DEF SpentNonces, Blank
<1>7. Pending(n)'
  BY <1>3, <1>4 DEF Pending
<1>8. ASSUME NEW m \in Nonces \ {n}
      PROVE  (Issued(m) /\ ~Pending(m))' <=> (Issued(m) /\ ~Pending(m))
  BY <1>3, <1>4, <1>8 DEF Issued, Pending
<1>9. UsedNonces' = UsedNonces
  BY <1>3, <1>7, <1>8 DEF UsedNonces
<1>10. LiveCodes' = LiveCodes
  BY CodesKeep DEF SendIssue, storeVars
<1> QED
  BY <1>6, <1>9, <1>10 DEF Ledger!ledgerVars

(* The write of Send issues its code, or abandons it.                      *)
LEMMA PutMaps ==
    ASSUME Serialized, LedgerInv, NEW w \in Workers, SendPut(w)
    PROVE  Ledger!LedgerNext
<1> DEFINE c == req[w].challenge
           k == Key(w)
<1>1. /\ FullInv /\ ExclusiveInv /\ TypeInv /\ HandlersTyped
      /\ req \in [Workers -> Request] /\ ledger \in [Nonces -> Entry]
      /\ Follower /\ Timely
  BY DEF LedgerInv, LInv, JudgingInv, ExclusiveInv, FullInv, TypeInv, TypeOK,
     HandlersTyped
<1>2. /\ req[w].pc = "send_put" /\ k \in Keys
      /\ c \in Challenge /\ WithinPolicy(c) /\ c.nonce \in Nonces
  BY <1>1, HeldGenuine, KeyType DEF SendPut, Holding
<1>3. PICK o : /\ Apply(k, c, o)
               /\ IF o = "ok"
                    THEN /\ Proceed(w, "send_sms", c)
                         /\ ledger' = [ledger EXCEPT ![c.nonce].acked = TRUE]
                    ELSE Return(w, "failed") /\ UNCHANGED ledger
  BY DEF SendPut, PutChallenge
<1>4. HistoryKeeps
  BY <1>1, <1>3, HistoryFacts
<1>5. /\ req'[w].pc # "send_put"
      /\ \A v \in Workers \ {w} : req'[v] = req[v]
  <2>1. CASE Proceed(w, "send_sms", c)
    BY <1>1, <2>1 DEF Proceed, Request
  <2>2. CASE Return(w, "failed")
    BY <1>1, <2>2 DEF Return, Idle
  <2> QED
    BY <1>3, <2>1, <2>2
<1>6. /\ c.nonce \notin UsedNonces
      /\ UsedNonces' = UsedNonces \cup {c.nonce}
      /\ SpentNonces' = SpentNonces
  BY <1>1, <1>2, <1>4, <1>5, NonceIsUsed, NoncesKeep
<1>7. CASE o \notin {"ok", "lost"}
  <2>1. LiveCodes' = LiveCodes
    BY <1>1, <1>2, <1>3, <1>7, CodesWritten
  <2> QED
    BY <1>2, <1>6, <2>1 DEF Ledger!LedgerNext, Ledger!Abandon
<1>8. CASE o \in {"ok", "lost"}
  <2>1. LiveCodes' = [LiveCodes EXCEPT ![k] = Live(c)]
    BY <1>1, <1>2, <1>3, <1>8, CodesWritten
  <2>2. /\ Live(c) = [nonce |-> c.nonce, attempts |-> 0,
                      requestCount |-> c.requestCount, sentAt |-> c.sentAt]
        /\ c.requestCount \in 1 .. MaxRequests /\ c.sentAt \in Times
    BY <1>1, <1>2, NoneAssumption
       DEF Live, Follower, Timely, WithinPolicy
  <2>3. Ledger!Follows(k, c.requestCount, c.sentAt)
    <3>1. CASE c.requestCount = 1
      BY <3>1 DEF Ledger!Follows
    <3>2. CASE c.requestCount # 1
      <4> DEFINE stored == challenges[k]
      <4>1. /\ stored # None /\ c.sentAt - stored.sentAt < Window
            /\ c.requestCount = stored.requestCount + 1
        BY <1>1, <1>2, <3>2 DEF Follower, InWindow
      <4>2. stored \in Challenge
        BY <1>1, <1>2, <4>1 DEF TypeInv, TypeOK, StoreTypeOK
      <4>3. /\ LiveCodes[k].sentAt = stored.sentAt
            /\ LiveCodes[k].requestCount = stored.requestCount
            /\ LiveCodes[k] # None
        <5>1. /\ LiveCodes[k] # None
              /\ LiveCodes[k] = [nonce |-> stored.nonce,
                                 attempts |-> stored.attempts,
                                 requestCount |-> stored.requestCount,
                                 sentAt |-> stored.sentAt]
          BY <1>2, <4>2, LiveFacts
        <5> QED
          BY <5>1
      <4>4. c.requestCount <= MaxRequests
        BY <2>2, PolicyFacts
      <4> QED
        BY <4>1, <4>3, <4>4, SamePolicy DEF Ledger!Follows
    <3> QED
      BY <3>1, <3>2
  <2>4. Ledger!Issue(k, c.nonce)
    BY <1>6, <2>1, <2>2, <2>3, SamePolicy DEF Ledger!Issue
  <2> QED
    BY <1>2, <2>4 DEF Ledger!LedgerNext
<1> QED
  BY <1>7, <1>8
(* What the writes of Verify have in common: the handler writes over the   *)
(* document it judged and returns.                                         *)
LEMMA VerifyWrites ==
    ASSUME LedgerInv, NEW w \in Workers, NEW a, Return(w, a),
           req[w].pc \in {"purge", "bump", "redeem"}
    PROVE  LET c == req[w].challenge
               k == Key(w)
           IN  /\ k \in Keys /\ c \in Challenge /\ WithinPolicy(c)
               /\ c.nonce \in Nonces
               /\ challenges[k] = ReadCopy(w) /\ challenges[k] \in Challenge
               /\ NoIssueMoves
<1>1. /\ FullInv /\ HandlersTyped /\ req \in [Workers -> Request]
      /\ StoreTypeOK
  BY DEF LedgerInv, JudgingInv, ExclusiveInv, FullInv, TypeInv, TypeOK,
     HandlersTyped
<1>2. Key(w) \in Keys
  BY <1>1, KeyType
<1>3. LET c == req[w].challenge
      IN  c \in Challenge /\ WithinPolicy(c) /\ c.nonce \in Nonces
  BY <1>1, HeldGenuine DEF Holding
<1>4. challenges[Key(w)] = ReadCopy(w) /\ challenges[Key(w)] # None
  BY DEF LedgerInv, LInv, Present, JudgingInv, JInv, Undisturbed, Judging
<1>5. challenges[Key(w)] \in Challenge
  BY <1>1, <1>2, <1>4 DEF StoreTypeOK
<1>6. NoIssueMoves
  BY <1>1 DEF Return, Idle, NoIssueMoves
<1> QED
  BY <1>2, <1>3, <1>4, <1>5, <1>6

(* The write of a wrong guess charges the live code, or fails.             *)
LEMMA BumpMaps ==
    ASSUME Serialized, LedgerInv, NEW w \in Workers, VerifyBump(w)
    PROVE  [Ledger!LedgerNext]_(Ledger!ledgerVars)
<1> DEFINE c == req[w].challenge
           k == Key(w)
           stored == challenges[k]
<1>1. /\ ExclusiveInv /\ ledger \in [Nonces -> Entry]
  BY DEF LedgerInv, JudgingInv, ExclusiveInv, FullInv, TypeInv, TypeOK
<1>2. PICK o : /\ Apply(k, c, o)
               /\ \/ UNCHANGED ledger
                  \/ \E b : ledger' = [ledger EXCEPT ![c.nonce].wrong = b]
  BY DEF VerifyBump, PutChallenge
<1>3. req[w].pc = "bump" /\ Return(w, "invalid_code")
  BY DEF VerifyBump
<1>4. /\ k \in Keys /\ c \in Challenge /\ WithinPolicy(c)
      /\ stored = [c EXCEPT !.attempts = @ - 1] /\ stored \in Challenge
      /\ NoIssueMoves
  BY <1>3, VerifyWrites DEF ReadCopy
<1>5. HistoryKeeps
  BY <1>1, <1>2, HistoryFacts
<1>6. UsedNonces' = UsedNonces /\ SpentNonces' = SpentNonces
  BY <1>4, <1>5, NoncesKeep
<1>7. CASE o \notin {"ok", "lost"}
  <2>1. LiveCodes' = LiveCodes
    BY <1>1, <1>2, <1>4, <1>7, CodesWritten
  <2> QED
    BY <1>6, <2>1 DEF Ledger!ledgerVars
<1>8. CASE o \in {"ok", "lost"}
  <2>1. LiveCodes' = [LiveCodes EXCEPT ![k] = Live(c)]
    BY <1>1, <1>2, <1>4, <1>8, CodesWritten
  <2>2. /\ stored.nonce = c.nonce /\ stored.attempts = c.attempts - 1
        /\ stored.requestCount = c.requestCount /\ stored.sentAt = c.sentAt
        /\ c.attempts \in Int
    BY <1>4 DEF Challenge
  <2>3. /\ LiveCodes[k] # None
        /\ LiveCodes[k] = [nonce |-> c.nonce, attempts |-> c.attempts - 1,
                           requestCount |-> c.requestCount,
                           sentAt |-> c.sentAt]
    <3>1. /\ LiveCodes[k] # None
          /\ LiveCodes[k] = [nonce |-> stored.nonce,
                             attempts |-> stored.attempts,
                             requestCount |-> stored.requestCount,
                             sentAt |-> stored.sentAt]
      BY <1>4, LiveFacts
    <3> QED
      BY <2>2, <3>1
  <2>4. Live(c) = [nonce |-> c.nonce, attempts |-> c.attempts,
                   requestCount |-> c.requestCount, sentAt |-> c.sentAt]
    BY <1>4, NoneAssumption DEF Live
  <2>5. LiveCodes[k].attempts < AllowedAttempts
    BY <1>4, <2>2, <2>3, PolicyFacts DEF WithinPolicy
  <2>6. Live(c) = [LiveCodes[k] EXCEPT !.attempts = @ + 1]
    BY <2>2, <2>3, <2>4
  <2>7. Ledger!Charge(k)
    BY <1>6, <2>1, <2>3, <2>5, <2>6, SamePolicy DEF Ledger!Charge
  <2> QED
    BY <1>4, <2>7 DEF Ledger!LedgerNext
<1> QED
  BY <1>7, <1>8

(* What a delete by Verify does to the live codes.                         *)
LEMMA DeleteMaps ==
    ASSUME Serialized, LedgerInv, NEW w \in Workers, NEW a, Return(w, a),
           req[w].pc \in {"purge", "redeem"}, NEW o, Apply(Key(w), None, o)
    PROVE  LET k == Key(w)
           IN  /\ k \in Keys /\ LiveCodes[k] # None
               /\ LiveCodes[k].nonce = req[w].challenge.nonce
               /\ NoIssueMoves
               /\ o \in {"ok", "lost"} =>
                    LiveCodes' = [LiveCodes EXCEPT ![k] = None]
               /\ o \notin {"ok", "lost"} => LiveCodes' = LiveCodes
<1> DEFINE k == Key(w)
           stored == challenges[k]
<1>1. ExclusiveInv
  BY DEF LedgerInv, JudgingInv
<1>2. /\ k \in Keys /\ stored = req[w].challenge /\ stored \in Challenge
      /\ NoIssueMoves
  BY VerifyWrites DEF ReadCopy
<1>3. /\ LiveCodes[k] # None
      /\ LiveCodes[k] = [nonce |-> stored.nonce,
                         attempts |-> stored.attempts,
                         requestCount |-> stored.requestCount,
                         sentAt |-> stored.sentAt]
  BY <1>2, LiveFacts
<1>4. LiveCodes[k].nonce = req[w].challenge.nonce
  BY <1>2, <1>3
<1>5. Live(None) = None
  BY DEF Live
<1> QED
  BY <1>1, <1>2, <1>3, <1>4, <1>5, CodesWritten

(* The delete of a stale challenge discards its code, or fails.            *)
LEMMA PurgeMaps ==
    ASSUME Serialized, LedgerInv, NEW w \in Workers, VerifyPurge(w)
    PROVE  [Ledger!LedgerNext]_(Ledger!ledgerVars)
<1>1. ledger \in [Nonces -> Entry]
  BY DEF LedgerInv, JudgingInv, ExclusiveInv, FullInv, TypeInv, TypeOK
<1>2. PICK o : Apply(Key(w), None, o)
  BY DEF VerifyPurge, DeleteChallenge
<1>3. /\ req[w].pc = "purge" /\ Return(w, req[w].verdict)
      /\ UNCHANGED ledger
  BY DEF VerifyPurge
<1>4. NoIssueMoves
  BY <1>2, <1>3, DeleteMaps
<1>5. UsedNonces' = UsedNonces /\ SpentNonces' = SpentNonces
  BY <1>1, <1>3, <1>4, HistoryFacts, NoncesKeep
<1>6. CASE o \in {"ok", "lost"}
  <2>1. Key(w) \in Keys /\ Ledger!Discard(Key(w))
    BY <1>2, <1>3, <1>5, <1>6, DeleteMaps DEF Ledger!Discard
  <2> QED
    BY <2>1 DEF Ledger!LedgerNext
<1>7. CASE o \notin {"ok", "lost"}
  BY <1>2, <1>3, <1>5, <1>7, DeleteMaps DEF Ledger!ledgerVars
<1> QED
  BY <1>6, <1>7
(* The delete of a redeemed challenge spends its code; when its answer is  *)
(* lost, it discards it; or it fails.                                      *)
LEMMA RedeemMaps ==
    ASSUME Serialized, LedgerInv, NEW w \in Workers, VerifyRedeem(w)
    PROVE  [Ledger!LedgerNext]_(Ledger!ledgerVars)
<1> DEFINE k == Key(w)
<1>1. PICK n \in Nonces :
        /\ n = req[w].challenge.nonce /\ Issued(n)
        /\ ledger[n].uses = 0
  <2>1. req[w].pc \in Holding /\ FullInv
    BY DEF VerifyRedeem, Holding, LedgerInv, JudgingInv, ExclusiveInv
  <2>2. Copy(k, req[w].challenge) \in Copies
    BY <2>1 DEF Copies
  <2>3. ledger[req[w].challenge.nonce].uses = 0
    BY <2>2 DEF Copy, LedgerInv, JudgingInv, ExclusiveInv, XInv, Budgeted
  <2> QED
    BY <2>1, <2>3, HeldGenuine
<1>2. ledger \in [Nonces -> Entry] /\ CountCap \in Nat
  BY ServiceAssumption
     DEF LedgerInv, JudgingInv, ExclusiveInv, FullInv, TypeInv, TypeOK
<1>3. PICK o :
        /\ Apply(k, None, o)
        /\ IF o = "ok"
             THEN /\ Return(w, "verified")
                  /\ ledger' = [ledger EXCEPT ![n].uses = Count(@)]
             ELSE Return(w, "failed") /\ UNCHANGED ledger
  BY <1>1 DEF VerifyRedeem, DeleteChallenge
<1>4. req[w].pc = "redeem" /\ \E a : Return(w, a)
  BY <1>3 DEF VerifyRedeem
<1>5. /\ k \in Keys /\ LiveCodes[k] # None /\ LiveCodes[k].nonce = n
      /\ NoIssueMoves
      /\ o \in {"ok", "lost"} => LiveCodes' = [LiveCodes EXCEPT ![k] = None]
      /\ o \notin {"ok", "lost"} => LiveCodes' = LiveCodes
  BY <1>1, <1>3, <1>4, DeleteMaps
<1>6. CASE o # "ok"
  <2>1. UsedNonces' = UsedNonces /\ SpentNonces' = SpentNonces
    BY <1>2, <1>3, <1>5, <1>6, HistoryFacts, NoncesKeep
  <2>2. CASE o = "lost"
    BY <1>5, <2>1, <2>2 DEF Ledger!LedgerNext, Ledger!Discard
  <2>3. CASE o # "lost"
    BY <1>5, <1>6, <2>1, <2>3 DEF Ledger!ledgerVars
  <2> QED
    BY <2>2, <2>3
<1>7. CASE o = "ok"
  <2>1. /\ \A m \in Nonces : ledger'[m].challenge = ledger[m].challenge
        /\ \A m \in Nonces \ {n} : ledger'[m].uses = ledger[m].uses
        /\ ledger'[n].uses = Count(0)
    BY <1>1, <1>2, <1>3, <1>7 DEF Entry
  <2>2. UsedNonces' = UsedNonces
    BY <1>5, <2>1 DEF UsedNonces, Issued, Pending, NoIssueMoves
  <2>3. n \notin SpentNonces
    BY <1>1 DEF SpentNonces
  <2>4. CASE CountCap = 0
    <3>1. ledger'[n].uses = 0
      BY <2>1, <2>4 DEF Count
    <3>2. SpentNonces' = SpentNonces
      BY <1>1, <2>1, <3>1 DEF SpentNonces
    <3> QED
      BY <1>5, <1>7, <2>2, <3>2 DEF Ledger!LedgerNext, Ledger!Discard
  <2>5. CASE CountCap # 0
    <3>1. ledger'[n].uses = 1
      BY <1>2, <2>1, <2>5 DEF Count
    <3>2. SpentNonces' = SpentNonces \cup {n}
      BY <1>1, <2>1, <3>1 DEF SpentNonces
    <3> QED
      BY <1>5, <1>7, <2>2, <2>3, <3>2 DEF Ledger!LedgerNext, Ledger!Redeem
  <2> QED
    BY <2>4, <2>5
<1> QED
  BY <1>6, <1>7

(* A crash abandons a code that was on its way to the store.               *)
LEMMA CrashMaps ==
    ASSUME Serialized, LedgerInv, NEW w \in Workers, Crash(w)
    PROVE  [Ledger!LedgerNext]_(Ledger!ledgerVars)
<1>1. /\ ExclusiveInv /\ req \in [Workers -> Request]
      /\ ledger \in [Nonces -> Entry]
  BY DEF LedgerInv, JudgingInv, ExclusiveInv, FullInv, TypeInv, TypeOK
<1>2. /\ req' = [req EXCEPT ![w] = Idle]
      /\ UNCHANGED <<challenges, ledger>>
  BY DEF Crash, Restart, Serialized
<1>3. /\ req'[w].pc = "idle" /\ \A v \in Workers \ {w} : req'[v] = req[v]
  BY <1>1, <1>2 DEF Idle
<1>4. HistoryKeeps
  BY <1>1, <1>2, HistoryFacts
<1>5. CASE req[w].pc = "send_put"
  <2>1. LiveCodes' = LiveCodes /\ SpentNonces' = SpentNonces
    BY <1>2, <1>4, CodesKeep, NoncesKeep
  <2>2. \E n \in Nonces : n \notin UsedNonces /\ UsedNonces' = UsedNonces \cup {n}
    BY <1>1, <1>3, <1>4, <1>5, NonceIsUsed
  <2> QED
    BY <2>1, <2>2 DEF Ledger!LedgerNext, Ledger!Abandon
<1>6. CASE req[w].pc # "send_put"
  BY <1>2, <1>3, <1>4, <1>6, QuietStep DEF NoIssueMoves
<1> QED
  BY <1>5, <1>6

(* Every step of the service is a step of the ledger or leaves it alone.   *)
LEMMA StepMaps ==
    ASSUME Serialized, LedgerInv, [Next]_vars
    PROVE  [Ledger!LedgerNext]_(Ledger!ledgerVars)
<1>1. ASSUME NEW w \in Workers, HandlerStep(w)
      PROVE  [Ledger!LedgerNext]_(Ledger!ledgerVars)
  BY <1>1, QuietMaps, DrawMaps, PutMaps, PurgeMaps, BumpMaps, RedeemMaps
     DEF HandlerStep, SendStep, VerifyStep
<1>2. ASSUME NEW w \in Workers, NEW in,
             \/ SendReject(w, in) \/ SendBegin(w, in)
             \/ VerifyReject(w, in) \/ VerifyBegin(w, in) \/ Timeout(w)
      PROVE  UNCHANGED Ledger!ledgerVars
  BY <1>2, RequestMaps
<1> QED
  BY <1>1, <1>2, OutsideMaps, CrashMaps DEF Next

(* The ledger begins empty.                                                *)
LEMMA InitMaps ==
    ASSUME Init PROVE Ledger!LedgerInit
<1>1. LiveCodes = [k \in Keys |-> None]
  BY DEF Init, StoreInit, LiveCodes, Live
<1>2. UsedNonces = {} /\ SpentNonces = {}
  BY DEF Init, Unissued, UsedNonces, SpentNonces, Issued
<1> QED
  BY <1>1, <1>2 DEF Ledger!LedgerInit

(* For callers that never overlap two requests on one key, over Firestore  *)
(* with no write that takes effect late: the two-phase handlers of Send    *)
(* and Verify, with all their failures, timeouts and crashes, implement    *)
(* the ledger of atomic steps.  A code is issued once, numbered after the  *)
(* one it replaces, charged while it is live and accepted at most once.    *)
THEOREM ServiceImplementsLedger ==
    ASSUME Serialized PROVE Spec => ImplementsLedger
<1>1. LedgerInv /\ [Next]_vars => LedgerInv'
  BY LedgerInvStep
<1>2. LedgerInv /\ [Next]_vars => [Ledger!LedgerNext]_(Ledger!ledgerVars)
  BY StepMaps
<1>3. Init => LedgerInv /\ Ledger!LedgerInit
  BY LedgerInvInit, InitMaps
<1> QED
  BY <1>1, <1>2, <1>3, PTL DEF Spec, ImplementsLedger, Ledger!LedgerSpec
=============================================================================
