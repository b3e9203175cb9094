---------------------------- MODULE OtpProperties ----------------------------
(***************************************************************************)
(* What Send and Verify promise.  The first group holds however handlers   *)
(* interleave and whatever fails; the second needs callers that never      *)
(* overlap two requests on one key and a store whose failed writes do not  *)
(* take effect afterwards.                                                 *)
(***************************************************************************)
EXTENDS OtpService

Issued(n) == ledger[n].challenge # None

IssuedOn(k, n) ==
    /\ Issued(n)
    /\ ChallengeKey(ledger[n].challenge.subject,
                    ledger[n].challenge.purpose) = k

(* A challenge differs from the one issued with its nonce in the attempts  *)
(* only, and lies under the key of its identity.                           *)
Genuine(k, c) ==
    /\ IssuedOn(k, c.nonce)
    /\ c = [ledger[c.nonce].challenge EXCEPT !.attempts = c.attempts]

Holding == {"send_put", "send_sms", "judge", "purge", "bump", "redeem"}

(* Every challenge that can reach the store, with its key: stored, in      *)
(* flight or held by a handler.                                            *)
Copy(k, c) == [key |-> k, value |-> c]

Copies ==
    {Copy(k, challenges[k]) : k \in {k \in Keys : challenges[k] # None}}
      \cup {s \in stray : s.value # None}
      \cup {Copy(Key(w), req[w].challenge) :
               w \in {w \in Workers : req[w].pc \in Holding}}

-----------------------------------------------------------------------------
(* Under every interleaving and fault.                                     *)

(* Writing back a whole challenge read earlier (usecases.go Verify) never  *)
(* mixes two challenges: whatever is stored, held by a handler or still    *)
(* in flight is a challenge Send issued for that key.                      *)
Provenance == \A x \in Copies : Genuine(x.key, x.value)

WithinPolicy(c) ==
    /\ c.requestCount \in 1 .. MaxRequests
    /\ c.attempts \in 0 .. AllowedAttempts

(* Although both counters are read, changed and written back without a     *)
(* lock, neither ever passes the policy's limit, in any copy.              *)
CountersBounded == \A x \in Copies : WithinPolicy(x.value)

(* Send stores first and sends after: a code leaves by SMS only when the   *)
(* store has acknowledged its challenge, so that it can be verified.       *)
PutBeforeSms == \A n \in Nonces : ledger[n].delivered => ledger[n].acked

(* Two identities may share a key.  A handler that counts an attempt or    *)
(* redeems does it to a challenge of its own subject, phone and purpose,   *)
(* and it redeems only against the very code that Send drew.               *)
ActsForOwner ==
    \A w \in Workers : req[w].pc \in {"bump", "redeem"} =>
      LET issue == ledger[req[w].challenge.nonce].challenge
      IN  /\ issue.subject = req[w].subject
          /\ issue.phoneHash = PhoneHash(req[w].phone)
          /\ issue.purpose = req[w].purpose
          /\ (issue.hash.code = req[w].code) <=> (req[w].pc = "redeem")

(* Between the issue of a code and the judgement that accepts it lies at   *)
(* most the TTL, plus what two instances' wall clocks can be apart: a      *)
(* write-back, a late write or a retry never renews a code.                *)
Lifetime ==
    \A w \in Workers : req[w].pc = "redeem" =>
      req[w].at - ledger[req[w].challenge.nonce].born <= OTPTTL + 2 * Skew

(* With no policy injected, the limits are the README's: five minutes, five *)
(* attempts, codes of six digits.  A code is not called expired before its *)
(* time nor accepted after it, give or take what two clocks can be apart,  *)
(* and it is neither withdrawn before the fifth wrong guess nor judged     *)
(* after it.                                                               *)
LimitsAsDocumented ==
    /\ \A n \in Nonces :
         Issued(n) => DigitLen[ledger[n].challenge.hash.code] = 6
    /\ \A w \in Workers :
         LET held == req[w].challenge
             age == req[w].at - ledger[held.nonce].born
         IN  /\ req[w].pc = "purge" /\ req[w].verdict = "expired_code" =>
                  age > 5 * Minute - 2 * Skew
             /\ req[w].pc = "purge" /\ req[w].verdict = "invalid_code" =>
                  held.attempts = 5
             /\ req[w].pc = "bump" => held.attempts <= 5
             /\ req[w].pc = "redeem" =>
                  held.attempts < 5 /\ age <= 5 * Minute + 2 * Skew

(* A series of MaxRequests issues on a key, numbered 1, 2, ... in their    *)
(* requestCount, each within the window of the one before.                 *)
Series(k, f, length) ==
    \A j \in 1 .. length :
      /\ IssuedOn(k, f[j])
      /\ ledger[f[j]].challenge.requestCount = j
      /\ j > 1 => ledger[f[j]].challenge.sentAt
                    - ledger[f[j - 1]].challenge.sentAt < Window

Earned(k, now) ==
    \E f \in [1 .. MaxRequests -> Nonces] :
      /\ Series(k, f, MaxRequests)
      /\ now - ledger[f[MaxRequests]].challenge.sentAt < Window

(* Send answers rate_limited only on a key that got the allowed number of  *)
(* codes in a row: lost updates of the request count delay a refusal but   *)
(* never cause one.                                                        *)
RefusalEarned ==
    [][\A w \in Workers :
         req[w].pc = "send_get" /\ ~Busy(w)' /\ answer' = "rate_limited"
           => Earned(Key(w), req[w].now)]_vars

-----------------------------------------------------------------------------
(* The invariant behind the first group, each part of it needed by the     *)
(* next: an issue never changes, a handler's clock reading is near the     *)
(* true time, an SMS is only sent for an acknowledged challenge.           *)

WellIssued(n, c, born) ==
    /\ c.nonce = n
    /\ c.hash = Hash(c.subject, c.phoneHash, c.purpose, c.hash.code, n)
    /\ c.requestCount \in 1 .. MaxRequests
    /\ c.attempts = 0
    /\ c.expiresAt = c.sentAt + OTPTTL
    /\ c.sentAt - born \in -Skew .. Skew

LedgerSound ==
    \A n \in Nonces :
      Issued(n) => WellIssued(n, ledger[n].challenge, ledger[n].born)

ReadingSound ==
    \A w \in Workers :
      req[w].pc = "send_get" => req[w].now - req[w].at \in -Skew .. Skew

SmsSound ==
    \A w \in Workers :
      req[w].pc = "send_sms" => ledger[req[w].challenge.nonce].acked

EndsSeries(n, k, length) ==
    \E f \in [1 .. length -> Nonces] : Series(k, f, length) /\ f[length] = n

(* Every issue is the last of a series that began with number 1.           *)
SeriesSound ==
    \A n \in Nonces : Issued(n) =>
      LET c == ledger[n].challenge
      IN  EndsSeries(n, ChallengeKey(c.subject, c.purpose), c.requestCount)

IInv ==
    /\ TypeOK
    /\ LedgerSound /\ Provenance /\ CountersBounded
    /\ ReadingSound /\ ActsForOwner /\ Lifetime
    /\ SmsSound /\ PutBeforeSms
    /\ SeriesSound

-----------------------------------------------------------------------------
(* With OneAtATime and no late writes.                                     *)

(* A code is accepted at most once (docs/nist-security-profile.md, replay  *)
(* reduction).                                                             *)
SingleUse == \A n \in Nonces : ledger[n].uses <= 1

(* No code stands more wrong guesses than the policy allows, of those the  *)
(* store has acknowledged.                                                 *)
GuessBudget == \A n \in Nonces : ledger[n].wrong <= AllowedAttempts

Redeeming(n) ==
    \E w \in Workers : req[w].pc = "redeem" /\ req[w].challenge.nonce = n

(* A challenge disappears only when it is over: expired (or in its last    *)
(* second, which DynamoDB rounds away), out of attempts, or being redeemed *)
(* with its own code.  No other request on the key, and no failure of one, *)
(* takes a live code away.                                                 *)
DeletionJustified ==
    [][\A k \in Keys : challenges[k] # None /\ challenges'[k] = None =>
         \/ clock + Skew + Second > challenges[k].expiresAt
         \/ AttemptsExhausted(challenges[k])
         \/ Redeeming(challenges[k].nonce)]_vars

(* In a rolling window no more codes are issued on a key, and stored, than *)
(* the policy allows (README.md, "window 10 min, max 3 sends").            *)
SendCap ==
    \A n \in Nonces : Issued(n) =>
      LET k == ChallengeKey(ledger[n].challenge.subject,
                            ledger[n].challenge.purpose)
          from == ledger[n].challenge.sentAt
      IN  Cardinality({m \in Nonces :
            /\ IssuedOn(k, m)
            /\ ledger[m].acked
            /\ ledger[m].challenge.sentAt \in from .. from + Window - 1})
          <= MaxRequests

(* The invariant behind SingleUse and GuessBudget: no two handlers serve   *)
(* one key, and no copy of a challenge is left that was redeemed or that   *)
(* shows fewer attempts than were counted.                                 *)
Alone ==
    \A v, w \in Workers : v # w /\ Busy(v) /\ Busy(w) => Key(v) # Key(w)

Budgeted ==
    /\ \A x \in Copies :
         /\ ledger[x.value.nonce].uses = 0
         /\ ledger[x.value.nonce].wrong <= x.value.attempts
    /\ \A w \in Workers : req[w].pc = "bump" =>
         ledger[req[w].challenge.nonce].wrong < req[w].challenge.attempts

XInv == stray = {} /\ Alone /\ Budgeted /\ SingleUse /\ GuessBudget

(* The invariant behind DeletionJustified: the document that a handler of  *)
(* Verify judges is the one stored, unless the sweeper has taken it, and   *)
(* what it purges is over.                                                 *)
Judging == {"judge", "purge", "bump", "redeem"}

ReadCopy(w) ==
    IF req[w].pc = "bump"
      THEN [req[w].challenge EXCEPT !.attempts = @ - 1]
      ELSE req[w].challenge

Undisturbed ==
    \A w \in Workers : req[w].pc \in Judging =>
      challenges[Key(w)] \in {None, ReadCopy(w)}

PurgeDeserved ==
    \A w \in Workers : req[w].pc = "purge" =>
      \/ clock + Skew > req[w].challenge.expiresAt
      \/ AttemptsExhausted(req[w].challenge)

JInv == Undisturbed /\ PurgeDeserved

-----------------------------------------------------------------------------
(* The two-phase handlers against the ledger of single steps: a request    *)
(* takes effect when it writes, a code is used up once its send is done.   *)

Live(c) ==
    IF c = None THEN None
    ELSE [nonce |-> c.nonce, attempts |-> c.attempts,
          requestCount |-> c.requestCount, sentAt |-> c.sentAt]

(* None is no live code either.                                            *)
ASSUME LiveAssumption ==
    None \notin [nonce : Nonces, attempts : Int, requestCount : Int, sentAt : Int]

Pending(n) ==
    \E w \in Workers : req[w].pc = "send_put" /\ req[w].challenge.nonce = n

LiveCodes == [k \in Keys |-> Live(challenges[k])]

UsedNonces == {n \in Nonces : Issued(n) /\ ~Pending(n)}

SpentNonces == {n \in Nonces : ledger[n].uses > 0}

Times == -Skew .. MaxClock + Skew

Ledger == INSTANCE ChallengeLedger WITH
    live <- LiveCodes, used <- UsedNonces, spent <- SpentNonces

(* With OneAtATime, no late write and no TTL sweeper, every write of the   *)
(* service is a single step of the ledger: no guess is lost, no code comes *)
(* back, and only the live code of a key is accepted.                      *)
ImplementsLedger == Ledger!LedgerSpec

(* The invariant behind it: nothing on a handler's key changes while it is *)
(* at work, so that Verify writes over the document it has read and Send   *)
(* numbers a code after the one it replaces.                               *)
Present ==
    \A w \in Workers : req[w].pc \in Judging => challenges[Key(w)] # None

Follower ==
    \A w \in Workers : req[w].pc = "send_put" =>
      LET c == req[w].challenge
          stored == challenges[Key(w)]
      IN  /\ c.attempts = 0
          /\ \/ c.requestCount = 1
             \/ /\ InWindow(stored, c.sentAt)
                /\ c.requestCount = stored.requestCount + 1

Timely ==
    \A w \in Workers :
      /\ req[w].pc = "send_get" => req[w].now \in Times
      /\ req[w].pc = "send_put" => req[w].challenge.sentAt \in Times

Blank == \A n \in Nonces : ~Issued(n) => ledger[n].uses = 0

LInv == Present /\ Follower /\ Timely /\ Blank
=============================================================================
