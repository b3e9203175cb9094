---------------------------- MODULE ChallengeStore ----------------------------
(***************************************************************************)
(* internal/adapters/store: the three repositories behind the port         *)
(* ChallengeRepository, as the callers of the port see them.               *)
(*                                                                         *)
(* The memory store is a mutex around a map: a call is one step, never     *)
(* fails and does not look at its context.  Firestore and DynamoDB are     *)
(* reached over HTTP, so a call that returns an error may still have been  *)
(* applied, or be applied after the caller has gone on.                    *)
(***************************************************************************)
EXTENDS OtpDomain, FiniteSets

CONSTANTS
    Driver,   \* STORE_DRIVER: "memory", "firestore" or "dynamodb"
    MaxStray, \* bound on the writes in flight after their caller gave up
    Second,   \* clock units in a second
    LongText  \* subjects whose item does not fit in the 4096 bytes that
              \* DynamoDBStore.call reads of an answer

ASSUME StoreAssumption ==
    /\ Driver \in {"memory", "firestore", "dynamodb"}
    /\ MaxStray \in Nat /\ Second \in Nat \ {0}
    /\ LongText \subseteq Text

VARIABLES
    challenges,  \* the document of every key, None when there is none
    stray        \* writes that a failed call may still apply

storeVars == <<challenges, stray>>

Write == [key : Keys, value : Challenge \cup {None}]

StoreTypeOK ==
    /\ challenges \in [Keys -> Challenge \cup {None}]
    /\ stray \subseteq Write

StoreInit ==
    /\ challenges = [k \in Keys |-> None]
    /\ stray = {}

-----------------------------------------------------------------------------
(* How a remote write may end: "ok", "refused" (an error, not applied),    *)
(* "lost" (an error, applied) or "late" (an error, applied afterwards).    *)
(* A cancelled context makes the HTTP client return an error.              *)

Errors == {"refused", "lost", "late"}

MemoryOutcomes(cancelled) == {"ok"}

FirestoreOutcomes(cancelled) == IF cancelled THEN Errors ELSE Errors \cup {"ok"}

DynamoDBOutcomes(cancelled) == IF cancelled THEN Errors ELSE Errors \cup {"ok"}

Outcomes(cancelled) ==
    CASE Driver = "memory"    -> MemoryOutcomes(cancelled)
      [] Driver = "firestore" -> FirestoreOutcomes(cancelled)
      [] Driver = "dynamodb"  -> DynamoDBOutcomes(cancelled)

(* PutChallenge replaces the whole document and DeleteChallenge removes it *)
(* (a missing one is no error): both overwrite what is stored now.         *)
Apply(k, value, outcome) ==
    /\ outcome = "late" => Cardinality(stray) < MaxStray
    /\ challenges' = IF outcome \in {"ok", "lost"}
                       THEN [challenges EXCEPT ![k] = value]
                       ELSE challenges
    /\ stray' = IF outcome = "late"
                  THEN stray \cup {[key |-> k, value |-> value]}
                  ELSE stray

PutChallenge(k, challenge, outcome) == Apply(k, challenge, outcome)

DeleteChallenge(k, outcome) == Apply(k, None, outcome)

-----------------------------------------------------------------------------
(* What GetChallenge gives.  A caller gets nil both when the document is   *)
(* missing and when the call failed; a cut answer is no JSON and fails.    *)

MemoryReads(k, cancelled) == {challenges[k]}

FirestoreReads(k, cancelled) ==
    IF cancelled THEN {None} ELSE {None, challenges[k]}

DynamoDBReads(k, cancelled) ==
    IF \/ cancelled
       \/ challenges[k] # None /\ challenges[k].subject \in LongText
      THEN {None}
      ELSE {None, challenges[k]}

GetChallenge(k, cancelled) ==
    CASE Driver = "memory"    -> MemoryReads(k, cancelled)
      [] Driver = "firestore" -> FirestoreReads(k, cancelled)
      [] Driver = "dynamodb"  -> DynamoDBReads(k, cancelled)

-----------------------------------------------------------------------------
(* Steps of the store itself.                                              *)

(* A write whose caller has seen an error takes effect.                    *)
Land(write) ==
    /\ write \in stray
    /\ challenges' = [challenges EXCEPT ![write.key] = write.value]
    /\ stray' = stray \ {write}

(* expires_at is written in whole seconds, rounded down.                   *)
SweepTime(challenge) == (challenge.expiresAt \div Second) * Second

(* DynamoDB's TTL, which the installers switch on for expires_at, removes  *)
(* an expired item at any later time.                                      *)
Sweep(k, clock) ==
    /\ Driver = "dynamodb"
    /\ challenges[k] # None
    /\ clock >= SweepTime(challenges[k])
    /\ challenges' = [challenges EXCEPT ![k] = None]
    /\ UNCHANGED stray

(* The process ends: only the memory store loses its documents.            *)
Restart ==
    /\ challenges' = IF Driver = "memory" THEN [k \in Keys |-> None]
                                          ELSE challenges
    /\ UNCHANGED stray
=============================================================================
