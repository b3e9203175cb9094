--------------------------- MODULE DeploymentProofs ---------------------------
(***************************************************************************)
(* Proofs about the process and its remote calls, for every environment    *)
(* and every number of rotations of the platform's credentials.            *)
(***************************************************************************)
EXTENDS Deployment, FiniteSetTheorems, TLAPS

-----------------------------------------------------------------------------
(* Types.                                                                  *)

(* The drivers main accepts are adapters this model knows.                 *)
LEMMA KnownAdapters ==
    ASSUME ValidRuntimeConfig
    PROVE  Adapters \subseteq {"firestore", "dynamodb", "twilio", "amazon_sns"}
BY DEF ValidRuntimeConfig, StoreValid, SmsValid, Adapters

(* The credentials a call can be made with.                                *)
LEMMA CredentialTypes ==
    ASSUME TypeOK
    PROVE  /\ NoCredentials \in Credentials
           /\ ContainerCredentials \in Credentials
           /\ {Nowhere, Here, Platform} \subseteq Source
BY DeploymentAssumption
   DEF TypeOK, NoCredentials, ContainerCredentials, Credentials, Nowhere, Here,
       Platform, Source

(* What main has accepted stays so: the environment of a process is fixed. *)
Accepted == server = "serving" => ValidRuntimeConfig

(* In a call: what it holds is no older than it is, and an adapter main    *)
(* accepted makes it.                                                      *)
Held ==
    /\ call.since <= generation
    /\ call.phase = "send" => call.credentials # NoCredentials
    /\ ~(call.phase \in {"none", "done"}) =>
         /\ call.result = "none"
         /\ document \in call.seen
         /\ call.operation \in Operations(call.adapter)
    /\ call.phase \in {"none", "resolve", "asking", "send"} => ~call.applied

(* What an answer on its way tells.                                        *)
AnswerSound ==
    call.phase = "answer" =>
      /\ call.status = "found" => call.operation = "get" /\ TRUE \in call.seen
      /\ call.status = "2xx" =>
           IF call.operation \in {"put", "sms"} THEN call.applied
                                               ELSE FALSE \in call.seen
      /\ call.status = "404" => FALSE \in call.seen

DInv ==
    /\ TypeOK /\ Accepted /\ Held /\ AnswerSound
    /\ ServesOnlyReady /\ WholeCredentials /\ OutcomesAreTrue

(* The invariant holds initially.                                          *)
LEMMA DeploymentInit ==
    ASSUME Init PROVE DInv
BY DeploymentAssumption
   DEF Init, DInv, TypeOK, NoCall, NoCredentials, Nowhere, Credentials, Source,
       Accepted, Held, AnswerSound, ServesOnlyReady, WholeCredentials,
       OutcomesAreTrue

(* The same process stays accepted, and its checks come out the same.      *)
LEMMA SameProcess ==
    ASSUME UNCHANGED <<env, server>>
    PROVE  /\ Accepted => Accepted'
           /\ OtpReady' = OtpReady /\ SessionReady' = SessionReady
           /\ CallersKnown' = CallersKnown
           /\ StaticKeys' = StaticKeys /\ HalfSet' = HalfSet
           /\ NoEndpoint' = NoEndpoint
BY DEF Accepted, ValidRuntimeConfig, StoreValid, SmsValid, StoreDriver,
   SmsProvider, ProjectID, Either, Set, OtpReady, SessionReady, CallersKnown,
   StaticKeys, HalfSet, NoEndpoint

(* Credentials of one source are whole.                                    *)
LEMMA OneSource ==
    ASSUME NEW c \in Credentials, NEW s,
           {c.id, c.secret, c.token} \ {Nowhere} = {s}
    PROVE  Cardinality({c.id, c.secret, c.token} \ {Nowhere}) = 1
BY FS_Singleton

(* A call that goes on, without an end.                                    *)
LEMMA CallTyped ==
    ASSUME TypeOK, NEW phase \in {"asking", "send"}, NEW c \in Credentials,
           Call(phase, c)
    PROVE  /\ TypeOK' /\ UNCHANGED <<env, server, generation, document>>
           /\ call'.phase = phase /\ call'.credentials = c
           /\ call'.since = call.since /\ call'.result = call.result
           /\ call'.applied = call.applied /\ call'.seen = call.seen
           /\ call'.operation = call.operation /\ call'.adapter = call.adapter
BY DEF TypeOK, Call, processVars

Results == {"ok", "found", "failed", "not_configured", "no_credentials"}

(* A call that ends.                                                       *)
LEMMA EndTyped ==
    ASSUME TypeOK, NEW result \in Results, End(result)
    PROVE  /\ TypeOK' /\ UNCHANGED <<env, server, generation, document>>
           /\ call'.phase = "done" /\ call'.credentials = call.credentials
           /\ call'.since = call.since /\ call'.result = result
           /\ call'.applied = call.applied /\ call'.seen = call.seen
           /\ call'.operation = call.operation /\ call'.adapter = call.adapter
BY DEF TypeOK, End, Results, processVars

-----------------------------------------------------------------------------
(* The steps.                                                              *)

(* A call goes on with credentials of one source, or asks for some.        *)
LEMMA CallSound ==
    ASSUME DInv, NEW phase \in {"asking", "send"}, NEW c \in Credentials,
           call.phase \in {"resolve", "asking"}, Call(phase, c),
           phase = "send" =>
             \E s \in {Here, Platform} : {c.id, c.secret, c.token} \ {Nowhere} = {s}
    PROVE  DInv'
<1>1. /\ TypeOK' /\ UNCHANGED <<env, server, generation, document>>
      /\ call'.phase = phase /\ call'.credentials = c
      /\ call'.since = call.since /\ call'.result = call.result
      /\ call'.applied = call.applied /\ call'.seen = call.seen
      /\ call'.operation = call.operation /\ call'.adapter = call.adapter
  BY CallTyped DEF DInv
<1>2. Accepted' /\ ServesOnlyReady'
  BY <1>1, SameProcess DEF DInv, Held, ServesOnlyReady
<1>3. WholeCredentials' /\ (phase = "send" => c # NoCredentials)
  <2>1. CASE phase = "asking"
    BY <1>1, <2>1 DEF WholeCredentials
  <2>2. CASE phase = "send"
    <3>1. PICK s \in {Here, Platform} :
            {c.id, c.secret, c.token} \ {Nowhere} = {s}
      BY <2>2
    <3>2. Cardinality({c.id, c.secret, c.token} \ {Nowhere}) = 1
      BY <3>1, OneSource
    <3>3. s.from = "platform" => s.generation \in call.since .. generation
      BY <3>1 DEF Here, Platform, DInv, Held, TypeOK
    <3>4. c # NoCredentials
      BY <3>1 DEF NoCredentials
    <3> QED
      BY <1>1, <3>1, <3>2, <3>3, <3>4 DEF WholeCredentials
  <2> QED
    BY <2>1, <2>2
<1>4. Held' /\ AnswerSound' /\ OutcomesAreTrue'
  BY <1>1, <1>3 DEF DInv, Held, AnswerSound, OutcomesAreTrue, Operations
<1> QED
  BY <1>1, <1>2, <1>3, <1>4 DEF DInv

(* A call ends with an outcome that is true.                               *)
LEMMA EndSound ==
    ASSUME DInv, NEW result \in Results, End(result),
           result = "ok" => IF call.operation \in {"put", "sms"}
                              THEN call.applied ELSE FALSE \in call.seen,
           result = "found" => call.operation = "get" /\ TRUE \in call.seen,
           result = "not_configured" => IsAws /\ ~StaticKeys /\ NoEndpoint,
           result \in {"not_configured", "no_credentials"} => ~call.applied
    PROVE  DInv'
<1>1. /\ TypeOK' /\ UNCHANGED <<env, server, generation, document>>
      /\ call'.phase = "done" /\ call'.credentials = call.credentials
      /\ call'.since = call.since /\ call'.result = result
      /\ call'.applied = call.applied /\ call'.seen = call.seen
      /\ call'.operation = call.operation /\ call'.adapter = call.adapter
  BY EndTyped DEF DInv
<1>2. Accepted' /\ ServesOnlyReady'
  BY <1>1, SameProcess DEF DInv, ServesOnlyReady, IsAws
<1>3. Held' /\ AnswerSound' /\ WholeCredentials' /\ OutcomesAreTrue'
  BY <1>1 DEF DInv, Held, AnswerSound, WholeCredentials, OutcomesAreTrue
<1> QED
  BY <1>1, <1>2, <1>3 DEF DInv

(* A call begins, or is refused: of what main has accepted, the SNS client *)
(* alone refuses something, half a pair of keys.                           *)
LEMMA BeginSound ==
    ASSUME DInv, NEW adapter \in Adapters, NEW operation \in Operations(adapter),
           Begin(adapter, operation)
    PROVE  DInv'
<1> DEFINE begun(phase, result) ==
      [adapter |-> adapter, operation |-> operation, phase |-> phase,
       since |-> generation, credentials |-> NoCredentials, status |-> "none",
       seen |-> {document}, applied |-> FALSE, result |-> result]
<1>1. /\ TypeOK /\ generation \in 0 .. MaxGeneration /\ generation \in Nat
      /\ document \in BOOLEAN /\ NoCredentials \in Credentials
      /\ UNCHANGED <<env, server, generation, document>>
  BY CredentialTypes, DeploymentAssumption DEF DInv, TypeOK, Begin, processVars
<1>2. ValidRuntimeConfig /\ server = "serving"
  BY DEF Begin, DInv, Accepted
<1>3. /\ adapter \in {"firestore", "dynamodb", "twilio", "amazon_sns"}
      /\ operation \in {"get", "put", "delete", "sms"}
  BY <1>2, KnownAdapters DEF Operations
<1>4. \/ call' = begun("resolve", "none")
      \/ call' = begun("done", "not_configured") /\ ~Configured(adapter)
  BY DEF Begin, NoCall
<1>5. ~Configured(adapter) => adapter = "amazon_sns" /\ HalfSet /\ ~StaticKeys
  BY <1>2 DEF ValidRuntimeConfig, StoreValid, SmsValid, Adapters, Configured,
     DynamoDBConfigured, SnsConfigured, TwilioConfigured, HalfSet
<1>6. TypeOK'
  <2>1. ASSUME NEW phase \in {"resolve", "done"},
               NEW result \in {"none", "not_configured"},
               call' = begun(phase, result)
        PROVE  TypeOK'
    BY <1>1, <1>3, <2>1 DEF TypeOK
  <2> QED
    BY <1>4, <2>1
<1>7. Accepted' /\ ServesOnlyReady'
  BY <1>1, <1>4, <1>5, SameProcess
     DEF DInv, ServesOnlyReady, IsAws, Aws
<1>8. /\ call'.phase \in {"resolve", "done"} /\ call'.since = generation
      /\ call'.result = IF call'.phase = "done" THEN "not_configured" ELSE "none"
      /\ call'.seen = {document} /\ ~call'.applied
      /\ call'.operation = operation /\ call'.adapter = adapter
  BY <1>4
<1>9. Held'
  <2>1. call'.since <= generation'
    BY <1>1, <1>8
  <2>2. call'.operation \in Operations(call'.adapter)
    BY <1>8
  <2> QED
    BY <1>1, <1>8, <2>1, <2>2 DEF Held, Operations
<1>10. AnswerSound' /\ WholeCredentials' /\ OutcomesAreTrue'
  BY <1>8 DEF AnswerSound, WholeCredentials, OutcomesAreTrue
<1> QED
  BY <1>6, <1>7, <1>9, <1>10 DEF DInv

(* The request is handled: the document it leaves is one that was seen.    *)
LEMMA ServeSound ==
    ASSUME DInv, Serve PROVE DInv'
<1>1. PICK took \in BOOLEAN, status \in {"found", "2xx", "404", "other"} :
        /\ status = "found" => call.operation = "get" /\ document
        /\ status = "2xx" => took /\ (call.operation = "get" => ~document)
        /\ status = "404" => ~took /\ ~document
        /\ document' = IF took /\ call.operation \in {"put", "delete"}
                         THEN call.operation = "put" ELSE document
        /\ call' = [call EXCEPT !.phase = "answer", !.status = status,
                                !.applied = took, !.seen = @ \cup {document'}]
  BY DEF Serve
<1>2. /\ TypeOK /\ call.phase = "send"
      /\ UNCHANGED <<env, server, generation>>
      /\ document \in BOOLEAN /\ document' \in BOOLEAN
      /\ document \in call.seen
      /\ call.operation \in {"get", "put", "delete", "sms"}
  BY <1>1 DEF Serve, DInv, TypeOK, Held, Operations, processVars
<1>3. /\ call'.phase = "answer" /\ call'.status = status
      /\ call'.applied = took /\ call'.seen = call.seen \cup {document'}
      /\ call'.since = call.since /\ call'.result = call.result
      /\ call'.operation = call.operation /\ call'.adapter = call.adapter
      /\ call'.credentials = call.credentials
  BY <1>1, <1>2 DEF TypeOK
<1>4. TypeOK'
  BY <1>1, <1>2 DEF TypeOK
<1>5. Accepted' /\ ServesOnlyReady'
  BY <1>2, <1>3, SameProcess DEF DInv, ServesOnlyReady, Held
<1>6. Held' /\ WholeCredentials' /\ OutcomesAreTrue'
  BY <1>2, <1>3 DEF DInv, Held, WholeCredentials, OutcomesAreTrue, Operations
<1>7. AnswerSound'
  <2>1. CASE status = "found"
    BY <1>1, <1>2, <1>3, <2>1 DEF AnswerSound
  <2>2. CASE status = "404"
    BY <1>1, <1>2, <1>3, <2>2 DEF AnswerSound
  <2>3. CASE status = "2xx" /\ call.operation \in {"put", "sms"}
    BY <1>1, <1>3, <2>3 DEF AnswerSound
  <2>4. CASE status = "2xx" /\ call.operation \in {"get", "delete"}
    <3>1. document' = FALSE
      BY <1>1, <1>2, <2>4
    <3> QED
      BY <1>3, <2>4, <3>1 DEF AnswerSound
  <2>5. CASE status = "other"
    BY <1>3, <2>5 DEF AnswerSound
  <2> QED
    BY <1>2, <2>1, <2>2, <2>3, <2>4, <2>5
<1> QED
  BY <1>4, <1>5, <1>6, <1>7 DEF DInv

(* The answer is read: what counts as a success is one.                    *)
LEMMA AnswerRead ==
    ASSUME DInv, Answer PROVE DInv'
<1>1. PICK result \in {"ok", "found", "failed"} :
        /\ End(result)
        /\ result # "failed" => Success(call.status)
        /\ (result = "found") <=> (Success(call.status) /\ call.status = "found")
  BY DEF Answer, Success
<1>2. result = "ok" => IF call.operation \in {"put", "sms"}
                         THEN call.applied ELSE FALSE \in call.seen
  BY <1>1 DEF DInv, AnswerSound, Answer, Success
<1>3. result = "found" => call.operation = "get" /\ TRUE \in call.seen
  BY <1>1 DEF DInv, AnswerSound, Answer
<1> QED
  BY <1>1, <1>2, <1>3, EndSound DEF Results

(* Others write, and add to what was seen.                                 *)
LEMMA OthersSound ==
    ASSUME DInv, Others PROVE DInv'
<1>1. /\ TypeOK /\ document' = ~document /\ document' \in BOOLEAN
      /\ UNCHANGED <<env, server, generation>>
  BY DEF Others, DInv, TypeOK, processVars
<1>2. CASE call.phase \in {"none", "done"}
  <2>1. UNCHANGED call
    BY <1>2 DEF Others
  <2>2. TypeOK'
    BY <1>1, <2>1 DEF TypeOK
  <2>3. Accepted' /\ ServesOnlyReady'
    BY <1>1, <2>1, SameProcess DEF DInv, ServesOnlyReady, IsAws
  <2> QED
    BY <1>1, <1>2, <2>1, <2>2, <2>3 DEF DInv, Held, AnswerSound,
       WholeCredentials, OutcomesAreTrue
<1>3. CASE call.phase \notin {"none", "done"}
  <2>1. call' = [call EXCEPT !.seen = @ \cup {document'}]
    BY <1>3 DEF Others
  <2>2. /\ call'.phase = call.phase /\ call'.status = call.status
        /\ call'.applied = call.applied /\ call'.seen = call.seen \cup {document'}
        /\ call'.since = call.since /\ call'.result = call.result
        /\ call'.operation = call.operation /\ call'.adapter = call.adapter
        /\ call'.credentials = call.credentials
    BY <1>1, <2>1 DEF TypeOK
  <2>3. TypeOK'
    BY <1>1, <2>1 DEF TypeOK
  <2>4. Accepted' /\ ServesOnlyReady'
    BY <1>1, <2>2, SameProcess DEF DInv, ServesOnlyReady, IsAws
  <2>5. Held' /\ AnswerSound' /\ WholeCredentials' /\ OutcomesAreTrue'
    BY <1>1, <1>3, <2>2 DEF DInv, Held, AnswerSound, WholeCredentials,
       OutcomesAreTrue, Operations
  <2> QED
    BY <2>3, <2>4, <2>5 DEF DInv
<1> QED
  BY <1>2, <1>3

(* main reads the environment once.                                        *)
LEMMA MainSound ==
    ASSUME DInv, Main PROVE DInv'
<1>1. /\ UNCHANGED <<env, generation, document, call>>
      /\ server' = IF ValidRuntimeConfig THEN "serving" ELSE "fatal"
  BY DEF Main
<1>2. ValidRuntimeConfig' = ValidRuntimeConfig
  BY <1>1 DEF ValidRuntimeConfig, StoreValid, SmsValid, StoreDriver,
     SmsProvider, ProjectID, Either, Set
<1>3. ValidRuntimeConfig => OtpReady' /\ SessionReady' /\ CallersKnown'
  BY <1>1 DEF ValidRuntimeConfig, RequiredStrongSecrets, OtpReady,
     SessionReady, CallersKnown, Set
<1>4. ServesOnlyReady'
  BY <1>1, <1>3 DEF DInv, ServesOnlyReady, IsAws, StaticKeys, NoEndpoint,
     HalfSet, Set
<1>5. TypeOK' /\ Accepted'
  BY <1>1, <1>2 DEF DInv, TypeOK, Accepted
<1> QED
  BY <1>1, <1>4, <1>5 DEF DInv, Held, AnswerSound, WholeCredentials,
     OutcomesAreTrue, Operations

(* Every step keeps the invariant.                                         *)
LEMMA DeploymentStep ==
    ASSUME DInv, [Next]_deploymentVars PROVE DInv'
<1>1. TypeOK /\ MaxGeneration \in Nat /\ generation \in Nat
  BY DeploymentAssumption DEF DInv, TypeOK
<1>2. CASE Main
  BY <1>2, MainSound
<1>3. ASSUME NEW adapter \in Adapters, NEW operation \in Operations(adapter),
             Begin(adapter, operation)
      PROVE  DInv'
  BY <1>3, BeginSound
<1>4. CASE ResolveStatic
  <2>1. PICK c \in Credentials, s \in {Here, Platform} :
          Call("send", c) /\ {c.id, c.secret, c.token} \ {Nowhere} = {s}
    <3>1. Here # Nowhere /\ Here \in Source /\ Nowhere \in Source
      BY <1>1, CredentialTypes DEF Here, Nowhere
    <3> HIDE DEF Here
    <3>2. PICK u \in {Here, Nowhere} :
            Call("send", [id |-> Here, secret |-> Here, token |-> u])
      BY <1>4 DEF ResolveStatic
    <3> DEFINE c == [id |-> Here, secret |-> Here, token |-> u]
    <3>3. c \in Credentials /\ {c.id, c.secret, c.token} \ {Nowhere} = {Here}
      BY <3>1, <3>2 DEF Credentials
    <3> HIDE DEF c
    <3> QED
      BY <3>2, <3>3 DEF c
  <2> QED
    BY <1>4, <2>1, CallSound DEF ResolveStatic
<1>5. CASE AskPlatform
  BY <1>1, <1>5, CallSound, CredentialTypes DEF AskPlatform
<1>6. CASE PlatformAnswers
  <2>1. PICK c \in Credentials, s \in {Here, Platform} :
          Call("send", c) /\ {c.id, c.secret, c.token} \ {Nowhere} = {s}
    BY <1>1, <1>6, CredentialTypes
       DEF PlatformAnswers, ContainerCredentials, NoCredentials, Credentials,
           Platform, Nowhere
  <2> QED
    BY <1>6, <2>1, CallSound DEF PlatformAnswers
<1>7. CASE NothingToAsk \/ TokenFileFails \/ PlatformFails
  <2>1. \E result \in {"not_configured", "no_credentials"} :
          /\ End(result) /\ call.phase \in {"resolve", "asking"}
          /\ result = "not_configured" => IsAws /\ ~StaticKeys /\ NoEndpoint
    BY <1>7 DEF NothingToAsk, TokenFileFails, PlatformFails
  <2> QED
    BY <2>1, EndSound DEF DInv, Held, Results
<1>8. CASE Serve \/ Answer \/ Others
  BY <1>8, ServeSound, AnswerRead, OthersSound
<1>9. CASE Break
  BY <1>9, EndSound DEF Break, Results
<1>10. CASE Rotate
  <2>1. generation' = generation + 1 /\ UNCHANGED <<env, server, document, call>>
    BY <1>10 DEF Rotate
  <2>2. TypeOK'
    BY <1>1, <1>10 DEF Rotate, TypeOK
  <2>3. Accepted' /\ ServesOnlyReady'
    BY <2>1, SameProcess DEF DInv, ServesOnlyReady, IsAws
  <2>4. call.since \in Nat
    BY <1>1 DEF TypeOK
  <2>5. AnswerSound' /\ OutcomesAreTrue'
    BY <2>1 DEF DInv, AnswerSound, OutcomesAreTrue
  <2>6. Held'
    <3>1. call.since <= generation'
      BY <1>1, <2>1, <2>4 DEF DInv, Held
    <3> QED
      BY <2>1, <3>1 DEF DInv, Held, Operations
  <2>7. WholeCredentials'
    BY <1>1, <2>1, <2>4 DEF DInv, WholeCredentials, TypeOK, Credentials, Source
  <2> QED
    BY <2>2, <2>3, <2>5, <2>6, <2>7 DEF DInv
<1>11. CASE UNCHANGED deploymentVars
  <2>1. UNCHANGED <<env, server, generation, document, call>>
    BY <1>11 DEF deploymentVars
  <2>2. Accepted' /\ ServesOnlyReady'
    BY <2>1, SameProcess DEF DInv, ServesOnlyReady, IsAws
  <2>3. TypeOK'
    BY <1>1, <2>1 DEF TypeOK
  <2>4. Held' /\ AnswerSound'
    BY <2>1 DEF DInv, Held, AnswerSound, Operations
  <2>5. WholeCredentials' /\ OutcomesAreTrue'
    BY <2>1 DEF DInv, WholeCredentials, OutcomesAreTrue
  <2> QED
    BY <2>2, <2>3, <2>4, <2>5 DEF DInv
<1> QED
  BY <1>2, <1>3, <1>4, <1>5, <1>6, <1>7, <1>8, <1>9, <1>10, <1>11 DEF Next

-----------------------------------------------------------------------------
(* The theorems.                                                           *)

(* The invariant holds in every reachable state.                           *)
LEMMA DeploymentInvariant == Spec => []DInv
BY DeploymentInit, DeploymentStep, PTL DEF Spec

(* The process, its environment and its calls keep their types.            *)
THEOREM DeploymentTypeCorrect == Spec => []TypeOK
<1>1. DInv => TypeOK
  BY DEF DInv
<1> QED
  BY <1>1, DeploymentInvariant, PTL

(* What start-up accepts (main.go validateRuntimeConfig), no component     *)
(* refuses afterwards for want of configuration, but for the credentials   *)
(* of AWS: neither keys nor an endpoint, or half a pair of keys with SNS.  *)
THEOREM ServingIsReady == Spec => []ServesOnlyReady
<1>1. DInv => ServesOnlyReady
  BY DEF DInv
<1> QED
  BY <1>1, DeploymentInvariant, PTL

(* Whatever is set and whenever the platform rotates its credentials, a    *)
(* call uses those of one source and time (credentials.go Resolve).        *)
THEOREM CredentialsStayWhole == Spec => []WholeCredentials
<1>1. DInv => WholeCredentials
  BY DEF DInv
<1> QED
  BY <1>1, DeploymentInvariant, PTL

(* Whatever the store answers, and whoever else writes meanwhile: a write  *)
(* or a message that succeeds was done, a read or a delete that succeeds   *)
(* is true of the document at some time during the call (firestore.go and  *)
(* dynamodb.go, the clients of both providers).                            *)
THEOREM OutcomesStayTrue == Spec => []OutcomesAreTrue
<1>1. DInv => OutcomesAreTrue
  BY DEF DInv
<1> QED
  BY <1>1, DeploymentInvariant, PTL
=============================================================================
