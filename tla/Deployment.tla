------------------------------- MODULE Deployment -------------------------------
(***************************************************************************)
(* cmd/server/main.go, the clients of the remote store and of the SMS      *)
(* provider, and internal/adapters/awsutil: which environments the process *)
(* starts serving in, with what credentials a remote call is made, and     *)
(* what its caller is told of it.  Calls share nothing in the process: one *)
(* at a time stands for them all, and what other calls do to its document  *)
(* can happen at any time.                                                 *)
(***************************************************************************)
EXTENDS Integers, FiniteSets

CONSTANTS
    Environments,  \* the environments the process is started in
    MaxGeneration  \* bound on the credentials the platform hands out

Keys == {"AWS_ACCESS_KEY_ID", "AWS_SECRET_ACCESS_KEY"}

Twilio == {"TWILIO_ACCOUNT_SID", "TWILIO_API_KEY_SID",
           "TWILIO_API_KEY_SECRET", "TWILIO_MESSAGING_SERVICE_SID"}

Projects == {"GCP_PROJECT_ID", "GOOGLE_CLOUD_PROJECT"}

Uris == {"AWS_CONTAINER_CREDENTIALS_FULL_URI",
         "AWS_CONTAINER_CREDENTIALS_RELATIVE_URI"}

Names == {"STORE_DRIVER", "SMS_PROVIDER", "AWS_REGION", "DYNAMODB_TABLE",
          "SMS_OTP_SERVICE_API_TOKEN", "SMS_OTP_SECRET",
          "SMS_PHONE_HASH_SECRET", "SMS_MFA_SESSION_SECRET",
          "AWS_SESSION_TOKEN", "AWS_CONTAINER_AUTHORIZATION_TOKEN_FILE"}
         \cup Keys \cup Twilio \cup Projects \cup Uris

(* A value, trimmed: nothing, a text of less than 32 bytes, a longer one,  *)
(* or one of the names the code knows.  "amazon_sns" stands for all three. *)
Values == {"", "short", "strong", "memory", "firestore", "dynamodb",
           "twilio", "amazon_sns"}

ASSUME DeploymentAssumption ==
    /\ Environments \subseteq [Names -> Values]
    /\ MaxGeneration \in Nat

VARIABLES
    env,         \* the variables of the process
    server,      \* what main has come to
    generation,  \* of the credentials the platform hands out now
    document,    \* is there a document under the key of the call
    call         \* a call to the store or the SMS provider

deploymentVars == <<env, server, generation, document, call>>

processVars == <<env, server, generation>>

-----------------------------------------------------------------------------
(* Start-up.                                                               *)

Set(name) == env[name] # ""

Either(name, fallback) == IF Set(name) THEN env[name] ELSE fallback

ProjectID == \E name \in Projects : Set(name)

StoreDriver == Either("STORE_DRIVER", "firestore")

SmsProvider == Either("SMS_PROVIDER", "twilio")

StoreValid ==
    \/ StoreDriver = "memory"
    \/ StoreDriver = "dynamodb" /\ Set("AWS_REGION") /\ Set("DYNAMODB_TABLE")
    \/ StoreDriver = "firestore" /\ ProjectID

(* Deviation: the session secret was added and forgotten here. *)
SecretsBeforeSessions ==
    {"SMS_OTP_SERVICE_API_TOKEN", "SMS_OTP_SECRET", "SMS_PHONE_HASH_SECRET"}

RequiredStrongSecrets ==
    {"SMS_OTP_SERVICE_API_TOKEN", "SMS_OTP_SECRET", "SMS_PHONE_HASH_SECRET",
     "SMS_MFA_SESSION_SECRET"}

SmsValid ==
    \/ SmsProvider = "amazon_sns" /\ Set("AWS_REGION")
    \/ SmsProvider = "twilio" /\ \A name \in Twilio : Set(name)

ValidRuntimeConfig ==
    /\ StoreValid
    /\ \A name \in RequiredStrongSecrets : env[name] = "strong"
    /\ SmsValid

(* Everything main builds afterwards is built from the same variables. *)
Main ==
    /\ server = "starting"
    /\ server' = IF ValidRuntimeConfig THEN "serving" ELSE "fatal"
    /\ UNCHANGED <<env, generation, document, call>>

-----------------------------------------------------------------------------
(* A remote call.                                                          *)

Source == [from : {"nowhere", "environment", "platform"},
           generation : 0 .. MaxGeneration]

Nowhere == [from |-> "nowhere", generation |-> 0]

Here == [from |-> "environment", generation |-> 0]

Platform == [from |-> "platform", generation |-> generation]

Credentials == [id : Source, secret : Source, token : Source]

NoCredentials == [id |-> Nowhere, secret |-> Nowhere, token |-> Nowhere]

(* seen is a history: whether there was a document, at any time since the  *)
(* call began.                                                             *)
NoCall == [adapter |-> "none", operation |-> "none", phase |-> "none",
           since |-> 0, credentials |-> NoCredentials, status |-> "none",
           seen |-> {}, applied |-> FALSE, result |-> "none"]

Adapters == {StoreDriver, SmsProvider} \ {"memory"}

Operations(adapter) ==
    IF adapter \in {"firestore", "dynamodb"} THEN {"get", "put", "delete"}
                                             ELSE {"sms"}

Aws == {"dynamodb", "amazon_sns"}

IsAws == call.adapter \in Aws

StaticKeys == \A name \in Keys : Set(name)

HalfSet == ~StaticKeys /\ \E name \in Keys : Set(name)

NoEndpoint == \A name \in Uris : ~Set(name)

(* What the client of an adapter asks of its own configuration before      *)
(* anything else; the names of the table and the collection have defaults. *)
DynamoDBConfigured == Set("AWS_REGION")

SnsConfigured == Set("AWS_REGION") /\ ~HalfSet

TwilioConfigured == \A name \in Twilio : Set(name)

Configured(adapter) ==
    /\ adapter = "dynamodb" => DynamoDBConfigured
    /\ adapter = "amazon_sns" => SnsConfigured
    /\ adapter = "twilio" => TwilioConfigured

Call(phase, credentials) ==
    /\ call' = [call EXCEPT !.phase = phase, !.credentials = credentials]
    /\ UNCHANGED <<processVars, document>>

End(result) ==
    /\ call' = [call EXCEPT !.phase = "done", !.result = result]
    /\ UNCHANGED <<processVars, document>>

Begin(adapter, operation) ==
    /\ server = "serving"
    /\ call.phase \in {"none", "done"}
    /\ LET begun == [NoCall EXCEPT !.adapter = adapter, !.operation = operation,
                                   !.since = generation, !.seen = {document}]
       IN  call' = IF Configured(adapter)
                     THEN [begun EXCEPT !.phase = "resolve"]
                     ELSE [begun EXCEPT !.phase = "done",
                                        !.result = "not_configured"]
    /\ UNCHANGED <<processVars, document>>

(* Both keys, or neither, are taken from the environment. *)
ResolveStatic ==
    /\ call.phase = "resolve"
    /\ (IsAws /\ StaticKeys) \/ call.adapter = "twilio"
    /\ Call("send", [id |-> Here, secret |-> Here, token |->
         IF IsAws /\ Set("AWS_SESSION_TOKEN") THEN Here ELSE Nowhere])

(* Not both keys, and no endpoint that could be asked for others. *)
NothingToAsk ==
    /\ call.phase = "resolve"
    /\ IsAws /\ ~StaticKeys /\ NoEndpoint
    /\ End("not_configured")

(* The file with the token for the endpoint cannot be read. *)
TokenFileFails ==
    /\ call.phase = "resolve"
    /\ IsAws /\ ~StaticKeys /\ ~NoEndpoint
    /\ Set("AWS_CONTAINER_AUTHORIZATION_TOKEN_FILE")
    /\ End("no_credentials")

AskPlatform ==
    /\ call.phase = "resolve"
    /\ \/ call.adapter = "firestore"
       \/ IsAws /\ ~StaticKeys /\ ~NoEndpoint
    /\ Call("asking", NoCredentials)

(* Deviation: the session token is still the environment's. *)
MixedCredentials ==
    [id |-> Platform, secret |-> Platform,
     token |-> IF Set("AWS_SESSION_TOKEN") THEN Here ELSE Platform]

(* Deviation: the session token is left out. *)
KeysOnly == [id |-> Platform, secret |-> Platform]

(* The container's answer, of which the token may be blank. *)
ContainerCredentials ==
    [id |-> Platform, secret |-> Platform, token |-> Platform]

PlatformAnswers ==
    /\ call.phase = "asking"
    /\ \/ IsAws /\ \E c \in {ContainerCredentials,
                             [ContainerCredentials EXCEPT !.token = Nowhere]} :
                     Call("send", c)
       \/ ~IsAws /\ Call("send", [NoCredentials EXCEPT !.token = Platform])

(* An error, another status than 2xx, or no credentials in the answer. *)
PlatformFails ==
    /\ call.phase = "asking"
    /\ End("no_credentials")

(* The store or the provider handles the request.  Its 2xx tells that it   *)
(* did what was asked; after another status it may have, or not.  404 is   *)
(* said where there is no document: of the document itself, or of the      *)
(* database or account it should be in, and nothing is done then.          *)
Serve ==
    /\ call.phase = "send"
    /\ \E took \in BOOLEAN, status \in {"found", "2xx", "404", "other"} :
         /\ status = "found" => call.operation = "get" /\ document
         /\ status = "2xx" => took /\ (call.operation = "get" => ~document)
         /\ status = "404" => ~took /\ ~document
         /\ document' = IF took /\ call.operation \in {"put", "delete"}
                          THEN call.operation = "put" ELSE document
         /\ call' = [call EXCEPT !.phase = "answer", !.status = status,
                                 !.applied = took, !.seen = @ \cup {document'}]
    /\ UNCHANGED processVars

(* Deviation: what is not there need not be looked for.  *)
MissingIsSuccess(status) ==
    status \in {"found", "2xx"} \/ (call.adapter = "firestore" /\ status = "404")

(* Only Firestore's client takes a missing document for an answer, when it *)
(* reads and when it deletes.                                              *)
Success(status) ==
    \/ status \in {"found", "2xx"}
    \/ /\ call.adapter = "firestore" /\ call.operation \in {"get", "delete"}
       /\ status = "404"

(* The answer arrives. *)
Answer ==
    /\ call.phase = "answer"
    /\ End(IF ~Success(call.status) THEN "failed"
           ELSE IF call.status = "found" THEN "found" ELSE "ok")

(* The connection breaks before or after the request was handled, the      *)
(* context ends, or the body of the answer cannot be used.                 *)
Break ==
    /\ call.phase \in {"send", "answer"}
    /\ End("failed")

(* Another call, the sweeper, or a request whose caller has gone. *)
Others ==
    /\ document' = ~document
    /\ call' = IF call.phase \in {"none", "done"} THEN call
               ELSE [call EXCEPT !.seen = @ \cup {document'}]
    /\ UNCHANGED processVars

(* The platform replaces the credentials it hands out. *)
Rotate ==
    /\ generation < MaxGeneration
    /\ generation' = generation + 1
    /\ UNCHANGED <<env, server, document, call>>

Init ==
    /\ env \in Environments
    /\ server = "starting"
    /\ generation = 0
    /\ document \in BOOLEAN
    /\ call = NoCall

Next ==
    \/ Main
    \/ \E adapter \in Adapters : \E operation \in Operations(adapter) :
         Begin(adapter, operation)
    \/ ResolveStatic \/ NothingToAsk \/ TokenFileFails
    \/ AskPlatform \/ PlatformAnswers \/ PlatformFails
    \/ Serve \/ Answer \/ Break
    \/ Others
    \/ Rotate

Spec == Init /\ [][Next]_deploymentVars

-----------------------------------------------------------------------------

TypeOK ==
    /\ env \in [Names -> Values]
    /\ server \in {"starting", "serving", "fatal"}
    /\ generation \in 0 .. MaxGeneration
    /\ document \in BOOLEAN
    /\ call \in
         [adapter : {"none", "firestore", "dynamodb", "twilio", "amazon_sns"},
          operation : {"none", "get", "put", "delete", "sms"},
          phase : {"none", "resolve", "asking", "send", "answer", "done"},
          since : 0 .. MaxGeneration, credentials : Credentials,
          status : {"none", "found", "2xx", "404", "other"},
          seen : SUBSET BOOLEAN, applied : BOOLEAN,
          result : {"none", "ok", "found", "failed", "not_configured",
                    "no_credentials"}]

(* What the rest of the service asks of its own configuration: ready in    *)
(* usecases.go, Sign and Validate in session.go, authorized in handler.go. *)
OtpReady ==
    env["SMS_OTP_SECRET"] = "strong" /\ env["SMS_PHONE_HASH_SECRET"] = "strong"

SessionReady == env["SMS_MFA_SESSION_SECRET"] = "strong"

CallersKnown == Set("SMS_OTP_SERVICE_API_TOKEN")

(* The checks of main.go and those of the components agree but for the     *)
(* credentials of AWS: what start-up accepts, no component refuses         *)
(* afterwards for want of configuration, unless a pair of keys is missing  *)
(* and there is no endpoint to ask for another, or, which only the SNS     *)
(* client minds, one key of the pair is missing.                           *)
ServesOnlyReady ==
    /\ server = "serving" => OtpReady /\ SessionReady /\ CallersKnown
    /\ call.result = "not_configured" =>
         /\ IsAws /\ ~StaticKeys
         /\ NoEndpoint \/ (call.adapter = "amazon_sns" /\ HalfSet)

(* A request is signed or authorised with credentials that belong          *)
(* together, all of the environment or all of one answer of the platform,  *)
(* and that were current at some time since the call began: nothing is     *)
(* mixed where only some are set, and nothing is kept between calls.       *)
WholeCredentials ==
    call.phase = "send" =>
      LET used == {call.credentials.id, call.credentials.secret,
                   call.credentials.token} \ {Nowhere}
      IN  /\ Cardinality(used) = 1
          /\ \A source \in used :
               source.from = "platform" =>
                 source.generation \in call.since .. generation

(* What the use cases assume of their ports (ChallengeStore, SmsOutcomes), *)
(* although others write meanwhile and some missing documents count as a   *)
(* success: a write or a message that succeeds was done; after a delete    *)
(* that succeeds, and a read that finds nothing, there was no document at  *)
(* some time during the call, and after a read that finds one there was;   *)
(* a call refused before it is sent did nothing.                           *)
OutcomesAreTrue ==
    /\ call.result = "ok" =>
         IF call.operation \in {"put", "sms"} THEN call.applied
                                             ELSE FALSE \in call.seen
    /\ call.result = "found" => call.operation = "get" /\ TRUE \in call.seen
    /\ call.result \in {"not_configured", "no_credentials"} => ~call.applied
=============================================================================
