# Verification of the SMS OTP factor service

TLA+ models of `sms-otp-factor-service`, checked with TLC on small instances
and proved about with TLAPS. Paths below are relative to the repository.

## 1. The system

A trusted backend asks the service to send a one-time code to a phone and later
to verify it; a successful verify returns a signed MFA session token, which the
backend can have validated. Any number of instances may run, each serving
requests concurrently, over one challenge store.

| Part | Source | State | Operations |
|---|---|---|---|
| Domain | `internal/domain/smsotp` | none | policy accessors, normalisation, challenge key, expiry and attempt tests |
| Send and Verify | `internal/application/smsotp/usecases.go` | none of its own; local variables between calls | `Send`, `Verify` |
| Stores | `internal/adapters/store` | one document per key | `GetChallenge`, `PutChallenge`, `DeleteChallenge` |
| SMS gateways | `internal/adapters/sms` | none | `SendSMS` |
| Session | `internal/application/smsotp/session.go` | none (the token is the state) | `Sign`, `Validate` |
| HTTP handler | `internal/adapters/httpapi` | none; the request it serves and its context | routing, authorisation, decoding, answers, timeout |
| Start-up | `cmd/server` | the environment of the process | defaults, validation, wiring |
| AWS helpers | `internal/adapters/awsutil` | none; the platform rotates what it hands out | credential lookup, SigV4 |

The parts meet in the store: nothing else is shared. `Send` reads the document
of a key, decides on the rate limit, writes a new document and sends the SMS.
`Verify` reads the document, judges it, and writes it back with one attempt more
or deletes it. The handler turns a request into one of these, translates the
result into an answer, and after a successful `Verify` has the session service
sign a token. No write has a condition and nothing is locked across two calls, so
the difficult behaviours are:

* two handlers between their read and their write on the same key;
* calls that fail although they took effect, or take effect after the caller
  has gone on (remote stores, SMS provider), and errors the code discards
  (`usecases.go:54`, `:106`, `:110`, `:120`);
* the timeout middleware, which answers and cancels while the handler goes on, and
  which may cut in between the redeemed code and the signed token;
* crashes, and the memory store, which forgets;
* different wall clocks, and the rounding to seconds in session tokens and in the
  expiry that DynamoDB sweeps by;
* two identities with one key, since `subject|purpose` is hashed as joined text;
* configuration that is checked once at start-up and again, by other rules, in each
  component; credentials that change under a call.

What makes each part correct:

* Send and Verify: nobody acts on a challenge other than his own; stored
  challenges are ones that were issued; limits are kept and refusals are
  deserved; a code is used once, in time, and its SMS follows its storage.
* Stores: a read gives the last document written, or an error; only an expired
  document disappears by itself.
* Session: a token is valid for its subject under its secret for the time
  promised, and no longer.
* Handler: a session is confirmed only for a subject whose code was accepted; every
  answer tells the caller the truth about his code, and each gets one; every handler
  ends.
* Start-up and remote calls: what start-up accepts, no component refuses afterwards;
  a call uses credentials that belong together; what it reports happened.

`PROJECT.json` lists the hazards at their lines.

## 2. The modules

| Module | Models | Role |
|---|---|---|
| `OtpDomain` | `policy.go`, `challenge.go`, the two digests of `usecases.go` | pure definitions |
| `ChallengeStore` | the three repositories and what happens around them | state: `challenges`, `stray` |
| `OtpService` | `Send`, `Verify`, the timeout, crashes, the clock | state: `req`, `clock`, `answer`, `ledger` |
| `ChallengeLedger` | what the challenges are for | abstract specification |
| `OtpProperties` | the properties of the service, its invariants, its refinement of the ledger | |
| `MfaSession` | `session.go` | state: `clock`, `secret`, `signed` |
| `HttpApi` | `handler.go`, over `OtpService` and `MfaSession` | state: `http`, `reply`; properties and fairness of the whole |
| `Deployment` | `main.go`, the clients of the stores and of the SMS providers, `credentials.go` | state: `env`, `server`, `generation`, `document`, `call` |
| `MCOtp`, `MCSession`, `MCHttp`, `MCDeployment` | the small instances | |
| `OtpProofs`, `OtpInvariant`, `OtpExclusive`, `OtpDeletion`, `LedgerProofs` | theorems about `OtpService` | each extends the one before |
| `SessionProofs`, `HttpProofs`, `DeploymentProofs` | theorems about the other three | `HttpProofs` uses `SessionProofs` |

`OtpService` extends `ChallengeStore`, which extends `OtpDomain`; it composes
handlers, store, provider and clock. `MfaSession` extends `OtpDomain` alone.
`HttpApi` composes the two: it extends `OtpService` and instantiates `MfaSession`
on the same clock. Each of its actions conjoins an action of a component with what
the handler does about it, so that `HttpProofs` can show every behaviour of the
API to be one of each component. `Deployment` stands beside them: it justifies
what they assume of the process (`Ready`, a secret that can sign) and of the
outcomes of remote calls.

### Correspondence with the code

*Handlers.* `req[w]` is a request being served: its program counter and the
locals the Go code keeps across a call. A handler step is the code from the
return of one external call to the return of the next, so every interleaving
point of the program is one of the model. For `Send`: `send_get` (about to read),
`send_put`, `send_sms`. For `Verify`: `verify_get`, `judge` (the challenge is
read, the clock not yet), then `purge` (expired or out of attempts), `bump`
(wrong code) or `redeem` (right code). Clock readings are taken where the code
takes them: before the read in `Send` (line 51), after it in `Verify` (line 104).

*Store.* `challenges[k]` is the document under `k`. A write on a remote store
ends in one of four ways: ok; an error and not applied; an error and applied; an
error and applied later (it waits in `stray` and `Land` applies it). A cancelled
context always gives an error. A read gives the document or, on a remote store,
an error; both a missing document and an error are `None`, since no caller tells
them apart. DynamoDB adds the sweeper on `expires_at` and the 4096 bytes its
client reads of an answer (`LongText` holds the subjects that do not fit). It stores
that instant in whole seconds, rounded down (`SweepTime`), so that it may remove a
document up to a second before the code in it ends; the expiry a code is judged by
is in the payload and not rounded.

*Requests.* `http[w]` is the request that handler `w` serves, and its stage: in the
use case, or signing (the code is redeemed, `Sign` is still to come). `late` says
that its context has ended, `open` that no answer was given yet. `GiveUp` is
`http.TimeoutHandler` answering 503 in place of a late handler; the handler goes on,
and what it answers then is dropped. Both may be next, so either can win. `reply` is
what a step tells a caller, with the code that the request issued or redeemed, which
`AnswersAreTrue` compares with the history. Authorisation, body and route are tested
in the code's order; a body is well formed or not, as `decodeJSON` finds it.

*Process and calls.* `env` gives each variable a value up to what the code tells
apart: nothing, too short for a secret, long enough, or a name the code knows.
`call` is a call to the store or the provider: the client's own configuration test,
the lookup of credentials (static keys, or the platform, which the container
endpoint or the metadata server stands for), and the request itself. A lookup with
neither a pair of keys nor an endpoint to ask ends the call (`NothingToAsk`,
`credentials.go:57-59`). `Serve` is the other side: it acts on the request or not,
and answers with a document, another 2xx, 404 or an error. What it cannot answer is
an assumption on those services: a 2xx without having acted, a 404 where there is a
document. `Success` is what the client makes of the status: Firestore's takes a 404
for success when it reads or deletes (`firestore.go:37`, `:105`), and not when it
writes, where 404 means that the database is missing. `Break` is a connection that
ends, before or after the request was handled, or an answer that cannot be used.
`document` says whether there is a document under the call's key. `Others` may write
or remove it at any time, as other handlers and the sweeper do, and `call.seen`
records what it was in the course of the call, which is all a caller can rely on.
`Rotate` replaces what the platform hands out, at any time. Calls share nothing else
in the process, so one at a time stands for all.

*Data.* A text is one of a few values; `Trim`, `DigitLen` and `E164` say what the
code computes from its characters. Digests are keyed and taken as collision free:
a digest is the record of its inputs. The challenge key is different: its input
is joined text, and `KeyOf` may give two identities one key, as `"a|b"` with `"c"`
and `"a"` with `"b|c"` have.

*History.* `ledger` and `answer` are not in the program. `ledger[n]` records, for
the challenge with nonce `n`, what was issued, when, whether the store
acknowledged it, whether the SMS may have left, how often its code was accepted
and how many wrong guesses were acknowledged. No guard that models code reads it,
except that a nonce is never drawn twice (24 random bytes).

*Deviations.* Definitions marked `Deviation` are deliberately wrong variants of
the definition after them: an off-by-one, a dropped guard, an ignored error.
Nothing uses them. Put in place of the right definition, each one breaks the
property `PROJECT.json` lists with it, which shows that the property notices that
mistake in the code.

## 3. What is checked

Every run is `tlc -config <run>.cfg <module>`.

| Run | Store | Shows |
|---|---|---|
| `faults` | Firestore | Two overlapping handlers, two identities on one key, lost and late writes, timeouts, crashes: `TypeOK`, `Provenance`, `CountersBounded`, `ActsForOwner` |
| `defaults` | DynamoDB | The unset policy, which is the one `cmd/server` wires, with the sweeper, a late write and clocks one unit off the true time: `Lifetime`, and `LimitsAsDocumented`, which states five minutes, five attempts and six digits in numbers |
| `rate` | Firestore | Three nonces, a window of two units, overlapping sends: `PutBeforeSms`, `RefusalEarned` |
| `exclusive` | DynamoDB | Requests on a key do not overlap, no late writes: `SingleUse`, `GuessBudget`, `DeletionJustified` |
| `ledger` | Firestore | Same assumptions: `ImplementsLedger` |
| `session` | - | `TypeOK`, `NeverTooLong`, `NotCutShort` |
| `http` | Firestore | The composed service behind its API, under fairness: `HttpTypeOK`, `VouchedFor`, `AnswersAreTrue`, `AnsweredOnce`, `HandlersFinish` |
| `deployment` | each | Start-up and remote calls in about seven thousand environments, while others write to the same document: `TypeOK`, `ServesOnlyReady`, `WholeCredentials`, `OutcomesAreTrue` |
| `replay` | memory | **violated:** `SingleUse`, if two Verify calls overlap |
| `guesses` | memory | **violated:** `GuessBudget`, if two Verify calls overlap |
| `sendcap` | DynamoDB | **violated:** `SendCap`, for items too long to be read |
| `catalog` | Firestore | **violated:** `FormatErrorsNamed`, for a code of the wrong length |

### The four violated runs

Each one checks what a document of the repository says against what the code does.

* `replay`. `docs/nist-security-profile.md:33` promises to "Prevent repeated use
  of a valid OTP" because verification deletes the challenge. Two Verify calls
  can both read it first, and a delete of a missing document succeeds.
* `guesses`. The same document, line 34, limits guessing by "maximum failed
  attempts". Overlapping wrong guesses write back the same count.
* `sendcap`. `README.md:281` promises "window 10 min, max 3 sends". `Send`
  ignores the error of its read, and a DynamoDB item over 4096 bytes gives an
  error at every read, so each send counts as the first.
* `catalog`. `docs/error-catalog.md:21` lists "invalid OTP format" under
  `invalid_request`. `Verify` answers every field it does not accept with
  `invalid_code` (`usecases.go:95-97`), which by the catalog is a wrong code.

`exclusive` is the other half of the first two: the same properties hold, with
every fault but late writes, as long as the caller does not overlap requests on
one key. The service itself does not enforce that.

### Bounds, and why they are enough

* Two handlers. Every race here is between two read-write pairs on one document;
  a third handler repeats one of them. The theorems of section 5 are for any
  number.
* Two nonces (an old code and a new one), three where a series of sends matters,
  one where only time does. Two codes: the right one and a wrong one.
* Two identities on one key, and a second key that no other identity shares.
  `exclusive` also has requests of one identity with the phone of the other; with
  overlapping handlers these rest on the theorem `OwnersOnly`.
* `MaxStray` is 1 in `faults` and `defaults`: one write in flight can already
  overtake a newer one. Elsewhere it is 0 either because the property assumes it or
  because late writes do not touch it (`rate`: the proof covers the rest).
* `CountCap` bounds the two history counters. Where a property counts, it is above
  the limit the property states; `http` asks only whether a code was used.
* `MaxClock`: `defaults` runs past the five minutes, in minutes, and `rate` past
  its window; in `faults` time stands still, so that only interleaving and failure
  are explored.
* `Second` is two clock units in `exclusive`, with a TTL of two: a document can be
  swept in the second before its code ends, and not before that second. It is one
  unit where the rounding is not in question.
* Small policies (one or two sends, attempts, units) reach every limit. `defaults`
  has the real numbers with one handler and one nonce: time, attempts and length are
  reached, the default window and maximum of sends are not (three sends in ten
  minutes are too many states) and no property states their numbers.
* `http` and `catalog`: requests that reach every answer of the handler, a subject
  whose code can be redeemed and one for whom only a session is validated, two
  session secrets of which one is too weak, one nonce and one code of six digits
  (what codes do to each other is the business of `faults` and `exclusive`).
  `MaxTokens` does not bind there. A body is taken as arrived when it is read
  (section 6). A caller who hangs up ends the context as the timer does. That a new
  deployment changes the session secret is explored in `session`.
* `deployment`: complete environments for every pair of a store and a provider, in
  which up to two values are missing, or any set of those that AWS credentials come
  from, and one value is too short (for a driver: unknown). Two rotations give a
  call an older and a newer credential than its own.
* `SYMMETRY` permutes handlers, nonces and, where no definition tells them apart,
  codes. `http`, which checks liveness, uses none.
* `session`: two tokens suffice, since a presented token is put together from at
  most two; a second has two clock units, so tokens are signed on the second and
  between seconds. Secrets include one that is too short and one with a blank.

Deadlock is checked in every run but `deployment`, where `log.Fatal` ends the
process: a free handler can always take up a request, which may be refused or fail
before it draws a nonce, and a deployment can always change.

## 4. Fairness

`FairHttpSpec` assumes of each handler that its timer fires (`Expire`), that
`TimeoutHandler` answers when it has (`GiveUp`), that once its context has ended its
current call returns (`late` and `Inner`), and that signing, which is local
computation, ends (`SignToken` or `SignFails`). The first two are what
`http.TimeoutHandler` does after the 20 s of `cmd/server`; the third is what Go's
HTTP client guarantees for a request made with that context, and what the code lets
it guarantee by handing `ctx` to every call. Nothing else is fair: a store or a
provider may hang for ever and no SMS need ever be sent. Replacing the provider's
call by one that ignores the context (`SmsUnbounded`) breaks `HandlersFinish`.

## 5. What is proved

For every value of the constants: any number of handlers, keys, nonces and texts,
any policy, each driver, any skew, any number of late writes. The assumptions are
the named `ASSUME`s of the modules, which TLC evaluates on the instances.

| Theorem | Module | States |
|---|---|---|
| `TypeCorrect` | `OtpProofs` | `Spec => []TypeOK` |
| `Invariant` | `OtpInvariant` | `Spec => []IInv` |
| `ProvenanceHolds`, `CountersStayBounded`, `OwnersOnly`, `CodesExpire`, `StoredBeforeSent` | `OtpInvariant` | the invariants of the first group of `OtpProperties` |
| `RefusalsAreEarned` | `OtpInvariant` | the action property `RefusalEarned` |
| `DefaultsAsDocumented` | `OtpInvariant` | `Spec => []LimitsAsDocumented`, assuming that no policy was injected (`Uninjected`) |
| `CodesAreUsedOnce`, `GuessesAreLimited` | `OtpExclusive` | `SingleUse` and `GuessBudget`, assuming `Exclusive` |
| `DeletionsAreJustified` | `OtpDeletion` | the action property `DeletionJustified`, assuming `Exclusive` and a remote store |
| `ServiceImplementsLedger` | `LedgerProofs` | the refinement `ImplementsLedger`, assuming `Exclusive` and Firestore (`Serialized`) |
| `SessionTypeCorrect`, `SessionsEnd`, `SessionsLast` | `SessionProofs` | `TypeOK`, `NeverTooLong` and `NotCutShort` of `MfaSession` |
| `ImplementsUseCases`, `ImplementsSessions` | `HttpProofs` | `HttpSpec => Spec` of `OtpService`, `HttpSpec => Spec` of `MfaSession` |
| `ApiSessionsEnd`, `ApiSessionsLast` | `HttpProofs` | `HttpSpec => []NeverTooLong`, `HttpSpec => []NotCutShort` of the tokens of the API |
| `HttpTypeCorrect` | `HttpProofs` | `HttpSpec => []HttpTypeOK` |
| `SessionsVouchedFor`, `CallersToldTheTruth` | `HttpProofs` | `HttpSpec => []VouchedFor`, `HttpSpec => []AnswersAreTrue` |
| `OneAnswerEach` | `HttpProofs` | the action property `AnsweredOnce` |
| `DeploymentTypeCorrect` | `DeploymentProofs` | `Spec => []TypeOK` of `Deployment` |
| `ServingIsReady`, `CredentialsStayWhole`, `OutcomesStayTrue` | `DeploymentProofs` | `ServesOnlyReady`, `WholeCredentials`, `OutcomesAreTrue` |

### The arguments

*The inductive invariant `IInv`.* None of the properties is inductive alone. The
centre is `Provenance`: every copy of a challenge, stored, held or in flight, is
the issued one with another attempt count. It survives write-backs and late
writes because each of them writes a copy that is already there. From it the rest
follows by looking at the issue instead of the copy. `LedgerSound` says that an
issue is well formed: its hash is of its own fields, its expiry is its sending
time plus the TTL, its sending time is within the skew of its birth. With that,
`Lifetime` needs only the judgement's clock reading, and `ActsForOwner` only that
equal hashes have equal inputs. `ReadingSound` carries the skew from the reading
of the clock to the issue. `SmsSound` carries the acknowledgement from the write
to the SMS. `SeriesSound` says that an issue numbered `m` ends a series of `m`
issues on the key, each within the window of the one before; since a stored
document is one of those issues, a refused send has such a series behind it,
which is `RefusalEarned`. `LimitsAsDocumented` is about verdicts, and needs their
reasons: `CodesSound` keeps the drawn code's length, `VerdictsSound` why a handler is
about to purge or redeem. Only its last step looks at the default values.

*The exclusive invariant `XInv`.* It assumes `Exclusive`: callers do not overlap
requests on one key, and `MaxStray = 0`. `Alone` says two busy handlers have
different keys. `Budgeted` says no copy of a challenge is left once it is redeemed
and that every copy shows at least the attempts counted. While a handler holds a
copy, only the sweeper touches the document, so the redeeming delete removes the
last copy, and a write-back carries the newest count. Both assumptions are needed:
the `replay` and `guesses` runs drop the first; a late write-back of an older
copy would bring a code back.

*Deletions.* `StoreChanges` says what a step can do to a document: a handler on its
key writes it and is then done with it, the sweeper takes it, or it goes with the
memory store's process. `Alone` leaves one handler to a key, so `JInv` is inductive
with `XInv`: the document on the key of a handler between its reading and its write
is the one it has read (`ReadCopy`, which takes back the attempt that a handler at
`bump` has already added in its own copy), or the sweeper has removed it
(`Undisturbed`); and a handler about to purge holds one that had expired by its
clock or is out of attempts (`PurgeDeserved`). A document that disappears is then the
one that was judged, or it was swept; the sweeper's rounding is the `Second` in the
property. The theorem is for the remote stores: a memory store loses live codes when
its process ends; it is for local use and tests.

*The ledger.* Each step of the service is one step of `ChallengeLedger` or none:

| Step of the service | Step of the ledger |
|---|---|
| `SendIssue` draws a nonce | none: a nonce is used once its write has ended |
| `SendPut` applied; not applied | `Issue`; `Abandon` |
| crash of a handler at `send_put` | `Abandon` |
| `VerifyBump` applied | `Charge` |
| `VerifyPurge` applied | `Discard` |
| `VerifyRedeem` applied and acknowledged; applied, and an error | `Redeem`; `Discard` |
| everything else | none |

What makes the mapping work is that an unconditional write over the document that was
read is as good as an atomic step. `LInv` supplies it: the document judged is there
(`Present`, from `JInv` and the absence of a sweeper), the code about to be written
has no attempts and is numbered after the document it replaces (`Follower`), its time
is one the ledger knows (`Timely`), and a nonce that was not issued was not accepted
(`Blank`). The theorem is for Firestore because the other two stores do take further
steps: a wrong guess written back after DynamoDB's sweeper has passed brings the
(expired) document back, which no step of the ledger does, and a memory store's
restart drops the codes of all keys at once. `LiveAssumption` says that the value for
"no live code" is not itself a live code.

*Sessions.* The invariant records that a signed token's payload has its own
subject and an expiry of at most its birth plus skew plus TTL, rounded down. A
presented token is valid only if its MAC is of its payload under the deployed
secret, so both parts come from equal payloads; the rounding then costs at most
the second it is rounded to, never adds one. `SessionsLast` is the other side: a
reading within the time told, less that second and twice the skew, is in an earlier
second than the expiry.

*The API.* The two implementations come first: each step of `HttpNext` is a step of
the component or leaves its variables alone, so all theorems about Send, Verify and
tokens hold behind the API. `HttpInv` then ties the stages of a request together:
`Stage` says that a handler is in a use case exactly when `OtpService` has it busy,
that it works for the fields of its own request (`ServesFor`), and that a handler
about to sign holds a nonce whose code was accepted for that request (`ProvedBy`).
`ActsForOwner` and `Provenance` give the latter at the moment of redemption; it
lasts because an issue never changes and a use is never undone. `SignedProved` says
the same of every signed token, and a token that validates has the payload of a
signed one: that is `VouchedFor`. `AnswersAreTrue` looks at the handler's last step:
a refusal is only answered by steps that hold no issued code, and signing fails only
under a secret that cannot sign. The theorems of `SessionProofs` are used through an
instance, `Sessions`, whose assumptions `SessionsAssumed` proves from those of the
API; `HttpInv` bounds what is stored about a request, and what each step says in
`reply` is shown to be an answer (`HttpTypeCorrect`). For `AnsweredOnce` each action
is looked at for one handler: a handler another one's step leaves alone owes nothing
(`NotItsStep`), one that goes on says nothing (`OnceSilent`), one that ends answers if
its caller still waits (`OnceDone`), for which the use case must have ended with an
answer (`EndsWithAnswer`).

*The process.* `DInv` records that an environment which serves was accepted (it
cannot change: `Accepted`), and for a call under way that its time of start is not
ahead of the platform, that it holds something when it is sent, and that it has seen
the document as it is (`Held`). `ServesOnlyReady` is then a comparison of the checks
of start-up with those of the components. They differ in two cases, both of AWS
credentials, which the property names as its exceptions. `AnswerSound` carries what a
status tells from the moment the service acts to the moment its answer is read,
between which others may write: that is why `OutcomesAreTrue` says "at some time
during the call", and why 404 may count as success for a read and a delete (there was
no document then) and not for a write.

### Only model-checked

* `HandlersFinish`: liveness under fairness is beyond the prover.

All other properties of the passing runs are proved. Those of the violated runs
(`SingleUse`, `GuessBudget` without `Exclusive`; `SendCap`; `FormatErrorsNamed`) are
false of the code and have no theorem but the conditional ones above.

## 6. Assumptions of the models

* Digests do not collide, and a nonce is never drawn twice.
* Nothing is applied twice. Go's transport repeats a request by itself only if it is
  a GET, or if the server cannot have handled it; the clients write with `PATCH`,
  `POST` and `DELETE`.
* A remote read shows the latest write (`ConsistentRead` is set; Firestore reads by
  document name are consistent).
* The blank-hash test at `usecases.go:101` never fires, because `Send` stores a
  digest; it is left out.
* The clocks of the instances are within `Skew` of the true time and `Skew` is
  finite; the memory store is used by one process.
* A request's body has arrived when `decodeJSON` reads it. `cmd/server` sets a
  timeout for headers only, so that a caller who sends half a body keeps its handler
  there; it has touched nothing yet, and `HandlersFinish` is about requests whose
  body is complete.
* The environment of a process does not change, and its secrets for the OTP hashes
  are those its challenges were made with. A new `SMS_OTP_SECRET` makes every stored
  challenge one that no code matches, which can only refuse.

### What the reading of the code showed besides

Not disagreements with a document, or too small for a run, but worth knowing:

* Start-up does not look at AWS keys (`main.go:115-160`). With DynamoDB or SNS,
  without a whole pair of keys and without a container URI, the process starts and
  then refuses every call of that client (`credentials.go:57-59`). The SNS client
  also refuses a half-set pair (`sns/client.go:33-34`) where DynamoDB's lookup asks
  the platform. These are the two exceptions of `ServesOnlyReady`.
  `docs/configuration.md:63-69` asks for the keys or a role's endpoint; start-up
  enforces neither.
* Those refusals are answered `operation_failed`, where `docs/error-catalog.md:25`
  would have `service_not_configured` for missing "SMS provider credentials": the
  handler only knows the use cases' own error.
* `main`'s second test of the project id cannot fail after `validateRuntimeConfig`.
* `STORE_DRIVER` is trimmed and not lower-cased, `SMS_PROVIDER` is both.

## 7. What is not modelled

SigV4 (`sigv4.go`: a pure formatting of a request, with no decision and no state),
the installers except for the TTL they switch on, the content of SMS messages, HTTP
headers and status codes, JSON and Base64. The port and the logging have no property.

## 8. Plan

Done: every component that keeps state or decides: domain, stores, Send and Verify,
the ledger and its refinement, sessions, the API over them with liveness, start-up
and remote calls; and the proofs of section 5.

Next, in this order:

1. A new OTP secret in `OtpService`, as the key of the two digests, with the property
   that it only ever refuses.
2. Sends across deletions: how many codes a key gets when verifies delete the count.
3. The default window and maximum of sends in numbers, in a run with three sends.
