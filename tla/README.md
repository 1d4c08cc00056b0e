# haproxy-operator: TLA+ verification

haproxy-operator keeps an HAProxy gateway on the configuration that Flux puts in a
Kubernetes Secret. A controller reads the Secret through an informer cache,
validates the bytes with the Data Plane API, applies them, reads back what the
gateway made of them, and records the outcome as annotations on the same Secret.
These modules model that control loop call by call, with the other actors moving
between any two calls, and prove that it implements an abstract promise and that what
the annotations claim is true. Around it they model the client that the worker and the
readiness probe share, and the local development mode.

Source paths below are relative to `src/`.

## 1. The system

| part | state | operations |
|---|---|---|
| Secret reconciler (`internal/controller/secret_controller.go`) | `transientFailures`, `lastDesiredHash`, `haproxyClient`/`clientReady`, `certSyncHashes`; the work queue | `Reconcile`, `patchAnnotations`, `failWithStatus`, `getOrCreateClient`, the event filter |
| Config Secret and informer | the Secret on the API server; the informer's copy; the copy a reconcile works on and mutates | optimistic merge patch, Get from the cache, Flux's writes and deletions |
| Certificate sync (`internal/controller/certs.go`) | `certSyncHashes` in memory, the `cert-sync` annotation | `syncCertSecret`, `ensureCertSecretsSynced`, `pushCertSecret` |
| Dataplane client (`internal/haproxy/dataplane_client.go`) and the gateway behind it | live raw configuration, its version, the `ssl_certificates` storage | version GET, `only_validate` POST, versioned POST, raw GET, storage GET/PUT/POST |
| Error classification (`internal/haproxy/errors.go`) | none | `Classify`, `classifyHTTPStatus`, `Transient` |
| Loader and validator (`internal/config`) | none | `HashBytes`, `Validate` |
| Local runner (`internal/local/runner.go`) | `lastHash`, the watches | first apply, watch loop, bounded retries |
| Client lifecycle (`getOrCreateClient`, `DataplaneReady`, `Close`; `internal/spire/transport.go`) | `clientMu`, `clientReady`, `haproxyClient`, `spireSource` | lazy creation from the worker and from the readiness probe, `Close` at shutdown |
| Credentials (`NewClient`; `internal/metrics/cert_expiry.go`) | the mounted files, pooled connections, two expiry gauges | handshakes, renewals, observations |
| Other metrics, events, entry point, chart | counters nothing reads back | output and wiring |

**How they interact.** Flux and the Vault Secrets Operator write Secrets on the API
server. The informer delivers them later; the event filter (`isRelevantUpdate`)
drops the operator's own annotation patches and all deletions and queues the rest.
One worker takes a name from the queue; every return of `Reconcile` but NotFound
asks to be run again. A certificate's request pushes the certificate and continues
into the config reconcile. The annotations are the operator's only durable memory:
`last-applied-hash` (skip), `last-observed-hash` (drift baseline, or "pending"),
`last-failed-hash` (suppression), `cert-sync`, and the status for people.

**What is hard here.** A crash between the apply and the patch that records it; a
POST whose answer is lost or which lands after its client gave up; an edit of the
Secret while its previous bytes are being applied; a reconcile on a stale cache;
an error of the version check that looks like a verdict on the configuration; a
failure status, a suppression or a record of a push that outlives what it was
about; certificates that must be on the gateway before the configuration that
names them; a shared failure counter that one path resets while another counts. For the
client: creation waits for the SPIRE agent while it holds the mutex, the shutdown looks
at the source without it, credentials are renewed under a client that lives as long as
the process. In local mode: saves between the reads of the file, events nobody sees,
retries that give up.
`PROJECT.json` lists each of these as a hazard at its line, with the properties
that cover it or the reason why none does yet.

**What makes each part correct.** Classification: nothing but a verdict suppresses.
Reconciler: the hashes on the Secret are true; verdicts land on the bytes they are
about; no request is forgotten; the loop settles on the desired bytes or on a
recorded refusal; alert-only mode does not hide a drift, nor repair it if its copy of the
Secret is current; delays grow with repeated failures. Certificates: in storage before validation; a push leaves
the offered bundle; storage converges. Statuses: a recovered outage is not
reported for ever, and Applied is said of applied bytes. Client: no source is lost,
nobody waits for ever, readiness follows the credentials. Local runner: `lastHash` is the
configuration on the gateway, and a save that could be noticed is applied or given up.

## 2. Modules

```
ErrorClass, Contents <- Dataplane <- ConfigSecret <- CertSync <- SecretReconciler <- ReconcilerProperties
                            |                                                         |- MCSecretReconciler (TLC)
                            |                                                         '- SecretReconciler_proofs (TLAPS, below)
                            '- LocalRunner   <- MCLocalRunner (TLC), LocalRunner_proofs (TLAPS)

Credentials <- ClientLifecycle <- MCClientLifecycle (TLC), ClientLifecycle_proofs (TLAPS)

Contents <- GitOps             instantiated by ReconcilerProperties: the abstract specification

SecretReconciler_proofs <- Verdicts_proofs, Queue_proofs <- Promise_proofs <- Certificates_proofs, Backoff_proofs
```

Each module adds one component's variables, constants and operations;
`SecretReconciler` composes them, `LocalRunner` puts another process in front of the same
gateway. `ClientLifecycle` has state of its own: what the reconciler sees of it, a client
or an error, is the nondeterminism of `ClientFails` there.

- **Contents**: configurations, bundles and their hashes.
- **ErrorClass**: an error is what `Classify` looks at (kind, HTTP status, whether
  the version GET raised it); `Classify` is its two early clauses over `ClassifyInner`.
  Every failed submission goes through it, the conflict of a moved version included.
- **ConfigSecret**: `secret`, `cache` and `snap` are the three copies. The
  resourceVersion is abstracted to whether a copy is current (`cacheCurrent`,
  `snapCurrent`). `patchAnnotations` computes a merge patch against `snap`, as the
  code does: an annotation `snap` does not see change is not sent (`Merge`), a stale
  `snap` conflicts, and after a failed patch the mutation stays in `snap`. A patch may
  take effect and lose its answer ("lost").
- **Dataplane**: `live` is the configuration served, `stored` the certificate
  storage. The version is abstracted to whether the one a writer holds is still
  current: `held` for the reconcile, `late` for a timed-out POST still on its way.
  `Normalize` is what a submission reads back as; `Requires` names the certificate
  files a configuration needs. The gateway is not in the repository: those
  definitions are mapped as external.
- **CertSync**: `offered` are the TLS Secrets; `previouslySynced` is the OR of the
  annotation and the in-memory hash; the storage comparison sees serial and size only.
- **SecretReconciler**: `pc` names the next call that leaves the process. One action
  per call and outcome; what the code decides between two calls belongs to the
  action before or after. `Leave`/`Finish`/`FailWith` are its returns.

| `pc` | code | actions |
|---|---|---|
| idle | work queue, `Get` (191-234) | `StartConfig`, `StartCert`, `StartMissing` |
| push, record cert | `pushCertSecret` | `PushSucceeds`, `PushFails`, `PushWithoutClient`, `RecordCert` |
| clear cert status | 229-253 | `ClearCertStatus`, `NoConfigSecret` |
| decide | 259-281, 374-387 | `KeyMissing`, `Unchanged`, `Suppressed`, `DesiredChanged` |
| read live | 282-372 | `LiveReadWithoutClient`, `LiveReadFails`, `LiveReadBaseline`, `LiveReadInSync`, `LiveReadDriftReported`, `LiveReadDriftRemediated` |
| adopt, clear drift status | 315-348 | `AdoptBaseline`, `ClearDriftStatus` |
| prepare | 389-418 | `PrepareFails`, `Prepare` |
| validate | 424-452 | `ValidateRejects`, `ValidateFails`, `ValidatePasses` |
| read version, post | `ApplyRawConfigurationValidated`, 454-490 | `ApplyReadsVersion`, `ApplyVersionFails`, `ApplySucceeds`, `ApplyRejected`, `ApplyFails` |
| read back, record | 492-520 | `ReadBack`, `Record` |
| fail | `failWithStatus` and the return after it | `FailWithStatus` |

Around the worker: `FluxWrites`, `InformerSync`, `CertRotated`, `GatewayMoves`
(out-of-band writes and lost certificates), `LatePost`, `Crash` (the process dies at
any point; the next leader's informer lists everything, so every Secret is queued).
`refused`, `accepted` and `streak` are history variables: no guard reads them.

- **GitOps**: the promise. Bytes are asked for (`desired`), they are carried about for a
  while (`offers`), and the gateway runs something (`running`); a claim, applied or
  refused, is made only about the bytes asked for at that moment and only if it is true;
  the gateway changes only to bytes on offer or, by another hand, to a configuration of
  theirs (`Foreign`).
  `ReconcilerProperties!Promise` maps `desired` to `Desired`, the Secret's data or "nothing"
  (which `PromiseAssumption` keeps apart from bytes); `offers` to `Offers`, the
  configurations that the three copies and a late POST hold; `running` to `live`; and the
  claims to the two annotations. `KeepsPromise` is its specification under that mapping.
- **LocalRunner**: `pc` follows `Run`. `applyWithRetry` is `Load`, `Validate`,
  `ReadConfigVersion`, and `Applied` or `ApplyFails`, with `AttemptFails` as the retry;
  `AddFile` and `AddDirectory` are `addWatches`, which fails only when both do; `TakeEvent` and `Reread` the loop.
  The editor saves in place (truncate, then write) or by rename, or removes the file; a
  watch on the file is lost with its inode, a watch on the directory is not; events of
  one change may be coalesced. A runner whose `Run` returned an error is restarted by the
  container (`docker-compose.yaml`), a kill loses watches, events and `lastHash`.
  Three history variables say where the code, as written, cannot do better: `unseen` (the
  change raised no event and was not read since), `disturbed` (the gateway may have
  changed since the last answered apply, which local mode never reads back) and `gaveUp`.
- **Credentials**: certificates are generations with an authority. A handshake reads the
  mount again (`Material`), the certificate and the key in two reads, so a renewal in
  between makes that handshake fail; idle connections live on after a renewal of the
  mount and are dropped by a renewal of the gateway's leaf. The gauges take the
  generation they last saw.
- **ClientLifecycle**: a caller is the worker or a probe; `Acquire` takes `clientMu`,
  `SourceOpens`/`SourceFails` and `Publish`/`BuildFails` are the inside of
  `getOrCreateClient`, `Send` to `Answered` one request. `DeadlinePasses` is the probe's
  ten seconds: it ends the wait for the SPIRE agent, not the wait for the mutex. `Close`
  runs at shutdown, on the leader, without the mutex.

### Modelling decisions

- One worker (controller-runtime's default `MaxConcurrentReconciles`), one process at
  a time.
- The informer moves to the server's current state at once (`InformerSync`) but may
  lag arbitrarily long; coalescing of intermediate versions is what a work queue does.
  TLS Secrets are read without lag.
- `RequeueAfter` is an entry in the queue. Its delay is not modelled, the counter it
  is computed from is; the counter is cut off at `FailureCap` = 4, where 30 s doubled
  four times has reached the 5 min ceiling and larger values give the same delay.
- A storage push (wait, GET, PUT/POST) is one step: only certificate pushes and
  `LoseStoredCert` touch `stored`, and a loss between the GET and the PUT leads where a
  loss before the push leads, except that the PUT may itself fail, which `PushError` allows.
- SHA-256 is injective.
- Flux never writes the operator's annotations, and its writes always pass the event
  filter; the operator's own patches never do.
- Local mode: delays are not timed, a POST that passed the validation is not refused (no
  certificates are removed in that setting), the path is clean (`filepath.Clean`), and
  `PollEvery` is left out, which the code sets and never reads.
- Client: a deadline passes only while its probe is blocked; a request's answer is the
  2xx one or a broken connection; a mounted Secret is replaced as a whole, so a pair can
  be torn only by falling between two reads, and the pair read at creation, where a tear
  fails like an unreadable file, is read in one step. With SPIRE the source has the
  renewed certificates. The insecure mode is left out.
- Not modelled: the mode without a secret name (`main.go` never leaves it empty in k8s
  mode); malformed JSON in `cert-sync`; a gateway that is replaced with an older version
  counter; failing `Get`s (the cache is local).

## 3. What TLC checks

The runs of the controller use `MCSecretReconciler`. "a" is a configuration the gateway normalizes, "b"
one it stores as submitted, "bad" one HAProxy refuses, "empty" one `Validate` refuses,
"tls" one that names the certificate's file, "boot" what an unconfigured gateway
serves. Deadlock checking is off in every run: with the Secret deleted and every
bound used up the queue is rightly empty.

| run | instance | properties |
|---|---|---|
| Core | a, bad; 2 edits, 1 drift, 1 crash, 1 API fault, 1 gateway fault | `TypeOK`, `SuppressionSound`, `AppliedSound`, `NeverForgotten`, `VerdictsAboutCurrentBytes`, `ClearedAfterSuccess`, `KeepsPromise` |
| Alert | a, empty; alert-only; 1 edit, 1 drift, 1 API fault, 2 gateway faults | `BackoffKeepsUp`, `OnlyStaleCopiesOverwriteDrift`, `DriftReported` |
| Converge | a, bad; 2 edits, 1 drift, 1 crash, 1 API fault, 1 gateway fault | `Converges`, `RecoveredStatusClears`, `StatusSettles` |
| Certs | tls, one certificate with three bundles: two of one serial and size, one broken; 1 renewal, 1 drift, 1 gateway fault | `CertsBeforeValidate`, `NeverForgotten`, `SyncLeavesBundle`, `CertsConverge`, `RecoveredStatusClears`, `StatusSettles` |
| Local (`MCLocalRunner`) | a, b, empty; 2 saves or removals, 1 gateway fault, 1 fsnotify fault, 1 drift, 1 kill | `LocalTypeOK`, `LastHashIsLive`, `QuietMeansApplied`, `SavesReachGateway` |
| Client (`MCClientLifecycle`) | worker and one probe; files or SPIRE, usable URL or not, leader or not; three generations under two authorities, 2 renewals, 1 agent outage | `LifeTypeOK`, `SourcesAccountedFor`, `CloseLeavesOnlyUnpublished`, `ReadyFollows`, `GaugesFollow` |

- **Core** asks whether the durable memory can lie. A gateway error here is either a
  network error or a 400, which must count as a verdict only when it answers the
  submission itself. Two edits let bytes be replaced and restored around a reconcile;
  the crash falls between any two calls. `KeepsPromise` asks the same of every single step:
  each is one the abstract specification allows, or none.
- **Alert** asks what alert-only mode keeps of its word. A drift that lasts ends up on the
  gauge. It is not always left alone: a reconcile whose copy of the Secret lacks the record
  of the last apply re-applies the bytes (StaleAlert, below), and
  `OnlyStaleCopiesOverwriteDrift` says that no other one does. Two faults make a streak of
  two failures; the API fault is a record that fails or loses its answer.
- **Converge** asks where the loop ends. A lost answer, a POST landing late, an
  out-of-band write, a restart and a patch that fails or loses its answer may each leave a
  gateway the annotations do not describe.
  `StatusSettles` asks whether Applied can be left on bytes that never were.
- **Certs** adds the certificate's own requests, which share the worker, the counter
  and the annotations with the config Secret. The storage cannot tell the two whole
  bundles apart, so only the recorded hash keeps a push from being skipped.
- **Local** asks whether a save can be lost, or a wrong `lastHash` hide one. Two saves
  are what it takes to change the file between two reads and back. One gateway fault
  makes one attempt fail; all five fail on the empty file, which HAProxy refuses and which
  every save in place goes through, and on a missing one.
- **Client** asks whether the shared client can leak, stick or go stale. A second caller
  is all the mutex needs; generation 2 renews 1 under the same authority and 3 comes with
  another, so a renewal on one side can come before that on the other, and two renewals
  move both sides to the new authority.

Every bound limits other actors (`MaxEdits`, `MaxDrifts`, `MaxRotations`), failures
(`MaxFaults`, `MaxApiFaults`) or restarts (`MaxCrashes`), never the operator, which may
reconcile without end. The hazards listed need at most two edits or renewals and one
event of each other kind around one reconcile and the next.

**Fairness.** The safety properties are invariants of `Spec` (`FairSpec` allows the same
steps). Liveness is checked under `FairSpec`: weak fairness of the reconcile in
progress (a call returns: the HTTP client has a timeout) and of the informer; strong
fairness of serving each queued name, because the queue is first in, first out and a
`RequeueAfter` elapses, while its guard is disabled whenever another name is being
served. Flux, the gateway's other writers, the late POST and crashes are under no
fairness: they may stop at any time, and the properties are of the form `<>[]`.
`FairLocalSpec`: `Run` never stops by itself and a stopped container is restarted; nothing
is assumed of editor, gateway and network. `FairLifeSpec`: callers go on calling (the
kubelet probes, the queue is served) and their deadlines pass, a Go mutex hands over to
whoever has waited longest (starvation mode; strong fairness of `Acquire`), and the
certificate watcher ticks. The agent, the renewals, the election and the shutdown are
under no fairness.

Every property has a mutant in `PROJECT.json`: a plausible bug in a mapped definition
(the `..._` variants next to the definitions) under which the same run fails.

### Where the code and its documentation disagree

| run | property | |
|---|---|---|
| FailedHashKept | `ClearedAfterSuccess` | `secret_controller.go:252` deletes `last-failed-hash` from the in-memory object; the later merge patch is computed against that object, so the success does not clear the annotation on the server. The bytes are then both applied and failed, and their drift is not repaired. `Core`, which has no certificates, shows that the property holds otherwise. |
| DriftBackoff | `BackoffGrows` | line 311 resets the counter on every successful live read, so remediations that keep failing are each counted as the first failure and retried after `backoffForFailure(1)`, 60 s, for ever. |
| SameSizeSwap | `SyncLeavesBundle` | `certs.go:88` accepts either of two records; with an annotation that could not be updated, a same-size bundle can be skipped while the gateway stores another. It takes a second renewal, back to the bundle of the old record: `Certs` shows that the property holds up to the first. |
| StaleOutage | `InSyncReportsNoOutage` | line 287 records a client failure without the stage prefix that line 339 clears. |
| StaleAlert | `AlertOnlyLeavesDrift` | line 192 reads the informer's copy. While it lacks the record of the last apply, the comparison at line 274 takes the applied bytes for new ones, and the alert-only test at line 359 is not reached: a drift is overwritten, although the chart's README promises that nothing is re-applied. The window is short, since in a deployment the next request has to come before the informer delivers the operator's own patch (a certificate's may). `CaughtUpLeavesDrift` (section 4) proves the property without that lag. |
| SuppressedDrift | `EveryDriftReported` | line 384 returns before the live read while refused bytes stand in the Secret, so a drift from the configuration still running is never reported, although the README promises a live read on every requeue. `Alert` shows that a drift from bytes that are still asked for is. |

## 4. What TLAPS proves

The theorems hold for every set of configurations, bundles, certificate names, callers,
certificates and errors and every value of the bounds, from the named assumptions on the
constants, which TLC evaluates in each run: `ContentsAssumption` and `DataplaneAssumption`;
for the controller also `ConfigsAssumption`, `NamesAssumption`, `EditBoundsAssumption`,
`CertSyncAssumption` and `ReconcilerAssumption`, and `PromiseAssumption` for the refinement; for local mode `LocalAssumption`; for the
client `CredentialsAssumption` and `LifecycleAssumption`. Of the gateway's errors they assume only
that the transport does not raise the local rejection and does not mark its errors as
version-check errors: the client does that. A theorem that needs more says so in its
`ASSUME` or its left-hand side; there are five, named below with what happens without it.

Every invariant of the passing runs is the subject of a theorem, and so is every action
property among theirs.

- `CoreInvariant`, `TypeCorrect` (**SecretReconciler_proofs**). `TypeOK` is not inductive:
  `Tail(todo)` and the hash of `snap.data` need to know where the reconcile stands.
  `Progress` supplies it (while certificates are pushed the list is not empty; from the
  live read on, and whenever a rejection is about to be recorded, `snap.data` is a
  configuration), and `Coherent` that a copy that counts as current has the server's
  data. `CoreInv` is their conjunction. The proof has one lemma per group of actions
  and one step per action.
- `SuppressionIsSound`, `AppliedIsSound` (**Verdicts_proofs**). A hash on the Secret
  may come from a merge with any of its copies, so the invariant `SoundInv` is stated for
  `secret`, `cache` and `snap` alike, together with `Answered`: at "read back" and
  "record" the gateway has written `snap.data`, and a pending rejection is about refused
  bytes. `SuppressionIsSound` rests on `VersionCheckIsTransient`, the fact that `Classify`
  never reads a version-check error as a verdict.
- `VerdictsStayWithTheirBytes` (**Verdicts_proofs**). Only `Record` and a rejecting
  `FailWithStatus` change the two hashes, to the hash of `snap.data`; a patch that takes
  effect has `snapCurrent`, and `Coherent` then makes `snap.data` the Secret's data.
- `NothingIsForgotten` (**Queue_proofs**). `NeverForgotten` allows a deleted Secret to be in
  no queue, so a recreation has to raise an event: `Announced` says that a Secret the
  informer has not got has its event coming, and `KeyPutBack` that between two requests
  the key is the one `Leave` puts back. `WorkerSteps` reduces the 31 worker actions to two
  effects on the queue: none, or an end that asks for another run.
- `ImplementsGitOps` (**Promise_proofs**). Step simulation: `StartPromises`,
  `ContinuePromises` and `EnvironmentPromises` show that each action is, under the mapping,
  `Ask`, `Withdraw`, `Apply`, `Refuse`, `Drift`, a claim (`RecordClaims`, `FailClaims`),
  `Move`, or a stutter. Two facts carry it. `OffersShrink`: no step of the worker puts bytes
  on offer that no copy held, so whatever a POST applies, in time or late, was
  asked for. And the claims are atomic: `CopiesAgree` (a current copy has the server's
  applied hash) with `CoreInv` and `SoundInv` makes a patch that takes effect claim one
  thing, about the bytes asked for, and truthfully.
- `OverwritingTakesAStaleCopy`, `CaughtUpLeavesDrift` (**Promise_proofs**; remediation
  off). Past the hash comparison a reconcile that does not remediate holds bytes other than
  those its copy records as applied (`AlertOnly`), so one that overwrites a drift of recorded
  bytes works on a copy without the record. The second theorem rules that out with a
  hypothesis about the informer, not about the reconcile: `InformerCaughtUp`, it has seen
  every write whenever a reconcile starts. Then the reconcile knows of every apply the
  Secret records, to its end (`ClaimKnown`), although Flux may replace the bytes and
  another hand the configuration between its Get and its POST. StaleAlert is what happens
  without the hypothesis.
- `SuccessClearsFailure` (**Promise_proofs**; no certificate Secrets). A merge patch sends
  only what changes in the copy it is computed against: clearing the failed hash reaches the server
  because a current copy has the server's failed hash. `ClearCertStatus` breaks
  exactly this part of `CopiesAgree`, and FailedHashKept shows the property false with a
  certificate.
- `CertificatesFirst` (**Certificates_proofs**). `Ensured`: while nobody removes one, every
  certificate is in storage or still ahead of the worker, and of a pass that has begun
  ahead means in `todo`. It is an invariant over the list, whatever its length.
- `RecordedPushLeavesBundle` (**Certificates_proofs**). A push is
  skipped when a record (the annotation in one of three copies, or the process's memory)
  names the offered bundle and the storage reports its serial and size. `RecordsTrue`: a
  record that names the offered bundle is true, unless the storage was emptied. It is
  preserved as long as no renewal brings back a bundle that a record still names
  (`RenewalsAreNew`): every renewal newly issued satisfies it, a TLS Secret restored to an
  earlier bundle may not, and SameSizeSwap is what happens then.
- `BackoffIsMonotone` (**Backoff_proofs**; `PlainDeployment`: no remediation, no
  certificate Secrets, one process life). The counter follows the streak at every return
  because a submission that failed has noted its bytes (`Noted`), so that the next
  attempt does not start counting anew, and because a client, once built, stays
  (`ClientInv`), so a live read cannot fail for want of one. Each part of the hypothesis is
  needed. With remediation, a successful live read resets the count
  (DriftBackoff). With a certificate, its own request counts a failed push without noting the
  desired bytes, and the config request that fails at the same push next resets. After
  a restart, a live read without a client counts a failure without noting the bytes. TLC
  finds each of these three when the hypothesis is lifted.
- `LocalInvariant`, `LocalTypeCorrect`, `LastHashIsAlwaysLive`, `QuietLoopHasApplied`
  (**LocalRunner_proofs**). "A quiet loop has applied the file" is not inductive: it is
  decided when the file is read, several calls before the loop is quiet again.
  `Followed` carries it through: what an attempt holds is the file, or the loop is still
  `Due` to look; while the watches are registered, and while the loop waits, `lastHash`
  is the file's, or a look is due, or the change was given up. `Loaded` says that an
  attempt past its read has a configuration in hand, which makes the hash it leaves one
  of a configuration; `LastHashIsLive` then turns "the hash of the file" into "on the
  gateway".
- `LifeInvariant`, `LifeTypeCorrect`, `SourcesAreAccountedFor`,
  `CloserClosesThePublished` (**ClientLifecycle_proofs**). The mutual exclusion inside
  `LifeTypeOK` is not enough to account for the sources: `CreatesOnce` adds that whoever is
  inside the critical section found no client, so publishing never overwrites a source, and
  that the agent is asked only with SPIRE. `Connected` (a caller on the wire has a
  connection) types the pool and the gauges. The action property follows from
  `SourcesAccountedFor` before the close: outside the published source only one under
  construction is open.

Model-checked only: all liveness (`Converges`, `CertsConverge`, `RecoveredStatusClears`,
`StatusSettles`, `DriftReported`, `SavesReachGateway`, `ReadyFollows`, `GaugesFollow`), because
fairness and ENABLED are outside the prover's reach, and the six violations, which are counterexamples.
The history variables `refused` and
`accepted` grow only in the actions in which the gateway or `Validate` answers, which is
what makes the two soundness theorems more than book-keeping.

## 5. Plan

Every component with a control flow of its own has its module, and every safety property
of the passing runs its theorem. Left:

1. The hazard of two certificates that clear each other's status
   (`secret_controller.go:241`): `TwoCerts` in `MCSecretReconciler` is the instance, whose
   state space needs smaller bounds elsewhere.
2. The safety halves of properties now checked as liveness: which steps can leave the status
   Applied on bytes that were not (`StatusSettles`), and that a change given up in local mode is the
   file as the last attempt read it (`SavesReachGateway`).

### Not modelled

- The counters and the histogram of `internal/metrics/metrics.go`, events and the wording
  and cut of status messages (`internal/status/reporter.go`): written, never read back.
- Flags and wiring in `main.go`, the chart, the development stack and CI: they choose the
  constants (`SecretName`, `CertsSecretNames`, `DriftRemediate`, `Watch`).
- The insecure TLS mode, basic auth and URL resolution of the client, and what a
  certificate says beyond who issued it and whether it was replaced (names, dates,
  chains, SPIFFE IDs): no step of the loop depends on them but by succeeding or failing.
