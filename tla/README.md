# A TLA+ model of limitless_library

This directory holds TLA+ specifications of the Limitless Library client
(`src/src/limitless_library`), the TLC configurations that model-check them, and
TLAPS proofs about all of them. Paths below are relative to
`src/src/limitless_library` unless they say otherwise.

The repository is a client: a local catalog of reusable capsules, an installer, an
MCP server for coding agents, and a connector for an optional managed service. The
service is *not* in the repository; every specification that talks to it models
what the client's code can observe of it, and marks that part as external.

To run one configuration: `tlc -workers 2 -config MCAdoption.cfg MCAdoption`.
To check the proofs of one module: `tlapm AdoptionProofs.tla`. `PROJECT.json` lists
the runs, for each property one mutated definition that breaks it, the source lines
each definition translates, and the hazards the properties are aimed at.

## 1. Inventory

| Component (source) | State it keeps | Operations | Module |
|---|---|---|---|
| Exact-component adoption (`installer.py`, `contracts.py`) | files and directories of a receiver, receipt files | `adopt_exact_component` | `Adoption` |
| Method capture and worker (`method_capture.py`) | one folder of immutable records per method, a status file, two lock files | `register_method`, `schedule_submission`, `sync_methods`, `--sync` | `MethodCapture` |
| Publication (`publication.py`, publication requests of `service_connector.py`, `public_*_contracts.py`) | one state file with a signed intent | `publish_draft`, `publication_status`, `revoke_publication` | `Publication` |
| Installation identity (`service_identity.py`, `installation_identity_contracts.py`) | one state file: key, attestation, session | `ensure_installation_session`, `installation_publisher_authority` | `InstallationIdentity` |
| Service root rotation (`service_contracts.py`, `_current_roots`) | the published chain of transitions; a stepping client's pin | validate one transition, a chain, advance a pin | `RootChain` |
| Discovery, query, authorization to fetch (`service_connector.py`, `service_contracts.py`) | the connector's cache and lock | `inspect`, `with_access_token`, `build_query`, `query`, `fetch_selected_artifact` | `ServiceTrust` |
| MCP server and stdio connector (`mcp_protocol.py`, `mcp_server.py`, `connector.py`) | the session's initialized/ready bits; the connector's process, next id and line buffer | `handle`, `query`, `close` | `McpSession` |
| Agent integration (`agent_integration.py`) | the agent's MCP profile (old or new path), the ownership record | `connect`, `disconnect`, `status` | `AgentIntegration` |
| Local catalog (`catalog.py`) | the loaded capsules | load, `query`, `validate_decision`, `selected_capsule_root` | `CatalogSelection` |
| Result checks and artifact transfer (`service_contracts.py`, `service_connector.py`, `contracts.py`) | kept results, a temporary file, a destination | validate a result against its query; fetch, continue; stream, check, link | `HostedReuse` |
| Version ranges and next action (`_service_support.py`) | none | `version_range_covers`, `validate_next_action` | `VersionRanges`, `HostedReuse` |
| Official service activation (`official_service.py`) | one activation file | activate, open a connector | `OfficialActivation` |
| Verifier sandbox (`sandbox.py`) | a child process | run with deadline and limits | a step of `Adoption` |
| Receiver environment and evidence, file bundle, contracts of releases and assessments | none | pure validators and builders | no |
| CLI, demo, schemas, scripts | none | wrappers and data | no |

### How they interact

* An agent's profile (written by `AgentIntegration`) names the MCP server. The server
  reads lines, answers queries from a `CatalogSelection` catalog, and hands captured
  methods to `MethodCapture`.
* `MethodCapture` spawns a detached worker. The worker calls `Publication`, which
  calls the connector, whose every request first runs `inspect` (`ServiceTrust`),
  which validates discovery under the root that the chain (`RootChain`) gives.
* The worker's connector gets its bearer and its signing key from
  `InstallationIdentity`, one state file shared by all processes of a user.
* A decision of the catalog is what a user adopts with `Adoption`. A result of the
  managed service is checked against the receiver and fetched to a file
  (`HostedReuse`), which stops at that file.
* `OfficialActivation` puts a profile, an inspection (over `RootChain`) and an
  identity together once, and stores that the service is enabled.

All sharing between processes is through files: immutable files created by link or
`O_EXCL`, state files replaced by rename, and `flock` locks in two components.
Threads share only a `ServiceConnector`.

### What is hard, and what must be true

* **Adoption.** Copying many files is not atomic; two invocations and the user work
  in one tree; a verifier runs for minutes. A receipt must be true, a failure must
  leave nothing behind, and nobody else's file may be touched.
* **Method capture.** A capture is three files and may be killed between any two
  writes; a worker and a registration write one status file under different locks;
  consent is given once, the policy changes later. Only consented, whole methods may
  leave, only under a reviewed policy, and never as two releases; each queued method
  should be settled in the end.
* **Publication.** Every request may be repeated, or be dealt with while its answer is
  lost; the owner edits the source in the meantime. What is reported must be what the
  service holds, and the service must hold only what was prepared.
* **Identity.** Several processes race to create, register and renew one identity and
  may die holding the lock. There must be one key, and the file must never claim what
  the service did not agree to.
* **Root rotation and trust.** The chain and the discovery come from two requests, are
  replaced one after the other, and are validated at a time sampled before both.
  What is trusted must have been in force, and what is withdrawn must fade.
* **MCP.** A timed-out request leaves its answer in the pipe; two protocol eras share
  one session. An answer must never be taken for another request's.
* **Agent integration.** Two files, no lock, several writers. The owner's entries must
  survive, and the record must not claim what was never written.
* **Activation.** Several processes, perhaps of two releases, and several steps before
  one file. What a call answers must be what is stored, and the service must not be
  enabled without an identity.
* **Hosted reuse.** A range must not cover what it does not support; bytes reach the
  disk before they are verified, and minutes pass between the check that the
  destination is free and the link. Only the selected object may be staged, and nobody's
  file may be replaced.
* **Catalog.** Ties must abstain; a decision outlives the catalog that made it.

## 2. Plan

Order, most important first. All of these are written.

1. `Adoption`, `AdoptionProofs` -- the promise on which the receiver relies.
2. `MethodCapture`, `MethodCaptureProofs` -- consent, and the only background worker.
3. `InstallationIdentity`, `InstallationIdentityProofs`.
4. `RootChain`, then `ServiceTrust`, which takes a root to be the number of rotations
   before it, the view that `RootChain` justifies (`ClientsAgree`, `RootsMoveOn`).
5. `Publication`: the detail behind the worker's `publish` step in `MethodCapture`
   (there one method, one intent, whole-file contents; here content, plan and edits).
6. `McpSession`, `AgentIntegration`, `CatalogSelection`.
7. `MethodLedger`: the abstract promise of the method store, implemented by
   `MethodCapture` under a refinement mapping.
8. `OfficialActivation`, which extends `RootChain`, and `HostedReuse`, which extends
   `VersionRanges`.

Theorems: every safety invariant and action property that a run checks, and that
`MethodCapture` implements `MethodLedger`, are proved (section 6). Left for later: a
common abstract specification of the calls that race for one file (identity,
activation, publication each prove their own), and the consequences of `CoversAdmits`
for the ranges of all targets of a query.
None of the modules declares a RECURSIVE operator, and their constants carry named
assumptions, so that they can be proved about as they are.

## 3. Modules

Each module's header says what its variables stand for; `PROJECT.json` maps every
definition to its lines. Operators that begin with "A mutated form" in their comment
are plausible mistakes that some property must catch. They are used by no other
definition.

**Adoption.** One action per stage of `adopt_exact_component`: `Preflight`,
`MakeParents`, `OpenTarget` (`O_EXCL`), `WriteTarget`, `HashTarget`, `RunVerifier`,
`Recheck`, `DigestTree`, `Publish` (the link of `write_new_json`) and `Return`. A
failure of one of the exception classes the code catches goes to `Rollback`, any other
exception and a kill stop where they are. A file is who made it and what it holds. The
user edits, creates and removes files. History variables `changed` and `removed` say
what the user did, since no receipt can promise anything about that.

**MethodCapture.** `reg` is the registration that holds `.register.lock`, `sync` the
worker that holds `.sync.lock`; whoever waits has done nothing yet. Files are absent,
torn or whole: creating and filling are separate actions, as a kill can come between
them. The window between `lstat` and `open` of the status file is `replaced`. The
worker's pass through `publish_draft` is one action per request. `Upgrade` is a new
release of the client: its publication drafts name `__version__` and the platform, so
`Matches` no longer accepts a draft that an earlier release wrote. A file or a status
that cannot be written ends the registration or the batch. The service admits, and
may later withdraw what it admitted (`Withdraw`, the service's side of `Publication`'s
revocation and retirement); `sync_methods` skips settled folders, so the status then
stays `active`. `StatusIsTrue` is therefore about what the service decided, not about
what still stands.

**MethodLedger.** The same store without files, locks or workers: who consented, which
intents the service has received, its verdict or the withdrawal of what it had
admitted, and the status the owner sees. Every
step of `MethodCapture` is a step of it or changes none of the four
(`ImplementsLedger`, with the mapping at the end of `MethodCapture`): in one
specification, a method leaves only with consent, as one intent under a reviewed
policy, and what is shown neither gets ahead of the service nor falls back behind a
verdict, except when a new registration finds no worker.

**Publication.** One record per publishing process (`call`), the state file (`saved`),
and the service's `policy`, `accepted`, `known` and `admission`. `Stop` is a kill or a
request that never arrives, `Lose` a request that was dealt with and whose answer is
lost. The source file is two pieces and is read three times, a piece at a time: to sign
its digest (`ReadFirst`, `Sign`), to find it in the plan (`ReadFirst`, `Hash`) and to send
it (`ReadFirst`, `Stream`). The owner may edit between any two pieces; what is read can
be a content the file never had. `Stream` sends its pieces before the transport compares
their digest; the service keeps nothing of a body that is refused.

**InstallationIdentity.** One action per step of the critical section, `Replace` for
`_replace_state`, whose error may come before or after the rename. `at` is the time
sampled at the beginning of a call, used at its end as in the code.

**RootChain.** A constant `Pool` of honest and faulty transitions: the service
publishes any valid chain over it. One client pins the first root and reads the whole
chain at each use, the other advances a stored pin.

**OfficialActivation.** Extends `RootChain` with processes that activate or connect.
`Activate` loads the state and samples the time; `Inspect` fetches the profile and
inspects with the clock stopped at that time, over the chain published *now*; `Enroll`
is `ensure_installation_session`; `Store`, `StoreFails` and `Replay` are the creation of
the state file and what follows a failed one. `Upgrade` changes the bundled locator,
`Remove` is the owner's replacement decision. `Stop` is an outage, a refusal or a kill.

**VersionRanges.** `Covers` follows `_parse_range` and `version_range_covers`; a range
is its list of clauses, and `Admits` is the reference: what the clauses mean.

**HostedReuse.** `Accept` is `query` with everything the result is compared with;
`FetchSelected` and `Continue` begin a transfer, with the query again or with the
request alone. Results of version 1.3 take `Request`, `Write`, `Link` (the body is
checked in memory); later ones `Stage`, `Receive` chunk by chunk, `EndOfStream`, `Link`.
`Fails` leaves the `try` block, `Unlink` is its `finally`. The server may send any
object, cut or overlong, under any headers. `Continue` is handed results the caller has
kept, as `docs/MANAGED-SERVICE.md:160-168` asks of the caller; it compares the request,
not the receiver, again.

**ServiceTrust.** `ReadRoots`, `ReadDiscovery` and `Verify` are the steps of `inspect`
under the connector's lock, with a clock that moves between them; `BuildQuery`,
`Send`, `Answer` and `Fetch` each start from an inspection. Documents keep the root
that signed them, their result keys and lifetime. There are two clocks: `clock` dates
documents (`_at`), `mono` keeps the cache (`time.monotonic`); `Suspend` advances the first
alone. `UseCache` returns what is cached, `Enter` begins an inspection, because the
cache is over or because a mere `inspect` asked for a refresh.

**McpSession.** Pipes are sequences of whole lines; a line keeps era, method, id and
whether it is well formed. The peer is either `McpStdioConnector` (with time-outs,
late answers, dead and reopened servers) or an agent that writes anything.

**AgentIntegration.** Every call is read, decide, write, and for connect a second
write (the record), as separate actions; the owner's and the agent's edits come
between any two of them. The history `held` says, of each call that runs, which
descriptors have stood in its profile since it began: `connected` must be about one of them.

**CatalogSelection.** `Select` follows `query`: eligibility, priority, score, the two
sorts and the tests for ties. Terms are sets, digests are the records they bind. The
sort keys do not order two versions of one capsule: a sort is some sequence in which
nothing stands behind what it should precede.

## 4. Runs

| Run | Instance | Distinct states | What it shows |
|---|---|---|---|
| `adoption` | two invocations that share one target, a directory and the receipt path; two verifiers; two user edits | 1.2 M | receipts stay true, evidence is never replaced, a handled failure leaves no file, a directory stays behind empty only for a cause its maker could not mend, only own files are touched |
| `method_capture` | one method, two policies in turn, a change of release, a withdrawal, two kills, failing writes, fairness | 0.86 M | consent, whole records, one intent, reviewed policy, a status the service decided; implements `MethodLedger`; a queued method is settled unless it is stuck |
| `method_settling` | two methods, a batch of one, fairness | 0.71 M | the second method is settled too, unless it or the one before it is stuck |
| `method_batch` | two methods, a batch of one | violation | the first pending method takes every batch |
| `identity` | two processes, services and terms, three keys, kills | 0.2 M (symmetry) | one key, a backed file, no way back |
| `identity_renewal` | two processes, a clock that moves | violation | a session issued after the call began is refused |
| `official_activation` | two processes, two releases, three calls, one removal; ten transitions over four roots, chains of up to two | 1.4 M (symmetry) | what is returned is stored; enabled means enrolled; both root clients agree at every instant |
| `service_trust` | a thread that queries and one that inspects and refreshes, one rotation, two documents, three instants, a host that sleeps | 5.4 M | what is trusted was in force; cached and withdrawn trust ends in time, on either clock |
| `service_expiry` | one thread, the same service | violation | the cache returns a discovery that has expired |
| `agent_side` | session: two queries over two servers, or three lines of an agent; profile: two calls, two catalogs, two edits, both paths; catalog: all directories of four capsules, ten queries, a change and a new load | 3.4 M (symmetry) | answers belong to their requests; the handshake cannot be skipped; connected is true; the owner's entries stay; the sorted selection is the declarative one; stale decisions are refused |
| `hosted_reuse` | two requests, twelve ranges against each other, two objects, two fetches, one change by the owner | 0.58 M (symmetry) | an accepted selection covers the receiver's versions; only the selected object is staged, nothing replaced, nothing left |
| `publication` | two processes, a source of two pieces with two values each, two drafts and policies, two edits | 2.5 M | reports are true; only what was prepared is held |

### Bounds

* Two concurrent actors are enough for each hazard that is listed: they concern a
  pair (two writers, a writer and a reader, a client and its service). Where one
  actor's history matters, its calls are unbounded in number: `identity`,
  `publication`, `agent_side` and `method_capture` let a call begin whenever the one
  before has ended.
* User edits are bounded by two: one to break something, one to change it back or to
  hide it. One directory level and two verifiers are what distinguishes the loops of
  `adopt_exact_component` from a single pass.
* `method_capture` has one method, two policies and kills; `method_settling` and
  `method_batch` have two methods that compete for one place in the batch, without
  kills, upgrades or a second policy (with all of it the instance is out of TLC's reach).
  The safety proofs cover any number. `MaxWaiting` bounds workers that have not yet tried
  the lock; a second one exits at once. `MayUpgrade` allows one change of release.
* `official_activation`: three calls let two rivals race and a third find what they
  left; the pool's times place the hand-over before, at and after the end of a window,
  and chains of two have a root that was current, retired and expired within five
  instants.
* `hosted_reuse`: versions of two components in place of four; the ranges meet at open
  and closed bounds, in both spellings of a version, and include an empty and an
  unreadable one, and the probes lie below, between, on and above the bounds. A limit of
  two chunks lets a body be cut, complete, overlong and over the limit.
* `service_trust`: with `CacheSeconds = 1`, offers that live 1 or 3 seconds (the service
  begins with the shorter), queries and results that live 2, one second of sleep and a
  clock of three instants, a cache can outlive its document and a withdrawal, a result
  can outlive its key, and a document can expire while it is being read or while the
  host sleeps. A second rotation adds nothing, since a discovery names one root and is
  compared with one.
* `agent_side` is the union of three components that share no state: each runs while the
  other two rest in an initial state. The profiles it starts from are those of a fresh
  agent, of one with entries of others, and of a migrated one; its edits reach the rest.
  A late answer needs a first query that times out and a second that reads it; a
  left-over line needs a second server. Three lines reach every pair of session states
  and one request in it.
* `MaxTime` ends the clock of the identity model at 2: with `Ttl = 2` and `Margin = 1`
  a session is issued, reused, about to expire and replaced within it.

### Deadlock

`adoption`, `official_activation`, `hosted_reuse`, `service_trust`, `service_expiry`,
`agent_side` and `publication` turn deadlock checking off: their invocations, clocks or
bounded edits end, and the system then rests.

### Fairness

Only `method_capture`, `method_settling` and `method_batch` check liveness. `Fairness` of
`MethodCapture` says that a worker that holds the lock runs on (it is a process with
bounded time-outs), that spawned workers get to try the lock, and that the owner keeps
retrying (`docs/MANAGED-SERVICE.md:307`; the server also schedules a worker whenever it
starts, `mcp_server.py:224`). Nothing in the code makes a network or a full disk come
back, so `<>[][~Failure]_vars` assumes it: from some time on no attempt fails that host
and service could let succeed, files can be written and workers spawned. `MustFail`
exempts the failures that the code itself causes, which may go on for ever. A status
file replaced between its `lstat` and its `open` still ends a batch as often as it likes.
`SettlingSpec` adds that the service decides what it has received. Registrations need no
fairness.

`QueuedIsSettled` excepts what no retry can mend (`Stuck`: the state file binds a policy
that is no longer in force, the release was withdrawn before its status said so, or the
draft is torn) and what stands behind a batch full of stuck methods (`Crowded`); see
section 5.

## 5. Violations

* `method_batch` -- `docs/MANAGED-SERVICE.md:307` offers `--sync` to retry pending or
  failed submissions. `sync_methods` starts every batch at the first folder and counts
  a folder that only waits for admission towards the limit: when as many methods are
  pending as a batch takes, a later one is not attempted while they stay pending.
* `identity_renewal` -- `docs/MANAGED-SERVICE.md:39` says an expired session renews
  through one POST. The answer is validated at the time sampled before the inspection
  and the wait for the lock; a session the service issues a second later is refused.
* `service_expiry` -- `docs/TRUST-MODEL.md:86-89` lists expired discovery among what fails
  closed. A cached discovery is returned while `time.monotonic()` is before
  `_cached_until` (`service_connector.py:818`); the lifetime it is given is counted from a
  time sampled before the two requests (`:820`) and added to the monotonic clock after them
  (`:879`), which may moreover stand still while the host sleeps. The counterexample
  has a second of inspection and a second of sleep; two of either alone are enough.

Further behaviour found while modelling, kept in the models as it is but not stated by
a run:

* A failure outside the classes `adopt_exact_component` catches (an `OSError` while
  copying, an interrupt) leaves copied files without a receipt (`installer.py:273`); its
  docstring says files are removed on any failure (`installer.py:174`).
* A directory that its maker leaves because a rival uses it stays behind empty when the
  rival fails later: `EmptyDirectoryHasCause` names this and the other causes.
* A registration repeated after an upgrade of the client is refused, because the stored
  draft names the earlier release (`method_capture.py:250`, `:160-166`; README.md:214 says
  that a repeated registration returns the same reference).
* A status `active` is never asked about again (`method_capture.py:321`): it stays when the
  release is revoked or retired.
* Query results, plans and grants are validated at a time sampled before their request
  (`service_connector.py:919`, `:1298`, `:1340`), with the effect of `identity_renewal`.
* How long an expired discovery is used is bounded by the length of the inspection and
  the time the host slept: `DiscoveryUseIsBounded`, the part of `service_expiry` that holds.
* A transition may restate a longer window for the key it retires
  (`service_contracts.py:1943`).
* A changed policy strands queued methods that have a state file: the saved intent binds
  the old policy, so a retry under the new one fails in `_state` (`publication.py:334`)
  and is written down as a transient `retryable`, for ever.
* `connect` and `disconnect` rewrite the agent's profile from an earlier copy: an edit
  in between is lost, and `disconnect` takes away an entry whose values no longer match
  (README.md:258-259; `agent_integration.py:336`). `OwnerEntriesStay` is therefore about
  entries that a call had read and that still stand when it writes.
* A rival activation one second earlier makes the later one raise although the service is
  then enabled for the same locator: the two states differ in `activatedAt`
  (`official_service.py:334`); a repeated call succeeds.
* The continuation accepts results of 1.3 and 1.4 as well as 1.5
  (`docs/MANAGED-SERVICE.md:163` says the current contract), and a public-edge object,
  whose request carries no credential, is only fetched by a client that has a bearer
  (`service_connector.py:1051`).
* The digest of an `install-and-verify` action is not compared with the selection's
  (`validate_next_action` sees only the action).
* `upload_file` compares the digest after the last chunk has been sent
  (`service_connector.py:491`).

## 6. Proofs

Proved by TLAPS, for every value of the constants that meets the assumptions of the
module. The assumptions say that names do not clash, that bounds and times are
numbers, and what shape a constant has; none is about behaviour.

| Module of proofs | Properties of runs that it proves | Beyond them | Assumptions |
|---|---|---|---|
| `AdoptionProofs` | `ReceiptSound`, `EvidenceIsOwn`, `HandledFailureLeavesNoFile`, `EmptyDirectoryHasCause`, `OnlyOwnFilesTouched` | `TypeOK`; two invocations never both hold a path as created (`CreatedIsExclusive`) | the targets of a recipe are distinct; `Parent` maps targets to directories; names |
| `MethodCaptureProofs` | `OneIntent`, `OnlyReviewedPolicy`, `OnlyConsentedLeaves`, `RecordBeforeReply`, `StatusIsTrue`, `SettledStays`, `ImplementsLedger` | `TypeOK` | ranges of the constants |
| `InstallationIdentityProofs` | `OneInstallation`, `FileIsBacked`, `IdentityIsKept`, `SessionsAdvance` | `TypeOK`; a connector's bearer is its service's, under the caller's terms (`TokenFitsCaller`); a publisher's key is registered (`PublisherIsRegistered`) | times are numbers; `None` is no name |
| `OfficialActivationProofs` | `ClientsAgree`, `NextStepIsOpen`, `RootsMoveOn` (of `RootChain` alone and with activations), `ReturnedIsStored`, `EnabledIsEnrolled` | the type invariants of both; an activation is a step of `RootChain` or none (`ActivationKeepsRootChain`) | limits and dates are numbers; `None` is no state |
| `HostedReuseProofs` | `AcceptedFits`, `StagedIsSelected`, `EndedIsSettled`, `DestinationStays` | `TypeOK`; a covered range admits what the required one admits, for every two ranges and every version (`CoversAdmits`) | objects have a length; ranges are lists of clauses; names |
| `ServiceTrustProofs` | `RootWasInForce`, `DiscoveryUseIsBounded`, `WithdrawnKeysFade`, `CacheMovesForward` | `TypeOK` | times are numbers, an offered document has keys and a lifetime; names |
| `PublicationProofs` | `ReportIsTrue`, `OnlyPreparedIsHeld` | `TypeOK` | bounds; names |
| `AgentSideProofs` | `AnswerIsOwn`, `AnswersInOrder`, `ReadyAfterHandshake`; `ConnectedIsTrue`, `OwnerEntriesStay`; `SelectsTheBest`, `UsedByItsCatalog` | the type invariants of `McpSession` and `AgentIntegration` | bounds; an entry of the Library is none of the owner's; a catalog is finite, ids and priorities are ordered like numbers |

`AgentSideProofs` is about three components: the session of an agent, the profile
that names the server and the catalog the server answers from. It extends all three
(their specifications are `Spec`, `IntegrationSpec` and `CatalogSpec`).

Each invariant follows one argument: an inductive invariant, that `Init` implies it, one
lemma per action that the step keeps it, and the theorems as consequences. TLC checked
each inductive invariant on the instance of the run before it was proved.

* Adoption (`IInv`). `ReceiptSound` alone is not inductive: a receipt is true because of
  what its invocation had established at an earlier stage. `Good(a)` says, stage by stage,
  which files are `a`'s own (`Owned`, `OwnIsCreated`), which have been rehashed
  (`Rechecked`), what the receipt was composed from (`Recorded`) and who may hold the
  evidence (`Evidence`). `UndisturbedIsGood` carries it across the steps of others: an
  `O_EXCL` creation and an unlink of own files cannot disturb it.
* Method capture (`IInv`). The safety properties are about the service and the disk, the
  steps about the two lock holders: `RegOK` and `SyncOK` say what each holder has
  established at its line, `DraftOK`, `BoundOK` and `TrueOK` what the files and the service
  then satisfy. `BoundOK` is the heart: all the service has of a method is the intent of
  the state file, and a state file is never replaced.
* The refinement (`RefInv`). Under `IInv`, what the ledger asks for beyond the safety
  properties is that a worker only looks at methods with consent and that the service has
  no admission of what it has not received; then each action is one action of
  `MethodLedger` or changes none of its four variables.
* Identity (`IInv`). `LockOK` (whoever is in the critical section is the holder) makes the
  state in the holder's hands (`HeldOK`) comparable with the file at every step, although
  the call read it before it went to the network.
* Root chain (`ChainInv`). Every transition stands where its sequence number says and
  follows from the one before (`ChainOK`); the stepping client's pin is what the chain
  says at its place (`PinOK`). That both clients agree needs the *first* transition not
  yet in effect, which exists because the natural numbers are well-founded. Publishing
  appends, so `PublishKeeps` carries all of it.
* Activation (`ActivationInv`). A call that has seen a stored state still finds it unless
  the owner has removed one since (`SeenIsStored`): nothing replaces a state. Whatever is
  stored, or about to be, follows an enrolment (`StoresEnrolled`).
* Ranges. The order of versions is total (the first component that differs decides), so a
  satisfiable list of clauses has a strictest bound on each side, and `Covers` compares
  exactly these.
* Hosted reuse (`HostedInv`). A result is kept only when it is valid for its query
  (`KeptIsValid`); a call holds the result kept for its own request from the first step to
  the last (`HoldsKept`), and before it links, its file is the whole selected object
  (`FileOf`, `PlacedIsThere`). The owner may take the destination away at any time, so
  the properties speak of what a call placed there and of what nobody placed since.
* Service trust (`TrustInv`). The two requests of an inspection see two different services.
  What makes the result right is `Grows`: a rotation takes effect after the moment it is
  published, and a document is dated at that moment. So the root at a past time
  (`RootStays`) and a document once published never change, and `CacheOK` and `CallsOK`
  need only relate an entry to the times, on both clocks, it was made at; the wall clock
  is never behind the monotonic one, and their difference only grows.
* Publication (`PubInv`). The state file is written once, so all calls past the preparation
  follow one intent; a decision needs the content (`CallOK`); and admission only moves
  on (`Onward`), so that a report which was true of a decision stays true.
* MCP session (`McpInv`). What is in a pipe is the end of what was written to it
  (`LinesOK`), answers are those of the lines handled so far (`AnsweredOK`), ids grow
  and are never used again by a connector, over time-outs and new servers. So an answer
  with the awaited id can only be that line's (`QueryOK`, `PendingOK`, `TakenOK`).
* Agent integration (`AgentInv`). What a call has read stood in the profile since it began
  (`CallOK`, over the history `held`), so a connect records, and reports, only a
  descriptor it put there or found there; a call writes only where it read no entry, or
  the entry of the record.
* Catalog (`CatalogInv`). Every decision is what `Select` makes of its catalog. The content
  is in `SelectIsBest`: a finite set can be sorted by any strict order (`Sorting`, by a
  smallest subset that cannot be), the sorts put the highest priority and the two best
  scores first (`PrioritySort`, `ScoreSort`), and comparing these two with each other
  is comparing one with all.

The properties of the table are also checked by the runs; `TypeOK` and what stands under
"beyond them" are stated and proved without a run of their own.

Three corrections of the models came out of proofs. The CASE expressions of `McpSession`
had overlapping guards, so that what they denote was left open; they are now conditionals
in the order of the code. A junk line of `McpSession` could carry an id. The sorts of
`CatalogSelection` used an order that leaves two versions of one capsule unordered, for
which the library's sort operator denotes nothing in particular.

### Only model-checked

* Liveness (`QueuedIsSettled`, `QueuedIsOffered`): the proof system has no ENABLED.
* That every declared action can occur and every property can be broken by a mistake in the
  code: the runs and their mutated definitions show it on their instances.

## 7. What is not modelled

* Cryptography: a signature is the identity of the key that made it, a digest is the
  content it binds, and a validated document is one that the model calls valid.
* Byte formats, schemas, size limits and wording: one valid shape stands for all, and
  a refusal for a malformed one is a nondeterministic failure where it changes state.
* Permissions, symbolic links and file-system races below the level of a system call,
  except the `lstat`/`open` window of the status file.
* Key rotation of an installation (generations after the first): the contracts
  validate it, no code of the repository starts it.
* A wall clock that is set back, or that differs from the service's: `Suspend` stands for a
  host that slept and for a clock set forward to the right time.
* What the sandbox isolates, and the managed service itself.
* The sandbox's wait loop (`sandbox.py`): one caller and its private child, with a
  deadline; the caller sees pass, fail or an error, which are `Adoption`'s verifier.
* Audiences, scopes and policy modes of queries and results, and the contracts of outcome
  attempts, receipts, releases and assessments, which no operation of the client uses or
  which the service builds.
* The encoding of exact file bundles and the observation of the receiver's environment:
  pure functions without state; the command line, the demonstration, schemas and scripts.
