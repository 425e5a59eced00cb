# Verification of seppo

seppo is a Rust library for tests that run against a Kubernetes cluster. A test
holds a `Context`, which is a client and a namespace, and calls it: apply this,
wait until that is ready, scale, roll back, forward a port, send traffic. The
library keeps almost no state of its own. The state that matters is in the
cluster, several actors change it at the same time (other tests, the
controllers, the kubelets), and every call of the library is a sequence of
requests between which anything may happen, and each of which may fail before or
after it took effect. That is what these modules are about: what a call of seppo
*promises* when it returns, given that the world does not hold still.

All paths below are relative to the repository; line numbers are in
`PROJECT.json` (`map`).

- [1. The system](#1-the-system)
- [2. Modules](#2-modules)
- [3. What the runs check](#3-what-the-runs-check)
- [4. Bounds](#4-bounds)
- [5. Fairness](#5-fairness)
- [6. Proofs](#6-proofs)
- [7. Where code and documentation disagree](#7-where-code-and-documentation-disagree)
- [8. What the models leave out](#8-what-the-models-leave-out)
- [9. Plan](#9-plan)
- [10. Running everything](#10-running-everything)

## 1. The system

Everything is reached through `Context` (`src/context/mod.rs`), whose methods are
spread over the files of `src/context/`. The components, the state behind each,
and what makes each hard:

| Component | Source | State it reads or changes | Operations | What is hard about it | Module |
|---|---|---|---|---|---|
| polling waits | `context/waiting.rs`, `context/readiness.rs`, `eventually.rs` | a clock, one polled object | `wait_for`, `wait_deleted`, `wait_pvc_bound`, `wait_ready`, `eventually`, `consistently` | answers are old when they are judged; the deadline is looked at between polls only; some errors end a loop, some do not | `WaitLoop` |
| workload operations | `context/workload.rs`, `context/crud.rs` | a Deployment, its ReplicaSets, its Pods | `apply`, `delete`, `scale`, `restart`, `rollback`, `kill` | `rollback` is get, list, patch; the controller renumbers revisions; a merge patch cannot remove | `Workload`, `Rollout` |
| dynamic resources | `context/dynamic.rs` | one object and its `resourceVersion` | `apply_dynamic`, `delete_dynamic` | get and replace/create without a retry; answers lost after the write | `DynamicApply`, `AtomicUpdate` |
| readiness and resilience scenarios | `context/scenarios.rs`, `context/readiness.rs` | the Pods, the reported `readyReplicas` | `wait_ready`, `test_scaling`, `test_self_healing` | the status lags behind the spec and behind the Pods | `Rollout` |
| stack deployment | `context/stack_deploy.rs`, `stack.rs` | which Deployments and Services exist | `up` | concurrent creates, first error wins, what was sent still lands | `StackUp` |
| generated tests | `seppo-macros/src/lib.rs`, `context/lifecycle.rs` | the namespaces | `#[seppo::test]`, `Context::new`, `cleanup` | parallel tests, colliding names, panics, kills, answers lost | `SeppoTest`, `StoryTest` |
| traffic generation | `context/scenarios.rs`, `context/traffic_types.rs` | three shared counters, a stop flag | `start_traffic`, `stop`, `stats`, `wait`, percentiles | a detached task; counters read one by one; rounded indices | `Traffic`, `Statistics` |
| port forwarding | `portforward.rs`, `context/forwarding.rs` | a listener, one proxy task per connection | `port_forward`, `get`, `post`, `put`, `delete`, drop | two copy directions under one `select!`; no timeout; end of stream taken for end of answer | `PortForward` |
| RBAC | `context/rbac.rs`, `context/network.rs` | an account, a role, a binding | `RBACBuilder`, `apply_rbac` | three applies that may stop half way; shared names; rules that multiply | `Rbac` |
| network policies | `context/network.rs`, `context/parsing.rs` | the policies of a namespace | `isolate`, `allow_from` | policies add up; their names are hashes | `Policies` |
| single requests and patches | `context/crud.rs`, `context/patching.rs`, `context/mod.rs` | one object that others write too | `apply`, `get`, `list`, `delete`, `patch*`, `improve_error_message` | each kind of patch treats what it does not mention differently; causes are guessed from texts | `Requests` |
| secrets | `context/secrets.rs` | a secret; files and variables | `secret_from_file`, `secret_from_env`, `secret_tls` | several reads and one apply while the sources rotate | `Secrets` |
| pod exec and file copy | `context/exec.rs` | a remote process, its streams, a file | `exec`, `copy_from`, `copy_to` | `stderr` attached and never read; exit status never looked at; orphaned commands | `Exec` |
| retry | `context/retry.rs` | attempts, backoff | `retry` | the last attempt, the doubled and capped sleep | `Retry` |
| ingress expectations | `context/ingress.rs` | the first error of a chain | `ingress(..).expect_*`, `must` | several reads of a changing object; matching rules of its own | `Ingress` |
| assertions, wait errors | `assertions.rs`, `context/context_assertions.rs`, `wait.rs` | none | `assert_*(..)` with its questions, the description of a timeout | several ways to judge one object, by reads of their own | `Observe` |
| scenario and step runners | `scenario.rs`, `runner.rs` | the steps written so far | `given`, `when`, `then`, `step`, `run` | steps replaced and forgotten; early returns; a caught panic; exit codes | `Scenario` |
| logs, debug, diagnostics | `context/logs.rs`, `context/debug.rs`, `diagnostics.rs`, `context/diagnostics_ctx.rs` | a report in the making | `collect_diagnostics`, `logs_all`, `debug` | request after request, each of which may fail, while pods go | `Diagnostics` |
| fixtures | `fixtures.rs` | a builder | `deployment`, `pod`, `service`, their labels | other calls find pods by the labels made here | `Fixtures` |
| HTTP assertions, traffic recorder | `traffic.rs` | messages of a chain; records | `contains`, `contains_json`, ..., `result`, `assert` | a chain that goes on after a failure; slices at byte positions | `HttpAssert`, `Statistics` |
| pod metrics | `metrics.rs` | none | `metrics` | texts that tell errors apart; units | `PodMetrics` |
| names, telemetry | `context/parsing.rs`, `context/types.rs`, `telemetry.rs` | none | string formats, a log subscriber | nothing that a state machine shows | not modelled (but the hash of labels: `Policies`) |

**How they interact.** By calls: `#[seppo::test]` calls `Context::new`, the test's
body, `collect_diagnostics` and `cleanup`; `test_scaling` is `scale` and
`wait_ready`; `test_self_healing` is a list, `kill` and `wait_ready`; `wait_ready`
is `wait_for` with a predicate for the kind (for a Service it is one get);
`start_traffic` opens a `PortForward` and moves its URL into a task. By shared
state: all calls of all tests meet in the cluster's objects; within a process,
`TrafficHandle` and its task share atomics and a mutex, `PortForward` and its
accept loop a oneshot channel. There are no callbacks but the user's conditions
and test bodies.

**What makes each correct**, in one sentence:

- a wait returns in time, notices a condition that holds long enough, never
  reports a timeout for what it saw, and ends;
- whatever interleaves with a `rollback`, nothing but the template goes back, and
  it goes back to the revision before;
- `apply_dynamic` overwrites exactly what it read, and its errors are conflicts
  with somebody who made progress;
- a successful `wait_ready` says something true about the Pods;
- an `up` that succeeds has made everything; one that fails has made no Service
  without its Deployments;
- a test has its namespace to itself, a failed one keeps it, a passed one removes
  it or says so;
- traffic ends, keeps to its rate, and its statistics are those of some moment
  close to the call;
- a proxy does not cut answers short, nor keep a request waiting for a dead pod,
  nor its port after it is dropped;
- an account gets exactly the permissions asked for, whichever apply failed;
- an isolated pod stays isolated, and an allowed source gets through;
- a request loses nothing that others wrote and it does not mention, and its
  error names the cause;
- a copy without another writer is whole, and a quiet command never hangs it;
- assertions, waits and descriptions of one state agree, and an expectation that
  passed was true of the ingress it looked at;
- a test that passed has held every step it wrote, and a report hides nothing.

## 2. Modules

Each component is a module with its constants and their assumption, its
variables, one action per step that others can observe, its next-state relation,
and its properties. The theorems about it are in a proof module that extends it
(section 6). A definition whose
comment says *Mutation* is not part of the specification: it is a plausible bug
in the definition that follows, and `PROJECT.json` (`mutants`) says which
property it breaks.

An `MC...` module instantiates modules for TLC. Components that interact are
composed: `StoryTest` is a generated test whose body is a scenario and whose
failure is diagnosed, one specification with the steps of all three. Components
that share no state but belong to one question share a run instead: the variable
`part` of the `MC` module picks at the start which of them a behaviour is about,
and the others stand still in one initial state. So the states add up and do not
multiply, and every module keeps variables of its own. No run switches the check for
deadlock off: where a part really stops - every call has returned, every test has
ended - a stuttering disjunct says so by name (`AllReturned`, `Over`, `Spent`), and
anything else that stands still is an error.

| Run module | Puts together |
|---|---|
| `MCObjects` | `DynamicApply`, `Requests`, `Secrets`, `Policies`, `Rbac` |
| `MCRollout` | `Workload`, `Rollout`, `Observe`, `Ingress` |
| `MCSeppoTest` | `SeppoTest`; `StoryTest`, the composition of `SeppoTest`, `Scenario` and `Diagnostics`; `Diagnostics` alone |
| `MCTraffic` | `Traffic`, `Retry`, `HttpAssert`, `Statistics`, `PodMetrics`, `Fixtures` |
| `MCCalls` | `WaitLoop`, `StackUp`, `PortForward`, `Exec` |

A request to the API server is modelled by the instants at which it matters:
sent, evaluated, answered. Where nothing can depend on the difference (a single
request, no answer used later), it is one action. Requests that were sent and
given up are kept "on their way" wherever a late effect could hurt (`StackUp`,
`SeppoTest`).

### WaitLoop - one polling loop

Five loops share one shape and differ in which answer decides (`Decisive`), what
they then return (`Verdict`) and what they return when time is up (`Expired`).

| Variable | Code |
|---|---|
| `loop` | which function: `wait_for_with_timeout`, `wait_deleted_with_timeout`, the service arm of `wait_ready_with_timeout`, `Eventually` or `Consistently::await_condition`. `wait_pvc_bound` is `wait_for` with phase = Bound |
| `now`, `pollStart`, `wake` | `start.elapsed()`; when this poll began; when this sleep ends |
| `obj`, `seen` | the object in the cluster (absent, unmet, met), the answer of the poll |
| `step`, `attempts`, `result` | position in the loop, polls begun, the returned value |
| `since` | history: since when every poll would have been decisive |

`Serve` and `Fault` are the API server's evaluation or the failure of the
request, `Return`, `GiveUp`, `FallAsleep`, `Wake` the loop, `Change` anybody
else, `Tick` the clock, which cannot pass the moment by which a request is
answered (`Latency`) or a sleeper is woken (`Slack`).

### Workload - the spec of a deployment

Two tests apply, scale, restart, delete and roll back one Deployment. `rollback`
is three actions - `RollbackGet`, `RollbackList`, `RollbackPatch` - and all others
may act between them. `Observe` is the deployment controller: when it sees a
template, the ReplicaSet that has that template gets the highest revision number
(also one that existed already: this is what makes "the previous revision" a
question about history). A template is an image plus one optional key
(`restartedAt`), because `Merge` - an RFC 7386 merge patch - treats keys that are
there and keys that are missing differently.

### Rollout - the pods of a deployment

The same operations seen from below: Pods come, go and change readiness, the
controller reports `readyReplicas` now and then (`Report`), and the test scales,
restarts, kills and waits. `DeploymentIsReady` is the code's
`ready_replicas >= spec_replicas`, and nothing else is looked at.
`WaitLoop` says when a wait polls; `Rollout` says what a poll proves.

### DynamicApply, AtomicUpdate - optimistic update

`apply_dynamic` on one object: `Get`, then one write that the server takes
(`Land`) or refuses (`Refuse`), or that is lost (`Lose`), then `ReturnOk` or
`ReturnError`; other writers without a version (`OtherWrite`).
`AtomicUpdate` is what it promises, stated without requests: an update takes
effect at one instant at which the object still is what the caller based it on,
and "ok" is only ever said of an update that did. `DynamicApply` implements it
under the refinement mapping `StateOf`.

### StackUp - `Context::up`

Several calls of `up` for one stack, whose definitions may share names, lack
images, or have no port. A request is `none`, `sent`, `created` or `error` per
call, kind and definition; `Joined` and `Failed` are the two ends of
`try_join_all`. `Create` is not tied to the call still waiting: a create that was
sent lands whenever it likes. A retry is one more caller.

### SeppoTest, NamespaceLease - generated tests and their namespaces

Each test draws a name, creates its namespace, runs, and then deletes it or keeps
it and panics. `creating` and `deleting` are the requests on their way. `Kill` is
the death of the test process at any point, `Finalize` the namespace
controller. `keepAll` is `SEPPO_KEEP_ALL`.

`NamespaceLease` is what this amounts to, stated without requests, panics or
kills: a name is leased to one test at a time, used only by its holder, given back
only by a test that passed, and possibly granted to a test that has already been
given up, which then has it for good. The refinement mapping takes an active
namespace for a lease of its owner and `StageOf` for the stage of a test:
`NamespacesAreLeased` is proved (section 6), for tests whose body is anything and,
through `StoryIsATest`, for those whose body is a scenario.

### Traffic - the traffic task and its handle

The loop of the spawned task, one action per atomic operation (`CountTotal`,
`CountError`, `Push` are three steps because the reader may come between them),
next to `Stop`, `Drop` and a `stats()` call whose three loads (`Load`) happen in
any order: the loads are relaxed. The relaxed stop flag is seen by the next load
after it was set; a processor may be slower by far less than the model's unit of time.

### PortForward - listener, proxies, request()

The choice of the pod, the accept loop with its shutdown branch, a proxy per
connection, and clients: those that go through `request()` and those that were
given the URL (`Outside`), which may connect after the `PortForward` was dropped
and may shut down their half of a connection. `Endings` is what a client reads
from a socket the proxy closed.

### Rbac - builder and apply_rbac

The builder turns permissions into rules (`Can`, `ForApiGroup`), `Grants` is how
the API server reads rules, and `ApplyAccount`, `ApplyRole`, `ApplyBinding` are
the three applies, each of which may fail before or after its effect. Callers
share accounts and custom roles.

### Requests - single calls and their errors

An object is fields plus a list of containers, which have names and positions
(`item.order`). `Send...` puts a call on its way, `Succeed` is the API server that
takes it, `Refused` and `Breaks` end it with an error that `Improved` turns into a
message. What becomes of the parts that are not mentioned depends on the patch:
`MergePatch` takes the list as a whole, `PatchEach` goes by name, `ServerSideApply`
removes what the same manager applied before, and `JsonPatch` goes by index. An
operation on the list (`Edits`) replaces, removes or adds at an index, with or without
a `test` of the name before it, and it is made from the order that its caller has seen
(`sent.seen`), while the server hits whoever is there when it arrives (`Hits`): others
insert, remove and reorder in between. `theirs` remembers what others wrote and no call
has meant since.

An error message is the *set of texts* in it that `improve_error_message` looks for.
Its cause gives it one (`OwnText`), a 409 Conflict that of "already exists", an invalid
object or a failed webhook none; and whatever the answer quotes - names, fields such as
`timeoutSeconds`, a webhook's "connection refused" - gives it any of `Quotes` besides.

### Secrets - several reads, one apply

`Call`, `Read` per key in an allowed order, `ReadFails`, `ApplySecret` (whose
answer may be lost); `Rotate` is the owner of files and variables between any two
of them. `during` remembers what every source contained while the call ran.

### Policies - isolate and allow_from

The set of policies, each with the name the code gives it; `Put` replaces one of
the same name. `Reaches` is how a cluster network reads all of them together.
`Suffix` is a hash, and two of the label sets of the run share it.

### Exec - exec, copy_to, copy_from

Per call: the caller (`Read`, `OutputEnds`, `OutputFails`), the command (`Complain`
on stderr, `Cat`, `Truncate`, `WriteChunk`, `Exit`) and the stream, which ends with
the command or breaks. Buffers are bounded, stderr is never read, and a command
whose stream has broken goes on. Two calls share one file.

### Observe - assertions, readiness, descriptions

Six kinds of objects in all the states their controllers can write, every question
the code can ask of them (`Holds`), one get per question, and what a timed out
wait describes. A pod has a list of container statuses or none, and the list may be
empty. Two answers about one state are compared.

### Ingress - a chain of expectations

`Host`, `Path`, `ExpectBackend`, `ExpectTls`, `Must`, with the error kept along the
chain, while `Change` replaces the ingress. `Routes` is what a controller does with
the same rules; `PathMatches` is the code's own opinion.

### Scenario, Diagnostics, StoryTest

`Scenario` first writes (the builder calls, in any order and number) and then runs;
`holds` is which closure a step has when `run` begins, `held` which closures have run
and were content. `Diagnostics` collects a report, step by step, and prints it. An
event has the reports in which a character of its texts lies across the byte where they
are cut (`cuts`): in the print of `collect_diagnostics` (kind and name after 9 bytes,
the reason after 7) and in `debug` (the message after 57) the slice panics there, so
`Display` and `DebugBreaks` end the report with everything after it missing.
`StoryTest` lets the one be the body of a generated test and the other its end.

### Retry, HttpAssert, Statistics, PodMetrics, Fixtures

`Retry` counts attempts and sleeps against an operation that works from some time
on. `HttpAssert` is a chain of checks of one response, written to end in `result()` or
`assert()`, whose messages quote it up to a byte that may lie within a character; `Means`
is what a check says, `Holds` what the code makes of it. `Statistics` keeps how many samples there
are of each duration and computes index and value as the code does.
`PodMetrics` adds up quantities with units and tells failures apart by texts that
overlap: `Classify` looks for all four of them in the order of the code, in each of the
texts an API server may send (`ErrorTexts`) and with pods called "web-404". `Fixtures` builds and
applies deployments, pods and services, and looks pods up by label the way four
calls of the library do.

## 3. What the runs check

Twelve runs, five that pass and seven expected to find a violation. State counts
are distinct states.

| Run | Question | Properties | States |
|---|---|---|---|
| `calls` | Do the calls that wait for somebody else return, in time, and what is an Ok of theirs worth? | waits: `ReturnsInTime`, `PromptOnceDecided`, `TimeoutIsTruthful`, `WaitsTerminate`; `up`: `OkIsComplete`, `NoServiceWithoutDeployments`, `RetryOfPartialFails`, `StacksReturn`; port forward: `ProxyNeverTruncates`, `DeadPodReleasesRequests`, `DropClosesListener`; exec: `CleanOkIsWhole`, `QuietCallsReturn` | 498,406 |
| `rollout` | What may a rollback, a scale or a restart do to what others did, and what does a success - of a wait, an assertion, an expectation - say about the cluster? | `NoLostScale`, `NoForeignImage`, `RollbackReturnsToPrevious`; `FreshSuccessIsTrue`; `VerdictsAgree`; `PassMeansRouted` | 1,244,049 |
| `objects` | What do calls about single objects leave, next to others? | `RefusalIsProgress`, `IsOptimistic` (refinement of `AtomicUpdate`); `OthersAreKept`, `MessageNamesTheCause`; `SecretIsWhole`; `IsolationHolds`; `BindingNeverDangles`, `OkMeansGranted` | 2,245,686 |
| `seppo_test` | Are parallel tests isolated, what do they leave, and what do a pass and a report mean? | `OwnNamespace`, `KeptOnFailure`, `SilenceMeansDeleted`; `PassedMeansHeld`; `DiagnosisMissesNothing` | 322,772 |
| `traffic` | Does traffic end, and what are the numbers, checks and lookups of a test worth? | `EndsInTime`, `StopEndsSoon`, `SnapshotIsClose`; `PercentilesDivide`; `ChainTellsAll`; `ReportIsHonest`; `RetriesArePatient`; `LookupsFindByName` | 2,334,893 |
| `rollback_after_restart` | Does rollback install the previous revision's template? | `RollbackUsesThatTemplate` - **violated** | |
| `restart_is_complete` | Does wait_ready wait for a restart? | `RestartIsComplete` - **violated** | |
| `ok_means_answered` | Is an Ok of request() the pod's whole answer? | `OkMeansAnswered` - **violated** | |
| `copy_is_written` | Is an Ok of copy_to a written file? | `CopyOkMeansWritten` - **violated** | |
| `rate_is_a_fraction` | Is an error rate a fraction? | `RateIsAFraction` - **violated** | |
| `result_returns` | Does a chain that ends in result() return? | `ResultReturns` - **violated** | |
| `missing_server_is_named` | Is a metrics-server that is not installed reported as such? | `MissingServerIsNamed` - **violated** | |

The comment above each property in its module states it in words. Type invariants
(`TypeOK`, `WaitTypeOK`, `StackTypeOK`, ... of the modules with proofs) and a few properties that the runs no longer spend time on
(`PollsAreSpaced`, `RevisionsFollowHistory`, `SuccessIsWitnessed`,
`AtMostOneSucceeds`, `RateIsKept`, `RulesGrantWhatWasAsked`, `NamespacesAreLeased`,
`ShutdownSparesRequests`) are proved for all values of the constants instead
(section 6). Every safety and every action property in the table is proved as well.

Some properties deserve a remark on why they are shaped as they are.

- `ReturnsInTime` is what `timeout` really promises: `Timeout` plus one interval,
  one late wake-up and one request - not `Timeout`.
- `PromptOnceDecided` is the counterpart: a state that decides the loop and lasts
  two requests, an interval and a late wake-up is always noticed.
- `RollbackReturnsToPrevious` is conditional, and the condition is the point: the
  list must still be current, and the target must name every key of the current
  template. The second condition cannot be dropped (section 7).
- `NoForeignImage` excludes one case: the Deployment was deleted and created again
  *between* the get and the patch. The code patches by name and does not send the
  uid, so an image of the predecessor can then be installed; the history variable
  `used` records exactly that case.
- `OthersAreKept` has its exceptions written into `Spared`: a merge patch that
  mentions one container owns the whole list; and a `patch_json` that addresses a
  container by index and does not test its name answers for whatever is at that index,
  once the list is not as its caller read it. With the test, or on an unchanged list,
  nothing of anybody else's is touched.
- `MessageNamesTheCause` says how far the guess from texts can be trusted: a message
  that does not name the cause names a text that the answer quoted, and one that is
  looked for before the cause's own. So an "invalid" that mentions `timeoutSeconds` may
  be told as a timeout, but a refused permission never is; a conflict is always told as
  "already exists"; and the raw message comes only when there was no text at all.
- `DiagnosisMissesNothing` has two ends of a report. A whole one has everything. One
  that an event breaks off has all pods (collected before the print) and all events
  before that one, and the event that did it is one of those that were fetched. A list
  of pods or events that failed is left out without a word: the code has no text for it.
- `SnapshotIsClose` bounds each count of a snapshot by the requests counted when
  `stats()` began and when it loaded that count. It is what remains of "0.0 to 1.0":
  errors may exceed the total by those counted between the two loads (section 7).
- `ChainTellsAll` asks for what a check *says* (`Means`), not for what the code
  computes; the difference is a number found as the beginning of a longer one.
- `ReportIsHonest` lists what each error of `metrics()` may stand for.
- `IsolationHolds` is about label sets whose hash is their own (`OwnSuffix`); for
  the others the run has two sets of one hash, for which it fails without that
  condition.
- `VerdictsAgree` compares what different code says of one and the same state. It
  needs its exceptions: an outdated `observedGeneration`, a DaemonSet without
  nodes, a pod that has finished, and an empty list of container statuses, which
  `containers_ready` accepts and `wait_ready` does not.
- `PassMeansRouted` lists all the ways in which the test and the controller may
  differ; section 7 names the surprising one.
- `CleanOkIsWhole` assumes what `copy_to` does not check - that the command
  succeeded - and shows that then nothing else can go wrong, late writes of
  earlier failed calls included, as long as no other writer overlaps.
- `QuietCallsReturn` names the limit: what a command says on stderr must fit the
  buffer.
- `SuccessIsWitnessed` is weak because the code is: readiness is judged from a
  status that may be older than the call. What it excludes is a success for a
  number of Pods that never were ready together. `FreshSuccessIsTrue` is the
  stronger statement for a status reported after the call's own change.
- `RetryOfPartialFails` is not a wish but what `up` does: it creates and does not
  apply, so a retry of a half-made stack cannot succeed. A caller has to clean up
  first.
- `OkMeansGranted` ends when somebody else applies the role: two tests that name
  the same role do overwrite each other, and nothing in the code prevents it.

## 4. Bounds

A bound is a CONSTANT of the module or the size of a set; each appears in a guard
by its name.

| Run | Values | Why enough |
|---|---|---|
| `calls`: waits | `Timeout` 5, `Interval` 2, `Latency` 2, `Slack` 1 | several polls fit into the timeout, a request can be slower than an interval, and the timeout is no multiple of the interval, so the deadline falls into a request, a sleep and a late wake-up. No bound on the clock: it stops when the loop has returned |
| `rollout`: workload | 2 clients, 2 images, counts {-1, 0, 1}, `MaxUid` 2, `MaxClock` 1, `MaxRevision` 3 | two images and a restart give all templates that differ in either part; revision 3 is the first at which an old template can come back; one re-creation under the same name; -1 is a count that scale refuses. `Spent` is the end of all bounds: the last deployment is deleted and everything of it collected |
| `objects`: dynamic | 2 callers, 2 bodies, `MaxRevision` 4 | each caller can write, a third party can write in between, and the object can be deleted and come back |
| `objects`: requests | 1 field, 2 containers, 2 contents; answers that quote nothing, "not found" or "timeout" | one container to mention and one to lose, in either order; a quoted text that is looked for before every cause and one that is looked for after. No other bound |
| `objects`: secrets | the two TLS keys, 2 versions | any assignment of sources to keys, one file for two keys included |
| `objects`: policies | label sets {a}, {b}, {a, b}, the last two of one hash; pods with these labels or none | overlapping selectors, a collision and an unlabelled pod |
| `objects`: rbac | 2 callers, 2 accounts, 1 custom role, 2 verbs, a core and an apps resource asked for together, 1 custom group, `MaxCalls` 2 | roles shared by default name and by `with_role`; two calls of the builder can differ in verb and in group |
| `rollout`: pods | counts {1, 2}, `MaxPods` 4, `MaxVersion` 2 | two Pods of each template: a whole rolling update, and a kill during it |
| `rollout`: observe | counts up to `MaxCount` 2, one value per label, one port | none, some and all of two replicas or containers; every state a controller may write |
| `rollout`: ingress | 13 ingresses of at most two entries, paths /, /api and /api/v1, 2 backends | catch-all, prefix, trailing slash and exact entries in pairs; rules for a host next to rules for any |
| `calls`: up | 2 calls, 2 definitions, 2 names | all stacks of at most two definitions: names equal or different, with and without ports and images; the second call is the concurrent one or the retry |
| `seppo_test` | 3 tests, 2 names | three tests on two names: a collision is certain and a free name remains |
| `seppo_test`: story | 1 test, up to `MaxWritten` 4 builder calls | each of given, when and then once, and one of them again |
| `seppo_test`: reports | 2 pods; four events: one that is shown, two of one later time of which one breaks the report, one without a time that breaks `debug` | one log read before and one after something fails; an event before, next to and after the one that breaks the print |
| `traffic` | `Duration` 4, `Interval` 1, `ReplyTimeout` 2, `Slack` 1 | up to five requests, slow ones longer than the interval |
| `traffic`: retry | up to 9 attempts, sleeps from 1 to 50 units of 100ms, as in the code | the sleeps reach their maximum at the seventh and stay there |
| `traffic`: http | 4 responses, chains of 3 checks with either end | a wide character at 50 and one at 100 bytes; no JSON; an empty response |
| `traffic`: statistics | 2 durations, up to 205 samples | counts below, at and above one and two hundred: the index of the percentile is rounded either way, and capped for few samples |
| `traffic`: metrics | 2 containers, 4 units (one of them unknown to the parser), amounts 0, 1, 9, 15; a pod with a plain name or one like "web-404"; five failures | totals below, at and above the next unit. The scale is smaller than the real one so that TLC's integers suffice |
| `traffic`: fixtures | 2 names, 2 fixtures at a time, 2 replicas | a deployment next to a deployment, pod or service of the same or of another name |
| `calls`: port forward | 1 caller of `request()`, 2 others | a queue of several connections at shutdown; `request()` itself runs one at a time per caller |
| `calls`: exec | 2 calls, files of two chunks, buffers of one, up to `MaxNoise` 2 chunks of stderr | a half written file, a full buffer, and a noise that fits and one that does not |

The theorems of section 6 hold for every value of these constants, so for what is
proved the bounds only say how much TLC looked at.

The runs that expect a violation have the bounds of the run whose module they use, but
one client and one deployment for `rollback_after_restart`.

Symmetry is used for callers, clients or bodies that no property distinguishes,
and never in a run that checks liveness.

## 5. Fairness

Only four specifications assume any, each what the runtime and the client
libraries provide:

- `WaitLoop`: requests are answered or fail (the HTTP client), the runtime runs
  a ready task, time passes. Nothing is assumed of the cluster: the object may
  change forever or never. `Terminates` (`WaitsTerminate` in the run) then says that the loop ends whatever
  the cluster does.
- `StackUp`: a call that can take a step does, and a request that was sent is
  answered or breaks. `EveryUpReturns` (`StacksReturn` in the run) needs no fairness between definitions.
- `PortForward`: a task that can run does; `select!` polls its branches in
  random order and so starves neither, which is what the weak fairness of
  `Shutdown` next to that of `Accept` expresses; a stream to a dead pod ends.
  Nothing makes a living pod answer, so no property says that `request()`
  returns while the pod lives.
- `Exec`: the caller reads what there is, a command that is not held up gets on,
  and the end of a command is told (`ExecFairness`). Nothing makes the stderr of
  a command be read, because nothing does, and nothing makes a command that stands
  still fail.

In `MCCalls` the four fairness conditions stand side by side, and none asks anything
of a part that stands still: those of `WaitLoop` and `StackUp` are stated for their
actions *and* the part they belong to (`MCFairness`), and the fair actions of
`PortForward` and `Exec` are not enabled where these begin.
The other modules state safety only.

## 6. Proofs

Eight proof modules hold theorems, all checked by TLAPS for all values of the
constants that satisfy the module's `...Assumption`, which TLC evaluates in every run.
The assumptions are of four kinds:

- bounds and times are naturals, and a null value is no member of the set it is
  null for;
- what the data is: the needles found in a response are needles, an ingress has
  paths made of segments, every selector has a hash, a set of sums is finite and
  not empty. Nothing is assumed of *which* labels share a hash or *which* texts
  contain each other;
- `WaitLoop` has a positive interval, as all built-in waits have; a caller of
  `eventually` could set it to zero, and with a timeout of zero as well the
  strict bound of `ReturnsInTime` would become a non-strict one;
- what constants of the code are: the first sleep of `Retry` is positive and not
  longer than the longest, a buffer of `Exec` holds a chunk, each unit that
  `PodMetrics` shows is one that it can read, and one of the units it can read is
  the smallest.

Each follows one pattern: an inductive invariant, `Init` implies it, one lemma per
action that it is kept, a theorem `...Invariant`, and the properties as
consequences. What makes the properties inductive:

| Module | Properties proved | The strengthening |
|---|---|---|
| `WaitLoopProofs` | `ReturnsInTime`, `PromptOnceDecided`, `TimeoutIsTruthful`, `PollsAreSpaced` | `Clock`: where the clock can stand at each point of the loop. `History`: at a point of the loop, how far back `since` can lie while the loop still runs; this carries "a decisive state of that age has been noticed" |
| `WorkloadProofs` | `NoLostScale`, `RevisionsFollowHistory`, `RollbackReturnsToPrevious`, `NoForeignImage` | `TopTwo`: revisions are distinct, and the two highest owned ones carry the templates seen last and before. When a template comes back its ReplicaSet leaves its place and takes a new highest number, and the proof shows that the second place is then right again. `HomeInv`: what was listed for the current uid only has images of that deployment |
| `ObjectsProofs`: DynamicApply | `RefusalIsProgress`, `IsOptimistic` | `VersionsIdentify`: equal versions mean equal objects, deleted ones included. `Reading`: a caller whose get is still the newest revision is looking at the current object. `StepSimulation` maps every step to a step of `AtomicUpdate` or a stutter |
| `ObjectsProofs`: Requests | `OthersAreKept`, `MessageNamesTheCause` | `Kept`: a part that still is `theirs` has the value they wrote, and no apply of seppo has claimed it. `SparedIsLeft` says of each patch that it leaves alone what it does not mean, `SparedIsNotHit` of the JSON patch that it hits no container but the one meant - by its test, or because the list is as it was read. `ImprovedIsFirst`: the message is the first of the texts that are there |
| `ObjectsProofs`: Secrets | `SecretIsWhole` | `Gathering`: what has been read so far is, key by key, something its source contained while the call ran |
| `ObjectsProofs`: Policies | `IsolationHolds` | `Backed` and `Present`: each policy is one that somebody asked for, and what was asked for is there under its name, unless its hash is shared |
| `ObjectsProofs`: Rbac | `RulesGrantWhatWasAsked`, `BindingNeverDangles`, `OkMeansGranted` | `GrantsOfUnion` and `GrantsByGroup` about rules; `Progress`: what a caller past an apply can rely on - its account exists, the role was applied and still has its rules unless somebody else wrote it, and a binding once made does not move |
| `RolloutProofs`: Rollout | `SuccessIsWitnessed`, `FreshSuccessIsTrue` | `Counted`: the reported count is at most the peak, and if fresh, at most the peak since the change; with the cardinality lemmas that a removed Pod does not raise |
| `RolloutProofs`: Observe | `VerdictsAgree` | `ObserveInv`: every answer given is what the code makes of the object as it is. The content is in one lemma per kind of object that compares two questions about one state |
| `RolloutProofs`: Ingress | `PassMeansRouted` | `IngressInv`: the chain keeps an error exactly if an expectation was not met, and the last one was met by an entry of the ingress it looked at. `Explained`: the ingress sends the request there, or a longer or an exact path is in the way |
| `StackUpProofs` | `OkIsComplete`, `NoServiceWithoutDeployments`, `AtMostOneSucceeds`, `RetryOfPartialFails` | `Creators`: an object has at most one creator. `Phases`: what a call has made when it is at a phase. `Sent`: whoever sent a Service had all Deployments, whether or not the call still listens |
| `SeppoTestProofs`: SeppoTest | `OwnNamespace`, `KeptOnFailure`, `SilenceMeansDeleted`, `NamespacesAreLeased` | `HoldersHave`: whoever was told of a namespace, or has a delete on its way, owns it; so a late delete cannot hit a successor. The same invariant carries the refinement: each step is a step of `NamespaceLease` or changes no lease |
| `SeppoTestProofs`: Scenario, StoryTest | `PassedMeansHeld`, and `StoryIsATest` (`StorySpec` implies the specification of `SeppoTest`) | `Written`, `Ran`, `Commanded`: which steps are there, which of them have run when the run is at a step, and which command's end a later step looks at. `EndsAgree`: where the test stands once its scenario is over |
| `SeppoTestProofs`: Diagnostics | `DiagnosisMissesNothing`, also for `StoryTest` (`StoryIsDiagnosed`) | `SoFar`: the report holds exactly the pods that have been read so far, each with its log or the text that stands for an error. In whatever order ties of time are printed, the events before the one that cannot be cut are those printed |
| `TrafficProofs`: Traffic | `EndsInTime`, `RateIsKept`, `StopEndsSoon`, `SnapshotIsClose` | `Clock`, `Pace` (when the next request may leave), `Stopped`, `Counting` (total first, latency last), and `Loaded`: each count that a running `stats()` has loaded belongs to the total of the moment it was loaded (`countedAt`), and never lies ahead of it |
| `TrafficProofs`: HttpAssert | `ChainTellsAll` | `HttpInv`: there are as many messages as there are failing checks so far, and a chain that was cut has a failing check whose message cuts a character. `NamesAreMeant` brings what the code found back to what the checks say |
| `TrafficProofs`: Fixtures | `LookupsFindByName` | `Drafted`, `Deployed`, `Owned`: the labels of a draft, of what was applied, and of the pods a deployment owns |
| `TrafficProofs`: Statistics | `PercentilesDivide` | the state needs only its type; the content is in laws of sums over finite sets (`Tallies`: the counts below, at and above a duration make up all), in `SortedIs` and in `AverageIsBetween` |
| `TrafficProofs`: PodMetrics | `ReportIsHonest` | `FormatIsClose` (what is shown is off by less than its unit) and `ParsedTotal` (the total of the parts that could be parsed); `ClassesAreHonest` goes through every text an error may have |
| `TrafficProofs`: Retry | `RetriesArePatient` | `Waited`: the clock shows the sleeps between the attempts so far and no more than one call for each of these |
| `PortForwardProofs`: PortForward | `ProxyNeverTruncates`, `ShutdownSparesRequests` | `Borrowed`: a `request()` that runs keeps the `PortForward` from being dropped, so its socket never meets the shutdown |
| `PortForwardProofs`: Exec | `CleanOkIsWhole` | `Phases` (what caller, command and stream can be together), `WritesAlone` and `ReadsAlone`: of a call that no other writer overlaps, what lies in the file and in the pipe is all its own, and file, pipe and what was read add up to the content |

**Induction.** The prover cannot instantiate the library's induction theorems, whose
hypothesis is an operator. Where a proof needs induction over a finite set or a
number (sums, sorting, the sleeps of `Retry`), the lemmas `SetInduction` and
`NumberInduction` state it for the *set* of those arguments that have the property,
and are proved from `WFMin`: a least argument outside that set cannot be. Sums are
the community modules' `SumFunctionOnSet`; their definition by folds is unfolded once
(`Summand`, `IsIter`), and the rest of the proofs only uses the law that one
argument can be split off. `PowerOfTwo` in `Retry` is a recursive function and no
RECURSIVE operator, for the same reason.

**Only model-checked** are the liveness properties `Terminates` (`WaitsTerminate`), `EveryUpReturns` (`StacksReturn`),
`DeadPodReleasesRequests`, `DropClosesListener` and `QuietCallsReturn`: the prover
does not reason about fairness and ENABLED. `RollbackReturnsToPrevious`, `FreshSuccessIsTrue`
and `ShutdownSparesRequests` are action properties and are proved as such from the
invariants.

## 7. Where code and documentation disagree

### With a run

Seven runs are expected to find a violation. Each checks one sentence of the
repository's documentation against the code.

1. **`rollback` does not bring back the previous template after a `restart`**
   (`context/workload.rs:112`: it "updates the deployment to use that revision's pod
   template"). The patch is a merge patch made of the old template; a key the old
   template does not have - the `restartedAt` annotation - stays. The deployment
   gets a template that no revision ever had. Trace: apply, observe, restart,
   observe, rollback.
2. **`wait_ready` does not wait for a restart** (`context/workload.rs:239` shows it
   under "Wait for the restart to complete"). It compares `readyReplicas` with
   `spec.replicas`, and looks at neither `observedGeneration` nor
   `updatedReplicas`; the old Pods satisfy it at once.
3. **`request()` returns Ok for half an answer** (`portforward.rs:169`: "Returns
   `PortForwardError` if the connection or request fails"). It reads to the end
   of the stream and takes that for the end of the response; a pod that dies,
   a stream that breaks or a dial that fails closes the socket in an orderly
   way.
4. **`copy_to` returns Ok for a file that was not written** (`context/exec.rs:90`:
   "Writes the given content to a file at the specified path in the pod").
   `exec` reads stdout to its end and looks at neither stderr nor the exit status,
   so a shell that cannot open the file is an Ok with no output.
5. **`error_rate` can exceed 1** (`context/traffic_types.rs:68`: "Calculate error rate
   (0.0 to 1.0)"). `stats()` loads the total and then the errors, while the task
   counts both: an error counted between the two loads belongs to a request that the
   total does not have. With no request but failing ones before it, the rate is above 1.
6. **A chain of HTTP checks that ends in `result()` can panic** (`traffic.rs:155`:
   "Returns `TrafficError::AssertionFailed` if any assertions failed"). The message of
   a failing check quotes the response with `&s[..max_len]`, and that byte may lie
   within a character.
7. **A metrics-server that is not installed is reported as a missing pod**
   (`context/context_assertions.rs:90`: "Returns `MetricsError::ServerNotAvailable` if
   metrics-server is not installed"). The API server answers with a 404, and the text
   "404" is looked for first (`metrics.rs:96`).

### Without a run

Contradicted by a sentence of the documentation as well, but each settled by one
line that no interleaving is needed to reach; the modules have the code's behaviour.

- `wait_ready("service/...")` is one get, so a Service created a moment later fails it
  at once (`context/readiness.rs:16` and `:41`: "waits for service to exist"). In
  `WaitLoop` every answer is `Decisive` for it.
- `test_self_healing` "verifies the deployment recovers within the timeout"
  (`context/scenarios.rs:13`), but its wait may succeed on the status of before the
  kill: the one of finding 2 for another call, and what `FreshSuccessIsTrue` excludes by
  `fresh`. `test_scaling` has the same wait.
- `contains_json("n", "1")` holds for `{"n": 12}` (`traffic.rs:81`: "Assert the response
  contains a JSON key-value pair"). `ChainTellsAll` has it as its one exception.
- `cpu_percent` and `memory_percent` are always 0.0, also where there is a limit
  (`metrics.rs:46` and `:48`: "0.0 if no limit set"). They are constants and not modelled.

### Contradicted by no sentence

Seen while modelling; a reader of the code may want to know.

- `patch_json` by index hits another container once somebody has reordered the list or
  inserted into it, unless the patch tests the name first. The exception is in `Spared`.
- An event whose kind and name or whose reason has a wide character at the cut ends the
  print of `collect_diagnostics` with a panic, and one with such a message the output
  of `debug`: what comes after it is not printed.
- The cause that `improve_error_message` names is a guess from texts anywhere in the
  answer, and every 409 is "already exists".
- `apply_dynamic` returns a 409 to its caller instead of reading again.
- After a scale-down `wait_ready` succeeds while surplus Pods still run.
- `up` creates, so it cannot be repeated after a partial failure.
- The ingress path `/` matches no request path but `/` itself in an expectation
  (what is left of the path must begin with a slash), while a controller routes
  everything there. The comment above the match in `context/ingress.rs` speaks of
  a path-segment prefix, of which "/" may or may not be one; `PassMeansRouted` has
  it as an exception for every entry that ends in a slash.
- `test_self_healing` and `debug` look for `app=name`: a deployment whose
  fixture was given another `app` label is not found, and pods of others with
  that label are taken for its own.
- `when` written after `then` forgets the `then`, so that a scenario passes
  without its assertion.
- `containers_ready` accepts a pod whose list of container statuses is empty.
- `secret_tls` may store a certificate and a key that never belonged together.
- A 403 of the metrics API is `ServerNotAvailable`, since its text names the group.
- `wait_deleted` ends with an error on any failing request but a 404, while
  `wait_for` ignores every failure of its get, also a permanent one.

## 8. What the models leave out

- **Data.** Names, labels, manifests, bodies and HTTP messages are members of
  small sets. A template is an image and one optional key; a response is none,
  received, part or whole.
- **The pod-template-hash label** that the controller adds to the template of a
  ReplicaSet, and that a rollback copies back with it, is no part of the templates of
  `Workload`; the controller ignores it when it looks for the ReplicaSet of a template.
- **The polling inside `Rollout`.** There a wait is a sequence of polls that may
  end in success at any poll that sees enough, and in a timeout at any that does
  not; the clock is `WaitLoop`'s matter.
- **Texts.** An error message is the set of the texts the code looks for in it, a
  response the set of what is found in it, its length and where characters begin, an
  event the cuts that fall within a character.
  The wording of errors, tables and logs is left out.
- **The blocking of the runner.** `Command::output` blocks the only thread of a
  test's runtime; a command that needs a forwarded port of its own test would wait
  for ever. The models have no scheduler of the runtime to show it.
- **Fixture fields** that no lookup sees (ports, environment, commands) are only
  copied into a manifest.
- **One object per module.** `DynamicApply` has one object, `Workload` one
  Deployment name, `PortForward` one forward to one pod. The code has no
  operation that relates two of them, but those of `Policies`, `Rbac`, `StackUp` and
  `Fixtures`, which have as many as they need.
- **RBAC applies** whose answer is lost took effect before the error; one that is
  served after its call has returned is left out.
- **`kill` deletes with grace period 0**, so the pod is gone when it returns.
- **The HTTP client of `Traffic`** answers or times out within `ReplyTimeout`; the
  client the code builds has such a timeout.
- **Late timers of `Retry`.** A sleep takes exactly its time; a later wake-up only
  adds patience.
- **Memory order.** A relaxed store of the stop flag is seen by the next load.
- **Whether a certificate and a key belong together** is nothing `Secrets` says: each
  is what its file contained during the call.
- **The mutex of the latencies** cannot be poisoned: nothing in the task panics
  while it holds it.
- **wait_deleted and uids.** The object of `WaitLoop` has no uid, so "deleted and
  created again" is just absent and then present again, as it is to the code.
- **StatefulSets and DaemonSets** take the same patches as Deployments in
  `restart` and `scale`; only Deployments can be rolled back.
- `watch`, `watch_one` and log streams are pass-throughs to the client library.

External behaviour (API server, controllers, kubelets, TCP, tokio) is modelled
only as far as the code depends on it; such definitions are marked `external` in
the `map`.

## 9. Plan

Modelled: every part of the library with behaviour of its own (section 1).
Proved: every safety and action property of every module, and two refinements,
`DynamicApply` of `AtomicUpdate` and `SeppoTest` of `NamespaceLease`; with
`StoryIsATest` the composition `StoryTest` implements the second one too.

What is worth adding, most important first:

1. **`Rollout` on the clock of `WaitLoop`**: how much time a `test_scaling` needs
   to be able to rely on its answer.
2. **Two more abstract specifications**: "a stack is made at most once, and a
   failed attempt uses it up" for `StackUp`, and "a byte stream with an honest
   end" for `PortForward` and `Exec`, which the code does not implement
   (section 7); what it does implement is a stream whose end may be any.
3. **Sufficient conditions for the violations** of section 7 as theorems:
   for example that a rollback does return to the template of the revision if no
   restart lies between, which is the second half of `RollbackReturnsToPrevious`.

## 10. Running everything

    tlasany WaitLoop.tla
    tlc -workers 2 -config MCCalls.cfg MCCalls
    tlapm WaitLoopProofs.tla

Runs, their properties and their expected outcome are listed in `PROJECT.json`
(`runs`); the longest takes between two and four minutes with two workers. The proofs take
a few seconds to a few minutes per module.
