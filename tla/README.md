# MoFaaS in TLA+

MoFaaS protects a serverless function by running it in several variants, the
same program in different languages, and letting an effect happen only if the
variants agree on it. This directory holds TLA+ modules for the parts of the
repository that carry that promise, the TLC runs that check them on small
instances, and TLAPS proofs for every size.

- [The system](#the-system): components, state, interaction, what is hard
- [Modules](#modules): what models what, and how
- [Runs](#runs): what each shows, bounds, fairness
- [Proofs](#proofs): what is proved, from what, how
- [Not modelled](#not-modelled) and [Plan](#plan)

Paths are relative to the repository's root (`src/` here stands for it).

## The system

### Components

| component | source | state | operations |
|---|---|---|---|
| function chooser ("Trigger Controller") | `function-chooser/chooser.py` | none between requests; per request: draw, replies | serve a request: draw variants, start session, ask variants, compare replies, stop session, answer |
| egress proxy ("Outbound Controller") | `egress-proxy/main.py` | per CloudEvent id: a task, a queue of calls and a queue of responses for each drawn variant | start, stop, a variant's call; the loop that compares calls and forwards |
| reconciler ("controller") | `mofaas-contoller/internal/controller/mofaasfunction_controller.go` | the cluster's objects | create, update or delete egress proxy, ConfigMap, policies, chooser; label variants; finalizer; status |
| Envoy address rewriting | `.../controller/envoy_utils.go` | none | put the egress proxy's address in every part of the Envoy configuration that routes calls |
| webhook and types | `mofaas-contoller/api/v1` | none | admit a resource or an edit of one: `concurrency <= len(variants)`, immutable fields |
| manager | `mofaas-contoller/cmd/main.go` | none | start-up |
| modified Envoy | `modified-envoy` | restart epoch, list of children | restart Envoy when its configuration changes |
| iptables initialisation | `init-iptables` | none | redirect a variant's outgoing traffic to its Envoy |
| bank | `apps/bank` | a database | authorization and verify-transaction, in five languages each; the other functions in one |
| sample workflow | `apps/sample-workflow` | none | a demonstration of deployment |
| legacy chooser | `function-chooser/legacy_chooser.py` | - | not used |

### How they interact

```
broker --event--> chooser --start/stop--> egress proxy --forwarded call--> outside
                     |                        ^
                     +--request--> variants --+  (iptables -> Envoy sidecar)
                     <--reply----
user --MoFaaSFunction--> webhook --> API server --> reconciler --> all of the above
```

For an event the chooser draws `concurrency` variants at random, tells the
egress proxy the id and the draw, sends the event to those variants and waits
for every reply. A call a variant makes to the outside is diverted to the
egress proxy, which puts it in that variant's queue and lets it wait. A task per
id takes one call of each variant (a *round*), compares them, forwards the call
if all are equal or answers 400 if not, and gives every variant the same
response. At the end the chooser compares the replies, tells the egress proxy to
stop and answers.

The reconciler keeps the Knative services of chooser and egress proxy, and the
ConfigMap and Kyverno policies that inject the Envoy sidecar into the variants,
in line with the `MoFaaSFunction` resource.

### What is hard

Chooser and egress proxy are asyncio programs: a coroutine is atomic between two
awaits that suspend, and everything else interleaves. What can go wrong lies in

- **the barrier**: variants run at their own pace, queues fill unevenly, and the
  loop must still pair the n-th call of one with the n-th call of the others;
- **wake-ups**: a `get()` that was woken has not taken its item yet; another
  `get()` may take it, or the task may be cancelled in between;
- **ids used twice**: a redelivered event, or requests without a `Ce-Id`, start a
  session whose id is live. The new one overwrites the registries while the old
  task still runs and looks queues up by id;
- **stopping**: a stop may find the task suspended, woken, forwarding, or dead;
- **diversity**: variants are the same program only as far as five languages read
  a request alike; where they do not, they ask for different things, or for a
  different number of things, and one waits for calls another never makes;
- **timers**: a sidecar answers a call itself after fifteen seconds, and the
  response to that call still comes and may be taken by the next one;
- **failures**: any request can fail, and what was half done stays half done.

The reconciler is a sequence of calls to the API server, any of which may fail,
with edits of the resource in between. The hot restarter runs in signal handlers.

`PROJECT.json` lists every hazard under `hazards`, at its line, with the
property that covers it or the module planned for it.

### What makes each component correct

- *Egress proxy*: only what all variants asked for is forwarded; no call counts
  twice; calls are compared in step; each call gets the answer of its own round;
  after a stop nothing more is decided; no wake-up is lost; a complete round is
  decided and answered.
- *Chooser with egress proxy and variants*: one honest variant in the draw is
  enough for every effect to be one the program has, in the program's order; a
  request reported as done had all its effects, once; nothing is decided in a
  session that was told to stop; every session ends; honest variants are served.
- *Reconciler*: at rest the objects are what the latest resource asks for, in spite
  of edits, stale reads and failed calls, and rest is reached; no pod bypasses the
  egress proxy while several variants serve; a deletion ends and leaves nothing.
- *Hot restarter*: each Envoy gets the epoch that takes over from the last; every
  change is loaded; no child is lost; some Envoy serves, whatever happens.
- *Webhook*: what it admits, the chooser can serve.
- *Envoy configuration*: no call of a variant goes past the egress proxy.
- *Verdict of the chooser*: it is agreement, whichever variant is the first.
- *Bank*: a transaction is started only if the request justifies it, for its own
  clients; variants agree on ordinary requests; a reply tells what was sent; the
  caller is answered.

## Modules

| module | models | lines of code it stands for |
|---|---|---|
| `AsyncioQueue` | `asyncio.Queue` as the egress proxy uses it: items, and the getters that are suspended | external (CPython) |
| `EgressProxy` | the egress proxy | `main.py` 27-154 |
| `UnanimityGate` | abstract: what an egress session promises | - |
| `EgressProxyGate` | the refinement mapping from `EgressProxy` to `UnanimityGate` | - |
| `EgressProxyInv` | the inductive invariant, in parts | - |
| `EgressProxyProofs`, `EgressProxySafety`, `EgressProxyWakeups`, `EgressProxyOrder` | theorems | - |
| `Chooser` | one request at the function chooser | `chooser.py` 27-184 |
| `VerifyResponses` | how it compares replies | `chooser.py` 96-157 |
| `MoFaaS` | chooser, variants and egress proxy composed | both |
| `MoFaaSProofs` | theorems | - |
| `BankClients`, `VerifyTransaction`, `Authorization` | what each variant of the bank makes of a request | `apps/bank/verify-transaction`, `apps/bank/authorization` |
| `Webhook` | admission of a resource | `mofaasfunction_webhook.go` 55-129 |
| `Bank` | a resource, the chooser it configures, the bank's variants, their sidecars and the egress proxy by its promise | the above, `envoy.yaml` |
| `EnvoyAddress` | rewriting of an Envoy configuration | `envoy_utils.go` 8-161 |
| `BankDeployment` | the bank with the Envoy configuration of its sidecars and the comparison of replies | - |
| `BankProofs` | theorems | - |
| `Reconciler` | the reconciler and the cluster around it, for one resource | `mofaasfunction_controller.go` 89-1011 |
| `ReconcilerProofs` | theorems | - |
| `HotRestarter` | the Envoy sidecar: watcher, hot restarter, Envoys | `hot-restarter.py` 20-148, `watch_envoy.sh`, `entrypoint.sh`, `start_envoy.sh` |
| `HotRestarterProofs` | theorems | - |
| `EgressProxyMC`, `MoFaaSMC`, `BankMC`, `ReconcilerMC` | instances for TLC | - |

### AsyncioQueue

A queue is `[items, getters]`. `put_nowait` appends and wakes the first getter,
that is, removes it from `getters`; the woken coroutine is only *scheduled*. When
it runs it takes the first item, or blocks again if someone took it. `Withdraw`
and `PassOn` are the two things a cancelled `get()` does: a suspended one leaves
the waiting list at once (`Task.cancel` cancels the future it waits for); one
that had been woken wakes the next in its place if the queue is not empty.

### EgressProxy

| variable | code |
|---|---|
| `registry[id]` | the entry of `id` in `tasks`, `requests_queues` and `response_queues`, which are always written together, as the session that wrote it |
| `launch[g]` | the arguments of the session's `handle_requests` |
| `loop[g]` | the coroutine `handle_requests`: where it is suspended, and `request_store` |
| `requests[g][s]`, `responses[g][s]` | the queues a start created |
| `handler[c]` | the coroutine `proxy_handler` of one call of a variant |
| `accepted`, `rounds` | history: calls put in each queue; rounds each loop completed and its verdict |

A *session* is what one start creates: a task and its queues. The queues are kept
per session, not per id, because a suspended `get()` holds on to the queue it
was called on when the registry has moved on; `Source` says which queue a given
`get()` of the loop reads.

`Collect` is the heart: from the point where it runs until it suspends, the loop
takes calls, completes a round, meets an empty queue, or has no queue (the
`KeyError` that ends the task). `RunLoop` (first run or wake-up), and
`DeliverResponse` (the answer of the destination came, the responses are put, the
loop goes round) end in `Collect`, since in the code nothing suspends between.
`put` on an unbounded queue never suspends. `RoundFails` stands for every
exception in comparison, forwarding or report. `Start`, `Stop` and `Submit` are
the three branches of `proxy_handler`; `Cancel` is `Task.cancel` by the state
the task is in; `HandleCancelled` is the task when it runs next. A handler is
never cancelled: aiohttp does not cancel handlers when a client disconnects.

Abstractions: whether two calls are equal is whether their `content` is the same
model value; `host` is the one field the comparison ignores and forwarding uses.
`pc = "rejecting"` stands for the report to `K_SINK` and the return; without a
`K_SINK` the code does not suspend there, so the model allows interleavings the
code then has not. `Retry` says whether an id may be started twice, `Parallel`
whether a variant may call while a call of its is unanswered.

### UnanimityGate and EgressProxyGate

The gate knows no queues, wake-ups or tasks: each variant has a list of calls it
made; the gate decides the n-th calls of all together when all have made them,
forwarding exactly if they are equal; answers are handed out per call, in order. The
gate is never closed: a session that was stopped is one that decides nothing more
(`NoRoundAfterStop`). `EgressProxyGate` maps a session to it; the run
`egress_sequential` checks `ImplementsGate`.

### Chooser and MoFaaS

`Chooser` has one action per stretch of `proxy_handler` between awaits, over an
abstract set of replies; `PostFails` and `VariantFails` are the exceptions.
`MoFaaS` joins it with the egress proxy: a request (attempt) of the chooser and
the session it starts share a name. An action of the composition is the chooser's
step together with what it makes the egress proxy do: the POST, its handling and
its answer are one step, which is what the chooser sees since it awaits the
answer; `StartUnanswered` and `StopUnanswered` are the cases where the request or
its answer is lost, with and without effect at the egress proxy. The chooser waits for
an answer but does not act upon its status (`chooser.py` 140-141): `StartRefused` and
`StopRefused` are answers of an error, by which no session was started or stopped. A
refused start leaves the variants to call in a session that does not exist, where
each call is a `KeyError` and answered 500 (`HonestUnserved`). If the id were that of an
earlier attempt they would call in that one's session; `RefusalAssumption` keeps the
two apart.

The variants are the environment. An *honest* one makes the calls of `Program` one
after the other and replies; any other calls and replies as it likes, also after
the chooser gave up on it, also several calls at a time. `Faults` names the kinds
of requests that may fail in a run, `"status"` for those that are answered with an error.

### Bank, with the functions it is made of

`VerifyTransaction` and `Authorization` say, as operators on a request, what each
language does: which names it looks up, which event it sends, which verdict it
replies. A request is told by what the languages read differently: how an amount
is written, whether the recipient is absent or empty, how the header of a token is
spelled, whether the body names another client than the token.

The classes of amounts, and what each language takes them for (s: up to the limit, L:
above it, -: invalid). A NaN counts as s, since it is not above the limit.

| class | example | Go | Java | JS | PHP | Python |
|---|---|---|---|---|---|---|
| `small` | `12`, `"12"` | s | s | s | s | s |
| `large` | `9999`, `"9999"` | L | L | L | L | L |
| `missing` | | - | - | - | - | - |
| `null` | `null` | - | - | s | - | - |
| `boolean` | `true` | - | - | s | s | s |
| `empty`, `text` | `""`, `"abc"` | - | - | s, - | s | - |
| `prefixed` | `"12abc"` | - | - | s | s | - |
| `suffixed` | `"12d"` | - | s | s | s | - |
| `grouped` | `"1_0"` | s | - | s | s | s |
| `nan` | `"NaN"` | s | s | - | s | s |
| `infinite` | `"Infinity"` | L | L | L | s | L |
| `binary` | `"0x1p30"` | L | L | s | s | - |
| `huge` | `"1e400"` | - | L | L | L | L |

Forms that are like one of these to most languages and not to all are not told apart
further (`"nan"`, `"inf"`, digits of other scripts, text that begins with a large number);
amounts that are arrays or objects are left out.

`Bank` runs them. A resource is any that the webhook admits, and may be edited until
a request comes (`Edit`); `Choosable` is the dictionary `main` makes of its list,
`Receive` and `DrawFails` are the draw from it. The chooser is an instance of
`Chooser`. The egress proxy is an instance of `UnanimityGate`: what is proved or
checked of a session elsewhere is what the bank may rely on here.

| variable | code |
|---|---|
| `resource` | the `MoFaaSFunction` |
| `input` | the request, an order or one with a token |
| `attempt` | the run of `proxy_handler`, as in `Chooser` |
| `members`, `asked`, `decided`, `told` | the session at the egress proxy, as in `UnanimityGate` |
| `alive` | whether its task lives |
| `answers` | what each variant got for its calls so far, hence where it is in its program |

`NextCall` is the control of a variant: lookups one after the other, then the event,
then the reply. `Result` is what the database answers to a round that was approved.
`Received` lets a response go to a call that was given up or to the one that waits,
since `response_queues` hold them in order and `get()` may be overtaken; so a variant
can take the answer to one lookup for the answer to the other. `RoundFails` is a destination that cannot
be reached. `DispatchRefused` is a start that was answered with an error: the session has
no members, and `CallUnserved` is a call in it, answered with an error at once. `GiveUp` is the sidecar's timer: fifteen seconds are longer than anything
the system does of its own accord, so it always fires when nothing else will happen
(`Quiet`), and up to `MaxTimeouts` times when something still could, which is when a
destination or a variant is slow. A variant that is drawn alone has no sidecar, and its
calls are decided one by one: the gate with one member.

A variant that its sidecar answered makes its next call while the last one still waits at
the egress proxy, so there the calls of a variant overlap, and the refinement, which is for
`Parallel = FALSE`, is not all the bank relies on. What it takes from the gate then is that the
n-th calls are decided together and by equality, which `PairedInOrder` and
`OnlyUnanimousForwarded` say with calls in parallel; whom a response reaches is not taken from
the gate but is `Received`.

Each mutant of a language is a bug of that language; the five are compared with each
other, by the calls they make and the replies they give, never with one that is right
by decree.

`EnvoyAddress` and `VerifyResponses` are functions of data and have no state. `Bank`
depends on both: on the one for its calls to reach the egress proxy, on the other for
the verdict `Chooser` takes for equality of replies. `BankDeployment` states that as invariants
(`RoutedToEgress`, `VerdictIsAgreement`), over every tested configuration and every
combination of headers.

What the languages do *not* agree on shows in what the properties leave out:

- Amounts: no language reads all of them for what they are. `EffectsJustified` takes what is a
  number to all for what it is (`Worth`: what is no number, or one to some only, is worth nothing)
  and needs one variant in the draw that reads *this* amount so (`Careful`). Go or Java always
  does, except for `"NaN"`: four of the languages forward that without an OTP, JavaScript alone
  refuses it, and any two of the four agree on it. In the
  authorization function all but Python are careful: it takes the client's name from the body
  if there is one.
- If the start of the session was refused, the authorization variants, which ignore what their
  event is answered with, all reply that it was forwarded, and no round was decided; hence the
  condition on `members` in `RepliesTellTheEvent`. That the caller gets an answer, and that
  nothing is forwarded, holds all the same.
- Python's condition `(code == 200 and not from_id) or not to_id`
  (`verify-transaction/python/main.py` 66) puts an unknown recipient before any
  other verdict; `Plain` leaves out the orders where that differs.
- An absent or empty recipient is looked up by Python and, if empty, by Java, and skipped by the
  others, so that one of them waits for a round that is never complete until its
  sidecar gives up. `PlainRequestsAgree` is about names; that all is answered in the end is
  `RequestAnswered`.
- A resource with a concurrency of 0 or less, or with a name listed twice, is admitted and
  every request to it is answered 500 (`AdmittedDraws` names the two). A 0 at creation becomes 1 by the
  reconciler's own first `Update` (`omitempty`, with the CRD's default); a 0 in a later edit stays.
- The ignore list is matched as it is spelled (`ce-id` in the chart), while header names
  are found in any case, so the verdict may depend on which variant is first if replies
  spell a name differently. `VerdictIsAgreement` is about replies that spell alike.
- Of several addresses of the firewall cluster, or several routes of a virtual host, only the
  first is rewritten. The configuration that is shipped has one of each (`Ordinary`).

### Reconciler

Every call that `Reconcile` makes to the API server is one action, in the code's
order, so that users, Knative, Kyverno and the garbage collector act between any
two of them.

| variable | code |
|---|---|
| `cr` | the `MoFaaSFunction` in the API server: spec, finalizer, the two conditions, whether it is marked for deletion |
| `cache`, `synced` | what `r.Get` answers: the manager's client reads from an informer's cache, which lags; `synced` says whether it is at the latest version |
| `run` | one execution of `Reconcile`: the next call, `mofaasFunc` (`fn`), whether that copy is the latest version (`fresh`) and so can be written, the variants still to label |
| `queued` | the work queue; `Fail` (an error, or a requeue) puts the resource back, `Return` does not |
| `objects`, `chooser` | what `Reconcile` created; of the chooser, the concurrency and whether it has `EGRESS_URL` |
| `ready` | services that `IsReady`, with an address |
| `labelled`, `rollout`, `pods` | per variant: the label in its template, whether the new revision has yet to take over, and where its pods send their calls |

`Write` is `Update` under optimistic concurrency: a conflict, hence `Fail`, unless
the copy is the latest. `AddFinalizer` and `SetAvailable` are `RetryOnConflict`
loops: they succeed when the cache is up to date by their last attempt. Deletion
sets a timestamp if the finalizer is there and removes the resource at once if it
is not. `Drop` and `Mount` are the sequences of deletions and creations;
`Mount` creates what does not exist; that the code first looks for the policies in the
manager's cache, and skips the creation if a deleted one is still there, is not modelled.
`AfterMount` is where `Reconcile` goes on after `createAndMountConfigMap` *whether
it failed or not*, since lines 187 and 199 drop its error; `MountFails` is that
error. `CallFails` is every error that is returned, deadlines included.

`CreateOrUpdate` compares the object after the mutation with the one it read. As
the code replaces the whole `Spec` and Knative's defaulting webhook fills in
fields, they always differ, so its result is never "unchanged" and the status is
always awaited.

`Admissions` is what Kyverno makes of a new pod of a variant, by its label and by
which of the exception (from the default configuration, which lets calls pass) and
the policy (that mounts the function's own) exist. Pods are admitted when a
template is rolled out and when Knative scales from zero.

### HotRestarter

Python handles a signal in its main thread when a call returns or is entered, so
also inside a handler that is running: executions of `fork_and_exec` form a stack,
and only the innermost goes on. One action is what `fork_and_exec` does between two
such points.

| variable | code |
|---|---|
| `version`, `event`, `watcher` | the configuration; whether `inotifywait` has seen it change; where `watch_envoy.sh` is between two calls of it |
| `restarter` | the Python process: not yet started, started without a handler, running, killed |
| `hup` | a SIGHUP that is not handled yet; several merge into one |
| `stack` | the executions of `fork_and_exec`: next step, the epoch read, the child forked |
| `restart_epoch`, `environ`, `pid_list` | the globals, and `RESTART_EPOCH` in the environment, which all executions share |
| `envoys` | the children, with the epoch and the configuration each started with, and how far it is |
| `apart` | whether changes come far apart, chosen once: a run explores both cases |

`inotifywait` is started anew for each event; a change that falls between two waits
is not seen. A SIGHUP before `main` installs its handler kills Python, and with it the
container, which Kubernetes starts again (`RestartContainer`). `Attach` is what an Envoy
of epoch *e* does: it needs one of epoch *e-1* alive, and exits if one of its own epoch
holds the socket or another is still initialising. One that was replaced drains for a
quarter of an hour, longer than any fork takes, and counts as alive.

## Runs

| run | instance | distinct states | shows |
|---|---|---|---|
| `egress_sequential` | 2 sessions of two or three variants, one call at a time | 114524 | types; each call gets its own round's answer; no task out of reach of a stop; nothing decided after a stop; the gate is implemented |
| `egress_retry` | one id started twice with different draws | 262555 | unanimity, no call twice, no lost wake-up, with two loops on the same queues |
| `egress_liveness` | one session, fair | 22701 | complete rounds are decided, decided calls answered |
| `egress_barging` | one session of two variants, parallel calls | violation | a second call takes the first one's response |
| `egress_destination` | two hosts | violation | a call is answered by another host than it named |
| `mofaas_request` | one request; two of three variants, two of them honest; a program of 2 calls, 4 calls in all; start, stop, requests to variants and rounds may fail, starts and stops be refused; fair | 290343 | calls are compared in the order they were made; effects follow the program; done means done; honest variants are served, or all say they were not |
| `mofaas_leak` | one request, a variant's request fails | violation | the session is left open |
| `bank` | every pair of the five languages, one triple, and each alone; 20 orders and 18 requests with a token; starts may be refused; one early timeout; fair | 577283 | one variant that reads the amount right is enough for every transaction to be justified; languages agree on plain requests; replies tell the event; what is admitted can be drawn from; all calls are routed to the egress proxy; the verdict is agreement; the caller is answered |
| `reconciler_served` | 2 variants, concurrency 1 or 2 and not lowered, 2 edits or deletions, 2 failed calls or restarts | 571204 | no pod bypasses the egress proxy while several variants are served; no chooser for a resource that is gone |
| `reconciler_liveness` | 1 variant, any edits, 1 failed call, returned or dropped, or restart; fair | 182102 | at rest the cluster matches the spec; it converges; deletions complete |
| `reconciler_lowered` | 1 variant, no faults | violation | pods keep calling an egress proxy that was deleted |
| `hot_restarter` | 3 changes, apart or in bursts; fair | 220134 | epochs are consecutive and changes loaded if they come apart; no child is lost and an Envoy serves in any case |

**Bounds.** Two sessions are what it takes to mix sessions of one id; three
variants (in `egress_sequential`) make the middle of a round distinct from its two
ends; three or four calls let one variant be ahead of another by two, let two
calls of one variant wait for responses at a time, and give two rounds. Two
contents tell agreement from disagreement. Data is symmetric except in the order
of a draw, so the safety runs use symmetry on calls, sessions and ids; runs that
check a liveness property use none.

In `bank` two variants are what it takes to disagree, and three for two to agree against
one. Every way to write an amount is tested with the other fields at their usual values, and
every other field with an amount that asks for an OTP, which is where the order of the
checks shows. `MaxTimeouts = 1` bounds only timers that are early: one is enough to put a
variant an answer behind the others. Configurations have up to two clusters, managers,
virtual hosts and routes, so that each loop of the rewriting ends early and late; headers
have two spellings of one name, one of them ignored, and two values.

For the reconciler two edits are needed for one to undo the other, or a deletion to
meet an edit; with one edit `Reconcile` never sees a spec that differs from the one
it began with twice. Two variants leave one labelled and one not; a single variant
is enough where the property does not need that. `MaxEdits` and `MaxFaults` bound
how often users and faults act, never how often `Reconcile` runs.

For the sidecar three changes let signal handlers nest two deep in each other and in
the first `fork_and_exec`, with one more change before or after.

`CHECK_DEADLOCK FALSE` everywhere: chooser, variants and users may fall silent
for good, and each instance runs out of calls and sessions. That nobody waits
on anyone forever while there is work is what the liveness properties say.

**Fairness.** Weak fairness for every step of a coroutine that is scheduled
(asyncio runs its ready queue in order) and for the end of an outgoing request,
successful or not (aiohttp's client times out after five minutes). No fairness
for starts, stops, events or calls of variants, except in `mofaas_request`,
where honest variants go on with their program and messages arrive.
In `bank` chooser, variants and sidecars go on (a sidecar's timer fires if nothing else
happens), a start is answered, a complete round is decided or its task fails, and its responses are delivered, which is what
`egress_liveness` shows of the egress proxy. Nothing obliges an edit or a request.
For the reconciler: the controller's worker takes the next step, watches deliver,
Knative gets an existing service ready and rolls a changed template out. Users,
scaling, garbage collection and faults are not obliged to anything. For the sidecar:
its processes run, a pending signal is handled, Kubernetes restarts the container, and
an Envoy that was forked starts or exits. Nothing obliges changes.

**Findings.** The violations are real behaviours of the code; each quotes the line
that says otherwise (`findings` in `PROJECT.json`).

- A response can be taken by a later call of the same variant.
- The host a call names is not compared, yet decides where all of them go.
- A request to a variant that fails leaves its session open.
- Lowering the concurrency to 1 strands the running pods of the variants.

A flag that is off in a passing run marks a property that does not survive what it
allows. The module admits each case, and a change of the `.cfg` shows it:

- `Retry` in `egress_sequential`: with ids started twice the old task is beyond any
  stop (`NoOrphanLoop`).
- `Parallel` in `egress_sequential`: answers shift (`AnswersOwnRound`), which is the
  finding `egress_barging`.
- `Lowering` in `reconciler_served`: the egress part is removed before the chooser is
  told, so for a while a chooser with several variants serves variants whose new pods
  are past the egress proxy or cut off (`ServedIntercepted`).
- `"mount"` in `reconciler_served`: lines 187 and 199 drop the errors of
  `createAndMountConfigMap`; if the first call fails, variants are labelled and rolled
  out before there is a policy, and served (`ServedIntercepted`).
- `MaxFaults = 2` in `reconciler_liveness`: if both calls fail, `Reconcile` succeeds and
  rests with policies missing (`QuietMatches`).
- `apart` in `EpochsConsecutive` and `ChangesLoaded`: in a burst a nested handler
  overwrites the environment between `Export` and `ForkAndExec`, so epochs repeat; and
  a change between two waits is lost until the next one.

## Proofs

| theorem | statement |
|---|---|
| `EgressProxyProofs!TypeCorrect` | `Spec => []TypeOK` |
| `EgressProxyProofs!Consistent` | `Spec => []IInv` |
| `EgressProxySafety!NoOrphans` | `Retry = FALSE` implies `Spec => []NoOrphanLoop` |
| `EgressProxySafety!StoppedIsSilent` | `Retry = FALSE` implies `Spec => NoRoundAfterStop` |
| `EgressProxySafety!OnlyUnanimous` | `Spec => []OnlyUnanimousForwarded` |
| `EgressProxySafety!DecidedOnce` | `Spec => []CallDecidedOnce` |
| `EgressProxyWakeups!NoWakeupLost` | `Spec => []NoLostWakeup` |
| `EgressProxyOrder!ComparedInStep` | `Retry = FALSE` implies `Spec => []PairedInOrder` |
| `EgressProxyOrder!OwnRound` | `Retry = FALSE` and `Parallel = FALSE` imply `Spec => []AnswersOwnRound` |
| `EgressProxyOrder!IsGate` | `Retry = FALSE` and `Parallel = FALSE` imply `Spec => ImplementsGate` |
| `MoFaaSProofs!SysTypeCorrect` | `SysSpec => []SysTypeOK` |
| `MoFaaSProofs!SysImplementsEgress` | `SysSpec => Spec` |
| `MoFaaSProofs!EffectsFollow` | `Retry = FALSE` implies `SysSpec => []EffectsFollowProgram` |
| `MoFaaSProofs!DoneIsDone` | `Retry = FALSE` implies `SysSpec => []DoneMeansDone` |
| `BankProofs!TypeCorrect` | `Spec => []BankTypeOK` |
| `BankProofs!OneCarefulIsEnough` | `Spec => []EffectsJustified` |
| `BankProofs!AdmittedIsDrawn` | `Spec => []AdmittedDraws` |
| `BankProofs!PlainAgreed` | `Spec => []PlainRequestsAgree` |
| `BankProofs!RepliesTell` | `Spec => []RepliesTellTheEvent` |
| `BankProofs!VerdictsAgree` | `Spec => []VerdictIsAgreement` |
| `BankProofs!CallsAreRouted` | `Spec => []RoutedToEgress` |
| `BankProofs!SessionIsGated` | `Spec => G!GateSpec` |
| `HotRestarterProofs!Tracked` | `Spec => []IInv` |
| `HotRestarterProofs!TypeCorrect` | `Spec => []TypeOK` |
| `HotRestarterProofs!NoChildLost` | `Spec => []ChildrenTracked` |
| `HotRestarterProofs!EpochsFollow` | `Spec => []EpochsConsecutive` |
| `ReconcilerProofs!TypeCorrect` | `Spec => []TypeOK` |
| `ReconcilerProofs!NoneForTheGone` | `Spec => NoChooserForTheGone` |
| `ReconcilerProofs!RestIsDone` | `"mount" \notin Faults` implies `Spec => []QuietMatches` |
| `ReconcilerProofs!ServedThroughEgress` | `"mount" \notin Faults` and `~Lowering` imply `Spec => []ServedIntercepted` |

Those of the egress proxy hold for any sets of ids, variants, sessions, calls, contents and hosts, from
the three assumptions in `EgressProxy`: `None` is none of them, a draw is not
empty and names no variant twice, and the flags are Booleans. `OnlyUnanimous`,
`DecidedOnce` and `NoWakeupLost` need nothing of the flags: they hold with calls in parallel and
with ids started again. `ComparedInStep` needs that no id is started twice: two sessions
under one id read the same queues, and their calls are shared out. `OwnRound` and `IsGate` also
need that a variant waits for its answers: without it `egress_barging` finds the answer to one
call taken by another. Those of `MoFaaS` hold for any variants, honest or not, any program and
any events, from `MoFaaSAssumption` (`RefusalAssumption` is not used); the last two need that no event is redelivered, which
would start its id again, and hold with calls in parallel. Those of the bank hold for any clients, orders, requests, resources and lists
of variants, and any number of timeouts, from `ClientsAssumption`, `ResourcesAssumption`,
`BankAssumption` and `CallsAssumption`, which say that fields have the forms the languages tell apart and
that the special values are not names; `VerdictsAgree` and `CallsAreRouted` also from `RepliesAssumption`
(as many replies are compared as can be drawn), `IgnoredAssumption` and `EnvoyAssumption`. Those of the hot restarter hold for any number of changes, hence for handlers nested to any depth, from
`MaxChanges \in Nat`. Those of the reconciler hold for any variants and concurrencies, and any
number of edits, deletions, failed calls and restarts, from `ReconcilerAssumption`. What they
suppose of the flags is what the code does not survive (see *Findings*): `RestIsDone` allows
no error that is dropped, where the run `reconciler_liveness` allows one.

*Why the egress proxy's `TypeOK` is not inductive.* That a response names an existing round, and that
`Awaited(g)` is a variant at all, depends on how far the loop is in its round.
`IInv` adds: a session that has not started has an empty loop and is nobody's
queue; the store of a loop that waits is shorter than the draw; a loop or handler
that waits is in the waiting list of exactly the queue it says, once; whoever is
in a waiting list waits. The last two are what makes `Cancel` and `PassOn` type-correct.

*Argument.* The lemmas at the head of `EgressProxyProofs` say what each queue operation does to items and
getters (sequences without repetition stay so, the waiting set changes by exactly
one). One lemma per action of `EgressProxy` then shows that it keeps `IInv`;
`CollectEffect` says what a stretch of the loop changes, and `CollectKeeps` uses it
for the two actions that end in `Collect`. `NoOrphans` adds to `IInv` that an id
has at most one session, and reads off `NoOrphanLoop` action by action;
`StoppedIsSilent` follows since only a live loop completes a round.

*Unanimity.* Beyond `IInv`, `SortedInv` says that a call is where its sender put it: in a
queue of the sender, in the store at the sender's place in the draw (so `Source` is of
the variant whose turn it is, also when two loops with different draws read the same
queues), and in a round at that same place. `CollectMoves` describes a stretch of the
loop, however many rounds it is from completing; who made a call and of what content never
changes (`CallsStand`); and `Collect` forwards only what it has compared.

*No call twice.* `Places` adds that a call is in one place: one position of one queue
(`QueuedOnce`), or one of the store of one loop that will use it (`HeldOnce`), or one of one
round (`CallDecidedOnce`), and in places of one kind only (`Apart`). A step moves calls
along, so each of the four needs the others. A loop that has ended keeps its store, which
nobody reads: only those that are `Collecting` count.

*Wake-ups.* That somebody is awake when there are items and waiters does not survive a
step: one woken getter takes one of two items, and leaves the other with nobody on its
way. What survives is that each item of a queue with waiters is *backed* by a woken getter
of its own, which `Backs` says with an injection, so that nothing has to be finite. `put` adds an
item and a getter to back it; a woken getter that takes an item backs no other; one that finds nothing
leaves a queue without items; `PassOn` puts another in the place of one that is cancelled. For the waiters the
invariant says that each is listed in the queue it waits at, which with `IInv` is that a
queue without waiters needs no backing.

*Pairing.* `OrderInv` follows the calls of one variant in one session from `accepted`, the list of
all it has made: what is not in its queue any more is in the rounds, one in each, and one more is in
the store if the round under way has come to that variant (`Taken`). So the queue holds what is left of
the list (`Follows`), the call that `Collect` takes next is the next of the list, and the n-th round
holds the n-th call. It needs that the loop waits at the queues of its own session (`OwnQueue`),
hence `Retry = FALSE`, and that a queue is never emptied but by `Collect`.

*Answers.* `JoinedInv` says where calls are: whoever waits for a response or has had one is at one
place of one such list. `ServedInv` says how far the answers of a variant have come: for a number
`r`, its first `r` calls are answered, each with the outcome of the round of that number, at most
the next one waits, and the responses in its queue are those of the rounds after `r`, in order. A step leaves
`r` as it is or answers call `r + 1` (`NextServed`). With a second call under way at the same
time this is false: a woken handler may find its response taken by a later one.

*Refinement.* The mapping in `EgressProxyGate` takes the calls of a variant from `accepted`, the
decisions from `rounds`, and what it was told from the answers of its handlers. `Start` maps to
`Open`, `Submit` to `Ask` if the call is put in a queue (`SubmitAsks`), a handler that resumes with a response
to `Tell` (`ResumeTells`), and the completion of a round to `Decide` (`CollectDecides`,
`LoopDecides`); by `OrderInv` the verdict on the store is the verdict on the n-th calls, and by
`ServedInv` the answer is that of the next round. All other steps, cancellation and
broken connections among them, leave the mapped state as it is (`SilentSteps`). `SessionIsGated` is the other side:
the bank uses its session in no other way than the gate allows.

*Chooser, variants and egress proxy.* The composition adds `AttemptInv` (a session runs for the
id and the variants of its attempt; a verified attempt keeps its replies) and `MadeInv` (the
calls made are finitely many, each of a session that was started, so that counting those of a
variant tells which of the program is next). With these each step is one of the egress proxy's or leaves it alone, so its
invariants carry over. For an honest variant in a session, `Tracked` says that its n-th
call is the n-th of the program, and `DoneBy` that it replies `Done` only when all calls of the
program were made and each round of them forwarded. That needs `Served`: an honest variant goes
by the answers it gets, and waits for each. `EffectsFollow` reads the content of a forwarded round off the honest
member, whose call is at its place by `OrderInv`; `DoneIsDone` uses that a verified reply is
that of every member, so of the honest one.

*Bank.* `IInv` relates the session to the variants: it is the draw, its rounds are decided by
comparison (an approved one has equal calls), each variant has asked, in order, the
calls of its program up to where it is, and has at most one call without an answer. A variant
that reads the amount for what it is sends an event `Forwarded` only if amount and OTP are in order and both ids were
found; each language has a lemma, and none is careful for every amount. That they are the ids of the right clients is more, since answers may be late:
`AnswersInStep` says that until its sidecar gives up for the first time a variant gets for
each call the result of that call's own round. A call that was given up has no id, so whoever
has both was never given up before its event, and its answers are its own. The event
is equal for all members if it is approved, so it is the careful one's whoever sent it.

*Agreement in the bank.* `AgreeInv` adds the converse for rounds (equal calls are approved), that
a variant that has replied is at the end of its calls and tells the verdict in its event
(`Replied`), that the verdict of the chooser is the equality of all replies, and that as many
were drawn as the resource asks for. A session that was refused has no calls (`Unasked`), and what its variants got is all `None`. If nobody gave up, what a variant got for its lookups are the
results of the first rounds, the same for all; `ReadAlike` goes through the languages
and shows that on a plain request they look up the same names and make the same event of the same
ids. So calls with the same number are equal (`SameCalls`), and with them rounds, verdicts and
replies. `VerifyUniform` and `CallsAreRouted` are about data of any size, but need no induction: the
comparison and the rewriting go element by element.

*Hot restarter.* `ChildrenTracked` speaks of moments without a handler; its `IInv` says
what holds within: each child is in `pid_list` or about to be recorded by one
execution of the stack, and by no two. It is the two together that make the number
`Record` appends a new child's, which `TypeOK` (`pid_list` names children) needs as well.
`RecordKeeps` takes the child from the innermost execution to the list, `ForkKeeps`
adds one that is new to both; all other steps go through `TrackedKept`, since they
leave both alone. `EpochsFollow` adds, for changes far apart, `Calm`: a change is in one place at a
time between `inotifywait` and the Envoy that serves it (`OneStage`), so that of the
executions on the stack only the innermost has yet to fork (`OthersRecord`), and what it read
and exported still is the next epoch (`NextEpochReady`).

*Reconciler.* A run works on copies, so none of its properties follow from `TypeOK`. `Versions`
says when a copy is the resource. `Finalized` says that the finalizer is taken away only by a
run in the deletion branch, hence never behind the back of a run that has got past it: such a
run has a resource, which is `NoneForTheGone`. `Mounted`, `Dropped` and `Path` say what a run at
each call has created, deleted and labelled; later calls no longer tell which way the run took,
and its copy may have been read again since, but `again` does (`createAndMountConfigMap` was
called twice). For `RestIsDone`, `Currency` follows a run that nothing has overtaken: as long
as the cache is at the latest version and the resource is not in the queue, the run's copy asks
for what the resource asks for. Anything that overtakes it makes one of the two false, and it is
true again only when the queue holds the resource, so that the reconciler is not at rest. For
`ServedThroughEgress`, `Raising` orders the copies: an older one asks for no more. So a run that
removes the egress part, having read a concurrency of 1, is one before which no variant was
labelled; `Labels` concludes that the policies of a labelled variant stay, that its new pods
are therefore set up for the egress proxy, and that a chooser with several variants was written
after all of them.

*Only model-checked*: liveness (`CompleteRoundDecided`, `DecidedCallAnswered`,
`HonestRequestServed`, `Converges`, `DeletionCompletes`, `ChangesLoaded`, `EnvoyServes`,
`RequestAnswered`), and it stays with TLC for good: the prover has no rule for fairness in reach. Every
invariant, every action property and the refinement that a passing run checks are also proved.

## Not modelled

`PROJECT.json` lists every component with its status and reason. Within the modelled
ones: bodies, headers and JSON at the egress proxy (equality is abstract); the cut of the
sender's name from the pod's name (`main.py` 57), a question about strings; logging; the
K_SINK reports' contents, which match no trigger of the bank's broker. A restart of the
egress proxy, which loses every session, and several replicas of it that share none
(`main.py` 28-30): a session that is unknown is modelled as a refused start only, never in the
middle of its rounds. An event that is redelivered after a refused start, while an earlier
attempt's session is live. In the bank:
signatures of tokens, headers that are copied from request to event, amounts that are arrays or objects, bodies that are not
JSON (Python answers those before it calls anyone, Go later), and the database beyond the lookup
of a user. In the reconciler: users who touch the objects it owns, edits of the
variants or of the ignored headers, several resources that share a variant, the cached
read before a policy is created, and the contents of YAML and templates. Nor `private`: labels are set outside of the mutation of
`CreateOrUpdate`, so an edit of it never reaches a chooser that exists, which takes no
model to see. In the sidecar: `shutdown` and the functions only it calls, which nothing
calls; the death of an Envoy that serves. The manager (`cmd/main.go`) reads flags and
starts the reconciler and the webhook; nothing there outlives the start.

## Plan

In this order; all are done.

1. `AsyncioQueue`, 2. `EgressProxy`, 3. `UnanimityGate` with the refinement,
4. `Chooser` and `MoFaaS`, 5. `Reconciler`, 6. `HotRestarter`.
7. `VerifyResponses`, `Webhook`, `EnvoyAddress`, the bank's functions, and `Bank`.
8. Proofs for `EgressProxy`, with the step simulation of `UnanimityGate`, for `MoFaaS` and for
   `Bank`.
9. Proofs for `HotRestarter` and `Reconciler`.

Left to do: burst behaviour of `HotRestarter` as theorems (what does hold of the epochs when
changes come close together), and theorems without `Retry = FALSE` for `MoFaaS`, about what a
redelivered event can and cannot do.
