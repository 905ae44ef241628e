# Verification of the Serverless-GPU control plane

TLA+ models of the Serverless-GPU gateway, its worker agents, its background
loops and its web console, TLC configurations that check them on small instances,
and TLAPS proofs for every instance. Paths below are relative to the repository's
root; `main.py` and its siblings are in `gateway/gateway/`, the agent is
`worker-agent/worker_agent/main.py`, the console is `web/src/`.

- [Inventory](#inventory): the system's parts, their state, what is hard in them
- [Modules](#modules): which module models what, and how it corresponds to the code
- [Runs](#runs): what TLC checks, with which bounds, and what it shows
- [Fairness](#fairness), [Findings](#findings), [Proofs](#proofs)
- [Limits](#limits) of the models, and the [Plan](#plan)

## Inventory

The gateway is a FastAPI program, deployed in several replicas over one Postgres
and one Redis. Clients deploy *apps* (*endpoints* in the console); requests for an
app go through a Redis list to worker agents on rented GPU machines; the gateway
rents and returns those machines. Beside that it rents single machines for people
(compute pods) and for benchmark runs. Every replica runs the same background
loops. The console is a Next.js application whose pages poll the gateway.

| Part | Code | State | Operations |
|---|---|---|---|
| Request dispatch | `main.py` `_admit_and_enqueue`, `run`, `_openai_endpoint`, `get_result`, `list_app_requests`; agent `poll_loop`, `_run_unary` | Redis `queue:{app}`, `result:{id}`; Postgres `requests` | submit, poll, list, take, answer |
| Streaming | `main.py` `stream`, `_openai_endpoint`; agent `_run_stream` | Redis channel `stream:{id}`, `cancel:{id}`, `result:{id}` | subscribe, publish, hang up, cancel, time out |
| Worker fleet | `autoscaler.py`, `reconciler.py`, `provider.py` and its two clients, `main.py` create, delete, restart, register, heartbeat; agent `register`, `heartbeat_loop` | Redis `worker_index:{app}`, `worker:{mid}`, `register_token:{mid}`, the drain key, the cooldown, the idle clock; the provider's machines; `apps` rows | scale up and down, collect, register, beat, drain, tear down |
| Compute pods | `compute.py` | `compute_pods` rows, upstream pods, in-process tasks | request, approve, reject, provision, poll, delete, recover at start |
| Benchmarks | `bench.py` | `benchmarks` rows, `_active_runners`, `_LIVE`, a subprocess, a rented pod, a log file | create, run, terminate, delete, janitor, recover at start, tail the log |
| Console: compute | `compute-list.tsx`, `pod-detail.tsx`, `approvals-list.tsx`, `provisioned-list.tsx`, `new-pod-form.tsx` | rows on screen, filters, selection, dialogs, calls on their way | filter, select, delete in bulk, approve, poll, ask for a pod |
| Console: endpoints | `endpoint-grid.tsx`, `endpoint-detail.tsx`, the tabs overview, queue, workers, requests; `inference-form.tsx` | the same, two cards of settings, histories in the browser's storage | edit, save, restart, poll, send and follow requests, create |
| Console: benchmarks | `benchmark-list.tsx`, `benchmark-detail.tsx`, `benchmark-form.tsx`, `tabs/logs.tsx` | the same, a form and a YAML text for one configuration, an event stream | edit, switch views, probe, save templates, submit, terminate, follow the log |
| Console: signing in | `proxy.ts`, `api/auth/*`, `auth-cookie.ts`, `me.ts`, login, register, settings and API-key pages, `user-menu.tsx` | the browser's three cookies, each tab's page | sign in and out, register, GitHub round trip, change password, rotate the key |
| Console: administration | `organization/`, `admin/users/`, `admin/roles/`, `providers/` | rows on screen, drafts, dialogs, calls on their way | change tier and role, delete users, edit roles, test, store and delete accounts |
| Accounts | `auth.py`, `main.py` | `users`, `policy_roles`, Redis `session:{token}` | register, log in and out, change password, roles, delete |
| Provider accounts | `providers_api.py`, `provider_resolve.py`, `crypto.py` | `providers` rows, client cache | CRUD, key lookup, test |
| Others | `audit.py`, `metrics.py`, `vm_probe.py`, `db.py`, SDK, other pages, charts | none that another part decides from | logging, display, deployment |

**How they interact.** A request handler only ever meets a worker through Redis:
LPUSH against BRPOP, SET of `result:{id}` against SETEX of the same key, SUBSCRIBE
against PUBLISH. Unary requests and streams share the list and the agents. The
autoscaler reads the queue's length and the worker keys and calls the provider; the
agent it starts registers with a one-shot token the autoscaler left in Redis *after*
the machine was already booting. The reconciler compares the provider's list with
Redis and cleans up. The admin handlers (create, restart, delete) run the same awaits
as the autoscaler, concurrently with it, on the same keys. A benchmark's task, its
subprocess, terminate, delete, the janitor and a gateway that starts write one row.
Nothing takes a lock across two awaits. Postgres rows are read, awaited upon, and
written. A page of the console has several calls on their way and no order among
their replies.

**What is hard.** Every handler and loop is a sequence of awaits on two stores and
an HTTP API, so each of the following can happen between any two of them: another
handler of the same replica, another replica, an agent, a key's TTL, a crash.
`PROJECT.json` lists these hazards at their lines; the main ones are

- dispatch: `result:{id}` is set to `pending` *after* the job is visible; the cap
  is checked one await before the push; BRPOP is destructive;
- streaming: pub/sub forgets; a cancel key is read before each publish; a
  deadline may pass between the last chunk and the end of the loop;
- fleet: a machine exists before its token, its index entry and its key; counts
  are taken key by key and used later; the provider's list is older than the
  scan it is compared with; terminates fail one by one;
- compute: rows are read and committed in two steps; the pod's id arrives after
  the delete that wanted it; a gateway that starts takes over rows of one that died,
  or of one that has not;
- benchmarks: the same, and a cancel that reaches a task while its subprocess is being
  started, after it has ended, or just before it writes its row;
- accounts: tabs of one browser share cookies that the reply of any of them replaces; two
  admins work on the same users, roles and provider accounts;
- console: replies that are late, out of order, or never come; several deletes of
  which some fail; a poll that is set up again and again; two editable views of one
  configuration.

**What makes each part correct.** Dispatch: a job is in one place, is answered at
most once, and nobody is told an answer no worker gave. Streaming: a listener
misses nothing, the end comes last, a hung-up client frees its worker. Fleet: an
app stays within `max_containers`, tokens are one-shot, waiting jobs get workers,
idle apps get none, deletes leave nothing behind. Compute: one pod per grant,
terminated rows keep no pods, no row stays `creating` for ever. Benchmarks: a
cancelled run is dead, its pod is returned, a settled row stays settled, an orphan is
found. Console: what is shown is of what is chosen, a request names things its
provider has, nothing drops off a list undecided or undeleted, edits survive, and what
is polled is seen to end. Accounts: the name shown is the session's, a GitHub sign-in makes one session and
ends where it was started for, a role somebody has exists, an account that counts as tested did open.

## Modules

All modules of the gateway share one discipline: **everything between two awaits is
one step.** A handler or loop is a little program counter plus the values it has read
and not yet used; each action is one await with what follows it, guarded by the code's
conditions. Clocks and TTLs are steps that may be taken whenever the clock runs.
Payloads are reduced to what a property can tell apart. Every primed variable
that only a property reads is a *history* and marked so where it is declared.
Definitions marked `Mutant` are deliberate mistakes used to test the properties;
no specification uses them.

| Module | Uses | Models |
|---|---|---|
| `RequestContract` | | what the gateway promises of a unary request, with no queue, handler or worker |
| `RequestDispatch` | | handlers of `/run` and `/v1`, the job list, unary workers, readers, rows; refines `RequestContract` |
| `StreamRelay` | | streamed requests of both routes, the channel, the cancel key, the agent's stream loop |
| `AppTraffic` | both of these | requests of both kinds on one queue and one set of agents |
| `WorkerFleet` | | autoscaler tick, reconciler tick, create/restart/delete, register and heartbeat, the agent's life, the provider |
| `ComputePods` | | rows, handlers, provisioning and delete tasks, the start-up clean-up |
| `Benchmarks` | | the run's task, process and pod, terminate, delete, janitor, gateways that crash and start |
| `Console` | | what every page is made of: components, calls, the gateway's rows |
| `Availability` | `Console` | the hook behind the availability badge |
| `ComputePages`, `NewPodForm` | `Console`, `Availability` | list, page, approvals and provisioned; the form |
| `InferenceForm`, `EndpointPages`, `EndpointTabs`, `RequestHistory` | the same | the form with its server action; grid, page and cards; the polled tabs; the requests tab |
| `BenchmarkPages`, `BenchmarkForm`, `BenchmarkLog` | the same | list and page; the form and its YAML; the log tab with the gateway's generator |
| `Sessions` | `Console` | tabs, cookies, the routes of `api/auth` and the gateway's sessions |
| `Organization` | `Console` | the directory, the page of a user, the roles, and their handlers |
| `ProviderPages` | `Console` | the form of an account, the list, and their handlers |
| `ConsolePages` | every page | a behaviour is one page's, chosen at the start; the pages' constants come in records |
| `ConsoleMC` | `ConsolePages` | the records |
| other `...MC` | its module | constants and symmetry for TLC |
| `ConsoleListProofs` | `ConsolePages`, TLAPS | lemmas about the pages that list and follow rows: compute, benchmarks, endpoints, the log, the tabs, the requests |
| `ConsoleFormProofs` | the same | lemmas about the forms and the provider accounts |
| `ConsoleProofs` | both | lemmas about users, roles and sessions; the theorems about the console |
| other `...Proofs` | its module, TLAPS | theorems |

### RequestDispatch

`handler[r]` is the place in `_admit_and_enqueue` and its caller: `admitted`
(LLEN passed), `recorded` (row committed), `pushed` (LPUSH), `marked` (result set
to pending), then `/run` answers the id and `/v1` polls, reads an answer or gives
up after sixty seconds. `queue` is the list, next job first; `job[w]` what an
agent has popped; `result`, `row` and `stamped` the two stores; `reading`/`blob` a
reader between its GET of the result and its UPDATE of the row
(`_mirror_status_to_db`). Faults: a replica dies with a handler, an agent stops or
drops its job, result keys expire.

`RequestContract` is the abstract specification: *new*, then *refused* or *open*,
then *answered* or *lost*, once; the client is told one thing that agrees. The
refinement mapping `Fate` computes the state from queue, jobs and histories; the
action that opens a request is LPUSH, that which answers it is SETEX.

### StreamRelay and AppTraffic

`inbox[r]` is what Redis has delivered to the gateway's subscription, `published`
(history) everything ever published; a publish without subscriber goes nowhere.
The worker's stages are the awaits of `_run_stream`: generate, read the cancel
key, publish, write the result. `/stream` subscribes before it enqueues; `/v1`
with `"stream": true` enqueues first: both orders are in the model, by `route`.
`late[r]` (history) counts what is published after the cancel key was set.

`AppTraffic` instantiates the two modules over the same `queue`, `job` and `up`. An
agent takes the head of the list, whichever kind it is (`job.get("stream")`), and
runs it to an end before it polls again; a handler counts the jobs of both kinds
when it checks the cap. This is where a stream whose backend hangs stands before a
unary request. TTLs and crashes of a replica, which touch one request each, are left
to the two modules' own runs.

### WorkerFleet

An *actor* is an autoscaler, the reconciler, or the admin handler of an app;
`act[x]` is its stage and locals (`left`: what it still loops over; `got`: what it
has gathered; `todo`: apps it has still to visit; `q`, `n`: the queue length it
sampled and the machines it has still to add). The five stages `provision` to
`key` are the awaits that `_reconcile_app` and `create_app` share. `agent[m]` and
`call[m]` are the machine's agent and the gateway handler it is waiting for, which
runs on if the machine goes away. `Faults` chooses what may go wrong: refused
calls, calls whose answer is lost, terminates that silently do nothing (the
provider clients return normally when they find no pod id), late TTLs, vanished
pods, crashes. `Filtering` tells whether `list_machines_for_app` filters by app
(RunPod does; the base class returns every app's machines). Machine ids are
fresh in the code; the model reuses an id once nothing refers to it. `strays`
(history) are pods that somebody lost sight of: expired, collected or never entered in
Redis; `latecomers` pods made after the delete of their app had its list.

### ComputePods

`status` and `upid` are the row; the ORM writes a column only if it differs from
what it *read*, so a handler or task carries `same` from its read to its commit.
`task[t]` is a provisioning task (`load`, `post`, `save`, `poll`, `get`, `look`,
`run`, `mark`, `fail`), `call[c]` a handler, `deletes` the fire-and-forget delete
tasks, `boot` the clean-up of a gateway that starts, with the row ids it has
selected and not yet updated. Rows of Prime Intellect try up to `Attempts`
candidates, RunPod's one. `excused` is the history of pods no delete could know
of: created upstream, and not yet in the row when a delete read it.

### Benchmarks

`runner[b]` is where `run_benchmark` and `_safe_run` are: `claim` (the row says
running), `prepare` (key and credentials), `spawn` (the subprocess), `drain` (both
pipes, until the process ends), `wipe` (a VM's model directory) or `sync` (the
results), `finish`; `reject`, `crashed` and `fail` are the ways out of an error.
`cancelled` holds the tasks that were told to cancel, which takes effect at their next
await: the step they were about to take is replaced by `Unwind`. `live` is
`_LIVE`, the handle by which terminate and delete kill the process; `proc` and `pod`
are what benchmaq does, which runs on when the gateway's task does not; `capture` is the
task that reads the pod's id from the log and records it. `call[c]` is a terminate
(`cancel`, `settle`, then on a VM `pkill` and `rm`, otherwise `free`) or a delete
(`remove`). The janitor of each gateway selects rows that are `old`, looks at each again
(`Inspect`) and fails it (`Reap`); a gateway that starts fails all that is queued or
running. `mixed` (history) says that two gateways have run at the same time, `excused`
which runs have a pod nobody was to return: the row did not name it when a terminate
read it, a delete killed it (delete returns no pod), the provider refused, the
terminate's commit failed or the gateway crashed.

### The console

`ui` is the state of the components on screen and `ui.route` the page, `net` the
calls the page has made and not yet seen the end of, `gw` the rows of the gateway they
read and write. A call is *sent*, then *answered* with a snapshot of the moment
it is served, or *fails*, and its continuation runs in a step of its own, so that
replies overtake each other and the user, other users and the gateway act in
between. React runs effects and re-renders right after an event: they are part of the
event's step, except in `RequestHistory`, where two continuations before one render
are the point (`shown` and `queued`). A component that is gone leaves its calls behind
(`live`). Pages are described from the reader's side: what a list shows, what a filter
hides, what is selected, which dialog is open; text and layout are left out.

- `ComputePages`: the list with filters, selection and bulk delete; the page of a pod
  with its poll; the approvals; everybody's live resources.
- `NewPodForm`: each choice and how effects repair the others when a catalogue, the
  images in stock or a search come in; `RequestsFitTheProvider` is about the order of these.
- `InferenceForm`: the form, its pending state and modal, and `deployEndpoint`.
- `EndpointPages`: grid, page, the two cards of settings, refreshes that bring new props.
- `EndpointTabs`: banner, queue, workers and worker logs, polled without any order.
- `RequestHistory`: the list of test requests in component and storage, and their polls.
- `BenchmarkPages`, `BenchmarkLog`: list, page, poll; the event stream with its
  generator, which reads the file, then the status, then sleeps.
- `BenchmarkForm`: a YAML text is a record of what it says (what is rented, engine
  arguments, runs, things the form has no field for); rendering and parsing are
  operators on these, so a round trip may lose what the code's loses.

- `Sessions`: the jar (`token`, `user`, `oauth`) is the browser's, `at`, `name`, `key` and the rest a tab's. The
  cookies of a response and the continuation of its call take effect in one step, but the gateway has served the call
  in an earlier one. A tab that loads a document forgets its calls; the gateway goes on with them. `gw.asked`
  remembers which page each GitHub flow was started for.
- `Organization`: one card of a role, and the page of a user, has one call on its way. `strays` (history) are
  roles that another admin, or a call whose answer was lost, has touched since the page was loaded.
- `ProviderPages`: `gw.opens` says which key opens which kind of account, `gw.revoked` which no longer does;
  `checked` is what the gateway keeps of a test (`validated_at`, the GPUs of a machine).

`ConsolePages` puts them together: the variable `page` names the page whose behaviour it is, and never changes. Its
properties say for each page what they say of it.

## Runs

| Run | Instance | Shows |
|---|---|---|
| `dispatch_safety` | 2 requests, 2 workers, 1 reader, cap 1 | type, custody, conservation, truth of answers and rows, bound of the overshoot, stability of marked answers, refinement of the contract |
| `dispatch_overwrite` | 1 request | *violation*: an answer is overwritten by `pending` |
| `stream_safety` | 2 streams, 1 worker, 1 data chunk, cap 1 | `/stream` misses nothing, a cancel key stops the worker within one chunk, only unfinished streams are cancelled, ends are last and agree with the stored status |
| `app_traffic` | 1 unary request, 1 stream, 1 worker, cap 2, 1 chunk, fair | jobs of either kind are served, agents return to polling, clients are told something |
| `fleet_faults` | 1 always-on app, max 1, 2 machines, one autoscaler and the reconciler, every fault | the cap but for strays |
| `fleet_admin` | autoscaler and create and delete of an always-on app, no fault | type, a finished delete leaves only latecomers, tokens are one-shot |
| `fleet_live` | max 2, refused calls, fair | full queues are served, idle apps scale to zero |
| `fleet_warm` | always-on app, autoscaler, reconciler, restart and delete, vanishing pods, fair | the gone leave the index, the app is served again and again |
| `fleet_replicas` | two autoscalers | *violation*: two replicas exceed the cap |
| `compute` | 1 row, 2 pods, 2 tasks, 2 handlers, 2 candidates, 1 restart, every fault | one pod per grant, terminated rows free their pods, creating rows are attended |
| `benchmarks` | 1 run, 2 gateways, 2 handlers, 2 starts, every fault, fair | type, cancelled runs are dead, pods are not forgotten, settled rows stay, orphans are reaped |
| `console` | fourteen pages, each with one or two rows of its own, fair | what is shown is of the choice, cookies, roles and tested accounts are of what the gateway holds, requests fit the provider or the kind, nothing drops off undecided or undeleted, edits survive, pages and histories settle |

**Why the bounds are enough to be worth having.** Each hazard needs two parties and
a third thing they share: two handlers between LLEN and LPUSH with a cap of one;
a worker against the handler that marks, against a reader; a second machine to
exceed a maximum of one, and to be up while the first is torn down; two handlers
(approve/approve, approve/delete) and two tasks on one row, the second task being
the one a restart resumes; a terminate and a delete, or two terminates, on one run
while its task and a janitor are at work, and a second gateway that starts beside the
first or after it; two replies of one page, and one row that fails beside one that does
not. Rows, apps and runs share no key with each other except through `list_machines`, the
reconciler's scan and a benchmark's VM, so one of each suffices for most runs.
Two tabs and two sessions are what it takes for one tab to act on the other's cookies, two GitHub flows for one to end
the other; another admin takes part in `Foreign`, so one user and one role beside the built-in one are enough.
A single unary request behind, or before, a single stream on one worker is what
starvation takes.

What is bounded beyond the code: machine ids in use at a time (`Machines`, `Pods`),
tasks and handlers at a time (`Tasks`, `Calls`), queue length (`MaxQueue`), chunks per
stream (`MaxChunks`), restarts (`MaxRestarts`), starts of gateways (`MaxStarts`); in the
console the user's inputs (`MaxEdits`, `MaxTurns`, `Visited`, `MaxOpens`), changes
behind the page (`MaxChanges`), calls and polls on their way at a time (`MaxCalls`,
`MaxPolls`), failing polls of the history (`MaxFailures`), what is done on a page and by others (`MaxEvents`), sessions and
GitHub flows (`MaxSessions`, `MaxFlows`), the history's length (`MaxHistory`, the
code's own), lines of a log (`MaxLines`). Counters that only grow (`burst`, `late`,
`made`, `grants`) are bounded by these. The proofs have none of these bounds, but for
`MaxStarts`, `MaxRestarts`, `MaxQueue` and `MaxChunks`, which are any natural numbers there.

Symmetry is used for requests, workers, streams, machines, pods, tasks and calls in
runs without liveness. Deadlock is not checked: a system whose requests are all
answered, whose apps are all deleted, whose rows are all settled, or whose form has been
left does stop in these models.

Every property of a passing run has a mutant in `PROJECT.json`: a plausible mistake
in one definition under which TLC finds the property violated in the same run.

## Fairness

- *Handlers* that have started are weakly fair: the event loop runs them on. A
  handler that has not been called is not (`handler[r] # "idle"`).
- *Agents* that are up are weakly fair: `poll_loop` never returns, and every unary
  job runs under `wait_for`. The backend is **not** fair: nothing makes it produce a
  chunk (`Generate`), so release of a worker rests on the deadline alone.
- *Loops* tick for ever. The provider may refuse many calls but not every one:
  `Provision` and the success of `TerminateVictim` are strongly fair. Without that
  no pod need ever be made or removed.
- *TTLs* of keys that nobody refreshes expire, cooldowns end. Nothing makes a
  fault happen or stop, except in `WarmAppsAreServed`, which assumes that pods stop
  vanishing at some point.
- *Benchmarks*: time passes (`Age`), janitors sweep, a gateway that is down is started
  again. Nothing is asked of runs, handlers or benchmaq; `OrphansAreReaped` holds without
  them.
- *Console*: intervals fire and continuations run, weakly; the gateway answers each
  kind of poll again and again, strongly: a call may fail any number of times, not always.
  Nothing makes the user act.

## Findings

1. **An answer may be overwritten by `pending`** (`dispatch_overwrite`).
   `_admit_and_enqueue` LPUSHes and then SETs `result:{id}` to pending; a worker
   blocked in BRPOP can answer in between. The client then polls `pending` until
   the key expires, although docs/ARCHITECTURE.md:69 has it get the result.
2. **Replicas exceed `max_containers` together** (`fleet_replicas`). Each replica's
   autoscaler counts and provisions without a lock, against `autoscaler.py:5` and
   the horizontal scaling of docs/ARCHITECTURE.md:21.

The models reproduce other behaviours a maintainer should know. No run asks for them:
most contradict no comment or document, or a weaker property that holds says more.

*Requests and workers*

- `/v1` streaming subscribes after the job is queued, so a fast worker's first
  chunks, or all of them, are lost; `StreamMissesNothing` is stated for `/stream` only.
- Scale-down picks a victim without looking at the job in its hand.
- `create_app` holds the autoscaler off with a cooldown set after the row is committed:
  a tick in between provisions a second first worker.
- The reconciler's list is older than its scan: a worker that registered in between is
  collected while it runs, and becomes a stray.
- A delete races a provision in progress; the pod made after the delete asked the
  provider for its list stays, and the late index entry is cleaned by the reconciler only.
- With a provider that inherits the default `list_machines_for_app`
  (`provider.py:88`), delete and restart terminate the machines of every app.

*Compute pods*

- A compute pod whose id arrives after its row was terminated is never deleted: the
  clean-up for this case (`compute.py:1080`) looks for a missing row, and the handlers
  terminate rows without removing them.
- A poll that has read a row writes `running` over `terminated`.
- A gateway that starts fails rows that another one is provisioning, whose task
  then sets `running` or not, depending on which commits last.
- Two approvals of one row both go through (and count as two grants).

*Benchmarks*

- A gateway that starts, and the janitor of one, fail rows that another replica is running:
  `_active_runners` is one process's. Hence `~mixed` in two properties, although
  docs/DEPLOY.md:193 suggests two replicas. The janitor's docstring speaks of "no recent
  log activity"; it looks at the start time only.
- A queued row whose task died on a failing database stays queued until a gateway starts.
- On a shared VM, `pkill` and `rm` of one terminate hit the other runs there.
- Delete cancels no task and returns no pod. The capture task is held by no strong reference.
- A terminate that was on its way turns `done` into `cancelled`; a janitor that was, turns
  `cancelled` into `failed`.

*Console*

- After a bulk delete of which a part failed (endpoints, benchmarks), rows that are gone stay selected:
  the next attempt gets 404 for them, and the dialog can never end well.
- The endpoint's delete dialog closes on Escape while its call runs, and when that ends
  it closes whichever dialog is open by then.
- Requests tab: a late reply brings a removed request back; a stale one takes a status that had ended
  back; of two updates before a render one is lost; a tab that is gone overwrites the storage.
- Workers tab: a stale poll shows a live worker as terminated, and the browser remembers it.
- A save of the scale card writes both of its values and so overwrites another admin's change of the other.
- Queue tab: a job in a worker's hand counts as waiting; `failed` and `expired` count as in progress.
- The inference form's badge asks for the gateway's own account, whichever is chosen; the modal that says
  that the endpoint was not created is wrong if the gateway's rollback failed.
- The provisioned page reloads the scope *mine* although it was loaded with *all*.
- Benchmark form: the probe of an earlier machine may show under another; an argument taken out
  in the YAML comes back on the way to the form, one of an unexpected type is dropped; the list
  of templates, if late, undoes a save or a delete on screen; the submit button is free between
  the reply and the navigation.
- Benchmark log: a reconnection repeats lines on screen; lines written between the last read and the look at the
  status, or after a cancel, are never sent; the stream and the page of a run that was deleted
  elsewhere go on for ever.

*Accounts*

- Two GitHub sign-ins started in two tabs spoil each other: the state cookie holds the later one only, and the
  mismatch of the earlier deletes it, so that the later fails too.
- A dead session's cookie makes `proxy.ts` send /login to the console, which shows "Sign out" (the name is the
  cookie's): there is no way to the sign-in page but through it.
- A sign-out whose fetch fails goes to the sign-in page and, the cookies being there, straight back in.
- The card of a role sends all its sections as it shows them, and so overwrites another admin's change of another one.
- The form of an account: a change of kind during a test frees the buttons, and the late reply then shows under the
  other kind. The list marks one account as under test, and the end of any test clears the mark.
- Deleting a user removes the rows of their apps, pods and runs by cascade and tears nothing down; two admins may
  demote or delete each other, after which there is none.

## Proofs

The theorems hold for every value of the constants allowed by the named assumptions
(`DispatchAssumption`, `StreamAssumption`, `FleetAssumption`, `ComputeAssumption`,
`BenchAssumption`, `ConsoleAssumption`): finite sets where something is counted, natural bounds, `None` not a
member, owners of machines; in the console, the conditions `ConstantsOK` of the pages (a catalogue begins with one of its
own GPUs, lists of images name images, no account is both a machine and an account to rent with, a text rents what there
is, the role with full access is a system role, a requested page exists). Every safety property a run checks is proved, two
of the fleet's under an assumption named below.

**RequestDispatchProofs.** `TypeCorrect`, then one inductive invariant `DispatchInv`:
the conjunction of custody, truth, completeness and agreement. None of its parts
is inductive alone. That a popped job was not answered before needs the agreement of
the handler that pushed it (pushed once); that a reader writes the truth needs the
blob's agreement with the worker's answer, which needs custody. `PushStep`,
`TakeStep`, `FinishStep`, `LossStep` treat the four actions that move a job, the others
leave custody alone (`CustodyUnchanged`). `Custody`, `Conservation`,
`TruthfulAnswers`, `CompleteRows`, `Agreement` follow (the last two say that terminal rows are
stamped and that handlers and jobs agree; they are needed by the others and proved only).
`MarkedAnswersStay` uses custody again: a second answer would be of a second
holder. `Overshoot` is inductive by itself: only LLEN widens the window between check and
push, and does so below the cap; LPUSH moves one from window to list. `Refinement` shows that
every step maps to a step of `RequestContract` or a stutter: `FateChange` says which
actions change `Fate`, `TellStep` that what a client is told agrees.

**StreamRelayProofs.** For any number and length of streams.
- `TheFinishedAreNotCancelled`: the handler that is hanging up has not seen the end (`HangUps`).
- `EndsComeLast` and `ResultsTellTheEnd` need that a stream is in one agent's hand (`Custody`), and
  what each stage of `_run_stream` knows of what is already out (`Tells`): nothing that ends the
  stream, except after a `done` that the loop has not yet noticed.
- `CancelStops` (`LateInv`): before the key, nothing is late; after it, the one chunk past
  the check is; an agent that has published it finds the key at its next chunk.
- `NothingIsMissed` (`ListenInv`): from the subscription on, what was relayed followed by what is in
  the inbox is what was published, and before it the job is not visible.

**WorkerFleetProofs.** `TypeCorrect` includes that an actor at a stage that works on
a machine has one (`Fit`), without which no step on a machine's key would be typed.
- `OneShot` rests on `TokenInv`: an actor that still owes a token (stages `clear`,
  `token`) holds a machine whose agent has not registered, nobody else owes the same
  machine's, and a machine that is not there has an agent that has not begun. Only
  `Provision` takes on a debt and only `StoreToken` pays it; every other step, of any
  number of replicas, the reconciler, the handlers and the agents, under every fault,
  heeds the debts (`SteadySteps`).
- `DeleteIsThorough` assumes `ProviderObeys` (no refused, lost or silently ignored
  call; anything may still expire, vanish or crash, with any number of replicas). `DeleteInv`: what a delete has
  still to tear down (`Due`: the app's pods but latecomers) is in the list it works through, and there is none once
  it is through the list; nothing falls due once it has the list (`NothingFallsDue`), since
  every new pod is a latecomer from then on. Without the assumption the code promises nothing: a
  terminate that fails is logged and passed over.
- `CapButStrays` assumes `ScalerAlone` (one autoscaler, no app being created: both exceed the cap
  otherwise, see the findings). `CapInv`: a pod not lost sight of is in the index or in the hand of the one who made it; the
  autoscaler's count, as far as it has come, covers the pods it has not looked at yet; what it has still to add fits.
  The counted set can only shrink under anybody else's steps (`OthersNeverSpawn`, `CountStands`).

**ComputePodsProofs.** `TypeCorrect`; then three invariants of their own.
- `CreatingAttended` needs `AttendedInv`: a task that has read `running` and ends without
  writing does not count as attending, and the start-up covers rows from the crash
  until its SELECT resumes or lists them.
- `TerminatedFree` needs `FreeInv`: a pod unknown to its row is excused; a delete at
  work has read the id its row names, because an id saved later was unknown at that
  moment and is excused. `Appears`, `Named`, `Reads` and `Terminates` say which
  step can make a pod appear, a row name it, a delete start and a row end.
- `RentedOnce` needs `RentInv`: pods made for a row and the tasks that may still rent
  one (`Claims`) together stay within the grants. A crash drops claims, a
  resumed task has none since its row names a pod and never un-names it.

**BenchmarksProofs.** For any number of runs, replicas and handlers.
- `PodsAreRemembered` (`PodInv`) needs that `_LIVE` holds the process of a task that reads its
  pipes and no other (`Lives`), that runs on VMs rent nothing, and that an id not given out is
  not in use (`Fresh`). Frame lemmas say which step can kill a process, rent, record or return a pod.
- `TheCancelledAreDead` and `TheSettledStay` share `RunInv`: whoever is at work is in a gateway that is
  up (`AtWork`), and, while gateways never overlapped (`Alone`), a process that outlived its gateway is of
  a row that the next start fails before any terminate gets at it (`Strays`), a run that is being settled was told to stop and is
  dead (`Stops`), a task that was not told to stop finds its row as it left it (`Unfinished`), and what the
  janitor has in hand has no task (`Reaps`).

**ConsoleListProofs, ConsoleFormProofs, ConsoleProofs.** For any rows, accounts, catalogues and texts and any number of
calls. `ConsoleInv` is, page by page, the invariant of the page; a page's lemmas say that its first state has it
(`ComputeInit`), that each of its steps keeps it (`ComputeNext`), and what a step may do when it holds.
- `UndecidedStay` and `BulkEnds` need to know, of every call on its way, which page made it and which row it is about,
  that a confirmation in progress keeps its dialog open and its selection as it was, that each row selected under it has
  a call of its own, and that an answer of success leaves its row gone for good (`ComputeInv`, `BenchesInv`,
  `EndpointsInv`). The one step that may drop the selection is then the last answer, when all of them are in.
- `EditsAreKept` for an endpoint goes through every step that brings new props; for a benchmark, only the button back to
  the form leaves YAML mode (`BenchFormNext`), and `BenchFormTextKept` compares text and form: one run, or the product of what is swept
  over, covers the runs (`BenchFormRunsKept`), and extra arguments, which override the fields, never hold a field's key.
- `RequestsFit` for a pod is `NewPodSettles`: whatever an event makes of the form, the effects leave a GPU of the active catalogue and a
  template of the kind's own list, *provided* the event either changes what is on offer or leaves the template alone. That in turn
  needs that images only ever come from lists of Prime Intellect's, and that a list narrowed to what is in stock was
  asked for with one of their GPUs. For a benchmark it needs that every text that
  can reach the form, templates of others included, rents something that exists (`TextOK`).

- `ScreensStayFaithful` joins the fourteen pages. What makes each inductive:
  - badges (`EndpointInv`, `NewPodScreen`, `BenchBadge`): an answer about the stock is on its way only while it is
    about what is chosen, or is known to be stale, so a change of choice must disown it in the same step;
  - the log tab (`BenchLogInv`): what a connection has read is a prefix of the file and on screen unless cleared;
  - the tabs (`ViewsInv`): the calls waited for are those of the view shown, the others are the workers' tab's;
    the requests (`HistoryInv`): the list drawn, the one queued for React and the one stored each track a request
    once, and none that was never sent;
  - roles (`OrgInv`): at most one call about a role is waited for, of one that is on screen or of one to come; until it
    is answered, screen and store agree, and from then on its answer says what the store has. The exceptions are
    roles a stranger changed, or whose answer was lost, and `strays` names them;
  - accounts (`AccountsInv`): an id is used once, so a result that arrives late is about the row it was asked of or about
    none, and a check that passed stays true of its key;
  - sessions (`SignInv`): wherever a token and a name are kept together, in the cookies, beside a key, in a call or an answer on its
    way, the name is the session's; a state of GitHub's goes with the page it was asked for in the cookie and in the
    callback alike, and a session that came of a state has spent it. Sessions and states are only ever
    appended (`SignGrows`), so what is true of one stays so (`SignKept`).

Two definitions were wrong until they were proved about: a CASE with two arms open at once means
either of them (`After` and `Errand` among others; they are IFs now), and the type of a history allowed a request twice.
`BenchmarkForm` spells out the override of one function by another (`Over`), because the provers do not know `@@`.

**Model-checked only.** Liveness, here in the fleet, in `AppTraffic`, in the console and
in `OrphansAreReaped` (the prover has no ENABLED), and so the composition `AppTraffic`, whose properties are all of this kind.
`CapHolds` and `PollGetsTheAnswer` are false, and shown so by runs. No module declares a
RECURSIVE operator.

## Limits

- Postgres transactions commit in one step and in full; Redis commands are atomic
  and Redis does not lose data. Redis restarts are not modelled.
- Provider calls that time out count as refused or as lost; retries inside an HTTP client
  are not modelled.
- `WorkerFleet`: `max_containers` and the other settings are constant (a PATCH may even set
  `tasks_per_container` to 0, on which every tick raises); one register call per agent at a
  time; costs and event lists are left out; the preflight of `create_app` is part of its first step.
- `ComputePods`: with `RUNPOD_API_KEY` set (without it a start does no clean-up:
  `main.py:301`); the catalogue, availability and SSH-info routes change nothing and are
  left out; the stages of the two providers' tasks are the same but for the candidates.
- `Benchmarks`: what benchmaq does on the machine is external; the log is in `BenchmarkLog`; templates are seen from
  the form only.
- The console: rows are small sets and text is what it says; two equal calls on their way are
  one; the browser's storage holds what was written last. Per page what is left out is in
  `PROJECT.json`.
- Rows keep their owner: the cascade of a deleted user is not modelled, nor what a tier or a section opens in the
  gateway's other handlers.
- Not modelled, with reasons, in `PROJECT.json`: the credentials' encryption and client cache, audit, metrics, worker logs and
  events, the VM probe, catalogues, schema, SDK, the remote wrapper of benchmarks, the console's audit list and
  appearance, charts.

## Plan

Done: dispatch and its contract, streaming, their composition, fleet, compute pods,
benchmarks, the console with its accounts; proofs of every safety property the runs check, of the five gateway modules
and of the console. What is left, in the order it would pay:

1. What accounts are for: tiers and sections over the rows of the other modules; a deleted user's
   machines are torn down, an administrator remains, a deleted or demoted user acts no more.
2. App updates in `WorkerFleet`: the cap and the tasks per container may change during a tick.
3. Registration: overlapping register calls of one agent (GET and DEL of the token in
   two steps) as a refinement of the fleet's one-step burn.
4. Composition of dispatch and fleet: the queue that `WorkerFleet` counts is the one
   `RequestDispatch` serves; a drained or terminated worker's job is lost or
   answered, never both.
5. Abstract lives of a compute pod and of a benchmark run, and the refinements.
