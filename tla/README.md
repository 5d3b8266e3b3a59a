# ansible.platform: a verification project

TLA+ models of the `ansible.platform` collection
(`src/collections/ansible_collections/ansible/platform`), model-checked with TLC and proved about with
TLAPS. The repository around it is a directory of playbooks and vendored collections; the collection's
`plugins/` directory is the only program of its own, and its core is the *persistent platform manager*:
a process per host and credentials that keeps one HTTP session to the gateway and that all the tasks of a
playbook share. Paths below are relative to the collection's `plugins/`.

## The system

| Component | State | Operations | What is hard about it |
|---|---|---|---|
| Connection plugin `connection/http.py` | the socket, `.meta` and `.lock` files of a manager, shared by all workers | persistent mode: find a manager without the lock, else take the flock, look again, launch one; direct mode (the default): launch one for the task | parallel workers; clean-up without the lock; files written and removed in several steps |
| `plugin_utils/manager/process_manager.py` | none of its own | `is_socket_stale`, `cleanup_old_socket`, `spawn_manager_process`, `wait_for_process_startup`, `spawn_ephemeral_client` | PIDs that linger or are reused; a launch that outlives the wait for it |
| `manager/rpc_client.py` | proxy to the service | connect, `execute`, `lookup_resource_id`, `search_api`, `shutdown_manager` | every operation dials the path anew |
| Manager process `manager/manager_process.py` | service container, socket, threads | initialise, serve, idle monitor, owner watchdog, SIGTERM | four threads that may each end the process; exits with and without clean-up |
| `PlatformService` `manager/platform_manager.py` | HTTP session, idle clock, shutdown flag, `_auth_lock`, look-up cache | `execute` (create, update, delete, find), `search_api`, look-ups, `_make_request`, 401 recovery, `shutdown` | concurrent RPC threads; an exit under a running RPC; partial failure of multi-step operations; stale cache |
| Retry and errors `platform/retry.py`, `exceptions.py` | attempt counter | `retry_http_request`, `classify_exception` | which failure reaches which clause |
| Action plugins `action/base_action.py` and one per resource | per-task client, managers to tear down | detect operation, find, compare, act; tear-down of ephemeral managers | find-then-act; a clean-up that finds nothing |
| Role plugins `action/role_user_assignment.py`, `role_team_assignment.py` | place in the list of objects | the same on a list, with look-ups of their own | failure in the middle of a list; names that cannot be resolved |
| `platform/direct_client.py` | HTTP session | the same operations without a manager | its own 401 recovery, no retry |
| Registry, loader, transforms, API mixins | class cache | version choice, field mapping | boundary cases of version choice |
| Credentials and configuration | options | extraction | – |
| Lookup `lookup/gateway_api.py` | – | one `search_api` to an ephemeral manager | pages of a list that changes; relies on `shutdown` |
| Legacy `module_utils`, generators, mock server | – | – | not part of the running system |

A task's action plugin asks the connection plugin for a client; the plugin finds or launches a manager
through the file system (`<path>.sock`, `<path>.sock.meta` with PID and authkey, `<path>.sock.lock`); the
client talks to `PlatformService` over `multiprocessing` RPC, one server thread a connection; the service
talks HTTP to the gateway. The manager watches the PID of `ansible-playbook` and its own idleness.

What has to be right, by component: a task is served by a live manager or told why not, leftovers never
stop it, the files never mix two managers, a good manager is not destroyed, the lock always comes free
(connection plugin); no orphans, no overdue idle exit, no work cut off that was not idle (manager
process); recovery from a 401 ends, requests are bounded and end, no failure passes for a success
(service); a task that succeeds has seen what it promises, writes nothing if all is in place, and reports
truly what it wrote, next to other tasks and with requests that fail (action plugins and service); a look-up
answers what was true, and a search misses nothing that was there all along (service); a list of role
assignments is worked off truly, object by object (role plugins); and a manager of a task's own serves that
task, whatever lies at its path (direct mode). `PROJECT.json` lists the hazards behind these, line by line.

## The modules

| Module | Models | Checked in | Proved in |
|---|---|---|---|
| `ManagerSpawn` | `http.py:297-459`, `process_manager.py`, the constructor of the client, the manager's life as others see it | `files`, `single`, and `promise` through `SpawnHealing` | `ManagerSpawnProofs` |
| `ManagerService` | what `get_client` promises a task: the abstract specification | `promise` (as a property) | `ManagerSpawnProofs` |
| `SpawnHealing` | `ManagerSpawn` and which calls were disturbed | `promise` | `SpawnHealingProofs` |
| `ManagerProcess` | the threads of one manager process, and RPC threads up to the gateway | `process` (through `IdleHistory`) | `ManagerProcessProofs` |
| `IdleHistory` | `ManagerProcess` and what each RPC did since when | `process` | `ManagerProcessProofs` |
| `GatewayRequest` | `_make_request`, the 401 recovery and the retry loop; implements the request of `ManagerProcess` | `request`, `retries` | `GatewayRequestProofs` |
| `ResourceTask` | tasks that find, create, update and delete a resource: `base_action.py:1044-1254`, the four handlers of `platform_manager.py:540-924`, the organization's mapping | `resource`, through `TaskPromises` | `TaskPromisesProofs` |
| `TaskPromises` | `ResourceTask` and what held and who wrote while a task ran; what the four states promise | `resource` | `TaskPromisesProofs` |
| `ServiceReads` | look-ups with their cache, and search, in the threads of one service: `platform_manager.py:1052-1218` | `reads`, through `ReadHistory` | `ReadHistoryProofs` |
| `ReadHistory` | `ServiceReads` and what was true since when | `reads` | `ReadHistoryProofs` |
| `RoleAssignments` | the two role plugins and the filters of their mixins | `grants`, through `GrantPromises` | `GrantPromisesProofs` |
| `GrantPromises` | `RoleAssignments` and what each task's user or team had and lacked, and who wrote | `grants`, `revoke` | `GrantPromisesProofs` |
| `EphemeralManagers` | direct mode: `http.py:164-295`, `process_manager.py:341-424`, `base_action.py:804-900`, `gateway_api.py:203-228` | `ephemeral`, through `EphemeralHistory` | `EphemeralHistoryProofs` |
| `EphemeralHistory` | `EphemeralManagers` and which calls were disturbed | `ephemeral`, `teardown` | `EphemeralHistoryProofs` |

The modules `MC*` give TLC the constants and symmetries. Operators commented *Mutant* are plausible mistakes in the
definition that follows; no specification uses them. They serve to show that each property can fail.

### ManagerSpawn

All workers compute the same socket path, which is the interesting case: the path is a hash of user, host
and credentials. A worker is one task and calls `_get_persistent_client` once. A manager is named by its
process, and PID, authkey and the inode of its listening socket are all that name. `sock` and `meta` are
the two files at the path: whose they are, or that they are absent, or (`EmptyMeta`) that the `.meta` file is
open for writing and empty. `lock` is the flock. `seen[w]` is the PID and key in the worker's hand, `proc[m]` the life
cycle of a process, in which an exit for idleness or by SIGTERM takes its several steps.

Each `pc` value is a place where the code touches what others can change; between two of them it runs on its
own data. The look-up appears twice in the code, without and with the lock; here it is one set of actions
(`CheckSock` ... `CreateProxy`) that asks `NotFound` where to go on. `cleanup_old_socket` is two
unlinks, opening and closing the `.meta` file are two steps, and a client's constructor is two
connections (`Dial`, `CreateProxy`), the first call a third. Faults are chosen with the constant `Faults`:
crash, idle exit, SIGTERM, start or service later than the code waits, service that fails to build, worker
killed, PID that lingers (zombie or reused), process that cannot be started, `.meta` file that cannot be
opened or written, playbook killed, playbook's PID that lingers.

A playbook (`ownerAlive`) ends by itself between tasks, or is killed at any moment, and its forked workers go on
alone. A manager watches the PID that `os.getppid()` gave its launcher at the launch (`http.py:422`): the playbook's,
or, if the playbook had died by then, that of the process which adopted the worker (`adopted`), which never exits, or
whose PID answers with `PermissionError`, taken for running (`manager_process.py:327-328`). `ownerPid` are the
playbooks whose PID answers, because they run or because the PID has been given away.

Merged or left out: that the files exist and what the `.meta` file says are one read (`Probe`); an `unlink` that fails
and is swallowed (`process_manager.py:171-172, 179-180`) is not modelled, as the directory is the user's own.

### ManagerProcess

`monitor`, `watcher` and `main` are the threads that may end the process, `nap`, `watchNap` and `mainWait`
what is left of their sleeps and waits, `idleFor` the age of `_last_activity_monotonic`, `call` the RPCs and
`authLock` the RPCs in `_auth_lock`. A request is *sent* if it goes straight over the session - as all of
create, update, delete, find and the look-ups do - and *asked* if it goes through `_make_request`,
which records activity and recovers from a 401.

Time is discrete. `AllWait` makes `Tick` wait for threads that are due: a thread whose sleep is over runs
before the next tick. That is an assumption about the scheduler at the scale of seconds, and the two time
bounds rest on it; RPC threads and the gateway get no such assumption and take as long as they like.
Clocks stop at `Horizon`, which `ProcessAssumption` puts beyond every constant they are compared with.

`ownerAlive` stands for *its PID answers*, which is what the watchdog asks: a PID that another process has taken, or one
that an orphaned worker handed over, is that of a playbook that has not ended here, and `OrphanExitsInTime` counts from
the moment the PID stops answering. `EndAuth` is the release of the lock and the record of activity after it in one
step; `SendDirect` stands for the look-ups too, of which `lookup_resource_id` does record activity
(`platform_manager.py:1126`), so that the model has more idleness than the code.

The refresh of a token is not an action: `_refresh_token` needs a stored refresh token and nothing in the
code ever stores one, so it always returns False.

### GatewayRequest

One request is a thread in `retry_http_request`: `Send` is the session call and what is made of its
outcome, `Refresh`, `BeginAuth`, `EndAuth` and `Resend` the recovery, `Retry` and `Raise` the clauses of the
retry loop. The outcomes are the classes the code distinguishes: statuses 2xx-3xx, 401, other 4xx, 5xx
with 408 and 429, and the exceptions `Timeout`, `ConnectionError`, a `ValueError` of the library, any
other. The length of the delays is abstracted. The re-authentication's own GET may succeed or fail. What
exception the caller is given is abstracted to *failed*.

`ManagerProcess` has the same request in five states and without attempts or exceptions, and `ImplementsRpc` says
that it leaves nothing out: under the mapping `AsCall` every step of the loop is a step of an RPC there, or
changes neither the call nor the lock. A time-out that will be tried again is still a request without an answer; it
is *asked again* once the request went out more often than it has attempts behind it (`Open`), so a retry
after a recovery may meet a 401 again, which `Unauthorized` of `ManagerProcess` allows for. The clocks of
`ManagerProcess` stand still in the mapping, so what the two say of activity is not compared.

### ResourceTask and TaskPromises

A task is one run of an action plugin for an organization; `request` are its options, `pc` is the next HTTP
request it makes: `find` (the list filtered by name), `reread` (the GET at the start of `_update_resource`),
`create`, `update`, `delete`. Between two of them the task works on what it has in hand: `target` is the id
it found, `current` what it read. `orgs` is the gateway: the organizations in the order of their ids, `Gone`
where one was deleted. `Found` and `NotFound` are what `run` makes of the find in each of the four states;
`Patched` is the payload of the PATCH, in which options that are not given carry the value that was read.

The gateway is external: names are unique, it refuses a create or a rename that would double one, it assigns ids in
order and reuses none, and a write may take effect although its answer is lost (`Takes`). Any request may fail
(`FindFails`, `WriteFails`, the second choice of `Reread`). Descriptions stand for all the plain fields; of a
description only three things matter, whether it is the blank that a create without one leaves, whether it consists of
digits (`Numerals`, since `_should_update` skips a comparison of words with digits) and whether it equals another.
Left out: names that are numbers and the `id` option, which look up by primary key; the association fields, which the
organization does not have; the generic result formatting.

The history of `TaskPromises` records, of each task, whether it had nothing to do when it began (`held`), whether it
wrote, whether another task wrote meanwhile (`crossed`), and whether a request of its own failed (`troubled`); and
`met`, the set of those of its names under which its promise has held at some moment since.
`Keeps` is the promise: an organization of that name with exactly the given description (present, enforced), none
of that name (absent), one of that name (exists). The plugin's own comparison (`Differs`), which holds words and digits
for equal, appears in `held` only (`InPlace`), where the question is whether the task thinks it has nothing to do.
`SuccessWasReached` asks for the promise under the *final* name, and names each case in which the code reports success
without: a number is not replaced by words (`NumberSkipped`, for which `numbered` records that one was there),
a rename that finds nothing makes the old name anew (`MadeOldName`), an absent task takes a failed find for an
absent resource, and an exists task that says the resource is not there (`Excused`). TLC finds the property violated if
any one of them is left out.

### ServiceReads and ReadHistory

A call is one RPC thread in `lookup_org_ids`, `lookup_org_names`, `lookup_resource_id` (kinds *ids*, *names*,
*resource*) or `search_api` (*search* with `return_all`, *list* without). The cache is one dict in the code; its
three families of keys are `idCache`, `nameCache` and `fkCache`. Each request to the gateway is a step, and so is
the store of its answer (`Ask`, `Store`), since other threads, the gateway and `shutdown` come between. The gateway
lists what there is in the order of the ids (`Rank`), in pages of `PageSize`. A search asks page after page
(`FirstPage`, `FollowPage`); `next_url` is the number of the next page, and a page past the end is a failure. Other
clients add, rename and remove organizations. `Shutdown` clears the cache, and a thread between `cache_key in
self.cache` and the read raises (`HasHit`). The history records which names organizations had since the service
began and since each call began, which answers were fetched, and whether the list a search reads shrank or grew.
`StoreName` is two stores of one thread, one after the other (`platform_manager.py:1106-1107`). The order of the list is
an assumption about the gateway: a search that passes an order of its own in `query_params` is not covered.

### RoleAssignments and GrantPromises

A task grants, revokes or looks for one role of one user or team, on each object of a list or on a
single object; the two paths of the two plugins differ in what they make of a failure, and the guards of
`FindRaises` and `DeleteRaises` are these differences. `Resolve` is `_resolve_fks_to_strings`, which turns the name of the
role and that of the user or team into ids; any look-up may fail, and that of an `Unknown` name always does. A user's
task without both ids fails; a team's goes on with the names it has (`role_team_assignment.py:21-36`).
`Carries` is what the mixin then puts into a request: the ids, and of a name that is left either its id
after all (a second look-up) or nothing. A list without the team is of every team's grants, and one without the role of
grants of every role (`Matches`); `Find` takes the first result the gateway returns, which may be any.
Creates and deletes may take effect although their answer is lost. Objects are ids. A grant is a user or team, a role
and an object, and the history records of each task on which objects its user or team had, and lacked, the very role
it asks for at some moment while it ran, and whether it wrote. `Knows` says that the plugin got both ids.

### EphemeralManagers and EphemeralHistory

A caller is a task or a look-up; it launches one manager at most, so the two share a name. Paths are chosen freely,
since they come from a clock: any two may be the same. A caller clears the path, launches, waits for *a* file there,
and dials four times (connect, create the proxy, its reference, the first call); later calls keep their connection. A
use fails here only because the manager no longer answers, so the `shutdown` that a look-up sends all the same
(`gateway_api.py:226`) reaches nobody; errors of the gateway are left out. Clean-up changes nothing but the flag of a
look-up's service: `_spawned_processes` is never filled and there is no `.meta` file. A manager ends as in
`ManagerSpawn`, and watches the same PID (`http.py:261`). Both ways out that clean up unlink the path, whoever listens
there. The history marks callers whose file or manager was touched while they were at work; what was at the path
before does not count.

## The runs

| Run | Instance | States | Shows |
|---|---|---|---|
| `files` | 3 workers, 3 managers, the faults that leave files or processes behind | 529,475 | types, `FilesAgree`, `LockHolderSparesPublished`, `LaunchUnderLock` |
| `promise` | 2 workers of a playbook that may be killed, 2 managers, the faults that leave managers broken, late, lingering or watching the wrong PID, fair | 157,882 | `OnlyDisturbedCallsRaise`, `ImplementsService`, `EveryCallEnds`, `NoOrphans` |
| `process` | 2 RPCs, all that may happen to the process, with history | 294,336 | types, `OvershootBounded`, `OrphanExitsInTime`, `OnlySilentCallsLost` |
| `request` | 2 threads, 3 attempts, with a token, fair | 25,564 | types, `SendsBounded`, `NoFalseSuccess`, `ImplementsRpc`, `RequestEnds` |
| `resource` | 2 tasks with any options, 2 names, 3 descriptions, at most 3 organizations | 221,961 | types, `SuccessWasReached`, `SecondRunIsQuiet`, `ChangedIsTrue`, `UncrossedUpdatesKeepTheRest` |
| `reads` | 2 calls, 3 names, at most 3 organizations, pages of 1, cap 2 | 1,509,771 | types, `AnswersWereTrue`, `FetchedIsCurrent`, `SearchMissesNothing`, `SearchRepeatsNothing`, `OverrunIsGrowth` |
| `grants` | 2 tasks in any state, a user, 2 teams, one of them unknown, 2 roles, 2 objects | 913,013 | types, `PresentWasGranted`, `AbsentWasRevoked`, `ChangedIsTrue`, `SecondRunWritesNothing`, `KnownRevokesOnlyItsOwn` |
| `ephemeral` | a task and a look-up of a playbook that may be killed, one path, all faults, fair | 139,539 | types, `FailsOnlyIfDisturbed`, `OneOfTwoIsServed`, `EveryCallEnds`, `NoOrphans` |
| `single`, `retries`, `revoke`, `teardown` | 1 or 2 actors | – | a counterexample each, see below |

**Bounds.** Two workers suffice to race for the lock, and the proofs cover every number; in `files` a third is added,
since one launches, one cleans up without the lock and one waits for the lock. A worker launches at most one manager,
so with as many managers as workers the model never runs out of them. The two runs divide the faults, and each has
those its properties tell apart. `files` leaves out a service that is late or fails to build, which touches no file,
and a playbook killed in the middle of a call, of which the death of its workers and managers is there. `promise`
leaves out the exits for idleness and by SIGTERM, which end a manager as a crash does and leave less behind, a process
that cannot be started, which ends the call before there is anything, and a `.meta` file that cannot be written, which
looks to others like one whose writer died. The safety properties of both are theorems for all faults. One playbook is
enough: playbooks share nothing but the path, a manager watches one PID, and that playbook may die before, during and
after each call, so what an earlier playbook leaves behind is there when the second worker, orphaned or not, comes.

In `ManagerProcess` a timeout of 3 ticks polled every 2 lets a sleep straddle the timeout; two RPCs meet at the
lock, and one can keep the clock young for the other; here too the theorems cover every timeout, floor and cap.
Three attempts are the code's.

In `TaskPromises` the second task is the one that crosses the first; its options are arbitrary, so it may
rename, replace or delete what the first has found; three ids let each task create one beside the one that was
there. The bound `MaxOrgs` never stops a task, since a create may be refused anyway. `EveryKind` leaves out
check mode for `exists` tasks, renames outside `present`, and descriptions where the state ignores them.

In `reads` two calls meet in every pair of kinds that share a part of the cache; three organizations on pages of
one let a search turn twice, and a cap of two lets the list outgrow it. `MaxHeld` counts the names that
organizations ever have: three allow a rename, or a removal and a new organization of the old name, before,
between and after the steps of a call.

In `grants` two objects make a list, so a task can fail at the second after writing the first; two roles and two teams
let a list without its filter return a grant of the other. A task makes two grants at most, one an object, so with the
one there at the start there are never more than five and `MaxGrants` stops nothing.

In `ephemeral` two callers suffice for two to collide, and one path is the case in which they do: on two paths
they do not meet. The first two properties were also run with three callers at one path.

The states where a system simply stops are meant - all tasks done, the process gone - so deadlock is not
checked; that nothing stops early is what the liveness properties say.

**Fairness.** In `ManagerSpawn` and `EphemeralManagers` a worker or manager that can take a step takes one in the end:
operating-system processes, whose waits all have limits in the code (5 s for the socket, 60 s for the service).
In `GatewayRequest` a thread does, since requests have timeouts. Taking a lock is strongly fair, since it comes free
again and again and waiters are served in turn (flock, `threading.Lock`). There is no fairness for a task to
start, for faults, or for a playbook to end. The other modules claim safety only and have no fairness.

### What does not hold

- `OneWorkerSpawns` (run `single`, no fault needed). `http.py:355-357` promises that exactly one worker
  launches a manager. A second worker that reads the `.meta` file after `open(..., "w")` and before the close
  fails to parse it and deletes both files without the lock (`http.py:351`); then it launches its own.
- `ServerErrorsRetried` (run `retries`). `raise_for_status` runs before the retry loop sees the response, so
  5xx and 429 are never retried.
- `RevokesOnlyItsOwn` (run `revoke`). If the look-up of a team or of a role fails, the name goes on as it is, the mixin
  leaves the field out of the filter (`role_team_assignment.py:26, 62-66, 72-74` of `api/v1`), and an absent task
  deletes the first assignment that is left on that object: of whichever team, or of whichever role.
- `TornDownAfterTask` (run `teardown`). `base_action.py:812-813` promises that a task's own manager is torn down
  after the task. `cleanup` does get there, but finds the manager neither in `_spawned_processes` nor in a `.meta`
  file and takes it for gone (`base_action.py:895-897`).

Met on the way and not given a run:

- A manager whose launcher was orphaned before the launch watches PID 1 or a subreaper, and one whose playbook's PID is
  taken again watches a stranger; both stay after the playbook has gone (`manager_process.py:327-328`), where
  `http.py:419-421` and `process_manager.py:412-414` say that the manager ends with it. `NoOrphans` says what is left:
  a manager launched while its playbook ran ends once that PID answers no more.
- A search can return more than `max_objects`, since only the count of the first page is compared with it
  (`platform_manager.py:1172-1175`); `gateway_api.py:60-63` and the docstring at `platform_manager.py:1157` say that
  more raises an exception. `OverrunIsGrowth` bounds the excess by what was added while the pages were turned.
- With a role that cannot be looked up, `present` for a known team takes any role of that team on the object for the one
  asked for and reports it there, unchanged; the same dropped filter as in `RevokesOnlyItsOwn`.
- The path's hash leaves the gateway out (`process_manager.py:89`), which `http.py:22-25` makes part of a
  tenancy, so tasks for two gateways with the same credentials share a manager.
- The RPC `shutdown` does not end the process, though its docstring says so (`platform_manager.py:1193`), and
  turns the idle exit off, so that the manager of every `gateway_api` look-up stays until the playbook ends.
- `docs/06-foundation-components.md:346` says that a manager exits if no API calls occur, but the session calls
  of the CRUD operations are not counted, and a long RPC is cut off while it works.
- `base_action.py:1153` takes every failure of the find for "not found", so an absent task succeeds, unchanged,
  with the organization still there.
- A PATCH carries every field, those that the task does not mention with the value read before it, and what
  another task wrote to them since is undone.
- The role plugins ignore check mode, against `docs/05-design-principles.md:211-213`.
- A user's list to revoke fails at the first object without the assignment (`role_user_assignment.py:149`),
  where `docs/02-action-plugin-pattern.md:113` says no-op, and a team's list reports success even if no delete
  worked (`role_team_assignment.py:145`).
- Three tasks that draw one path in direct mode may all fail without any other trouble.
- After a 4xx or 5xx answer the caller gets an `AttributeError` from `retry.py:248` in place of the classified
  error.
- An enforced task that has something to change always fails with a `TypeError`, because a field without a
  default is no attribute of the model class (`base_action.py:1199`), and enforced resets nothing that the task
  omits, which `docs/02-action-plugin-pattern.md:156-157` promises.
- A value that is no number is never compared with one that is (`base_action.py:1000-1007`), so a number is not
  replaced by words, and the task reports success; `docs/02-action-plugin-pattern.md:90-93` says to patch "if D ⊄ E",
  and the docstring at `base_action.py:970-971` that any field that differs counts.
- A rename, repeated, creates a second resource under the old name, against
  `docs/05-design-principles.md:174-175`.
- `_authenticate` in the constructor records activity before the lock for it exists, so a start-up
  authentication that succeeded is recorded as failed (`platform_manager.py:97, 116, 240`).
- `server.shutdown()` in the idle monitor lacks an argument and always raises (`manager_process.py:393`).
- Had the tear-down of an ephemeral manager found one, its RPC step would fail, since it imports from a package
  that does not exist (`base_action.py:914`).
- `DirectHTTPClient._make_request` says it retries and does not (`direct_client.py:227-231`).
- `docs/03-sdk-architecture.md:425-440` says an idle exit cleans nothing up, and the code removes the files.

## The proofs

All theorems hold for every number of workers, managers, playbooks, RPCs, attempts, tasks, names, descriptions,
look-ups, searches, grants, callers and paths, every length of lists, every page size and cap, and every choice
of timeouts, under the named assumptions on constants (`ConstantsAssumption`, `ProcessAssumption`,
`RequestAssumption`, `ResourceAssumption`, `ReadsAssumption`, `GrantsAssumption`, `EphemeralAssumption`), which say
that the constants have their types and that the absent values are not among the present ones. Every safety
property of the passing runs is the statement of a theorem.

- `ManagerSpawnProofs`: `TypeCorrect`, `FilesAlwaysAgree`, `PublishedIsSpared`, `LaunchesAreLocked`. The two
  safety invariants are not inductive: whether the files agree depends on who may write them next. The
  strengthening `SpawnInv` says that a worker past `Acquire` holds the lock, that every launched manager belongs
  to one worker and every worker to at most one manager, and, for each control point of the locked path, what
  the files and the worker's own manager can be there.
  `SpawnImplementsService` says that under the refinement mapping initial states are initial and each step is
  a step of `ManagerService` or a stutter; the work is to show that a call is served only while its manager
  runs.
- `SpawnHealingProofs`: `LeftoversNeverRaise`, that only a disturbed call raises. What is at the path when a call
  begins may be anything, so the invariant says nothing of a call until it has cleared the path; from then on
  (`OnTrack`) nothing is there but the manager it launched, first not at all, then listening with a service
  or one to come, and whatever changes that is a disturbance. It rests on `SpawnInv`, by which nobody but
  the lock holder and its manager writes there of its own accord.
- `ManagerProcessProofs`: `OvershootIsBounded` from `IdleInv` (the idle time and what is left of the monitor's sleep
  stay below timeout plus interval, and no time passes once it has decided), `OrphansExitInTime` from
  `OrphanInv` (the same sum for the watchdog), and the types.
  `OnlySilentCallsAreLost` from `SilenceInv`: an RPC in flight has been silent at least as long as the
  process, so when the monitor decides, each is silent for the timeout or comes later.
- `GatewayRequestProofs`: `LoadIsBounded` from `LoadInv`, an account of what each step of an attempt has
  sent; `OnlySuccessReturned`; the types; and `RequestsAreRpcs`, that the request implements the RPC of
  `ManagerProcess`. It needs the other half of the account (`SentInv`): an attempt with an answer has gone out
  at least once, so that a retry looks like a request still out and only a recovery like one sent again.
- `TaskPromisesProofs`: `TypeCorrect`, `SuccessIsReal`, `ChangedIsHonest`, `TasksAreIdempotent` and `UpdatesKeepTheRest`. All rest on
  `Sound`: the types, that a task past its find has one of the gateway's ids (`Located`), that the gateway has
  each name once (`UniqueNames`), and what each `pc` says of the options (`Phased`). `SuccessIsReal` needs `Doomed`: a
  task about to delete either still has in sight what it found, or the step that took it out of sight
  left nothing of that name, and so kept the promise. The rest is what a create, an update and a find that has nothing to
  do leave under the final name (`CreatedKeeps`, `UpdatedKeeps`, `InOrderKeeps`), by equality; the last is where
  `NumberSkipped` comes from. `ChangedIsHonest` needs `Sighted`: a task that nobody has
  crossed and that is about to update sees an organization that differs from its request, so the PATCH
  changes it and the answer differs from what was read. `TasksAreIdempotent` needs `Steady`: the
  promise still holds, and only a failed find can have brought the task past its find, to a create that the
  gateway refuses. `UpdatesKeepTheRest` follows from `Sound` and `Sighted`, for the same reason.
- `ReadHistoryProofs`: `TypeCorrect`, and of look-ups `AnswersAreTrue` and `FetchedAnswersAreCurrent`. An answer may
  come from an entry of the cache that another thread wrote, in the other direction, from a response it had
  been holding; so the invariant says of every entry (`CacheTrue`) and every response in hand (`ReplyTrue`)
  what the theorems say of answers, and that the history knows the present (`Follows`).
  Of searches `SearchesRepeatNothing`, `SearchesMissNothing` and `OverrunsAreGrowth`, from `SearchInv`. A search
  between two pages (`Turning`) has read as many full pages as it says, in the order of ids, and everything
  that the list still has from that place on comes after what it has read. Removals shift the rest towards the
  front and additions extend the end, and neither lets an id that was read come again (`RankStep`). One page is then
  one lemma (`PageRead`, from `PageAppended` and `Appended`): a page appended to an ordered sequence of smaller ids
  is ordered, and covers the places it was asked for. The proofs need no induction over sequences, since
  `Rank` counts with `Cardinality`.
- `GrantPromisesProofs`: `TypeCorrect`, `PresentIsReal`, `AbsentIsReal`, `ChangedIsHonest`, `SecondRunIsQuiet` and
  `KnownRevokesAreItsOwn`, from one invariant for each task (`Own`): the id in hand is that of the grant it was
  found for - on the object it is at, and agreeing with every name that has an id - which holds since ids are not
  given again (`FoundRight`); the history knows the present
  (`Follows`); what it wrote is what it will report (`Written`); and each object it is done with is
  as the state says (`Kept`). `Unique`, that no grant is there twice, makes a delete leave nothing behind.
  What is said of a task's own grant supposes both ids (`Knows`), without which it is not so.
- `EphemeralHistoryProofs`: `TypeCorrect`, `OnlyTheDisturbedFail` and `OneOfTwoGetsThrough`, from `DirectInv`. For
  the first, an undisturbed caller is on its way (`OnTrack`): its path is vacant from `Clear` to the bind of its
  manager, and its manager listens there from then on, with a service or one to come. For the second it is not
  enough that one of two rivals (`Rivals`) is on its way, since the late manager of one could take the path
  from the other; `LateIsBlocked` says that it cannot: a manager whose caller has already taken the rival's
  socket for its own finds the path occupied when it comes to bind, and exits.

Only model-checked: the liveness properties (`EveryCallEnds`, `NoOrphans`, `RequestEnds`), which depend on
fairness and so on `ENABLED`; and the four properties that the code does not keep, which have a counterexample
in place of a proof.

## Not modelled

The `.survive` watchdog of the test scenarios; `DirectHTTPClient`, which `spawn_ephemeral_client` falls back to where
there are no Unix sockets: it is sequential and has neither threads nor retries, so its operations add nothing to
`ResourceTask`; version detection and choice, and the constructor of `PlatformService`; the plugins `token`, which
creates without looking, and `settings`, which writes one singleton; the look-up of an object's name in the role
plugins; fields of other resources; registry, credentials, legacy utilities, tools. Every mixin of the v1 API has one
endpoint operation for each of create, update and delete, so `_sort_operations` never orders more than one and is not
modelled either. `ManagerSpawn` and `EphemeralManagers` have no SIGTERM in the middle of an idle exit, where both
threads clean up. Two playbooks on different hosts never meet in `ManagerSpawn`, since path and PID are local; in
`ResourceTask` they are just two tasks.

Nearly all source files of the repository are vendored collections (`community.general`, `redhat.*`, `infra.*`,
`ansible.controller`, ...): several hundred independent modules of third parties, each one sequential run of
request and answer without state of its own to keep. They are no part of this program, and a model of one would say
nothing of another, which is why the share of the repository's lines that the modules stand for stays small
although most of the collection's own stateful code is modelled.

## Plan

1. Done: the persistent mode (`ManagerSpawn`, `ManagerService`, `SpawnHealing`), the manager (`ManagerProcess`,
   `IdleHistory`, `GatewayRequest`), the tasks (`ResourceTask`, `TaskPromises`), what the service reads (`ServiceReads`,
   `ReadHistory`), the role plugins (`RoleAssignments`, `GrantPromises`), the direct mode (`EphemeralManagers`,
   `EphemeralHistory`), and the proofs of their safety properties as named above.
   The safety properties of all passing runs are theorems, among them two refinements: of `ManagerService` by
   `ManagerSpawn`, and of the RPC of `ManagerProcess` by `GatewayRequest`.
2. A SIGTERM in the middle of an idle exit. `ManagerProcess` has it, with its threads; `ManagerSpawn` and
   `EphemeralManagers` see one exit at a time, and a crash for the rest. With the files of a manager in
   `ManagerProcess`, it could be shown to implement the life cycle that the other two give it.
3. `VersionChoice` (`registry.py:172-219`, `platform_manager.py:335-430`): a pure algorithm against its definition, once
   there is a second version to choose.
