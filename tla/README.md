# A TLA+ model of BitBake's build execution

Ostro OS is built by BitBake (`src/bitbake`), a server that turns recipes into
tasks, orders them, runs them in worker processes and remembers in stamp files
and in the PR service what it has done. This directory models the part of it in
which several actors meet, or an order nobody wrote down decides the result: how
a build is planned (providers, task data, dependencies, weights, the collapse to
setscene tasks), the setscene stage, the task queue with stamps and workers, the
stages of a build with everything that can end it early, the server with its
commands and parsing processes, its user interfaces and their events, lock files,
the fetchers, and the PR service.
Recipes and layers (`meta*`) are data of that system and are not modelled.

## The system

| Part | State it keeps | Operations | Meets |
|---|---|---|---|
| Task queue: `RunQueueExecute(Tasks)`, scheduler, statistics (`lib/bb/runqueue.py`) | sets of buildable, running, complete and failed tasks, the stamps in use, `stats` | `execute`, `task_complete`, `task_fail`, `task_skip`, `finish`, `finish_now`, `next` | called by the stages; gives tasks to workers; reads and writes stamps |
| Setscene queue: `RunQueueExecuteScenequeue` (same file) | the same sets for setscene tasks, `scenequeue_covered`, `scenequeue_notcovered` | the same | before the task queue, which starts from what it covered |
| Providers and task data (`providers.py`, `taskdata.py`, `cooker.buildTaskData`) | `build_targets`, `run_targets`, what has failed, the run list | `add_provider`, `add_tasks`, `fail_fn`, `remove_buildtarget`, `add_unresolved` | after parsing; hands its dictionaries to the preparation |
| Preparation: `RunQueueData.prepare` (`runqueue.py`) | `runtaskentries`: dependencies, reverse dependencies, weights | one call | its result is all the queues know of the build |
| Stamps (`lib/bb/build.py`, `check_stamp_task`) | stamp files and their times | `make_stamp`, `del_stamp`, the check | written by task processes and the server, read by the server |
| Stages and idle function (`RunQueue`, `cooker.py: buildTargetsIdle`) | `state`, the workers, `cooker.state` | one call per turn of the server's loop | drives the queues; is told to stop by commands, the disk monitor and dying workers |
| Disk monitor (`lib/bb/monitordisk.py`) | `checked` per path | `check` | calls `finish_runqueue` from inside a turn |
| Worker (`bin/bitbake-worker`) | queue of orders, `build_pids`, `build_pipes` | `runtask`, `finishnow`, `quit`, waiting for processes | pipes to the server; forks a process per task |
| Cooker, commands, server (`cooker.py`, `command.py`, `server/`) | `cooker.state`, the current asynchronous command, idle functions | commands, `idle_commands` | user interfaces, queues |
| Events and user interfaces (`event.py`, `server/xmlrpc.py`, `ui/uievent.py`, `ui/knotty.py`) | handlers with their filters, the token of the client, a queue of events per UI | `fire`, `register_UIHhandler`, `addClient`, `runCommand`, `removeClient` | every part fires events; UIs send commands; server and UI wait for each other |
| Parsing (`cooker.py: CookerParser`, `cache.py`) | parser processes and their queues | start, next, shutdown | the cooker |
| PR service (`lib/prserv`) | a table of values, its uncommitted part, queue of requests | `getPR`, `importone`, `dump_db`, `quit`, signals | clients over XML-RPC |
| Locks and persistent caches (`utils.py`, `persist_data.py`, `checksum.py`, `codeparser.py`) | lock files, databases | lock, unlock, get, save | processes of one or several builds |
| Fetchers (`lib/bb/fetch2/`) | files and repositories in `DL_DIR`, done stamps, mirror tarballs | `download`, `unpack`, `clean` | task processes of all builds that share `DL_DIR`, under the URL's lock file; mirrors |
| Recipe parser, data store, signatures, Toaster, scripts | | | sequential computation or I/O |

What is hard: task processes end in any order and at any moment, also while the
server is in the middle of a call; exit codes wait in pipes that are read in
several places; one of four parties (the queue itself, a command, the disk
monitor, a dying worker) may stop the run, or several of them at once; stamps
are shared by recipes and have a resolution of a second; half of the planning
walks dictionaries and sets, in any order, that the walk itself changes; four
kinds of processes meet in the queues of a parse that may be shut down at any
moment; a fetch that is killed leaves part of a file, a tarball or a repository
next to a stamp that may tell otherwise; the PR service answers before it commits
and runs two threads over one connection. `PROJECT.json` lists
these hazards one by one with the properties that look for them.

What makes the parts correct:

* **Task queue.** A task runs after all it depends on, at most
  `BB_NUMBER_THREADS` at a time, never beside another one of its stamp; every
  task whose turn has come gets it; under `-k` only what depends on a failure is
  left; the statistics tell the truth; the run ends.
* **Stages and workers.** The same of the processes on the machine rather than
  of the sets in the server. Every exit code arrives once, however the build is
  stopped. The build ends. `BuildCompleted` tells of the failures.
* **Stamps.** Work that recipes share is done once.
* **PR service.** Two checksums never share a value, values do not go back, a
  value told is a value kept.
* **Providers and task data.** What cannot be built is given up and everything
  else is built; a dependency that has no provider is never taken for one that
  is assumed to be provided.
* **Preparation.** It refuses exactly the cyclic task data, whatever the order of
  its walks; recursion reaches every recipe it should; a scheduler's order never
  puts a task before one it needs.
* **Setscene queue.** The collapse loses no setscene task a setscene task serves.
  Each is decided once, none is launched in vain or before what it needs, and
  what will run afterwards finds its inputs. The stage ends.
* **Server.** No command works on a parse that is incomplete or older than a
  change that was known when it came; each accepted command ends.
* **Events and user interfaces.** A UI that stays gets every event, in order,
  whatever the others do, and learns of the end of its command; server and UI
  never wait for each other for ever.
* **Locks.** Who has the lock has the file that is in place.
* **Fetchers.** What a fetch reports as fetched is what the recipe names, whatever
  was in `DL_DIR` before; what a dead fetch left does not keep later ones from
  succeeding; a tarball given to other builds is not older than its repository.

## Modules

| Module | What it is |
|---|---|
| `Stamps` | stamp files: `check_stamp_task`, `make_stamp`, the clock |
| `RunQueueExecute` | state and methods of the task queue, its statistics and scheduler; one operator or action per method, or per outcome of `execute()` |
| `BuildOrder` | the abstract specification: what the task queue promises |
| `RunQueueExecuteTasks` | the queue at work: `execute()` in a loop, tasks that end, callers that stop it. Its properties, and `IInv` and `SharedInv`, the inductive invariants |
| `RunQueueExecuteTasksProofs` | the theorems |
| `BitbakeWorker` | the worker processes with their pipes, and the processes of the tasks |
| `RunQueue` | a whole build: composes `RunQueueExecute` and `BitbakeWorker` with the stages of `_execute_runqueue`, the idle function, the disk monitor and commands |
| `RunQueueProofs` | the theorems about it, among them that it implements `RunQueueExecuteTasks` |
| `Providers` | which recipes may provide an item and the orders in which they are tried |
| `Taskdata` | `buildTaskData` and the class `TaskData`: from targets to recipes, one item at a time |
| `TaskGraph` | the dependency tree of a run queue, walks over it, cycles |
| `Prepare` | `RunQueueData.prepare`: from task data to tasks, their dependencies, weights and orders |
| `ScenequeueGraph` | the collapse of the tasks' graph to the setscene tasks |
| `Plan` | composes them: from targets to the graph of the setscene tasks. Its properties, and `PlanInv`, the inductive invariant |
| `PlanProofs` | the theorems about `Plan` and all it is composed of but the collapse |
| `Scenequeue` | the setscene stage on that graph, and the coverage the task queue starts from |
| `ScenequeueProofs` | the theorems about both |
| `CookerParser` | the parser object in the server, its feeder and parser processes, their queues |
| `Server` | the server's loop, commands, shutdowns, file watches, over `CookerParser` |
| `ServerProofs` | the theorems about both, and about `LockFile` |
| `UserInterfaces` | the XML-RPC server, the delivery of events, and UIs from connect to terminate |
| `UserInterfacesProofs` | the theorems about it |
| `LockFile` | `utils.lockfile` and `unlockfile` |
| `Fetch` | `Fetch.download`, `unpack` and `clean` of one URL, with the wget, git and `file://` methods and mirrors |
| `FetchProofs` | the theorems about it |
| `PRServ` | the PR service |
| `PRServProofs` | the theorems about it |
| `MCRunQueueExecuteTasks`, `MCRunQueue`, `MCPlan`, `MCScenequeue`, `MCLockFile`, `MCFetch`, `MCUserInterfaces`, `MCPRServ` | the instances for TLC (`Server` is its own) |

`RunQueueExecuteTasks` and `RunQueue` both extend `RunQueueExecute`: the first
says that its methods may be called whenever the code could call them, the
second says exactly who calls what. `RunQueue!ImplementsTaskQueue` states that
the second implements the first, and `RunQueueExecuteTasks!ImplementsBuildOrder`
that the first implements `BuildOrder`. `Prepare` and `ScenequeueGraph` extend
`TaskGraph`: the one makes the graph that the other collapses. `Plan` extends both, and
`Scenequeue` extends `ScenequeueGraph` on run queues of its own, of which
`RunQueueAssumption` says what `PlanProofs!RunQueueIsSound` proves of those that
`Prepare` makes. The inductive invariants stand in the modules whose variables they
speak of: `ResolveInv` in `Taskdata`, `PrepareInv` in `Prepare`, `PlanInv` in `Plan`.

A definition whose name continues that of another one with a suffix
(`HasFreeSlot_or_one_more` next to `HasFreeSlot`) is a faulty variant with which
the properties are tried; no specification uses it. `PROJECT.json` lists, under
`mutants`, which variant each property was seen to catch.

### How the model corresponds to the code

*Task queue.* The variables have the names of the attributes. `build_stamps`
keeps only the keys of the dictionary, since the value of a key is `StampNoExtra`
of it. `stats` is the record `RunQueueStats`. `execute()` is cut where the world
can change in between: `ExecuteBegin` is the call up to its read of the workers
(the whitelist is looked at in the first call), each exit code read is one
`ProcessWaitpid`, and the rest of the call, from `sched.next()` to its return, is
one action chosen by its outcome: skip (`ExecuteSkip`), noexec (`ExecuteNoExec`),
launch (`ExecuteLaunch`), a fakeroot worker that cannot be spawned
(`ExecuteSpawnFails`), a dead worker written to (`ExecuteWriteFails`), nothing to
start (`ExecuteWait`, `ExecuteFinished`), an exception of the scheduler
(`ExecuteRaises`). Nothing the server does in one of these pieces can be
interleaved with: it is one thread, and the workers only append to pipes. The
stamp files are the exception, as task processes write them: `check_stamp_task`
reads several files and is one step here. `finish()` is split into its decision
(`finish`) and the reads that follow it in the code.

`build_taskdepdata` adds the task to its own set of dependencies. The model
keeps this side effect: `depends` is a variable that starts as `Depends`, and
`task_completeoutright` looks at the variable as the code does.

The scheduler's order is `Prio`, an injective constant: `speed` and `completion`
compute a permutation of the tasks once, and nothing after that depends on
how. `basic` is modelled by what its `prio_map` makes of every lookup
(`sched_raises`).

*Stamps.* A stamp is its time in whole seconds, 0 if absent. `make_stamp` writes
the current second, which may or may not have moved, and removes the `_setscene`
sibling that its clean mask covers. Any stamps may be there at the start.

*Workers.* `stdin[w]` holds the orders the server wrote, `stdout[w]` the exit
codes it has not read. A task process is forked, becomes leader of its process
group, then ends; if it succeeded it stamps first, in one step with its end as far as
the server can tell, but a killed task may leave its stamp and fail. In
`handle_finishnow` the loop over `build_pids` is a step per task, because
processes go on ending while it runs: `os.waitpid(-1, 0)` may well wait for
another process than the one just killed.

*Stages.* `pc` says where the server is within one call of the idle function;
`reading` is the list of polls and reads left of a `read_workers()` or
`teardown_workers()`. `PollWorkers` is the part of `runQueuePipe.read` that looks
for dead workers, `ReadExitcode` the loop over exit codes. `failures` is what
`BuildCompleted` is given when `pc = "done"`; `pc = "quit"` is the server ending
after an exception.

*Providers and task data.* `cache` is what recipes and configuration say. The
methods `fail_fn`, `remove_buildtarget` and `remove_runtarget` call each other
while each walks a list or dictionary; their calls are frames on `stack`, and
each turn of such a loop is a step that takes any member that is left. An
exception unwinds the whole stack to the handler that catches it (`Raise`).
`add_tasks` sees the items of a recipe in any order and returns at the first that
has failed already (`Walks`). `build` and `run` tell DEPENDS from RDEPENDS, which
the code keeps in two sets of methods that are almost alike. `Providers` gives,
for an item, the set of orders `_filterProviders` may return, since it collects
the eligible recipes in a dictionary; `filterProvidersRunTime` includes the loop
that removes members of the list it iterates over. `swallowed` and `premature`
are history: an abort was caught on behalf of another target; an item was
removed while recipes for it were still to be tried.

*Preparation.* Each stage of the method is an action. Sets and closures stand
for the walks where their order has no influence; the passes over the weights
are steps, as cycles show there. A `recideptask` that names a task the recipe does not
have makes `generate_recdeps` raise a KeyError: `RecurseRaises`, where the
preparation ends. `Plan!Resolved` is what prepare() reads of the
task data: the first provider of each item, the targets of the run list.

*Setscene collapse and stage.* One endpoint of a level is one step, taken in any
order. `execute()` is cut as in the task queue. `sq_revdeps2` is `waiting`,
`squash` the graph. `FailsWith` is what the recursion of
`scenequeue_updatecounters` reaches and `CoverRest` where the repeated loop of
`__init__` ends, both written as the least closed set. The
metadata's functions (hash check, `BB_SETSCENE_DEPVALID`,
`BB_SETSCENE_VERIFY_FUNCTION2`) may answer anything. `RunInit` to `RemoveLevel`
are `RunQueueExecuteTasks.__init__`.

*Server.* One turn of `ProcessServer.main` is three phases: command pipe, quit
pipe, idle functions. Wherever the server waits for something a child process
does, it is a phase of its own: `generator` (waiting for a result), `join`
(`CookerParser.shutdown`). Who writes to the two pipes is not in the model: a poll
may find a command, the order to quit, or nothing at any turn. A build is one idle
function that goes on, finishes or raises, as `RunQueue` shows it does. `stale` remembers whether a file change was
reported before the current command came and has not been parsed since.

*Parsing.* A `multiprocessing.Queue` keeps what was put in the process until its
thread has written it to the pipe; `buffer` and `pipe` are these two places, and
a process that quits with a non-empty buffer loses it (`cancel_join_thread`).
`parsed` is `CookerParser.parsed`, the results `parse_next` has taken;
`counted` is history: how often each recipe was. `ShutdownBegins` only puts the
tokens into the quit queues, forced or not: the `SIGTERM` of a forced shutdown goes
to a handler the parsers have inherited from the cooker (`sigterm_exception`), which
sets a state they do not look at. What `forced` changes is that `JoinsReturn` does
not wait for the parsers. One that is in the middle of a recipe outlives the
shutdown, and its result may still come.

*Events and user interfaces.* A UI is its program counter: the request it has sent
and waits for, `"loop"` while it waits for events, `"gone"`. A turn of
`_serve_forever` handles one request (`HandleRequest`); whose request comes first
is the order in which they reach the socket. `fire()` is cut between two
handlers, because the server waits there: `Deliver`, `SendRefused` and
`SendTimesOut` are what a send may come to, and nothing else the server does
happens before `Fired`. The callback thread of a UI is what lets `Deliver` happen
while its main thread waits for an answer (`Serving`). A request that a UI has
given up after its minute, or sent before it died, stays in the server's socket
(`abandoned`) and is handled all the same; an event that could not be sent in
time stays in the socket of the suspended UI (`late`). `command` is the client
whose command runs; how it runs is in `Server` and `RunQueue`. A handle is named
after its UI, which registers once. `due` is history: what a perfect delivery
would have put in the queue of the UI.

*Locks.* `name` is the inode the path leads to, `lf` the one each process has
open, `flock` its lock on that inode. The kernel converts a shared lock into an
exclusive one by giving it up first (`PromoteGivesUp`, `PromoteTakes`).
`overtaken` is history: a promotion was granted on a file that was in place no
more.

*Fetchers.* Between lock and unlock only the holder of the lock acts on the URL, so
that `run` is its program counter and locals: `left` are the mirrors still to be
tried (Head is the one at hand), `pre` tells PREMIRRORS from MIRRORS, `localpath`
and `verified` are `download`'s own. Each step of the control queues what it
writes in `todo`, and `WriteNext` makes one write after the other, so that a
crash falls between any two. The content of a file is the set of versions in it: one
for a file, all that its branches contain for a repository or its tarball;
`Broken` stands for any part. `disk[n]` may be the name of a `file://` mirror: a
link to its file, which a write follows and an unlink does not. A done stamp is the
checksum written in it; `Old` is one without sums, or older than its file, whose sum
is taken again. Sums are stored in two writes (`StoreSums`), as opening the stamp empties it:
a death between them leaves a stamp without sums. The stamp of a repository has no
sums, only its being there counts, so opening it is its one write. A recipe wants one version, by its checksum or its revision;
upstream has published `1..upstream`; a version that is not there yet is a
recipe ahead of its source. wget goes on with a part that is there (`-c`), may
stop in the middle, and appends to a file of other content. `mishaps` is history.

*PR service.* `table` is the database as the connection sees it, `committed` as
the file has it. The handler thread takes a request, computes the answer, sends
it and commits, in separate steps; the main thread's steps and signals fall
anywhere between. `given` and `highest` record what clients were told; `events`
records whether a crash or an import ever happened.

## The runs

All passing runs check every reachable state.

| Run | Asks | Distinct states |
|---|---|---|
| `tasks_shared` | the task queue alone: order, limit, stamps, statistics, wakeups, completeness under `-k`, shared work, termination, `BuildOrder` | 879,840 |
| `build_graceful` | a whole build stopped in good order or not at all | 255,898 |
| `build_stopped` | a whole build stopped by force, by dying workers and by exceptions | 683,296 |
| `plan` | from the targets of a build to the graph of its setscene tasks, over families of recipes and of task data | 451,774 |
| `scene` | the setscene stage and the coverage it leaves | 360,837 |
| `locks` | three processes on one lock file | 363,231 |
| `server` | commands, shutdowns and file changes over a parse | 1,140,436 |
| `fetch` | two builds that fetch one URL, with crashes and mirrors | 689,484 |
| `interfaces` | two clients and an observer that come, stop, fail and go | 455,796 |
| `pr` | the PR service | 1,984,342 |
| `build_abort_and_stop` | violated: a build the disk monitor aborts ends | |
| `build_failures` | violated: a failure that is counted is reported | |

### What they show

`tasks_shared`: two recipes fetch and unpack one source, under shared stamps;
the task `c` of a third recipe needs what both fetch, and fakeroot; `d` needs
nothing; and `e` is forbidden to run by setscene enforcement. With two threads
this makes every order of the shared tasks, three tasks that could run together,
a queue in which the only candidates wait for a stamp in use, failures before and
after the partner's success, a spawn failure with and without other tasks active,
and enforcement that fires or not depending on stamps left from before.

`build_graceful` and `build_stopped`: four tasks on the two workers: `a` and `b`
share a stamp, `f` depends on `a` and needs the fakeroot worker (started by the
first task that needs it), `g` is alone. One entry of the disk monitor. In the
first, one shutdown command, `-k`, no dying worker: each exit code is in one
place (`ExitcodeTracked`), the processes respect order, limit and stamps
(`ProcessesInOrder`), `BuildCompleted` tells of each failure
(`CompletedTellsAll`). In the second, ABORT, shutdown and forced shutdown, both
workers may die, no `-k`, and `f` forbidden by the whitelist; what survives is
that no stray exit code arrives (`NoStrayExitcode`), that the build ends
(`BuildEnds`) and that the task queue is implemented (`ImplementsTaskQueue`).

`ProcessesInOrder` is about live processes, `ThreadLimit` and `StampExclusion`
about the server's books; the two differ from the moment a task is killed.

`plan`: two kinds of starts. From recipes (`MCCaches`): three recipes with any
build time needs, two of them for one item, under abort, continue and graph-only
modes (`Needs`); needs at run time and by the flags of tasks, with
ASSUME_PROVIDED and packages (`FlagNeeds`); three recipes for one item under
every preference of name, version, layer and provider (`Preferences`). From task
data of any shape: all graphs of three tasks, with and without cycles; all acyclic
graphs of four with every choice of setscene tasks; one of five; three recipes
with every combination of the recursive flags, and a `recideptask` that names a missing
task (`ItaskUnknown`). `BuildableExactly` says what is
given up is what cannot be built, `NothingDropped` that no dependency vanishes,
`CycleDetection` that prepare() refuses exactly what has a cycle,
`SchedulerOrders`, `RecursionComplete` and `CollapseSound` are about its results,
for every order in which the code may walk its dictionaries. `RecursionComplete`
speaks of the tree a recursive task has before anything is added by recursion
(`OwnTree`), and of all it waits for in the end where the flags of the recursive tasks
among that name nothing else (`NamesAll`). Without that condition it does not hold:
what a recursive task with other flags brings in is not recursed into
(`MCPlan!RecursionThroughOthers`, refuted in `plan`), which is how the code is
written and not what its documentation promises against.

`scene`: an image of a package that is built with a tool and another recipe's
sysroot, and needs pseudo to be installed (a hard dependency); a chain of
setscene tasks with tasks in between and a way around them. Every setscene task
may be stamped, current, without code or none of these; the hash check may find
any of them; the last slot is taken with two threads; one failure may be
forbidden; the stage may be stopped at any time. `InputsAvailable` is the
property the whole stage exists for: before the verification, every task that
will run has each input from a setscene task that was obtained, or from a task
that will run too.

`locks`: a task that waits for the lock, shared or not, a server that does not
wait or waits with a time limit, a third process that may be a reader; any of
them may die anywhere. The lock file is removed by each who unlocks it, and its
inode number used again as soon as it can be.

`server`: four recipes of which the cache has some and one may fail to parse, two
parser processes, a pipe that holds one result; three commands among those that
need the recipes, those that do not, and the two shutdowns; one change of a file; the
order to quit. A shutdown may find the feeder with its queue full.

`fetch`: two builds and one URL, a file with a `file://` mirror before upstream and
an `http://` one after it, or a repository with an `http://` mirror of its tarball
before and a `file://` one after. The builds want the same version or different
ones, upstream may have to publish them first, the last mirror may hold the wrong
file; any fetch may fail anywhere, one may die between two writes, one clean
happens. `Stands` is what the recipes rely on: a fetch that ended well left what
they name, at once, and until it is unpacked where all recipes that name the
file want the same. `FetchRecovers`: a build that goes on fetching succeeds again and
again, whatever a dead fetch left, with the exception found (`IncompleteRemoved`
below). `TarballCurrent` is about the tarballs that other builds take from
here.

`interfaces`: a client, a second one that may come at any moment, and an observer
that wants the events the clients mask; one event besides the end of each
command; one mishap, of any kind and at any point: Control-C or an exception, a
suspended UI, the death of one, a request that times out. `EventsComplete`: what
is in a UI's queue is what was fired for it, without gaps, and all of it while
its handler stands. `ClientLearnsEnd`: a command that was accepted brings its
client to the end of its loop, unless it was suspended long enough to lose its handler. `RequestsAnswered`:
every request is answered or given up, although the server stops for each UI it
sends an event to. What the clients and the observer do to each other's token,
mask and command is in the table of findings.

`pr`: one key, three interchangeable checksums, both modes, imports of a value
above the first ones, one waiting request besides the one being answered, values
up to 3.

The two violating runs show disagreements between the code and what its own
documentation, docstrings or comments say; `PROJECT.json` quotes both under
`findings`. In short: ABORT together with STOPTASKS waits for ever; a failure read during an aborted
build's teardown is reported as success (so is a fakeroot worker that cannot be
spawned, when nothing else fails, which the same property shows with fakeroot
tasks).

More disagreements met on the way have no run of their own. Each is a definition
that TLC refutes under the configuration named, when it is put there as an
invariant or property, and stands in `findings` with the lines it is about:

| Definition | Configuration | What happens instead |
|---|---|---|
| `RunQueueExecuteTasks!SchedulerReturnsTask` | `tasks_shared` with `Scheduler = "basic"` | the basic scheduler cannot choose between two tasks: it raises |
| `PRServ!NeverDecrements` | `pr` with `Modes = {TRUE}`, no imports, `MaxQueue` 2 and `MaxValue` 4 | the service answers before it commits: after a crash in between an earlier checksum is told its older value, below one a client already used |
| `UserInterfaces!OneClient` | `interfaces` | an observer that leaves drops the client's token: another client is let in |
| `UserInterfaces!MaskIsOwn` | `interfaces` | a client is given the mask of an observer that registered just before it |
| `UserInterfaces!EndIsOwn` | `interfaces` | a client takes the end of its predecessor's command for that of its own |
| `UserInterfaces!TokenReturned` | `interfaces` | a client that dies, or gives up while it registers, keeps all later ones out |
| `MCPlan!AbortRespected` | `plan` | an abort for a target that was asked for is caught while another item is resolved, and lost |
| `MCPlan!NoBugReported` | `plan` | the run list keeps the first provider of a target although it was given up for the second: "Please report this bug" |
| `MCPlan!AsMuchAsPossibleKept` | `plan` | an item is removed because the first recipe for it failed at once, with a second one at hand |
| `MCPlan!FlagsKept` | `plan` | a recipe whose `[depends]` flag names an item that failed before is built without it |
| `MCPlan!RunTimeProvided` | `plan` | the same for `[rdepends]`: the lookup raises |
| `MCPlan!ConflictFound` | `plan` | whether conflicting PREFERRED_PROVIDER entries are noticed depends on the order of a list |
| `MCScenequeue!NothingMissing` | `scene` | a task elected by the verify function runs without an input that was skipped as not needed |
| `MCScenequeue!EnforcedFailureEnds` | `scene` | the failure of the last setscene task under enforcement is forgotten |
| `LockFile!AlwaysExclusive` | `locks` | two exclusive holders, after a promotion of a shared lock |
| `Server!CommandAlwaysEnds` | `server` | a command after an interrupted parse waits for its rest for ever |
| `Server!ProcessesGone` | `server` | a parser outlives a forced shutdown: its late result ends the parse for the next command, which works while that process is alive |
| `Fetch!IncompleteRemoved` | `fetch` | half a repository, left by a `cleanall` that was killed, fails every fetch until the next one |
| `Fetch!MirrorKept` | `fetch` | the good file of a mirror is renamed because a part in `DL_DIR` has a bad checksum |
| `Fetch!TarballWhole` | `fetch` | part of a mirror tarball is never made again |
| `Fetch!EverySourceAsked` | `fetch` with `h2`, serving version 2 only, as the file's PREMIRROR | a wrong file from an `http://` PREMIRROR ends the fetch, upstream is not asked |

`LaunchOrder` and `InputsAvailable` do not hold of setscene tasks whose hard
dependencies (`do_x_setscene[depends]`) have hard dependencies themselves, which
no comment rules out. The metadata in the repository has none: the hard dependencies of
`base.bbclass:461` and `useradd.bbclass:164` are the sysroots of `pseudo-native`,
`base-passwd` and `shadow`, which have no `[depends]` of their own. With
`HardChainRunQueue` in place of `MCRunQueue` (and without the `ASSUME NoChains` of
`MCScenequeue`) TLC finds both. `u` needs `v`, and `v` needs `t`: the hash check finds
a stamp of `v` and skips it, `u` is launched, then `t` fails and takes `v` and `u` with it
although `u` is with a worker, so that `x`, which would serve `u`, is tried before
`u` has ended. And `__init__` forgets what depends on a hard dependency, so that `v` waits
for `t` alone: it is skipped as not needed as soon as `t` is there, and when `u` is not
to be had, `u` runs without `v`. `NoHardChains` and `NoHardChainsAtAll` exclude the one and
the other.

`MCPlan!SquashExact` does not hold either: the collapse may leave a setscene task
with an indirect dependent, depending on the order of a level. It costs an order
of execution and no result.

### Bounds

* Tasks, workers, checksums, disk actions: the sets in the `.cfg` files. Two
  threads and three candidates make the limit bite; two tasks of one stamp and a
  third beside them make exclusion bite; a fourth or fifth would repeat the same
  meetings.
* `OldStamps`: earlier builds stamped at second 0 (absent) or 1, `OldStamps` = 0
  where the stamps play no part. The clock moves at most once per stamp written,
  so it is bounded by the number of tasks.
* `MaxQueue`, `MaxValue` in `PRServ`: requests waiting, values handed out. Three
  values allow a checksum to lose its place to another one and come back, with
  an import in between.
* `Caches`, `TaskData` in `Plan`: the families above. Three recipes are needed for
  an item with two providers one of which fails through a third; four tasks for
  two ways around a setscene task. `OrderBound` = 5: the priority maps of larger
  queues are not enumerated; the other properties cover those.
* `NumberFiles` = 4, `NumberProcesses` = 2, `PipeSize` = 1 in `Server`: the
  feeder may still find its queue full when the first result has been read, which is
  when the server can take a shutdown; with three recipes it never does. And there
  are more results than the pipe holds. `Broken` = {2}: which one fails makes no difference, it may be the first result or the
  last. `MaxCommands` = 3: a command, a shutdown while it runs,
  and the command that finds what they left; `MaxChanges` = 1.
* `LastVersion` = 2 in `Fetch`: the version wanted and another one, older or newer;
  `MaxCrashes` = 1 and `MaxCleans` = 1 (the invariants were also checked with two of
  each, 2,557,200 states). Two builds: the lock makes a third one repeat what
  one of the two does to the other.
* `interfaces`: each UI comes once and registers at most `Tries` = 2 times (five in the
  code); `MaxEvents` = 1; `MaxMishaps` = 1 (the invariant was also checked with two,
  5,289,491 states). Three UIs: one that works, one that comes meanwhile, and one that
  is no client.
* Four inodes for three processes: one for each that has a file open, and one in
  place.
* Nothing else is cut off: the queue of orders and codes in the pipes is bounded
  by the number of tasks.

### Fairness

`RunQueueExecuteTasks!FairSpec`: weak fairness of each step of the server's loop
and of each task's end. The code: `idle_commands` calls the idle function again
and again, with `select` on the workers' pipes in between; a task process is
assumed to end, as BitBake puts no time limit on tasks. Nothing obliges anybody to stop
the run. `RunQueue!FairSpec`: weak fairness of the server (one thread), of each
worker's loop and of each task process; no command, full disk or death has to
come. Neither needs strong fairness.

`Scenequeue!FairSpec`: the server's loop goes on, a task ends, and an exit code
that stays unread while the server reads again and again is read at last (strong
fairness of `ProcessWaitpid`: a read returns before or after the worker has
written). `LockFile!LockFairSpec`: a process inside `lockfile` or `unlockfile` goes
on, and the kernel does not pass over one waiter for ever while the lock becomes
free again and again (strong fairness of `Flock`). `Server!FairSpec`: the server,
the feeder and the parsers run; a build ends in one of the turns in which it can;
the feeder and a parser, which look into their quit queues in every turn of their
loops, find what is there one day, although `get_nowait` may miss it while another
process writes it (strong fairness of `TokenRead`; without the feeder's half a feeder
that goes between a full queue and its list for ever refutes `CommandEnds`). No
command and no order to quit has to come. `Fetch!Spec`: the holder of the lock goes on, what was
fetched is unpacked, upstream publishes, and it does not fail a build for ever
(strong fairness of `UpstreamAnswers`: it may fail any number of times before);
nobody has to start a fetch. `UserInterfaces!Spec`: the server goes on with a send
that is possible or has timed out, ends the current command one day, and handles
each request (weak fairness for each UI: it is one of a few in the socket, which is
served in the order of arrival); a UI that may leave its loop does. Each UI comes
one day; none has to be interrupted, or to go on after it was suspended. In `PRServ` only safety is stated: a client
is promised no answer when the service is stopped.

`CHECK_DEADLOCK FALSE` stands where a run or build is over for good. The PR
service never stops for good and is checked for deadlock.

## Proofs

### The task queue

`RunQueueExecuteTasksProofs` proves, for every set of tasks, every acyclic
dependency relation, every assignment of stamps, every limit and scheduler, the
type correctness of the task queue and `DependencyOrder`, `ThreadLimit`,
`StampExclusion`, `StatsAgree`, `NoLostTask`, `AsMuchAsPossible`,
`SanityChecksPass`, and that the queue implements `BuildOrder`. `SharedWorkDoneOnce`
is proved under one hypothesis more, see below.

Assumptions: `TaskAssumption`, `ExecuteAssumption` (finitely many tasks, at least
one thread, an injective priority, two tasks with one stamp file have one
`StampNoExtra`) and `AcyclicAssumption`: `prepare()` refuses a queue with a cycle.
TLC evaluates them in every run.

The argument. None of the properties is inductive by itself. `IInv` adds

* `Partition`: a task that was started is with a worker, complete or failed, and
  only one of these. `StatsAgree` needs it to count.
* `Buildability`: buildable means, exactly, that all dependencies are complete,
  and `depends[t]` still is `Depends[t]` while `t` is not buildable. This is what
  makes the side effect of `build_taskdepdata` harmless, as it strikes only tasks
  whose dependencies nobody will look at again.
* `Announced`: while `execute()` may still start a task, whatever was announced
  was started and the count of failures is that of `failed_tids`. A spawn failure
  breaks the equality and at the same time sets the state to Failed, after which
  no task starts: this is why `active` one too low never lets one task too many
  run.

`InitIInv` and `NextIInv` prove the two steps, one lemma per action; the theorems
follow. `SanityChecksPass` takes the minimal element of the tasks left, which
`AcyclicAssumption` gives. The refinement maps each outcome of `execute()` to
`Skip`, `Start` or a stutter and each exit code to `End`; `Skip` in `BuildOrder`
covers noexec tasks.

`SharedWorkDoneOnceHolds` says that of two tasks of one stamp at most one runs and
succeeds. It is not so for any assignment of stamps: TLC finds it violated in the
instance of `tasks_shared` when `af` alone is in `Covered`, for then `bf` writes the
stamp of both after `au`, which `bu` finds too old. The hypothesis `SharedAlike` says
what makes shared stamps sound: tasks that share one are compared with the same
stamps, each of them that of some dependency the build runs or checks itself, and
all or none of them have `nostamp`; and the clock is past second 0, whose stamps look
absent.
`MCRunQueueExecuteTasks` assumes it, so that TLC evaluates it. `SharedInv` adds to `IInv`

* `StampsStand`: a task that is done (complete, or ended well in its worker) has a
  stamp; if it shares it, `check_stamp_task` accepts it; and no process under way is
  to write that stamp. The last is what keeps the first two: a stamp written later
  would be newer than those compared with it. It says nothing of a run that the
  setscene enforcement ends, which skips tasks without looking at their stamps, but
  none starts in that one (`Begun`, `Entered`).
* `InTime`: no stamp is ahead of the clock, so that a new one is not older than those
  it is compared with; a stamp of the same second is accepted.
* `RanOnce`: the property itself, of tasks done.

`Alike` transfers `check_stamp_task` from one task of a stamp to another, `ComparedDone`
finds the stamp of each compared dependency among those done, and
`WritingKeeps` and `WrittenIsInOrder` say what `make_stamp` does to both. TLC
checked `SharedInv` under `tasks_shared` (879,840 states).

### Lock files

`ServerProofs` proves, for any processes, any inodes and any way to call
`lockfile`, `LockTypeCorrect`, `MutualExclusion` (`Exclusive`) and `ExclusiveLocks`:
where everybody asks for an exclusive lock, no two ever hold it. `IInv` adds to
the types `LocksCompatible`, what the kernel guarantees of the locks on one file,
and `HolderHasLockFile`: from the comparison of the inodes to the unlock, the
file of a process is the one in place unless a promotion was overtaken. The
second is what the comparison buys; it survives the removal of the file because
only one who has the lock exclusively removes it. The assumptions are those of
the module: the processes and inodes are what they are, and the requests are
records of three booleans.

### The PR service

`PRServProofs` proves the types and every property that `pr` checks, for any keys, checksums and
imports and any number of requests and values: `TypeCorrect`,
`CommittedBetweenRequests` (`RestIsCommitted`), `SumsStayDistinct`
(`DistinctSums`), `DecrementsBounded` (`DecrementsOnlyByCrash`) and `HistoryHolds`
(`NewOrHistorical`). The one assumption is `PRServAssumption`: finitely many
checksums and at least one, so that `max(value)` exists; that a finite set of
numbers has a maximum is proved from the well-foundedness of strict inclusion
(`HighestExists`). The invariant `IInv` relates four places of a value: the
file, the table, the answer being given, and what clients remember.

* `Saved`: a table that differs from the file is marked dirty, and it never is
  between requests. A signal may commit at any moment, which only brings the two
  together.
* `Ahead` and `NearlyCommitted`: rows only grow, and clients are ahead of the file
  by at most one. The second is the reason that no number of crashes takes a
  value back by more than one: the next request is only taken when the file has
  caught up.
* `Remembered`: as long as nothing crashed, no client knows more than the table.
* `HistoryKept` and `NewHigher` are about `seen`, the history of what was first
  found or imported for a tuple, also when no client was there to hear it: in
  history mode the table has what was seen and at most the row that is being
  answered for the first time, with a value above all others.
* `NoneTwice`: besides the table and the clients, it has to speak of a value given
  for one checksum and stored for another; in no-history mode a row leaves
  behind the value it was given for good.

### Whole builds

`RunQueueProofs` is about `RunQueue`, for any tasks, disk monitor actions, commands,
and workers that may die:

* `TypeCorrect`;
* `NoStrayExitcodeHolds`: an exit code on its way is one that the task queue
  expects, and each is in one place only;
* `ImplementsTaskQueueHolds`: a whole build implements `RunQueueExecuteTasks`, and
  with the refinement proved there `BuildOrder` (`BuildOrderKept`) and, under its
  hypothesis `SharedAlike`, `SharedWorkDoneOnce` (`SharedWorkKept`; TLC finds the
  hypothesis true of the instance of `build_stopped`);
* `ProcessesInOrderHolds`: the processes on the machine, and not only the sets in
  the server, respect dependencies, limit and stamps;
* `ExitcodeTrackedHolds` and `CompletedTellsAllHolds`, under `GoodOrder`.

`GoodOrder` says of the constants that no worker dies of itself, the disk monitor
is not told to ABORT and nobody sends a forced shutdown: the configuration of
`build_graceful`. Each of the three kills tasks or throws exit codes away by
design, and `build_failures` shows what `CompletedTellsAll` becomes then. The
other theorems do not need it. Beyond it the assumptions are those of the
modules, as for the task queue.

The argument has four layers, each an invariant of its own that uses the ones
before it.

1. `Tracking`: for each worker and task, at most one of order in the pipe, entry in
   `build_pids` and exit code in the pipe; and what is in one of them is in
   `build_stamps`. It needs the state of the process as well (a task whose exit
   code is sent has no process) and that a task is ordered once, which is
   `runq_running` growing. This gives `NoStrayExitcode`, and with it the guard of
   every read of the task queue: the key step of the refinement.
2. The refinement. `queuePc` and `exitcode` map the places of a build to those of the
   queue's own loop. Each action of the server, the workers and the
   world maps to one action of `RunQueueExecuteTasks` or to a stutter
   (`NextImplements`). It brings the queue's invariant over to whole builds
   (`QueueSafe`).
3. `Outcomes`: a complete task's process ended well or never was, a failed one's
   failed. `Alive \subseteq build_stamps` comes from `Tracking`; together they are
   `ProcessesInOrder`.
4. Under `GoodOrder`, `Undisturbed`: no order to kill is under way, and a worker the
   server has stays until the teardown; hence `Expected`: what the server waits for
   is in some place, the converse of 1, and both give `ExitcodeTracked`.
   `Finishing`: the queue is said to be complete or failed only when nothing is
   expected any more. A fakeroot worker that cannot be spawned is counted as a
   failure without a task and ends the count's truth for good, so this layer is
   conditional on `~SpawnFailed`, as the property is.

TLC checked these invariants under `build_graceful` (255,898 states), and those
that need no `GoodOrder` under `build_stopped` (683,296 states).

### The planning of a build

`PlanProofs` is about `Plan`: any recipes and configuration, any task data, and any
order in which a dictionary or a set is walked along. It proves `CycleDetectionHolds`,
`RecursionCompleteHolds`, `RunQueueIsSound`, `NothingDroppedHolds` and
`BuildableExactlyHolds`.

Assumptions. `CacheAssumption`: recipes, which are numbers here, are finitely many, and
what they are compared by are numbers; an item has a name. `TaskDataAssumption`: there
are finitely many recipes and tasks, and the task data is about those. `BuildableExactly`
and `NothingDropped` carry their exceptions in their statements, each of which is a
finding or a mode in which nothing is built: an abort that was lost (`swallowed`), an
item removed while recipes for it were still to be tried (`premature`), a graph that is
only drawn (`allowincomplete`).

*Preparation.* `PrepareInv` has two parts. `TreeInv`: from the recursion on, each task
depends on what its flags and the recursion give it, and nothing else (`Recursed`),
whatever was dropped. `WeighInv`: the counter of a task in
`calculate_task_weights` is the number of its dependents that have not passed on their
weight; a task is done when it is 0; and the tasks done have no cycle. The
last makes the check complete. For the other half, the tasks that are left when
the endpoints run out each have a dependent among them; they are finitely many, so by
the well-foundedness of strict inclusion one of them is on a cycle. For
`RecursionComplete`, what a recursive task waits for is followed backwards along the
walk of `generate_recdeps`.

*Resolution.* `fail_fn` and the remove methods call each other while each is in the
middle of a loop, so that at no point between the first call and the last is the task
data consistent. `ResolveInv` says what there is of it:

* `TargetsInv`: an item lists recipes chosen for it, and what a recipe needs is known
  from the moment it is added, unless it failed at once.
* `FramesInv`: each call on the stack was made after its recipe or item was given up.
* `GivenUpInv`: what is given up takes down what it has to, now or in a call that
  is still on the stack. A recipe leaves all lists, an item fails all that depend on
  it. When the stack is empty, this is the consistency that `NothingDropped` states. An abort
  that is caught throws the stack away, and with it the calls that would have done
  the rest: this is why both properties have the exception `swallowed`.
* `RoundInv`: as long as a round of `add_unresolved` has resolved nothing, what is
  unresolved is left in its snapshot. The loop ends after such a round, so
  nothing is left then.

`SoundRunInv` carries this through `prepare()`: the recursion goes from good
recipes to good ones only, since `depids` and `rdepids` name the first providers, which
were not given up.

*Nothing else is given up.* `JustifiedInv` is about the runs without `premature`.
`JustlyInv`: what was given up is in the least set of recipes that cannot be built,
and an item that was given up has no recipe outside of it. `TriedInv`: every eligible
recipe for an item is on its list, has failed, or is still to be added; so an item
whose list becomes empty has no recipe left. `CurrentInv` is what makes the latter true in the
midst of a loop: while recipes for an item are still to be added, a failure at once can
take down that item only, and that is what `premature` remembers. The converse, that all
that is kept can be built, follows from `NothingDropped`: the recipes that are
left provide each other's needs (`LeftAreBuildable`).

TLC checked `PlanInv`, with all its parts, under `plan` (451,774 states).

### The server and its parser

`ServerProofs` proves `ParseCompleteHolds` and `FreshParseHolds`, for any numbers of
recipes, parser processes and places in the pipe (`ParserAssumption`: at least
one of each) and any commands, shutdowns and changes. Its `IInv`:

* `OnePlace`: each recipe is in at most one place between the feeder's list and
  the server's count, and it is counted at most once; the list has none twice.
* `Tallied`: the server's counter `parsed` is the number of recipes counted. The
  code ends a parse by comparing counters; this is why that comparison means that
  every recipe was parsed. Without `OnePlace` a recipe counted twice could stand for
  one that is lost in the buffer of a process that quit.
* `Ended`, `Done`: after a shutdown that was joined the feeder has ended, and the
  parsers unless it was forced; `running` is reached only from the end of a whole
  parse without an error.
* `Current`, `Fresh`: a change that was known before the command came has made
  the parse invalid, and an invalid parse is not run on.

TLC checked `IInv` under `server` (1,140,436 states).

### Events and user interfaces

`UserInterfacesProofs` proves the types and `EventsCompleteHolds`, for any clients and
observers, any masks, and any numbers of events, mishaps and attempts to register
(`UIAssumption`). Between two handlers of one event the queues of the UIs differ by that event,
so `Queued` says for each UI in which of three relations its queue is to what
was fired for it: the same (`Complete`), all but the event being sent
(`Expecting`, while the server still has to send it), or a gap at the end
(`CutOff`: what is in the socket of a suspended UI, or the one event that was sent when
it had gone). A UI in `CutOff` never becomes a handler again, since it registers once
and an abandoned request to register is that of a UI that has gone (`Quiet`);
this is what keeps the gap at the end. `Roles` bounds who asks for what. TLC
checked `IInv` under `interfaces` with two mishaps (5,289,491 states).

### Fetchers

`FetchProofs` proves `TypeCorrect`, `StandsHolds` and `TarballCurrentHolds`, for any
builds, versions, mirrors and lists of mirrors, any number of deaths and cleans, and with
or without mirror tarballs. `FetchAssumption` is all that it needs: what the mirrors
serve are sets of versions, and the names of files, the mark of a partial one and
the stamp without sums are different things. No bound appears in the argument. `IInv` has
two halves, as the two methods keep to different rules.

*Files.* `StampTrue`: a stamp with sums has those of the file in place, as long as
there is one; this is what lets `verify_donestamp` go by the stamp alone. It
survives downloads, because nothing is written to a file that has a stamp
(`FileRun`: as long as mirrors and upstream are tried there is none, or its removal is
all that is queued), and a crash, because a bad file goes before its stamp does.
`FileKept`: where all builds want the same, a good file passes each later fetch by
`verify_donestamp` and stays as it is.

*Repositories.* A stamp says nothing of the content. `RepoRun` follows the wanted revision
through `download`: mirrors are asked only while the repository lacks it
(`Lacks`, which every failed attempt keeps), and from `git fetch` to the end it is there or
about to be written (`Holding`, `Arriving`). `Links`: only the tarball is ever a
link, to a mirror's file that is there, so a write through it does not touch the
repository. `RepoKept` is the counterpart of `FileKept`.

*Tarballs*, as long as nothing has died or failed. `Level`: the tarball has every revision the
repository has. It is broken and restored within a fetch, so `TarRun` names the four
stretches in which it may not hold (extraction, the removal after `git fetch`,
`build_mirror_data`, a clean) with what is still to be written in each, and shows that
each ends in `Level`, or with a tarball that is gone (`Gone`), which
`build_mirror_data` makes anew.

TLC checked `IInv` under `fetch` (689,484 states), with two mirrors before upstream and
two after it (1,976,658) and without mirror tarballs (643,132).

### The setscene stage

`ScenequeueProofs` proves for every run queue `TypeCorrect`, `AllDecidedHolds`,
`HardDepsObtainedHolds` (no setscene task is given to a worker before each one that
its own `[depends]` names is covered), `NothingServedIsLostHolds` (the collapse
loses no task a setscene task serves, in whatever order its levels are taken) and
`CollapseSoundHolds` (nor does it invent one). Two have a
hypothesis: `LaunchOrderHolds` needs `NoHardChains` (with a hash check, no hard
dependency has one itself), `InputsAvailableHolds` needs `NoHardChainsAtAll` (with or
without). TLC evaluates the stronger of the two of the instance of `scene`; why they are
needed is told under "What they show".
`RunQueueAssumption` has what `prepare()` ensures (no cycle), and that the `[depends]` of
setscene tasks are not circular, without which `scenequeue_updatecounters` would
call itself for ever. Nothing is assumed of the hash check, the stamps, the metadata's
functions and the number of threads but that there is one.

The argument. `IInv` has two halves. `GraphInv` follows the collapse: whatever order
the endpoints are taken in, what is handed down to a task is above it (`PointsAbove`,
`SquashAbove`), so that in the end a setscene task waits for what is above it, or for its
hard dependencies and, if it is one itself, for nothing else (`Resolved`). Neither
relation has a cycle (`NoCircle`). Then the stage: `Parts` (a task started is
covered, not covered or with a worker, one of these), and `Counters`, the heart of
it: what `sq_revdeps2` still has of a task is what it waits for in the graph, without the
covered ones, and without those a failure took down unless they are its own hard
dependencies; and it is buildable when that is nothing. `CoveredCounts` and
`FailedCounts` show that both calls of `scenequeue_updatecounters` keep it.

* `AllDecided`: at the end what is buildable has run. An undecided task
  therefore waits for another undecided one (`UndecidedWaits`): one that was taken down
  would have taken it down too. Undecided hard dependencies would wait
  for each other in a circle, so there are none; and the others wait upwards, in a circle too.
* `LaunchOrder`: a candidate waits for nothing, so all it would serve is covered or
  taken down. What is taken down counts as decided unless it is with a worker at this very
  time; `FailuresApart` excludes that. Without a hash check whatever is tried has its
  hard dependencies covered (`HardDepsFirst`, a second invariant), and with one by
  `NoHardChains`.

* `InputsAvailable` has an invariant of its own, `InputsInv`, in three parts.
  `NothingLost` is the other half of the collapse: every setscene task that `d`
  serves, directly or past tasks without one (`Between`), is held by some endpoint on the way
  down or has arrived (`Gathered`), and what serves an end has an endpoint above it until it
  is marked unskippable. `Stamps`: what was obtained is there, or was skipped as not
  needed, when all it waits for was covered. `Spread`: what is covered later on has only
  covered dependents, or is about to be taken back. So what is covered without being there
  was skipped (`InputsIn`); it is no hard dependency, since one without another has
  nothing it waits for, so all it serves is covered; and among the tasks in between the topmost
  that is not covered would have to be, when the second loop of `__init__` ends
  (`CoverRestFacts`, `NotNeededIndeed`).

* `CollapseSound` needs, besides `NothingLost` and `GraphInv`, that the second pass comes to
  nothing but what serves an endpoint of the build, and that the first leaves nothing
  with a task without a setscene (`EndsOnly`): the pass for the unskippable tasks
  starts from what the first has left.

TLC checked `IInv` and `InputsInv` under `scene` (360,837 states) and on chained hard dependencies
(`HardChainRunQueue`: 168,741 and 216,080 states without and with the hash check).

### What is only checked

The type invariants are in no run's list: those of the modules with theorems are
proved. Only model-checked:

* `SchedulerOrders`: the orders are enumerated (`SetToSeqs`), and the completion
  scheduler's regrouping is a filter and a concatenation (`SelectSeq`, `FlattenSeq`): what
  these recursive definitions compute for every sequence is induction over data,
  which TLAPS does not reach.
* Of `filterProviders` and `filterProvidersRunTime`, the order in which recipes
  are tried, beyond that it has each eligible recipe and no other (which is what the
  theorems need, and is proved): no property is about it, the runs enumerate it.
* Liveness under fairness, which TLAPS does not reach: `Terminates`, `BuildEnds`,
  `SceneEnds`, `SomebodyGetsIt`, `CommandEnds`, `ClientLearnsEnd`, `RequestsAnswered`,
  `FetchRecovers`.

## Not modelled

* `--dry-run`, `--force` and the other options that only change what is executed.
* Providers: dynamic packages (`packages_dynamic`), world targets, `extra_depends`,
  several multiconfigs.
* Preparation: the hashes, the warnings about multiple providers, targets that are
  `_setscene` tasks.
* The setscene stage: the death of a worker and the fakeroot worker, which `RunQueue`
  has for the main queue.
* The server: `reset` (of which `UserInterfaces!SetFeatures` has that it forgets a
  shutdown) and the reload of the configuration, signals; a parser process
  that the system kills; recipes that come from the cache.
* Events and user interfaces: class handlers, filters by log level, the event queue
  of the process server, the idle timeout, `terminateServer` and `single_use`, a
  token given on the command line, commands that only read or set configuration
  (among those the ones knotty sends before `buildTargets`).
* What else lock files protect: the merge of caches and SQLite tables.
* Fetchers: methods other than wget, git and `file://`; the rewriting of URLs,
  network bans, `checkstatus`. A git command fails as a
  whole (a `git fetch` that fails leaves the repository as it was), and the `tar` of
  `build_mirror_data` does not fail.
* Signatures, data store, recipe parser: sequential computation on text,
  or I/O, whose results reach the models as facts (a stamp, a task's success, the
  needs of a recipe). `src/meta*`, `src/scripts`, Toaster: recipes, command line tools
  and a web application; they are most of the repository's lines, and none of
  them has state that several actors change by steps that can be told apart here.
* `BB_STAMP_POLICY` other than `perfile`: `DepTreeFiles` is in `check_stamp_task`,
  and `{}` in the runs.
* Multiconfig builds start one pair of workers per configuration; one is modelled.
* The events and log records that travel in the same pipes as exit codes.
* Byte streams: the orders to a worker are handled whole, not in the bytes
  `handle_item` takes them from.
* How long anything takes, except that a stamp has a resolution of a second.

## Plan

1. The death of the worker in the setscene stage, and its composition with
   `RunQueue`, in place of the constant `Covered`.
2. The worker's byte stream.
