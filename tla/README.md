# gpi in TLA+

A verification development for **gpi** (`src/`), a tool that launches clusters
of cloud instances, runs tasks and scheduled jobs on them, and keeps its records
in a small persistent store. Two kinds of process use the same code: the command
line (one command per process) and the API server (one goroutine per request,
plus a scheduler).

Every module is written from the Go source. `PROJECT.json` maps each definition
to its lines, and lists the components, the hazards, the TLC runs, the mutants
that show each property can fail, the findings and the theorems.

## 1. Inventory

| Component | Code | State | Operations | Where it is hard |
|---|---|---|---|---|
| Provisioner | `internal/provisioner` | none of its own: cloud instances and the cluster record | `Launch`, `Stop`, `Start`, `Down`, `RunTask`, `Exec` | long cloud calls between reading a record and writing it; requests for one name overlap; per-instance calls fail half-way |
| AWS and Aliyun providers | `internal/cloud/{aws,aliyun}` | instances, by the tag `Name`; VPCs, groups, subnets | `RunInstances` (reuse, resume, create), `Stop/Start/TerminateInstances`, lookups | partial success, capacity per zone, lost answers, networks made in many calls |
| Kubernetes, GCP, Azure providers | `internal/cloud/{kubernetes,gcp,azure}` | pods and machines, by name and place | the same | nodes are made one by one; names and places decide what later calls find |
| Job manager, scheduler, handlers | `internal/jobs`, `internal/state/jobs.go`, `internal/server/server.go` | the jobs collection, the goroutines | `Submit`, `RunNow` with retries, `Due`, `Reschedule`; `scheduler`, the handlers | the handler checks a status that a goroutine changes later; ticks overlap with runs; crashes in a run |
| Cron expressions | `internal/jobs/cron.go` | none | `parseSchedule`, `parseField`, `match`, `next` | field limits, steps, expressions without a match |
| State store | `internal/state` | eight collections in memory behind a mutex | `OpenConfig`, add/update/delete per collection, `save` | the whole state is saved on every change; failed and interrupted saves; several processes |
| File backend | `internal/state/file.go` | a file per collection | `writeFile`, `loadFileMap` | crashes and full disks in a write; a temporary name shared by processes |
| SQL and Redis backends | `internal/state/{sql,redis}.go` | a table or key per collection | load and save per collection | delete-and-insert in a transaction; locks; lost answers |
| Tokens and authentication | `internal/server/{auth,admin}.go`, `internal/state/token*.go` | the tokens collection | create, rotate, delete, expire, check | a request in flight against deletion, rotation, failed saves and restarts |
| Service controller | `internal/serve`, `handleServiceDown` | the services collection | `Up`, tear-down by the handler or the command line | one replica of several fails |
| Execution backends | `internal/backend` | cluster records, containers | dispatch to local, docker, existing or cloud; `RunTask`, `Exec` | a record and the thing it stands for; output in chunks; exit codes; cancellation |
| Optimizer, tasks, resources | `internal/optimizer`, `internal/task` | none | defaults, candidates, filters, prices, lexicographic ranking | flags, configuration and ordered entries combined; ties; unpriced candidates; ranges |
| Metadata cache | `internal/metacache` | maps in memory behind a mutex | `Instances`, `Regions`, `Prices` with a time to live, `PricesForced` | the fetch runs outside the lock; the older answer may be written last, into a map callers hold |
| Command line, gpilet, configuration, logging, API clients, OpenAPI | `internal/{cli,gpilet,config,logging}`, `cmd`, `internal/cloud/*/client.go` | none to speak of | input and output | - |

How they interact: the handlers and the command line read a task, ask the
optimizer for a placement (which reads the metadata cache), and call the
provisioner or a backend, the job manager and the service controller; the job
manager and the service controller call `Launch` and `RunTask`; the provisioner
calls a cloud provider. All of them keep their records through one `state.Store`,
whose maps hold *pointers*, so two goroutines can hold the same record while only
the store's own methods lock; the store writes all collections through one backend.

What makes each component correct:

- *Provisioner*: an operation touches only instances of its own cluster; a
  cluster never gets more nodes than asked for; a record disappears only with its
  instances; `up` is true; a reported success is durable; every operation ends.
- *Providers*: a call returns the nodes it was asked for or an error, makes them
  once and in a network that works, removes what it gives up, touches no other
  cluster, and later calls find what it made.
- *Job manager*: a saved job is not replaced; the status `running`, which bars a
  job, is never stale; a scheduled job comes back whatever its runs come to, at
  the first time its expression means.
- *Store and backends*: what an operation acknowledged is in the backend, also
  after a crash; memory and backend agree; a load finds one whole document.
- *Tokens*: no request passes with a secret that was void when it was sent; a
  secret that was shown works until it expires or its token is to be changed.
- *Services, execution*: nothing is running that no record tells of; statuses and
  reported outcomes are true; commands end.
- *Optimizer, cache*: a plan has what the task says, and the best of it first; a
  plan is missing only when nothing fits; fresh means fresh.

## 2. Modules

| Module | Models | Run as | Proofs |
|---|---|---|---|
| `ClusterRegistry` | abstract: what cluster records promise a user of one command at a time | with `Provisioner` | - |
| `Provisioner` | `Launch`, `Stop`, `Start`, `Down` against the AWS and Aliyun instance life cycle | `MCProvisioner` | `ProvisionerProofs` |
| `VpcProviders` | `RunInstances` of AWS and Aliyun: reuse, resume, networks, groups, zones | `MCClouds` | `VpcProvidersProofs` |
| `NodeProviders` | Kubernetes, GCP and Azure, one API call at a time | `MCNodeProviders` | `NodeProvidersProofs` |
| `Jobs` | submissions, run requests, the scheduler and the `RunNow` goroutines | itself | `JobsProofs` |
| `Store` | processes that open a store, change records and save them | `MCStore` | `StoreProofs` |
| `Tokens` | bearer check and token life cycle under concurrent requests | `MCStore` | `StoreProofs` |
| `FileBackend` | `writeFile` and what a load finds, system call by system call | `MCStore` | `BackendsProofs` |
| `DbBackends` | SQL transactions and Redis keys of several processes | `MCStore` | `BackendsProofs` |
| `Services` | services and their replicas over the four backends | itself | `ServicesProofs` |
| `MetaCache` | concurrent callers of the cache | `MCClouds` | `TasksProofs` |
| `Schedule` | cron expressions, `next`, and one job on a clock | `MCTasks` | `TasksProofs` |
| `Task` | ranges, accelerators, ordered resources, defaults, validation (operators) | `MCTasks` | `TasksProofs` |
| `Placement` (extends `Task`) | entry points, optimizer, live price | `MCTasks` | `TasksProofs` |
| `Execution` | `RunTask` on the four backends, output, codes, cancellation | `MCExecution`, `MCTasks` | `TasksProofs` |
| `Sorting` | sorting by an order, which the optimizer and the line writers use (operators) | `MCTasks` | `TasksProofs` |

`Provisioner` refines `ClusterRegistry` (property `RegistrySpec`), and takes what
`VpcProviders` does to make nodes as one step that succeeds or fails. `Store`
takes the write of one collection as atomic; `FileBackend` and `DbBackends` show
when that is so. `Jobs` sees `Launch` as a step that records the cluster and
succeeds, records it and fails, fails before recording it, or is refused because
the cluster is recorded: the outcomes of `Provisioner`; `Services` sees it the
same way.

`MCStore`, `MCClouds` and `MCTasks` put two to four modules that share no
variable side by side: a behaviour is one of one of them (`part`), so their states
add up and do not multiply. They extend the modules they run, so that the
assumptions on the constants are evaluated. The other MC modules add symmetry sets or a
value for a sequence constant.

### Provisioner

A step is what happens between two points where another goroutine can run: one
call to the cloud, or one critical section of the store.

| Variable | Code |
|---|---|
| `cloud`, `tag` | state of an instance as `mapStatus` classifies it, and its tag `Name` |
| `store`, `obj` | `Store.clusters` and the `Cluster` objects it points to; an object is named by the `Launch` that made it, and operations keep pointers (`ref`) to it |
| `disk` | the collections the backend holds |
| `events` | `Store.clusterEvents` |
| `op` | program counter and locals of each operation |

`Prepare`, `ListInstances`, `Resume`, `Resumed`, `Create`, `AddCluster` follow
`Launch` up to the record; `Describe`, `Refresh`, `SettleUp`, `SettleWait` are one
turn of `waitReady`; `Bootstrap` is the work over SSH, `Fail` and `FailEvent` the
error path. `Get`, `Call` (once per instance), `CallsEvent`, `CommitStatus` and
`CommitDelete` are `Stop`, `Start` and `Down`. Every `Save` may fail after none,
some or all collections are written, and the change in memory stays. `Boot` and
`Reclaim` are the cloud, `Crash` is the end of the process and the opening of the
store by the next one.

`UpdateCluster` and `DeleteCluster` find the record by *name* at the time they
run, and change that object, whatever object the operation read before: this is
modelled as it is, and most of the interesting interleavings come from it.

### VpcProviders

`acct` is everything a launch finds: the cloud, whether there is a default VPC,
what the configuration names, the zone of the launch, which zones have capacity,
and whether new subnets stay pending. `net` holds the VPCs with the parts that
were made (also whether they have a group `gpi-sg`, of which AWS allows one per VPC),
`inst` the instances, `launch` the `RunInstances` calls. A step is one
call of the API that changes something, with the reads before it. `RunOnSubnet`
may find no capacity, be refused (also for a zone that is not the subnet's), or create
the nodes and lose the answer; `Retryable` decides what is tried again: lack of
capacity and the refusals on the code's list (`InvalidParameterValue`, `Unsupported`,
`IncorrectVpcState` and others on AWS) are, the rest is not. `ResumeStoppedNodes` is
always set (`provisioner.go:99`), so stopped nodes are always resumed.

### NodeProviders

`cfg` is the provider, whether a namespace or zone is configured and whether names
are longer than `truncateName` allows; `vm` the nodes that exist, by place and name;
`rec` the launch on record. A name is a sequence of words, and the name of a node is
put together as in the code: the cluster's, with `-head` or `-worker<i>` after it when
there are several nodes. So the head of `train` has the name of the one node of
`train-head`, and does to it what the code does; names that meet in any other way
(words with dashes inside, `train-worker1`) are of the same kind. Kubernetes: `DeleteStale`,
`CreatePod`, `PodReady` or `PodWaitTimeout`, `PodIP`, `Cleanup`. GCP and Azure: one
create per node. `Boot`, `Gone` and `PodFails` are the cluster's own steps.

### Jobs

`job` is `Store.jobs`, `disk` its collection in the backend, `cluster` whether
`job-<name>` is recorded, `run` the goroutines, `due` the jobs `Due` returned that
the scheduler has not yet spawned. Time is whether `NextRun` has arrived
(`Elapse`). Schedules are of four kinds: none, `@every`, a cron expression, and a
cron expression without a match in the next year (`Reschedule` stops such a job).
Every caller of the store drops the error of the save, so a failed save is a step
that leaves `disk` alone.

### Store

`mem[p]` is what process `p` loaded and changed, `disk` the backend. A process
loads collection by collection (`Load`), changes one record
(`Add`, `Update`, `Upsert`, `Delete`) and then writes all collections in order,
the first failure ending it. `known` is a ghost: what the answers given so far
say about a record (nothing yet; undetermined, because the last operation is not
over or failed; or the value the last successful operation left). A
read error fails the opening with the SQL and Redis backends (`LoadFails`); the
file backend goes on with an empty collection (`LoadEmpty`, counted in `unread`).

### Tokens

`mem` and `disk` are the tokens, `req` the requests under way: `Wrap` up to
`GetTokenByHash`, `MarkTokenUsed` in a critical section of its own, then the handler
with its save, then the answer (`Reply`). A secret is its number. `promised` and
`revoked` are ghosts: what callers were told about a secret. A request carries the
ghost `late`: its secret was void when the client sent it.

### FileBackend

`path` and `tmp` are the files the two names refer to (inodes), `data` the bytes
of each file, `writer` the writing processes. `Open` truncates or creates
`<path>.tmp`, `Write` writes it, `WriteFails` leaves part of it, `Rename` moves it.
A crash is the end of a process; the loss of power, where unsynced data would
be lost, is not modelled (the code does not call `fsync`).

### DbBackends

`table` is what is committed, `locked` who has changed the table in an open
transaction, `db` each process: `OpenDb`, `Connect`, `LoadSQL` or `LoadRedis`, then
saves (`DeleteRows`, `InsertRow` per row, `Commit`, or `Rollback`; `Set` for Redis).
The answer of a commit may be lost. A busy SQLite table is an error, as is MySQL's
wait when it takes too long. `CommitBusy` is a COMMIT that SQLite refuses because
another process reads: the `sql.Tx` is over, so the deferred `Rollback` does nothing,
and the process's one connection (`SetMaxOpenConns(1)`) keeps the transaction. The
driver (`modernc.org/sqlite` v1.56.0) is not part of the repository; that it hands out
that connection as it is, is taken as possible.

### Services

`svc` and `rec` are the records, `res` what exists outside per replica and backend,
`cmd` the command that runs. `Up` adds the service, then launches, records and
lists one replica after the other; its error path deletes the record of the replica
that failed. A record's backend is "unset" where the code leaves the field empty
until `Up` writes it. `forCluster` picks the backend of a later command from the record.
Commands run one at a time.

### MetaCache

`specs`, `prices` are the entries, `heap` the price maps, which entries and callers
share by reference. Data is the time of the answer, so that age can be told. A
call looks up, fetches and stores in three steps; a fetch of prices answers any part of
the types asked for, as the price clients do (`aliyun/pricing.go:35-78`,
`aws/pricing.go:27-60` leave types without a price out and return no error), and the
store stamps the whole entry; `ReadPrices` is the reader
`attachPrices`, which holds the map outside the lock.

### Execution

One `RunTask`: `Find`, `WaitSSH`, `CopyDir`, then the scripts; every node has a
process, whose output reaches the line writer in chunks of any length, and which
exits with a code, loses its connection or is killed when the context is cancelled
(`Cancel`). A process that ends that way over ssh or in a container may leave its script
running on the node (`Detached`, `left`, `RemoteEnds`); a local one does not, because
`cmd.Run` waits for the pipe that the script holds. The texts and chunks serve one
part of one property, `LinesAreWhole`. `launchCommand` and `runOnce` are what the callers make of the result.

### Schedule, Task, Placement

Operators with the names of the code's functions, and a small state machine
around them: a job whose run ends at any time and is rescheduled; a request that is
loaded, completed with flags and configuration, collected group by group, ranked,
and launched; what is read once is kept (`groups`, the parsed resource groups, and
`strategy`, the metrics of the optimizer). Times have small radixes (three minutes to an hour and so on), so
that all carries happen in a few steps. The properties compare with reference
definitions that do not use the code's operators: `Denoted` (what a cron part
means), `Fits` and `Says` (what the words of a task mean).

## 3. Runs

Each run ends within five minutes with two workers, most within two. "Violation"
runs show where the code does something else than a comment or message
of the repository says (section 5).

| Run | Checks | Bounds, and why they suffice |
|---|---|---|
| `Provisioner_sequential` | `TypeOK`, `NoOverProvision`, `QuiescentTruth`, `RegistrySpec`, `DurableSuccess` | four commands on one name, two nodes of four instances, two faults: launch, stop, start, relaunch and down in every order, a command left half done by a fault and another fault in the command that follows, and room for a second, wrong set of nodes |
| `Provisioner_concurrent` | `Isolation`, `DownEventIsTrue`, `OperationsReturn` | two overlapping operations on two names, three instances, one fault, one crash, under fairness |
| `Clouds_launch` | `OneBatch`, `TriesEveryZone`, `NetworkIsSound`, `ReturnsOwnNodes`; `CacheIsFresh`, `CachedDataIsKept` | two overlapping calls on two names, two zones, two nodes each and up to two that an earlier launch of one of the names left, each running or stopped, one fault; every combination of account and configuration. Three overlapping callers of the cache, two types, a clock past the times to live, one failure |
| `NodeProviders_launch` | `LaunchesAreWhole`, `RecordsAreTrue`, `OtherClustersUntouched`, `CallsReturn` | two overlapping calls of any operation on three names (`train`, `train-head`, which meets it, and `serve`), one or two nodes per launch, with and without a configured namespace or zone, one fault: a call that fails half-way while the other goes on |
| `Jobs_runs` | `TypeOK`, `RunningIsTrue`, `FirstSubmissionWins`, `ScheduledJobsRecur` | two submissions of one name, a request and the scheduler on the job, one retry, one failed save, one crash, under fairness |
| `Store_restart` | `AckedSurvives`, `MemoryAgrees`; `NoLateEntry`, `ShownSecretsWork`; `AlwaysLoadable`, `OnlyCompletedWrites`; `SavesAreWhole`; `TypeOK` | three operations on two keys of four collections (one for each set of operations, in save order), a failed write, failed reads and two restarts at any point; three requests of two goroutines, two secrets, two seconds, a failed save and a restart; one file writer, five files, one failed write, two crashes; two database processes, documents of up to two rows of one content (the theorem is about any), two errors, one death |
| `Services_commands` | `ServicesAreListed`, `NoOrphans`, `StatusIsTrue` | five commands on a service of two replicas and on its clusters, four backends, two faults |
| `Tasks_path` | `NextIsEarliest`; `PlanMeetsTask`, `BestFirst`; `ReportIsTrue`, `TasksReturn` | sixty schedules over a clock that passes hours, days and months; some hundred requests, with a cloud and a region from a flag, the task or the configuration, against a catalog of three types and four price tables; a task with any scripts on one or two nodes, one fault, cancellation |
| `Execution_code` | violation of `ExitCodeIsReported` | as above |
| `MetaCache_race` | violation of `MapsAreNotShared` | as above |
| `Tasks_pins` | violation of `PinsAreKept` | as above |
| `VpcProviders_zones` | violation of `OtherZonesAreFallbacks` | as above |

Some properties are conjunctions of named parts: `LaunchesAreWhole`
(`LaunchReturnsAllNodes`, `CleanupIsComplete`), `RecordsAreTrue` (`RecordedAreFound`,
`TerminatedAreGone`), `NetworkIsSound` (`NetworkIsFinished`, `OneNetwork`,
`GroupMatchesVSwitch`), `ServicesAreListed` (`ReplicasAreListed`, `ListIsPrefix`),
`CacheIsFresh` (`SpecsAreFresh`, `PricesAreFresh`), `PlanMeetsTask` (`PlanIsFeasible`,
`NoPlanOnlyIfNoneFits`, `LaunchIsSound`, `RangesRoundTrip`), `ReportIsTrue` (`LinesAreWhole`,
`SuccessIsTrue`, `RunIsAlone`) and `SavesAreWhole` (`SaveIsWhole`, `ReturnIsStored`, `TableIsFree`). The
type invariants are run properties where they are also proved; in the other modules
they document the variables.

`TriesEveryZone` is about launches that ask for no zone and got their security group;
`OtherClustersUntouched` about names that do not meet (`NamesMeet`) and survive
`truncateName`; `PlanMeetsTask` about pins the code does not lose (`CloudIsLost`,
`RegionIsLost`); the lost ones are the run `Tasks_pins`. The prices of `CacheIsFresh` are
those that the fetch of the entry answered, and those of `CachedDataIsKept` are kept
from when the calls under way share one map (`OneMap`); `RunIsAlone` is about the
backends other than the cloud; `TableIsFree` leaves out the COMMIT refused as busy. Section
5 says what the code does in each of these cases.

`BestFirst` compares within a resource group. Groups rank first, so a candidate without
a price of an earlier group comes before those with one of a later group, against
`lexicographic.go:51` ("Unpriced candidates always rank after priced ones").

`NoOverProvision` and `QuiescentTruth` speak of behaviours without a fault, and
`RunningIsTrue` of the time before a crash; `NoOrphans`, `StatusIsTrue` and
`CleanupIsComplete`, too, speak of histories without a fault (a save, command or
delete that fails leaves what the code leaves). The actions that break them
otherwise are in the same runs, so the condition is about the history and not
about the instance.

Jobs are independent of each other except for the mutex of the store, whose
critical sections are single steps, so one job name is enough. Operations on
different clusters meet only in the store and in the cloud's tags and names; the
runs with concurrent operations have two names for that.

Deadlock is not checked in any run: operations, requests and faults are bounded,
so every behaviour stops once they are used up, and an idle system is a legal
state.

The bounds are constants, and appear in the guards: `MaxPolls` (turns of one
`waitReady`), `MaxWait` (attempts of `waitSSH`), `MaxFaults`, `MaxErrors`,
`MaxCrashes`, `MaxDeaths`, `MaxRestarts`, `MaxOps`, `MaxCmds`, `MaxRequests`,
`MaxSecrets`, `MaxTime`, `MaxUnread`, `MaxUnsaved`, `MaxFiles`.

### Fairness

`Provisioner!FairSpec` is weak fairness of the steps of every operation. The
code justifies it: goroutines are scheduled, every cloud client has a timeout
(`cloud/aws/client.go:140`, `cloud/aliyun/client.go:81`), and `waitReady` has a
deadline (fifteen minutes), after which it gives up. `MaxPolls` stands for the
deadline; a version of `SettleWait` without it violates `OperationsReturn`.
Nothing is assumed of the cloud: an instance may stay pending for ever. The bootstrap
over SSH that follows has no deadline of its own: that its commands return is
assumed by the fairness of `Bootstrap`.

`NodeProviders!FairSpec` is the same for the steps of a call. Pods may never run:
`PodWaitTimeout` is the end of one of the waits that
`pod_wait_retries` allows.

`Jobs!FairSpec` is weak fairness of the scheduler (a ticker of
ten seconds), of the goroutines, and of the passing of time; nothing is assumed of
requests or crashes. `MCTasks!SpecTasks` has weak fairness of `RunTask`'s goroutine
and of the scripts: that a script ends is an assumption about the user's script,
for which the code has no limit; a node may never answer SSH, but each attempt to
reach it is assumed to return (it has no deadline of its own either).

## 4. Proofs

TLAPS checks every theorem for all values of the constants. What the theorems
assume of the constants are the named assumptions of the modules
(`ProvisionerAssumption`, `JobsAssumption`, `StoreAssumption`, `FileAssumption`,
`DbAssumption`, `TokensAssumption`, `ServicesAssumption`, `VpcProvidersAssumption`,
`MetaCacheAssumption`, `NodeProvidersAssumption`, `ExecutionAssumption`,
`ScheduleAssumption`, `PlacementAssumption`): bounds are natural numbers, collections
have distinct names, there is at least one node or replica, units of time are not
empty, and what users write (cron fields, tasks, resources) and clouds offer has the
types of the Go structs, which `Parts`, `RawTask` and `RawEntry` spell out; and that the "nothing" value is not a value
and markers are not names (there, and in `NoneIsNoRecord`, `NamesAreApart`,
`NilIsApart`). TLC evaluates them in every run.

Some theorems have a hypothesis of their own, because the property is false
without it (section 5 shows how): one process or one writer for `Store` and
`FileBackend`; one command at a time (`~Concurrent`) for four theorems about
`Provisioner`, three of them without crashes (`MaxCrashes = 0`). A property that
speaks of histories without a fault says so itself.

Each proof has the same shape. The property says too little about the middle of an
operation to be inductive, so an invariant is stated that does; TLC checks it on
the bounds of the run; a lemma for each action proves that it is kept; and the
property follows from it. What the invariants add:

**Provisioner, any concurrency.** `TypeCorrect`; `ClustersAreIsolated`
(`Spec => []Isolation`); `DownEventsAreTrue` (`Spec => []DownEventIsTrue`), with any
number of overlapping operations, faults and crashes. `Isolation` speaks of records
and operations, but a step can copy instances from an object, from the backend
after a crash, or from the cloud's list, so `IsolationInv` says it of all of them:
records, pointers that operations hold and saved records name objects made for the
same cluster (`StoreOwned`, `RefOwned`, `DiskOwned`), every object and every list of
ids has only instances with its cluster's tag (`ObjTagged`, `IdsTagged`), free
instances are untagged (`Untagged`), and idle operations hold nothing (`IdleEmpty`).
`DownEventIsTrue` needs to know that a `Down` part of the way through its calls has
terminated what is no longer to do (`DownProgress`), and that the events in memory
and in the backend both tell the truth (`TrueLog`).

**Provisioner, one command at a time.** `SoleInv`: one operation is active
(`OneActive`), the store has under its name the object it holds (`HoldsRecord`), the
record is provisioning when `waitReady` looks at what it saw and is saved before the
bootstrap (`WaitsOK`), and the ids of a loop are the record's (`LoopOK`). From it
follow

- `SuccessIsDurable` (`Spec => DurableSuccess`), through faults and crashes: an
  operation returns ok from a step that saved everything, or from `Bootstrap`, before
  which the record was saved;
- `RecordsAreARegistry` (`Spec => RegistrySpec`), without crashes: the refinement of
  `ClusterRegistry`. The initial states map to initial states (`Registry!Init`), and
  each step to one of the registry or a stutter: `AddSteps` to `Register`,
  `StatusSteps` to `SetStatus`, `DeleteSteps` to `Remove`, and a step that leaves the
  records alone to `Terminate` (`CloudSteps`);
- `StatusIsTrueAtRest` (`Spec => []QuiescentTruth`) and `NeverTooManyNodes`
  (`Spec => []NoOverProvision`, for finitely many instances), without crashes. Their
  invariant `TruthInv` speaks of histories without a fault. A cluster nobody works on
  is `Settled`: its record lists `NumNodes` instances, which are all it has
  (`Whole`), none is terminated (`Kept`), they run when it says up (`UpTrue`), and
  without a record there is none (`Bare`). `Claims` says which of these an operation
  suspends at which of its steps, and what it knows instead: that nothing exists
  before `Create`, that its ids are all there is before `AddCluster`, that what
  `Down` has still to do still exists, that what a poll saw running is.

**Jobs.** `JobsTypeCorrect`; `SavedJobsStay` (`Spec => FirstSubmissionWins`), from
the invariant that a job in the backend is in memory with the same submission
(`DiskInMemory`) and that a run past its start has a job (`HasJob`);
`RunningStatusIsTrue` (`Spec => []RunningIsTrue`), for any number of overlapping
runs: a step of a run that leaves the stretch in which the job is `running` also
changes the status.

**Store.** `StoreTypeCorrect` for any number of processes; `AckedRecordsSurvive`
and `MemoryAndBackendAgree` for one process, as
long as no unreadable file was taken for an empty collection. The invariant
`Progress` says how far a save or a load has come: collections behind the position
agree with the backend (`Passed`), the others agree except for records whose
outcome is undetermined (`Agrees`), and a save in progress concerns such a record.

**Backends.** `FileTypeCorrect` for any number of writers; `OneWriterIsAtomic`
and `LoadsCompletedWrites` for one. The invariant: the file behind `path` is never
the one being written (`Apart`), it is whole (`Whole`), and a finished temporary
file holds the writer's document (`Written`). `DbSavesAreWhole` (`SavesAreWhole`) for
any number of database processes: the rows a transaction has inserted are those of
its document, all of them at the commit (`RowsOK`), and only a live transaction, or one
whose COMMIT SQLite refused as busy, keeps the table (`TableIsFree`).

**Tokens.** `TokensTyped`, `LateRequestsStayOut` (`NoLateEntry`) and
`AnsweredSecretsAreAccepted` (`ShownSecretsWork`), for any number of goroutines,
tokens, failed saves and restarts, from `TokensInv`: a map of tokens, in memory or
in the backend, has no revoked secret and no secret that was answered with another
token or expiration (`TokenOK`), has what the answers under way are about to tell
(`AnswerOK`), and has the secrets of tokens that nobody asked to change
(`UntouchedOK`); a secret is shown once (`ShownOnce`). A restart swaps memory for the
backend, so the invariant holds of both.

**Services.** `EveryServiceIsListed` (`ServicesAreListed`), `NothingIsOrphaned`
(`NoOrphans`) and `StatusTellsTheTruth` (`StatusIsTrue`), for any number of services
and replicas and all backends, from `ServicesInv`: where a command is (`CmdOK`), that
`Up` is at the replica after those listed (`UpOK`), that `Down` has all recorded
replicas before it (`DownOK`), and that what exists for a replica is what its record
tells, except for the one the command is at (`Healthy`).

**VpcProviders.** `LaunchesOnce` (`OneBatch`), `EveryZoneIsTried`
(`TriesEveryZone`), `LaunchesAreConnected` (`NetworkIsSound`) and
`LaunchesAnswerTheirOwn` (`ReturnsOwnNodes`), for any number of overlapping calls,
names, zones, nodes and faults and every account, from `VpcProvidersInv`: a call that
is not over has made no node (`BatchOK`), it is at one of its subnets when it tries them
(`TriesOK`), the nodes it holds exist and are its cluster's (`NodesOK`),
how far its network has come (`HalfMade`, `ReadyVpc`, `NetworksOK`) and in which VPC
its group is (`GroupOK`). `EveryZoneIsTried` compares with the subnets that the VPCs
have, not with those the call has listed, so it needs `ZoneInv`: without a fault and
a zone that is asked for, every VPC has the subnets of all zones, or the one in the
middle that launches make (`NetZones`), and what a call tries covers them, whatever
overlapping launches add (`ReachOK`, `Covered`).

**MetaCache.** `FreshEntriesAreYoung` (`CacheIsFresh`) and `CachedDataStays`
(`Spec => CachedDataIsKept`), for any number of callers and types, from
`MetaCacheInv`: an entry is stored with the time of a look-up that came before its
answer (`CallOK`, `SpecsOK`), and the prices of its answer are in its map and not
older, although other calls write into the same map (`PricesOK`).

**NodeProviders.** `LaunchesAreAlwaysWhole` (`LaunchesAreWhole`), `RecordsAreAlwaysTrue`
(`RecordsAreTrue`) and `OtherClustersStayUntouched` (`OtherClustersUntouched`), for any
number of overlapping calls, names, nodes, retries and faults, from `NodesAreInOrder`:
the ids of a call are those of the first nodes of its launch, as many as it has
come to, and some that its cluster may have otherwise (`CallOK`, by `Made` and
`NamesOf`), a terminate still has before it what is left of the
launch on record (`TerminateOK`), a node is in the list of the launch that made it,
at the place where that launch puts its nodes, unless it gave up (`NodeOK`), a record
names a launch that answered (`RecOK`), and GCP and Azure never get beyond a second worker,
because the first has its name, as long as nothing was terminated (`NarrowOK`).
For the isolation: the nodes of two clusters have one name only when the cluster names
are equal or one is the other with one word more (`NamesMeet`).

**Execution.** `ReportIsAlwaysTrue` (`Spec => []ReportIsTrue`), for any number of
nodes, any text and any way it is cut into chunks. `ExecInv` says which processes there are in which phase
(`ProcsOK`), which scripts can have ended (`RanOK`), that a script that may run on
without its process has left the code of a broken or killed one (`LeftOK`), and,
outside the cloud, that what ran is what the one process says (`OneNodeOK`): so setup
that was left behind is an error there, and the run script does not start. For the lines, `LinesOK` adds what the
writer holds back: after `pos` characters it has streamed the terminated lines of
that prefix and its buffer is the rest of it. The step is `LinesJoin`: the lines of
`t \o u` are those of `t` followed by those of the rest of `t` with `u`. No
induction over the text is needed, because lines are described by the positions of
their ends, and positions are put in order by `Sorted`.

**Numbers and sorting.** `Sorted` picks, for each `k`, the member with `k - 1` members
before it; that this is a permutation in the order given (`SortedOrder`) is shown by
counting with the facts of `FiniteSetTheorems`, and needs no recursion. Where a proof
would go by induction over a number, it takes the least counterexample
(`LeastNat`, from the well-foundedness of `<` on the natural numbers).

**Placement.** `BestIsFirst` (`PlaceSpec => []BestFirst`): `Less` is a strict weak order
over candidates (`LessTotal`, `LessTransitive`, by the first metric in which two
candidates differ), so `Better` orders the positions and the first of the plan is
beaten by none (`RankPlanBest`); `PlaceInv` keeps the candidates typed.

**Task and Placement.** `PlanMeetsItsTask` (`PlaceSpec => []PlanMeetsTask`). What is read
is what is said: a range in one of the documented forms matches the values it says
(`PlainMeans`), a disk range the sizes from its lower bound on (`PlainDiskMeans`), the
accelerators an instance must have are the ones listed (`AccelMeans`), and the groups
are the outer resources and the entries with what they leave unset filled in
(`GroupSays`). Where flag, task or configuration ask for a cloud or a region and the code
does not lose it, the cloud of the options and `regionFilter` are what was
asked for. So an instance type is collected for a group exactly when it fits the
words (`CollectsFits`). The invariant `MeetInv` carries that to the plan: the groups are
those of the request (`GroupsInv`), every candidate and every placement was collected
for its group, and as long as there is no candidate none of the groups collected
so far has a type that fits (`FeasibleInv`; the budget keeps some of many,
`BudgetElements`). `LaunchInv` has the defaults and checks of `SetDefaults`
(`LoadedIsSound`), and `RoundTrip` the texts of ranges.

**Schedule.** `NextRunIsEarliest` (`SchedSpec => []NextIsEarliest`), for hours, days,
months and years of any length: the values `parseField` collects for a part that it
accepts are those the part denotes (`PartMeans`: the multiples of the step from the
lower end up to the upper one), so an accepted expression matches the minutes it
means (`MatchMeans`), and `next` takes the least (`NextMeans`).

What these theorems say is limited by what the properties say:

- `PlanIsFeasible` and `NoPlanOnlyIfNoneFits` are about YAML tasks whose ranges,
  disks and accelerators are written in the documented forms (`PlainYAML`); section 5
  has what other forms come to. A disk range is a lower bound
  (`docs/en/gpi-architecture.md:63`).
- `RangesRoundTrip` is about ranges of numbers that are not negative; `%g` also
  writes exponents for very large or small numbers, whose sign is read as a dash. The
  model has whole numbers.
- Accelerators match as written or in lower case, and `PlacementAssumption` has no
  instance type with two names that differ in case alone: the sources name one kind
  per type. That their number is a natural number is part of that assumption, too,
  because the sum is a fold.
- `ReportIsTrue` tells of lines that were terminated and are not empty.

Only model-checked: liveness (`OperationsReturn`, `ScheduledJobsRecur`, `CallsReturn`,
`TasksReturn`), which is beyond the prover, like anything that needs `ENABLED`. All
invariants and action properties of the passing runs are proved.

## 5. Findings

Each of these is a violation run whose trace follows the code step by step; the
quoted lines are in `PROJECT.json`.

- `Execution_code`: a run script that exits non-zero on a cloud cluster. The
  provisioner's `RunTask` looks only at the error, which is nil, and returns 0; the
  launch command reports success.
- `MetaCache_race`: `Prices` merges a fetch into the map that earlier callers hold
  and read without the lock.
- `Tasks_pins`: the resources of a task are said to be pinned to a cloud and a region
  (`task/resources.go:15`), with the priority "CLI flag > task YAML > config file"
  (`docs/en/gpi-architecture.md:283`). The code decodes the task's cloud and never reads
  it (`lexicographic.go:130` filters by the cloud of the options alone), and
  puts the configuration's region into the options, where it beats the task's
  (`cli/launch.go:50-52`).
- `VpcProviders_zones`: "Prefer the requested zone, then return all as fallbacks"
  (`aws/provider.go:302`), but only the subnets of the requested zone are returned
  when there are any, and the launch gives up with other zones free.

The models also have these behaviours of the code, which no run is kept for.

*Provisioner and jobs*

- Launch, stop, launch: the cloud side resumes the stopped nodes, then `AddCluster`
  refuses the name; the nodes run under a record that says stopped
  (`cloud/cloud.go:55` describes the reuse of stopped nodes on relaunch).
- Two `Down`s around a `Launch` of the same name: the slower one deletes the new
  cluster's record while its instances run.
- The record is `up` before Ray and gpilet are set up (`SettleUp`, then `Bootstrap`),
  which `docs/en/gpi-architecture.md:134` puts the other way round.
- A retry of a job fails because of the cluster the first attempt recorded, and so
  does every later scheduled run.
- Two run requests pass the check of the status before either run writes it, and
  the job runs twice.
- A command that exits non-zero is recorded as a success of the job, on every
  backend (`jobs.go:141` drops the code).
- After a crash in a run a job stays `running`, and barred.
- A submission of a taken name is answered as if it were stored.

*Store, backends, tokens*

- Two processes over one store undo each other's acknowledged changes: a save
  writes all collections from memory loaded when the process started.
- An unreadable file is taken for an empty collection, and the next save erases it
  (`LoadEmpty`); two processes share the temporary file, and one renames what the
  other has just truncated (`FileBackend` with two writers).
- SQL loads events and tokens in the order of timestamps in seconds, so the order
  within a second may change.
- The path that needs no token is `/api/v1/tokens` (`auth.go:36`), while the default
  prefix is `/api/v1/gpi`: with `--require-auth` and an empty store no first token can
  be made over the API, although `auth.go:10` and `docs/en/gpi-architecture.md:279`
  call it public; the token commands of the CLI ask under `/api/v1` and get 404.
- A deletion whose save fails is answered with 500, asked again with 404, and
  undone by a restart. A rotation whose save fails loses the old secret, and
  the new one, and is answered with 404. A negative `expires_in` means never.

- A COMMIT that SQLite refuses as busy ends the `sql.Tx` but not the transaction
  (`sql.go:416`, `445`); the process cannot save again, and holds the table until it
  ends (`CommitBusy`).

*Providers*

- Kubernetes: the head of a cluster `train` of several nodes is the pod `train-head`, and so is
  the node of a one-node cluster `train-head`. Either launch deletes the other's live pod
  as a stale one (`kubernetes/provider.go:139-140`: "Delete stale pod if exists").
- GCP and Azure machines meet in the same way; there the second create is refused,
  because the name is taken. Operations of Azure on a cluster of several nodes look for
  each node in a resource group `<node>-rg`, where they find nothing, or the one node
  of a cluster with that name. The list filter of GCE is taken to select by
  prefix.
- AWS makes a security group `gpi-sg` for every launch without a configured one
  (`docs/en/gpi-architecture.md:287`); a VPC can have only one of that name, so the
  second such launch into a VPC fails (`aws/provider.go:246`).
- Aliyun sends the requested zone together with a vswitch of another zone
  (`aliyun/provider.go:160-162`); the request is refused.
- `all[:spec.NumNodes]` panics when running and stopped nodes together are fewer
  than `NumNodes` (`Resumed`).
- A network is made twice when the new subnet stays pending (`slow`), because
  `DescribeSubnets` leaves it out; with a subnet given, a configured security group
  is not sent.
- GCP and Azure give all workers one name, so a launch of three nodes or more
  fails half-way and leaves the nodes made so far; Azure looks a node of several up
  in a resource group it was not created in; Kubernetes pods made before a create
  that fails stay (`provider.go:151`); a configured namespace or zone is not used by
  lookups, so that `TerminateInstances` of Kubernetes, which looks in `default`, takes
  the pods of another namespace for deleted and returns no error
  (`TerminatedAreGone` leaves this case out); truncated names may collide.

*Services and execution*

- On a cloud cluster the run script may start while what a broken connection left of
  setup still runs on the node: ssh ends with 255, which is no error to
  `runSSHStream` (`provisioner.go:699-706`), `runOnAllNodes` returns it as a code
  (`539-545`), and `RunTask` looks at the error only (`500`, `504`).
- `Up` deletes the record of the replica that failed without taking it down
  (`serve.go:64`), and does not run the service's script; a docker launch removes a
  running container before `AddCluster` refuses the name.
- The provisioner's line writer breaks lines at the ends of chunks; the other one
  never streams a last line without a line end; the existing backend's wait never
  fails for a host that is not reachable.

*Schedules, tasks, optimizer, cache*

- `*/n` is refused for every field but minutes, since `*` stands for 0 to 59;
  `5-2` never matches; day and weekday must both match; `@every 0s` leads to a nil
  schedule and a panic in `computeNext`; a job is due at once when it is submitted.
- Candidates of the outer resources rank before those of ordered entries
  (`resources.go:23` says the first entry's come first); the cloud, `use_spot`
  and zone of an entry are not used, nor is the task's zone; entries of JSON bodies get no defaults; only the
  first launch of a plan is tried; the refreshed price does not change the order;
  a task's `use_spot: false` beats `--spot`.
- An accelerator in a task matches the name it is written in or that name in lower
  case, so `a100` does not match a type that has `A100`. The GCP, Azure and
  Kubernetes sources leave `MaxDiskGiB` at 0, so that any `disk_size` excludes them.
- `-4-8` means 4 and more, `4-8+` means up to 8; an upper limit on the disk is taken
  as a demand for a type whose maximum is at least that.
- "Fetch errors keep previously cached data so placement still works while a cloud is
  flaky or offline" (`metacache.go:21-23`). The data is kept, but it does not keep
  placement working: `Regions` returns an error and no regions (`metacache.go:127`),
  which ends the placement of every cloud (`candidate.go:71-86`), and `attachPrices`
  drops the cached prices that come with an error (`candidate.go:115`), against its own
  comment ("stale cached prices ... keep placement working").
- Prices that a fetch did not return look as fresh as the others
  (`metacache.go:173-181`, `215-218`); the back-off
  counts from the start of the fetch; a failure writes back the entry it read before
  the fetch; two first fetches at once lose the prices of one.

## 6. Not modelled, and abstractions

- Images, key pairs and the SSH bootstrap are steps that succeed or fail. (A key pair
  that is made in the cloud while its private key cannot be written,
  `provisioner.go:412`, bars the next launch; nothing in the code recovers from it.)
- The API clients (signing, HTTP, decoding), the metadata and price sources behind
  `catalog.Source`, and JSON, YAML and SQL texts: pure I/O and conversion. That a call
  fails or its answer is lost is in the models of the callers.
- Output, logging, request identifiers, key styles, the OpenAPI document and
  gpilet's counters have no state a property could be about.
- A relaunch after a crash between `RunInstances` and `AddCluster`, and two
  launches of one name at once, leave more instances than records; no line of the
  repository promises otherwise, so there is no property (see the hazards).
- `Services` runs one command at a time: two overlapping commands on one service
  leave orphans, and no line of the repository promises otherwise.
- File mounts, environment variables and labels of a task are passed on unchanged.

## 7. Plan

The operations that change records, instances and outcomes are modelled, and every
safety property of the passing runs is proved. What would come next: a model of two processes over one
store that says what a user may still rely on; overlapping commands on one service;
and gpilet, if its reports are ever read by another component.
