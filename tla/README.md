# ccli: verification project

TLA+ models of cryptocli, the multi-rig stratum miner in this repository, the
TLC runs that check them on small instances and the theorems TLAPS proves about
them for every instance. Paths below are relative to the repository root's
parent, so the program's sources are `src/src/...`.

## 1. The system

One daemon process (`daemon.rs`) owns the rigs. Every rig has one asynchronous
stratum task (`mining/stratum.rs`) which owns the pool connection and one hashing
thread per slot (`mining/worker.rs`). All tasks of the process share one work
coordinator (`mining/coordinator.rs`). Clients (the dashboard, one-shot commands,
other daemons) send one-line requests over a Unix socket or TLS (`ipc.rs`).

| component | state it keeps | operations | talks to | what makes it correct |
|---|---|---|---|---|
| work coordinator, `coordinator.rs` | map (pool, extranonce1) to search space; per space a counter and a holder count | `space`, `next_extranonce2`, `release` | called by every stratum task, concurrently | nobody in the process searches the same space twice; live spaces are kept, dead ones forgotten |
| work slots and threads, `mod.rs`, `worker.rs`, `stratum.rs` | per slot: work, needs_work, generation; per thread: the generation seen, its unit, its nonce | `publish`, `clear`, the worker loop, `republish`, `refill_slots`, `build_work` | shared memory between the task and the threads | no thread stays on an old job; threads of a rig never overlap; every thread gets work |
| stratum session, `stratum.rs` | connection, subscribed and authorized, job, pending shares, threads, statistics, backoff | `run`, `session`, its three select branches, `Drop` | pool (lines), threads (channel, atomics), daemon (atomics) | each share and hash counted once; a stop is obeyed; a lost pool is retried; figures shown are true |
| rig manager, `daemon.rs` 82-300 | runtimes by id, order, hash marks | start, stop, rebalance, SetThreads, delayed restart | tasks, requests from many clients | at most one live session per rig; thread budget respected |
| configuration store, `config.rs`, `daemon.rs` 304-393, `cli.rs` | the file, the daemon's copy | load, validate, save, mutate, reload, the commands' own edits | several processes on one file | no edit lost; what runs is what is stored, and validates; no command spoils the file |
| daemon lifecycle, `daemon.rs` 1205-1487, `cli.rs` | socket, pid file, shutdown notification | run, spawn_detached, ensure_running, Shutdown | clients, signals | one daemon; start after stop leaves one running |
| peer nodes and IPC, `nodes.rs`, `ipc.rs` | per peer: connection, last snapshot, backoff | poll, poll_now, command, send | other daemons | replies pair with requests; commands not repeated; one attempt at a time |
| endpoint monitor, `endpoints.rs`, `daemon.rs` 333-347, 444-484 | counts, last outcome, next due time | due, schedule_next, check, record, status | blocking checks | the configured url is checked, again and again; history survives edits |
| dashboard, `tui/` | snapshot, selections, form | refresh, keys, tidy_up | daemon | never acts on another row than shown; leaves a daemon it did not start running |
| log ring, `log.rs` | bounded ring, sequence | log, tail | everyone | bounded, in order |

Not state machines worth modelling: hashing and targets (`algo.rs`,
`sha256_avx2.rs`), TLS and address handling (`tls.rs`, `net.rs`), hardware
sampling, drawing, argument parsing.

What is hard in this code: three kinds of concurrency at once (atomics between
task and threads, many tasks on one coordinator, many processes on one
configuration), a peer that may answer anything in any order, cleanup on many
error paths, and time used in place of acknowledgement. PROJECT.json lists each
hazard at its line.

## 2. Modules

| module | models | role |
|---|---|---|
| `WorkAllocator` | what the coordinator promises | abstract specification |
| `WorkCoordinator` | `coordinator.rs` and the calls of the sessions | implements `WorkAllocator` |
| `NoncePartition` | the nonce split in `build_work` | pure operators |
| `WorkSlots` | slots, publishing, the worker loop | extends `NoncePartition` |
| `RigTask` | what the daemon relies on of a rig's task | abstract specification |
| `StratumSession` | `run` and `session` of one rig | implements `RigTask` |
| `ThreadAllocation` | `allocate_threads` | pure operators |
| `RigManager` | the daemon's rigs and the configuration they come from | builds on `RigTask`, extends `ThreadAllocation` |
| `ConfigStore` | the file, the daemon's copy, and everything that edits either | one module |
| `PeerNode` | the link to another daemon, over the line protocol | one module |
| `DaemonLifecycle` | processes that start, find and stop a daemon, and the dashboard's own | one module |
| `EndpointMonitor` | the checks of an endpoint, and the edits that replace it | one module |
| `Dashboard` | lists, selections, keys, confirmations and forms over several machines | one module |
| `*_proofs` | theorems of the module they extend; `Machines_proofs` has those of `PeerNode` and `Dashboard` | TLAPS |
| `MC*` and `.cfg` | small instances | TLC |

Each module holds, just before some definitions, mutants of them: the same
definition with one plausible mistake. No specification uses a mutant; each shows
that a property would notice that mistake.

### WorkCoordinator

`spaces` is the map behind the mutex; `next` and `holders` are the atomics of a
`SearchSpace`. `space()` holds the mutex throughout and is one step: `JoinSpace`
or `OpenSpace`. `release()` is two, `Decrement` (an atomic, before the lock) and
`Retain` (under it), and anything may happen between them. `Draw` is one
`fetch_add` and the unit of work built on it. `SearchSpace` objects are model
values: one that neither the map nor a session refers to may be used again, as
memory is. `SetExtranonce` is the pool's reassignment, enabled by `Reassigns`.
`leaked` counts what the code forgets: a session answered twice overwrites its
claim. `units`, `start` and `leaked` are history. The size of the extranonce2 is one
constant, `E2Space`; that a reassignment may bring another size is left out.

`ImplementsAllocator` maps the state onto `WorkAllocator`: the members of a space
are the sessions mining under its key, the numbers given are those between the
counter's start and its present value.

### NoncePartition and WorkSlots

`publish()` is three steps (`StoreWork`, `FlagWork`, `BumpGeneration`); `clear()`
is the same three with no work. The worker's check is two (`LoadGeneration`, then
`TakeWork`), a batch is one (`HashBatch`), and running dry is one (`AskForWork`).
The session's passes over its slots, `republish` and `refill_slots`, interleave
with the threads at each of these steps. `Nonces` is 2^32 in the code; the
truncating cast, the wrapping product and the saturating sum are kept. The target
of a unit is left out: a new difficulty is a new unit of the same job.

### StratumSession

`phase` is where the task is: between two awaits or two joins nothing else of the
session runs. `link` is the `SessionState`, `workers` its slots and threads,
`stats` the atomics of `RigStats`. The pool is the freedom of `Subscribed`,
`Authorized`, `ShareAnswered`, `Notify`, `Ping` and `SessionFails`: any answer at
any moment, repeated or never. The daemon is `RequestStop` and `SetThreads`.
`EndSession`, `JoinWorkers`, `CloseSession` follow the order in which Rust drops
the locals of `session()`: channel, threads joined, space released. A tick is
`Tick`, `ResizeWorkers` if the count changed, `FinishTick`. Time is counted in
ticks for the job timeout; that a pending share is old enough to expire, and that
a session lasted a minute, are free choices. Spawning the threads and storing their
number is one step of the task, which does not wait in between; somebody who reads the
number in that instant may see the one before. `tally` is history: what the threads
really hashed and found, and what became of it.

`ImplementsTask` maps the session onto `RigTask` by what the daemon can see of it,
the state in `RigStats` and the stop flag: new until its first poll, running until
it was asked to stop, then ended for good.

### RigManager

`rigs` is the map behind the lock, from a session's id to its `RigRuntime`;
`sessions` holds every runtime ever made, since a task keeps its runtime when the
map forgets it. `config` is the daemon's copy, `file` the file. A rig that mines
one coin has one session under the rig's own name (`<<r, Sole>>`), one that mines
several has one per coin, so that ids change as coins come and go (`IdsOf`, from
`expand`).

`tasks` says what each slot is doing. A slot is one of the `Handlers` (a connection's
handler, or a command in its own process), one of the `Timers` (a delayed start), or the
`Sampler`; the steps of all slots interleave without restriction. One handler is one
user who waits for each answer; the sampler and the delayed starts are tasks of their
own and wait for nobody. An operation is a sequence of steps, each what the code does
under one lock or in one access to the file: `start_rig` is `Resolve`, then per session
`Check`, `Insert`, `Enlist`; `stop_rig` looks (`Matching`) and then raises the flags one
by one (`Raise`); `rebalance` is `Weigh`, `Allot`, `Assign`; `mutate` is `Draft`,
`Truncate`, `Write`, `Swap`; `prune_stale_rigs` is `Prune`, `Retain`, `Relist`, of which
the sampler begins with `Sample`. What follows what is in `AfterRaise`, `AfterAssign`,
`AfterWrite` and `AfterPrune`. A command edits the file, asks the daemon to stop what it
took away (`Signal`) and nudges it (`Load`). After a coin was added the rig is stopped
and its start given to a timer (`Spawn`); it comes 600 ms later, whatever has happened in
between. `Check` leaves out that the algorithm may be unknown, which `expand` has
settled before. `stop_all` is one step, as only a rebalancing could read the flags
between two of them.

Left to themselves these operations do lose sessions and leave thread counts of two
divisions, even for a single user, because they act on what they read some steps before.
Two history variables record exactly when: a session is `overtaken` when it is dropped
before its first poll by a pruning, replaced by a start that had looked before its first
poll, or left out of the order by a pruning that had swept the map before it was in
there; `newest` is the slot whose rebalancing began last, and `inTurn` says that no
threads were given out after it had given out its own. The properties are about
everything else: `NothingLiveForgotten` about the sessions nobody overtook, `FairShares`
about the states in which the newest division was also the last to be stored. That the
tolerated cases occur is shown by finding 2, and said in section 4.

`Early` are the configurations the daemon may come up with, `Grows` the rigs whose coins
are edited, `MaxRequests` and the number of `Timers` what may happen at once or at all,
and without `AnyTime` a sample begins only when nothing is under way but delayed starts
yet to look; its later steps fall anywhere all the same.

Of the coins' data only the name is kept; weights are 1 per coin and a constant per
rig. Which rigs `start_all` finds enabled is left open.

### ConfigStore

`file` and `copy` are whole configurations, as far as validation and other entries look
at them: the names of wallets, endpoints and nodes, the rigs with their targets, and one
setting. A target keeps its coin, whether the url is the rig's own, whether somebody is
paid, and whether its algorithm exists (`Target`); `Sound` is `validate()`, `Expands` is
`expand()`, `Loads` is `load_from()`. The two kinds of edit are kept apart as the code
does it: `Commands` begin with the file, write it without validating and nudge the
daemon (`Save`); `Requests` begin with the daemon's copy, are validated, written and
swapped in (`Mutate`). What each checks of its arguments differs, and that difference is
the module's subject: `rig add` looks the algorithm and the wallet up, the dashboard's
`AddRig` does not; `rig coin` and `AddRigCoin` expand the rig first; `rig uncoin` checks
nothing of what is left; `rig threads` and `remote` tell the daemon nothing of the file.

Any save may be cut short (`Prefixes`: between two entries, or before a rig's next
target, it still parses; within an entry it is taken not to, although a cut that leaves
out only fields with defaults would), any nudge may fail, the file may be edited by hand and the daemon started
and stopped at any moment. `untold` is history: the changes of the file a running daemon
has not been told of. One edit happens at a time; the steps within one, and how two
interleave, are in `RigManager`, for rigs only. Commands that are refused for their
arguments alone change nothing and are left out.

### PeerNode

`holder` is who holds the lock around the connection, `client` the connection kept in
it, `calls` what each blocking thread is at, `state` the `PeerState`: `wait` is the
time to `next_attempt` in seconds, and `failures` stops at `MaxShift`, since the code
shifts by `min(6)`. `conns` holds, per connection, the lines on their way to the peer
and back. `Look` and `TryLock` are `poll()`, `Clear` and `Lock` are `poll_now()`, `Lock`
alone is a command; `Take` is the first branch of `run()`, `Dial` the second, and
`Again` says which of them is left after a failure. Connecting, the TLS handshake and
the token exchange are the one step `Dial`, which may fail.

The peer is `Serve`: it reads a line whenever it likes, executes it, and answers or
refuses. An exchange nobody waits for is `late`; it is executed all the same as long
as its line is on the way. `asking` and `covered` are history: which checks had been
asked for before the attempt under way, and before the one `state` tells of.

### DaemonLifecycle

`sock` is whose socket stands at the path, whether that process lives or not; `daemons`
are the processes, `users` the commands and dashboards. A probe is one step:
`Answers`, or nobody there, or (not `Settled`) a backlog in which it waits. Between the
probe and what follows from it anything may happen. `ProbeAgain`, `Clear`, `Spawn`,
`Await` and `Wait` are `spawn_detached()`; the same questions are asked again by the
child in `ProbeFirst`, `ClearFirst` and `Bind`. A daemon in "answering" has its accept
loop running and does not wait for a shutdown yet, so that one is lost (`Shutdown`);
one in "stopping" still answers. Removing the socket and leaving are one step (`Exit`),
since nothing connects to the process between them.

Of a dashboard there is the connection, the last snapshot reduced to whether rigs were
active, `frozen`, and the keys that start all, stop all and shut down; a key is
followed by a refresh (`due`) unless the display is frozen. Peers' rigs in the snapshot
are left out.

Without `Overlaps` a command begins only when the one before has ended and no daemon
is coming up; without `Outside` there are no signals and no kills.

### EndpointMonitor

`config` is the endpoint's entry in the configuration, `current` the
`EndpointRuntime` in the daemon's list, `rt` what each runtime holds (its entry,
`checks`, `failures`, and `due`, that `next_due` has passed), `tasks` the blocking
threads, each with the runtime it keeps alive. `ApplyConfig` and `Swap` are
`apply_config()`: the new list is made first and put in place afterwards, while
checks start and end. Of an entry the url is kept; `enabled` stands for every other
field but the name. `PollEndpoints` collects what is due, `Claim` moves its next due
time and starts the check; `CheckEndpointNow` is a user's request.

A check against a pool is a step per reply: `got` are the requests accepted so far,
one error is enough to fail. It ends when the connection is `Closed`, when the pool
is `Silent` for 500 ms, at the `Deadline` of the loop, or at a `Reply` after which
subscribe and authorize are settled. `record()` is one step, since only `status()`,
which is left out, reads the counters apart. One edit at a time: `apply_config` holds no
lock from its list to the end, so that two at once could replace a runtime one of them
kept; and the list and the configuration, stored one after the other (364-365), change
in one step.

### Dashboard

`stock` is what the machines have of rigs, endpoints and wallets, `linked` the peers
the hub is configured with; `OthersEdit` changes both at any time. A row says whose it
is (`at`) and what it is called there, so that machines may use one name twice.
`snapshot`, `selected`, `tab`, `dialog` and `frozen` are the dashboard's own. It draws
before it reads a key, so a key finds the drawn snapshot, while the machines may long
have moved on: between `DeleteSelected` and `Yes`, or `OpenForm` and `Submit`, there
may be any number of refreshes and edits.

A request goes where `route()` and `serve()` take it (`Route`, `Reached`: the hub goes by
its own name and by "local") and does there
what `handle()` does (`Changes`). Whoever asks hears of an error although it may have
been done, so `Send` is `Does` or `DoesNot`. A form's fields are free until it is sent.
`done` is history: what the last step did, where, and which row the key was about. The
specification is `DashSpec`, so that one proof module can extend `PeerNode` and this one.

Left out: that a coin changes the ids of the others (`RigManager` has it), the age of a
peer's rows (the whole snapshot may be old), scrolling of the log, editing inside a
field, toasts. The dashboard's start and end are in `DaemonLifecycle`.

## 3. Runs

| run | instance | shows |
|---|---|---|
| `coordinator` | 2 sessions, 2 extranonces, 3 space objects, reassignment on, extranonce2 of two values that wraps | holder counts, live and dead spaces, no early repetition of work on a claimed extranonce1, and the refinement |
| `set_extranonce` | 2 sessions, reassignment on | finding 1 |
| `slots` | 2 threads, 7 nonces, batches of 2, 2 jobs, 2 publishes per slot, no extranonce2 | safety and liveness of the handoff |
| `session` | up to 2 threads, 2 reconnects, 2 resizes, 2 shares, 2 batches, job timeout of one tick | accounting, what is shown, the abstract task, stop, retry, resize, silence |
| `rigs` | 2 rigs of unequal weight, 2 coins (one rig gets the second), 5 threads, one user with 2 requests, a delayed start, the sampler, all interleaved | nothing live forgotten or hidden unless overtaken, shares of threads, stale sessions go, new coins are mined |
| `rigs_forgotten` | the same, safety only, a sample beginning at any moment | finding 2 |
| `peer` | 2 threads, 2 connections, 1 command, backoff of 2 and 3 s | replies paired, commands run twice at most, fresh checks, an offline peer retried |
| `lifecycle` | 2 users, 2 processes, kills and signals at any moment, commands one after another | one daemon, reachable while it is up; commands end |
| `restart` | 1 user, 2 processes, no kills | finding 3 |
| `endpoints` | 2 runtimes, 2 checks at once, 2 checks per runtime, a pool and a page | the configured url is checked, history survives, checks go on |
| `config` | 1 rig, 2 coins, 1 wallet, a pool with a user, a page, 1 node, 2 files written by hand, 1 untold change | what is applied validates and is what the file says; commands keep the file loading; an edit loses no other |
| `dashboard` | 2 machines that use the same names, a rig of two coins, endpoints, five of the seven views | selections stay in their lists, keys reach the machine and the row they were meant for |

Why the bounds are enough. Coordinator: the races are between one release and one
claim of the same key (the theorems cover any number of sessions); two keys let a
retain sweep another's entry; three objects are one per session and one to open. Slots:
two slots are the smallest number in which one is served after the other; with two
publishes a unit can begin three times (the run fails if the bound of
`BegunThriceAtMost` is lowered to two); a range of several batches lets a publish
fall inside one; seven nonces do not divide by two threads, so that the remainder and the last nonce,
which no range has, are both there.
Session: two reconnects give a first, a middle and a last connection and reach the
cap of the backoff (3 here); two resizes allow one to arrive during another; two
shares can be pending together, or one queued while another is answered. Rigs: the
overtaking is between one operation and the sampler or a delayed start, which come to
the user's two requests without a bound: a start beside a sample, a removal beside a
delayed start, an edit beside both; the daemon comes up with one rig or with none, which
saves the request that adds it. Two rigs of unequal weight make every division of five
threads another one, and two coins take a rig from one session to two and back. A second
user, and samples that begin at any moment, multiply the states beyond what a run should
take; the safety theorems cover any number of handlers, timers and requests, with
`AnyTime` or without. Peer: a connection and its replacement are all one
call can use, and two threads are one at the lock and one waiting for it; a backoff
that doubles once and is then capped has every case of the formula. Lifecycle: two
processes are a dead or leaving daemon and its successor, two users a dashboard that
keeps its old connection and somebody who starts the next daemon. Endpoints: two
runtimes are the present one and its successor, or one that a check still keeps; two
checks are one scheduled and one asked for, or one of each runtime. Dashboard: two
machines that call their rigs and endpoints alike are where a misdirected request does
something; a rig of two rows makes a list shrink by two between two refreshes; the views
left out move the same selection as `dashboard` (rigs) or, like `endpoints`, one one of
their own (wallets). Config: entries of one kind do not look at each other, and rigs only
at wallets and endpoints, so one of each (and a page, which is no pool) with two coins
gives every outcome of every check; the hand-written files are what no command writes, a
rig without a url of its own and one whose algorithm is misspelt; a second untold change
adds nothing that the first did not (the proofs cover any number).

`MaxNumber`, `MaxLeaked`, `MaxJobs`, `MaxGen`, `MaxRetries`, `MaxResizes`,
`MaxShares`, `MaxHashes`, `MaxRequests`, `MaxChecks` and `MaxUntold` bound what the program does not bound;
`MaxShift` and `MaxBackoff` are the program's own, made smaller. They are in
guards, named in each module. Deadlock is not checked in the session's runs,
because a stopped rig's task really ends.

Fairness. `WorkSlots`: weak fairness of the ticker, of the session's steps and of
each thread; the pool owes nothing. `StratumSession`: weak fairness of the task's
own steps (the runtime schedules it, the connect has a timeout) and of a told
thread's exit (it looks at the flag after every batch); strong fairness of the
tick, since `select!` picks at random among ready branches, so a busy pool cannot
win for ever. One assumption the code does not secure: a write to the pool
completes. `write_all` has no timeout, and a pool that stops reading blocks the
task before it can see a stop. `RigManager`: weak fairness of the steps of an
operation and of the tasks' polls and ends (what `StratumSession` shows of them,
`StopIsObeyed`), of each slot by itself: the ticker and the timers come round however
busy the handlers are, since they wait for none of them. `PeerNode`: weak
fairness of each thread's steps, of an attempt (dial, write and read have timeouts),
of taking the lock when it is free, of the second and of the ticker's polls; the peer
owes nothing. `DaemonLifecycle`: weak fairness of the steps of commands and of daemons,
whose probes have timeouts and whose exit waits 2.5 s at most; nobody is obliged to
give a command, refresh or quit. `EndpointMonitor`: weak fairness of the ticker's polls
and their claims, of the interval's passing, of the timeouts (of an HTTP check and of
the loop's deadline) and of recording. Here too something is assumed of the pool: the
deadline is looked at between lines, so a pool that sends a line without ever ending
it, a byte every 400 ms, keeps the check.

## 4. Findings

1. `mining.set_extranonce` (`stratum.rs:397`) changes the extranonce1 but not the
   search space, against the head comment of `coordinator.rs` (11-14). Two
   sessions can then repeat each other's work.
2. `prune_stale_rigs` ("Forget stopped sessions", `daemon.rs:371`) takes a session
   that was just made for a stopped one, because its state is Stopped until its task
   is first polled. One user and the sampler are enough: the sampler reads the
   configuration (375-383), the user adds a rig, whose session is inserted, and the
   sampler's `retain` (385) drops it. The session is then spawned and mines on, and no
   stop reaches it, since it is not in the map.
3. `cryptocli daemon stop && cryptocli daemon start` (README 139, `cli.rs:1075`) leaves
   no daemon: a stop is answered at once, the daemon answers pings until its rigs have
   unwound, and the start takes it for a running one (`cli.rs:394`).

Observed along the way, within what the code promises: a thread may begin the
same unit up to three times, because it loads the generation before the work
(`BegunThriceAtMost`); the nonce 0xffffffff is never hashed, because the last
range is half open; a rig is shown mining from its first job on, even before it
is authorized; `JOB_TIMEOUT` (`stratum.rs:26`, "the connection is wedged") is looked at
only once threads run (`stratum.rs:176`), so a pool that accepts the connection and
never answers keeps the rig for ever. Of the rigs: `stop` does not divide the threads anew (`FairShares`
allows the division made when more rigs ran); a delayed restart brings back a rig
that was stopped within the 600 ms; after `rig uncoin` the remaining coin runs on as
`r/BTC` although the configuration now calls it `r`, so a `start r` mines it twice;
and floors of one thread per rig and coin, and fixed counts, may exceed
`max_threads`. Of peers: a command reported as failed may have run, may run twice (the
reconnect sends it again, even when the peer refused it), and the first copy may run
after commands sent later; the first backoff is 2 s, not the 1 s of the comment at
`nodes.rs:107`, because the failure is counted first. Of configurations: `save` empties the file before
it writes it, and neither `mutate` nor `reload` holds a lock from its read to its swap,
so that a reload during an edit may read an empty file, and two edits
at once lose one; a start of a rig between two steps of `prune_stale_rigs` loses its
place in the order, and if the rig is then removed its session runs on unseen. `rig
threads` and `remote` do not send a reload, so that, unlike README 238 has it for edits
by command, the daemon goes on with the old entry, and its own next edit writes that
back over theirs. The dashboard's `AddRig` accepts an algorithm and a wallet that do not
exist, because `validate()` passes over a rig that does not expand; the rig neither
starts nor is shown, and once the wallet is added the file does not load, for the
commands and for the next daemon, whatever `daemon.rs:315` promises of bad edits.
`rig uncoin` may take the last coin off a rig without a url, with the same result.
A daemon that found the file broken runs on defaults, and its next edit writes them over
the file. A save that is cut short between two entries leaves a configuration that
loads, without the entries that come later. `node add` loads the configuration, talks to
the node for up to 16 s and saves what it loaded (`cli.rs:924`). `apply_config` keeps an
endpoint with the entry it was made from if its name and url are unchanged
(`daemon.rs:340`), so that a hand edit of its other fields takes effect with the next
start and not with a reload. Of daemons: a Shutdown that comes before main waits (the remote
listener is set up after the accept loop runs) stops the rigs and is then lost; two
starts at once may leave two daemons, one of them out of reach; a dashboard may think it
started a daemon that another command did. Two starts of one rig at once (a
delayed one beside a user's is enough) both find no session and make two, of which the
map keeps one; and of two rebalances at once the older may store its counts last, which
then stay until the next. Of dashboards: `tidy_up` (`tui/mod.rs:217`, "one that is
mining, is always left alone") decides from the last snapshot, so with the display
frozen a dashboard that brought the daemon up, starts its rigs and quits shuts them
down; `c`, and `d` on an endpoint or a wallet, act on the hub's item of that name even
if the row is a peer's; the keys of a rig act on the selected rig from any view; and a
peer that is called like the hub, or "local", is taken for the hub (`daemon.rs:705`;
nothing refuses the name). Of endpoints: the read timeout becomes 500 ms before the first reply is read, so
a slower pool is reported as failing whatever `timeout_secs` says; a pool that accepts
the subscription and talks until the deadline is reported as well without an answer to
authorize; a check slower than its interval is started again, although the slot is
claimed (`daemon.rs:454`); and checks that overlap may log one transition twice, the
older outcome last.

## 5. Proofs

All proofs hold for every value of the constants, under the named assumptions of
the modules (the constants are positive numbers or finite sets of the right
kind; the numeric bounds are arbitrary).

- `WorkCoordinator_proofs`. `Inv` is TypeOK, HeldIsMapped, HolderCount and two
  strengthenings: a mining session's fields are typed, and no space stands under
  two keys. HeldIsMapped is not inductive alone: a late retain keeps an entry
  only because its holder count is positive, which needs HolderCount, which in
  turn counts sessions per space and needs one key per space. From it follow the
  refinement and, with the history of the units, that work on a claimed extranonce1 is
  unique (`WorkIsUnique`; finding 1 is why it says "claimed"). Where no pool reassigns
  (~`Reassigns`) a session never mines but what it claimed (`ClaimsKept`), so the head
  comment of the source holds as it stands (`UnreassignedWorkIsNotShared`), until a
  counter has given out more numbers than the extranonce2 can tell apart: counted from
  where the counter started, the clock's microseconds, since only how far two draws of
  one counter lie apart matters and not how large they are (`UnitsSince`).
- `WorkSlots_proofs`. First the ranges: the span times the number of threads never
  exceeds the number of nonces, so no product wraps and each range ends before the next
  begins; with one thread the wrapped span is harmless. They leave out the last nonce of
  all and no other (`NonceRangesCover`). `Inv` adds to SeenIsCurrent that
  no thread has seen a generation yet to come, so a bump is always news; ThreadsApart
  follows from every unit carrying its slot's range and the ranges being disjoint.
  `BegunThriceAtMost` is a matter of counting: the unit is stored before the generation
  is bumped, so while it is in the slot the generation has two values, `Base` and the
  next; every copy the thread makes of it but the first is made on a later generation it
  has loaded in that time. So a unit is begun at most three times, however often the pool
  publishes.
- `StratumSession_proofs`. The two accounts are not inductive alone: a resize or a
  new connection replaces the counters, and that loses nothing only if there was
  nothing left in them. `Inv` therefore says what each phase leaves behind: outside
  a session no thread, no pending share and a new SessionState; before
  `start_workers` and after the join no thread; counters never collected beyond
  what was hashed; ids handed out upwards, so a new share's id is not pending.
  From it follow the accounts, `WorkersHoldSpace` and `ShownIsSo`, and with
  `TaskInv` (a polled task is shown stopped exactly when it has ended) that the
  session implements `RigTask`.
- `Machines_proofs`, of a peer. The base is that only the holder of the lock is at an attempt
  (`HolderOnly`); so a step at an attempt moves one thread, and the others' lines
  stay as they are. `Inv` says what is in a line at each place of an attempt: nothing
  before the request is written, then the thread's own exchange, at one end or the
  other; and that the connection kept is the one in use or has nothing in it, which
  holds because a failed exchange drops its connection. `CheckIsFresh` needs to be
  said earlier than at the answer: every attempt from the moment the check takes the
  lock began after it was asked for, and the last one recorded did.
  `CommandsRunTwiceAtMost` counts, for each command, the times it was executed, the
  requests on their way and the attempts the thread may still make: together never more
  than two, since a reply comes only after the command ran and ends the exchange.
  `StateInv` is about what is recorded of the peer: it is left alone only after failures on
  record, no longer than the backoff they call for. That the backoff grows with the
  failures and stays in its range (`BackoffIsBounded`) needs powers of two, of which the
  provers know nothing; they are taken for the number of subsets of 1..n.
- `Machines_proofs`, of the dashboard. A filtered list has all the wanted rows and no
  others because ranks enumerate positions (`RanksEnumerate`, `FilteredWell`). `DashInv`
  has the linked machines among the peers, the snapshot's lists made of rows, every
  selection in its list (`Chosen`), and, through all refreshes and edits until it is
  confirmed, the request of a dialog made for its row's owner (`ForOwner`). From it
  `SelectionIsThere` follows for any machines and rows. Where a request then goes is a matter of
  names: `KeysReachNamesake` says that it is the owner, or the hub if the owner is called
  like the hub or "local". `KeysReachOwner` follows for peers with names of their own; that
  is a hypothesis of `KeysAlwaysReachOwner` and not of the module, since nothing refuses
  such a peer (`daemon.rs:705`).
- `ConfigStore_proofs`. Every command and every request comes down to one edit of the
  configuration it began with (`CommandIsOneEdit`, `RequestIsOneEdit`), written by
  `Save`, by `Mutate`, or beside `Untold`. So the invariant, TypeOK with
  OnlySoundIsApplied and SeenIsApplied, is a matter of those three, for all sets of names
  and coins and all files written by hand; it needs all three parts at once, because
  what a request writes is sound only if it is a configuration, and what is applied is
  what the file says only if it loaded. `NoEditIsLost` adds that one edit alters one
  entry. `CommandsKeepLoading` goes rig by rig: one that has a url of its own and known
  algorithms (`Fit`) has targets left and is accepted whether or not it expands, which no
  command undoes.
- `DaemonLifecycle_proofs`. `ReachableWhileUp` rests on who may clear the socket's path:
  a command or a starting daemon that found nobody there, one at a time. `OneStarter`
  says that between the look and the bind there is one such, and no daemon is bound
  while it clears; then the daemon that is up is the one at the path, for any number of
  users and processes and wherever they are killed, under ~`Overlaps`.
- `EndpointMonitor_proofs`. An edit takes its runtime from the list, or makes one, and
  only then puts it in place; `EditApplies` says that what it holds is still what is
  wanted by then, and that with the same url it is the same runtime, which no check that
  starts or ends between disturbs. `UsedGrow` says of every step that a runtime somebody
  still has keeps its entry and loses no count. `UrlIsApplied` and `HistorySurvives`
  follow, with TypeOK, for any number of checks under way.
- `RigManager_proofs`. All of it for any rigs, coins, plans, slots and number of
  requests, and for every interleaving. `RigsAreTyped` comes first; its lemmas say of
  each step from where to where it takes its slot and what it leaves alone, and it needs
  that a division gives every session at least one thread (`AllottedTyped`).
  `NothingLiveForgotten` is not inductive: whether a start may replace a session was
  decided some steps before. `KeptInv` adds that what a start is about to replace and had
  seen polled has ended or is to stop, which nothing undoes (`Looked`); that only the
  start that made a session spawns it, each its own (`Making`, `Apart`); that what lives
  and was not overtaken is in the map (`LiveIsMapped`); and that what is in the map is
  in the order, or about to be put there (`MappedIsListed`). Most steps touch none of
  these (`Harmless`). `RunningIsKept` is the part of `prune_stale_rigs`'s comment that
  does hold: what runs and was not told to stop leaves the map in no interleaving.
  `ThreadsAreShared` (`FairShares`) is about the time between a change and the division
  that follows it. `FairInv` says who owes one (`Owes`): a slot that has started a session
  or changed the configuration, and the newest rebalancing until it has stored its
  counts; while nobody does, one division explains the threads of all that run
  (`Shares`), and what the newest weighed covers all that live or are owed by somebody
  else (`Covers`). How much the shares add up to (`SharesFit`) is an induction over
  finite sets, taken as a least counterexample, with `FiniteAssumption` on rigs and coins;
  `Total` counts the units of a sum instead of folding it for this reason.

Every invariant and action property that the passing runs check is proved. With TLC alone
stay the liveness properties, since neither fairness nor ENABLED is in this prover's
reach, and whatever the runs in which a violation is expected show.

## 6. Not modelled, and plan

Hashing, 256-bit targets, TLS, addresses and hardware samples are data or library calls
without control of their own. The drawing of the dashboard (`views.rs`, `widgets.rs`) is
layout. The log ring and the statistics of a rig are each a bounded buffer behind one
lock, of which nothing else in the program depends; `endpoints.rs` status(), which reads
two counters apart, has no statement to check it against.

Still worth modelling, in order: the merged snapshot of several machines (how old a
peer's rows may be, and that nothing is counted twice in a mesh); editing inside a field
of a form (bytes with a cursor on a character's boundary); history and smoothing of a
rig's statistics.
