# lemond: a TLA+ verification project

lemond is a Linux daemon, run as root, that keeps a desktop responsive. It gives
the window system real-time scheduling, boosts the application in the
foreground, pushes compilers to idle priority, kills the largest process when
memory pressure lasts, and changes a handful of kernel parameters. When it is
stopped it tries to put everything back.

The project holds TLA+ models of its parts, TLC configurations that check them
on small instances, and TLAPS proofs of some of the results for every size.
All line numbers refer to `src/src/` unless a path is given.

## 1. Inventory

| Part | Where | State it keeps | Operations |
|---|---|---|---|
| socket thread | `main.rs:296-345` | reads and writes `State` (foreground pid, client pid) | receive, parse, store, update the new and the old foreground process |
| monitor thread | `main.rs:542-572`, `procmon/` | netlink socket, its queue in the kernel | subscribe, populate once, receive an event, insert or remove a cache entry, update |
| refresh thread | `main.rs:573-585` | none | populate, update all, sleep 5 s |
| signal thread, `cleanup` | `main.rs:520-541, 347-363` | `running`, remembered tweaks | wait, revert tweaks, clear `running`, barrier, cleanup, clear, `exit(0)` |
| out-of-memory killer | `main.rs:586-673`, `oom.rs` | last PSI totals, PSI trigger | read, wait, measure, choose, kill until gone |
| memory watchdog | `main.rs:679-693` | none | `abort()` above 1 GB |
| process cache | `main.rs:60, 697-706` | pid -> handle or `None` | populate, insert, remove, clear |
| process handles | `proc.rs:27-256` | directory descriptor, pidfd, parent pid, executable | `from_pid`, use through the descriptors |
| ancestry | `main.rs:62-72, 250-288` | none | `parents`, `is_child_of`, `is_critical` |
| policy | `main.rs:105-248, 714-767`, `config.rs` | attributes in the kernel | `set_realtime`, `set_boosted`, `set_normal`, `set_low_priority` |
| kernel tweaks | `main.rs:379-477` | the parameters; previous values | apply, revert |
| threads of a process | `main.rs:163-235`, `proc.rs:93-96` | nice value, policy, autogroup, rlimits in the kernel | list them, change each by its number, stop at the first error |
| client | `bin/client.rs`, `lib.rs:8-26`, `main.rs:296-312` | a connection | every 250 ms: say who it is and what is in the foreground |
| pre-suspend | `bin/pre-suspend.rs`, `lib.rs:28-47` | a barrier, each thread's share of memory | before a suspend: take as much memory as the graphics cards hold, and give it back |
| zram writeback, memory locking, autosuspend, trace, diagnostics | `zram_util.rs`, `bin/`, `proc.rs`, ... | little | switched off in `config.rs`, or experiments |

**How they interact.** Four threads share `State` and the process cache, each
behind its own mutex; whoever takes both takes the state first. They also share
the atomic `running`. The client talks to the socket thread by datagrams. The
kernel talks to the monitor by proc-connector events, and to everybody through
`/proc`, which changes between any two system calls. The killer takes the cache
alone.

**What is hard.**

* Threads test `running` before they lock, cleanup starts after it is cleared.
* Cached handles are read at different times and pids come back: a handle, its
  parent pid and a queued event may each speak of another process.
* The proc connector drops events when its buffer is full, and the daemon does
  not notice.
* A parent pid is read once, with the handle: when the parent dies, nothing tells
  the cache who has adopted its children.
* One failing system call among many, with `?` after it: `cleanup`, `set_all`,
  `kernel_tweaks` and `process_message` all return early.
* Threads of an application are cloned, end and have their numbers recycled
  while a loop over them runs.
* Either side of the socket may end and come back while the other is connected.
* A panic in any thread ends the process (`panic = 'abort'`), nothing is put
  back, and the next start finds what was left.

**What makes each part correct.** Handles: descriptor and pidfd are one
process. Cache: a wrong entry is on its way to being corrected if the kernel
said anything about it, a right one is not lost. Ancestry: the answer is the ancestor relation, and there is one.
Threads: updates are serialised, nobody waits for ever. Policy: every process
whose place in the tree the daemon was able to learn ends up with the attributes
that place calls for, all its threads with the same. Client: news never goes backwards, and arrives in the end.
Pre-suspend: nobody gives memory back before everybody has it. Shutdown: it
finishes, and puts back what it says. Tweaks: no parameter ever has a stranger's
value. Killer: one victim at a time, critical ones spared, pressure answered.

`PROJECT.json` lists the hazards line by line with the properties that cover
each.

## 2. The modules

| Module | Models | State |
|---|---|---|
| `ProcessTable` | the kernel's processes: fork, exec, exit, adoption by pid 1, reaping, recycling of pids | `kern` |
| `ProcessHandle` | `from_pid` call by call, signals through the pidfd | `step`, `hd`, `killed` |
| `ProcessCache` | the cache, its two writers, exit events of processes and of single threads, the event queue with loss | `cache`, `owner`, `queue`, `ev`, ... |
| `Ancestry` | `parents` ... `is_critical` as functions of a cache | none |
| `ParentWalk` | the same as loops, one iteration per step | `cur`, `result`, `seen`, `at` |
| `SchedAttr` | the attributes of a thread, `set_scheduler`, what a child inherits | none |
| `Policy` | `update_single_process` and the `set_*` functions on a process's attributes | none |
| `SetAll` | `set_all` and the `set_*` functions call by call on every thread, in sweeps, for messages and in cleanup | `task`, `group`, `todo`, `cur`, `list`, `tid`, `step`, ... |
| `Daemon` | the four threads, the mutexes, `running`, cleanup, exit, crash and restart; processes that fork, exec, exit and are adopted, an event queue with loss | `pc`, `state`, `cache`, `stateOwner`, `proc`, `events`, ... |
| `LockProtocol` | what the threads promise about the mutexes | `stateOwner`, `cacheOwner`, `up` |
| `Client` | the client's loop, the socket's file, permissions and queue, the socket thread; either side ends and is started again | `cpc`, `conn`, `dpc`, `file`, `queue`, `state`, ... |
| `ForegroundReport` | what the daemon may believe about the foreground | `trail`, `known`, `place` |
| `KernelTweaks` | apply and revert with every failure, abort, restart | `sys`, `prev`, `saved`, ... |
| `OomKiller` | the killer's loop, PSI, the scan, the kill | `pc`, `best`, `target`, ... |
| `PreSuspend` | the release test, the threads, their shares and the barrier | `pc`, `inside`, `open`, `total` |
| `*Proofs` | the theorems | |
| `MC*` | values of the constants for TLC | |

`ProcessHandle`, `ProcessCache` and `OomKiller` extend `ProcessTable`. `Daemon`
extends `Policy`, which extends `Ancestry` and `SchedAttr`; `SetAll` extends
`SchedAttr`. `ParentWalk` extends `Ancestry` and justifies its closed forms
(`ClosedFormIsLoop`); its proofs are in `ProcessCacheProofs`, with those of the
tables it runs on. `Daemon` implements `LockProtocol` (`LockDiscipline`, with
`INSTANCE ... WITH up <- (phase = "up")`), `Client` implements `ForegroundReport`
(`NeverBackwards`, with `known <- state.fg`).

**Correspondence.** An action is one step no other thread can see the inside of:
from one lock to the next, or one system call where other processes matter. The
place of each thread is a label in `pc`. A guard bound to a temporary
(`&process_cache.lock().unwrap()` as an argument) whose call is a single step
is not held between steps, so its lock is only tested; a guard with a name is
an owner. `history` variables (`late`, `enteredUp`, `cleanErr`, `unseen`,
`lost`, `refused`, `gaveUp`, `killed`, `orig`; `failed`, `unlisted`, `snap` and
`reborn` in `SetAll`; `trail`, `place`, `heard` and `source` in `Client`) are read by properties
and never by a guard.

**Levels.** `from_pid` is four steps in `ProcessHandle` and one step elsewhere;
`HandleOneProcess` is what makes that sound for the identity of the process.
`populate_process_cache` is one step per pid in `ProcessCache`, with recycling,
and one step in `Daemon`, where a pid has one process. Both have adoption by
pid 1 and a queue that drops what it has no room for.
`ParentWalk` takes the loops of `Ancestry` apart, and `SetAll` the single update
of `Policy`: there a process is one thread, in `SetAll` it has several, and the
class each process belongs to is given. That is sound because the updates are
serialised by the state's mutex (`MutexOK`) and `set_all` reads nothing but the
list of threads. `Client` has the socket thread's storing of a message, `Daemon`
what it then does to the processes.

## 3. The runs

| Run | Instance | Shows |
|---|---|---|
| `handle` | 2 callers, 2 pids, 3 incarnations each | `HandleOneProcess`, `KillHitsProcessRead`: the order directory, pidfd, files closes the recycling race |
| `parent_walk` | every cache of 3 pids, every handle, every predicate | `AnswerIsAncestry`, `ClosedFormIsLoop`, `AnswersUnlessCyclic` |
| `shutdown` | 3 pids; one message, fork, exit, signal | `MutexOK`, `SweepSeesItsCache`, `BarrierHolds`, `OneLateSectionEach`, `CleanupRestores` |
| `live` | 3 pids, queue of 1; ten mixes of two or three messages, forks, execs (to a critical shell excluded from real time, or to a compiler), exits, signals and crashes | `SignalLeadsToExit`, `LockDiscipline`, `Converges` |
| `vanish` | 2 pids; message, exit, signal | violation of `ExitRestoresOthers` |
| `late_update` | 2 pids; message, exit, signal | violation of `ExitRestoresForGood` |
| `cache` | 3 pids, queue of 2; a pid used three times with execs, a thread with a pid's number, a family of three | `StaleIsAnnounced`, `LiveEntryKept`, `NoCycleWithoutRecycling`, `Settles` |
| `set_all` | an application of 2 threads and another process, 4 numbers; clone, 2 ends, a call, a listing or an rlimit refused, a change of foreground, a signal | `PassIsComplete`, `CleanupSetsThreads`, `StrangersOnlyByRecycling`, `Settles` |
| `client` | 2 windows, queue of 3; 2 changes, a silent window system, 2 ends of the daemon, one of the client | `ClientKnownFirst`, `NeverBackwards`, `Learned` |
| `pre_suspend` | 4 threads, pages of 4 bytes, five totals, releases around 6.14 | `AllBeforeAny`, `Ends` |
| `tweaks` | 4 parameters, one a menu; 2 faults, 3 starts | `OwnOrTweak`, `ExitRestoresTweaks` |
| `oom` | 3 pids, 2 incarnations, the daemon one of them | `OneVictimAtATime`, `CriticalSpared`, `PressureIsAnswered` |

Each run also has the type invariant of its module where it states one.

**Bounds.** Every environment action that could go on for ever has a bound
(`Budget` and `Budgets`, one number per kind of event; `MaxInc`, `MaxQueue`,
`MaxFaults`, `MaxStarts`, `MaxCollected`); the threads' own steps have none.
Where all kinds of event together would be too many, `Budgets` is a set and
a run starts with any of its members: `live` and `cache` are several small
instances in one. The bounds are chosen so that the cases of interest happen. A
recycled pid needs two incarnations, and a third for an event that outlives two;
an overflow needs one event more than the queue; a cycle needs an adopted
orphan, its parent and one pid between. An exit event that is not the
process's needs a thread whose number becomes a pid. A stranger hit by `set_all`
needs a number freed and handed out within one loop, hence one clone and one
end, and a leader that ends before its threads a second end. The client needs
two ends of the daemon for a socket that is left stale twice, and one change of
the foreground on either side of each. A retried shutdown needs two starts. In
`Daemon`'s 3-pid tree the root is pid 1, which is critical, the second an
application, the third forked from it. `live` takes the kinds of event two or
three at a time, because all at once would be too many: a message about a
process that is not forked yet, or that exits before it is looked up
(`main.rs:330`); two execs for a queue of one, so that the second may be lost;
a fork and an exit of the parent, before and after an exec of the child, for
adoption; a signal while the monitor handles an exec or an exit; a crash with
attributes left behind. The descendants of an orphan would need a fourth pid and
are not in the run. Without the condition `Informed`, or with either of its two
exceptions left out, TLC finds `Converges` violated, so both do happen. Queues
that outlast the run and larger populations are not explored; the proofs are not
bound by either.

**Fairness.** In `Daemon`, `WF` on the refresh and signal threads: a thread that
can run is run. `SF` on the socket and monitor threads: they compete for mutexes
that futexes do not hand out in order, but the refresh thread, the only one that
takes them without being asked, sleeps 5 s after each sweep (`main.rs:583`)
while the waiting thread, woken by the unlock, runs. The same in `ProcessCache`.
In `SetAll` the sweeps run on, and cleanup to its end. In `Client` the client's
loop and the socket thread run; nobody has to start the daemon, so `Learned`
speaks of one that stays up. In `PreSuspend` each thread and main run. Messages,
forks, execs, clones, exits, refused calls, crashes, signals and restarts are
never forced. In `OomKiller`, `Wait` is only forced under pressure, and `GiveUp`
is strongly fair because time passes (`main.rs:666`).

## 4. What was found

* `vanish`: `cleanup` stops at the first process that has exited since it was
  listed (`?` at `main.rs:359`); the others keep their attributes, although the
  daemon has printed "exiting, setting processes back to normal".
* `late_update`: a thread that has read `running` before it was cleared updates
  processes after cleanup has put them back. The barrier (`main.rs:530`) waits
  for updates that are in progress (`BarrierHolds`) and not for those;
  `OneLateSectionEach` bounds the damage to one section per thread.

Worth knowing, though no document says otherwise: executables in
`EXCLUDE_REALTIME` keep nice -20 after exit (`main.rs:218`); the daemon is among
its own killer's candidates (`main.rs:623`); an aborted daemon takes its own
tweaks for the original values when it starts again (`main.rs:504`); a process
whose leader has ended while its threads live on is out of the sweeps' reach,
because its `exe` cannot be read (`proc.rs:241`, `SetAll`); a process whose
threads cannot be listed is passed over, and cleanup reports success
(`main.rs:232`, `unlisted` in `SetAll`).

Three kinds of cache entry stay wrong for good, because `populate` never reads
one again (`main.rs:701`), and what is decided from them with them: that of a
process that exec'd after it was cached and before the monitor subscribed; that
of one whose exec event the kernel dropped (`procmon.c:94`); and that of an
orphan, which names its dead parent, so that `is_child_of` no longer finds pid 1
above it and no sweep updates it: what was boosted stays boosted. An exec that is
announced repairs each of them. `unseen`, in `Daemon` and in `ProcessCache`, is
the set of these processes. `StaleIsAnnounced` and `Settles` (in `ProcessCache`,
where an entry is current only if process, executable and parent are right) and
`Converges` except them, and nothing else.

## 5. What is proved

TLAPS checks the following for every value of the constants that satisfies the
named assumptions.

* **`KillProofs`**, whom a signal reaches (from `InitPidAssumption`,
  `MaxIncAssumption`, and `OomKiller`'s assumptions on its constants).
  `HandleOneProcess` is not inductive: it says nothing about a half-made handle.
  `HInv` adds, for each place of a call, what is known of the numbers read so
  far: the directory's incarnation is not younger than the table's, and once
  `status` has been read through it after the pidfd was opened, the pid cannot
  have changed hands in between, since incarnation numbers only grow
  (`TableStep`). `KillHitsProcessRead` follows for finished handles. The killer's
  `OneVictimAtATime` needs that no handle in the cache, and so no victim, is
  younger than the process that has its pid (`NotAhead`): a victim that has
  been reaped cannot come back under its old incarnation. `CriticalSpared` needs
  that the best candidate so far has passed the filter (`Chosen`), with the
  executable its handle shows.
* **`ProcessCacheProofs`**. `StaleIsAnnounced` needs that the monitor handles no
  event unless it has one, and that for each pid an entry is current, or
  pending, or unseen: `SInv`. The only step that takes an event away
  (`MonHandle`) either reads the entry anew, which makes it current
  (`FromPidCurrent`), or removes it; and what the kernel changes of a process that
  has an entry, its parent included, is posted or put into `unseen`. `LiveEntryKept` rests on two more facts.
  `KInv`: a running process that is missing from the list of pids a populating
  thread works from has at most the entry of an earlier one (`ListIsFull`),
  because the list was made under the lock (`OwnerIsFilling`) and no entry is
  younger than its process (`NoneYounger`); so populate drops nothing that
  lives. `ExitsArePast`: an exit event is older
  than the process that now has its number. `NoCycleWithoutRecycling` needs a
  ranking of the pids (`RInv`): each pid used once can be given a number above
  that of its parent in the kernel and above that of its parent in the cache,
  pid 1 apart. A fork puts a new pid on top of its parent, nothing is below it
  yet (`Born`); an exit hands its children to pid 1, which only removes
  constraints; a cached edge was the kernel's when it was read. On a cycle the
  numbers would descend for ever.
* **`ProcessCacheProofs`**, the loops of `ParentWalk` (from `WalkPidAssumption`:
  the table has finitely many pids). `ClimbSteps` shows that the recursive function of `Climb`
  exists and satisfies its equation. `WInv`: what has been collected is the
  chain of parents up to `cur` (`ChainOK`), every set closed under taking parents
  holds it (`ChainIsLeast`), and at each place what has been tested was not
  sought (`PlaceOK`). When the climb is over the chain is itself closed, so it
  is the least closed set (`CollectedAll`): that is `AnswersRight`, on cyclic
  tables too. `ClosedFormRight` needs that nothing is collected twice
  (`CollectedOnce`), hence no more than the table holds (`CollectedFits`), and
  that loop and closed form go the same way (`LoopIsClimb`). `ClimbsAreShort` is
  the safety half of `AnswersUnlessCyclic`. `ClimbsEnd` puts both models
  together, for finitely many pids (there are `pid_max`): an endless climb meets a
  cycle (`EndlessClimb`, by the pigeonhole principle), and in `ProcessCache` that
  takes a recycled pid.
* **`DaemonProofs`**. `LInv` joins `MutexOK`, `BarrierHolds` and two facts about
  the signal thread's place: `running` is set until it has passed `stop`, and a
  late thread cannot be at a place from which it could lock the state again.
  `MutexOK` and `BarrierHolds` are conjuncts; `OneLateSectionEach` follows from
  the last. `LocksImplement` maps each step of `Daemon` to a step of
  `LockProtocol` or to a stutter, using `MutexOK` for who has what.
  `SweepSeesItsCache` follows from who has the cache while it changes.
  `CleanupRestores` needs `CInv`: whoever has the state and came after `running`
  was cleared is in `late`; so while nobody is, no update runs during cleanup
  (`NobodyInside`), and every process that is due is still listed or normal.
  What was listed is never unborn, so no fork can put anything in its place.
* **`SetAllProofs`**. `IInv` says whose each number is (`Owned`), that only
  processes with a class are swept (`Swept`), that the calls of a class come in
  its order (`StepFits`), that a list has no strangers but recycled numbers
  (`OwnList`), and how far each thread has come: one that is neither recycled
  nor still to come has the whole setting, and the present one as much of it as
  its place says (`Progress`). `PassIsComplete` is `Progress` at the end of
  the list, `StrangersOnlyByRecycling` follows from `OwnList`, and `PutBack`
  carries what cleanup has done to the exit for `CleanupSetsThreads`. The
  last two make one exception, a process whose listing failed (`unlisted`).
* **`ClientProofs`**. `Connection` ties the client's place to the daemon it is
  connected to. `AnnouncedFirst`: before every foreground pid in the queue, or
  heard already, is the pid of the client that sent it; `ClientKnownFirst`
  follows. `InOrder`: the places in `trail` of what the daemon knows, what is
  queued and what the client is about to send do not decrease, and each is what
  was there. With it every step of `Client` is one of `ForegroundReport` or
  a stutter, and `Implements` is the whole of `NeverBackwards`.
* **`PreSuspendProofs`**. `SharesSuffice` is arithmetic: total / n rounded up to
  pages, n times, is at least a total of whole pages, for n up to the bytes of
  a page. `Barrier`: while the barrier is closed nobody is past it, and those
  inside are those who wait; once it is open nobody is before it.
  `AllBeforeAny` follows from both.
* **`KernelTweaksProofs`**. `OwnOrTweak` needs that what is remembered would do no
  harm either (`NoHarm`), and that there is an entry per pair (`Pairs`).
  `ExitRestoresTweaks` needs `Undisturbed`: as long as nothing was lost, each
  parameter is as it was or will be once its entry is written back, before and
  after the place the loop has come to.

No theorem takes anything on trust; the assumptions on the constants are
evaluated by TLC in every run.

**Only model-checked.** Everything under fairness: `SignalLeadsToExit`,
`Converges`, both `Settles`, `Learned`, `Ends`, `PressureIsAnswered`,
`AnswersUnlessCyclic` (but for its safety half), the fairness half of
`LockDiscipline`; liveness and `ENABLED` are out of the prover's reach. Every
other property of a passing run is a theorem. The library's induction rules
cannot be instantiated by the provers here; where a proof needs induction over
numbers it goes through the least element of a set (`LeastNumber`, `UpTo`,
`Iterates`), which is proved from the well-foundedness of finite sets.

## 6. What is not modelled

* **zram writeback** (`zram_util.rs`): its thread is not started, because
  `ENABLE_ZRAM_WRITEBACK` is false in `config.rs`.
* **Memory locking** (`proc.rs`: `lock_executable`, `gdb_lock_all`, ...): switched
  off in `config.rs` likewise; system calls without state of the daemon's.
* **autosuspend, trace**: data types for another program's output; their only
  call in the daemon is commented out (`main.rs:581`).
* **Diagnostic programs** under `bin/`: experiments and measurements.
* Priorities within SCHED_FIFO and the utilisation hints: nothing reads them
  back.
* The watchdog's measurement: what it does is `Crash`.
* The killer's lock of the cache in `Daemon` (it takes nothing else while it has
  it, so it only delays the others: `SignalLeadsToExit` takes it to be short),
  and `running` in `OomKiller`.
* A leader that exits before its threads in `ProcessCache` (`SetAll` has it), and
  recycled pids in `Daemon` (`ProcessCache` has them).
* The layout of proc-connector and netlink messages.
* Processes that share an autogroup: `SetAll` gives each its own. The four
  `prlimit64` calls for a thread are one step there, refused or not as a whole.
* Whether `madvise` finds the memory it is asked for (`lib.rs:40` ignores the
  answer).
* A poisoned mutex: with `panic = 'abort'` there is none in the release build.

## 7. Plan

Done, in this order: `ProcessTable`, `ProcessHandle`, `Ancestry`, `Policy`,
`ParentWalk`, `Daemon` with `LockProtocol`, `ProcessCache`, `KernelTweaks`,
`OomKiller`, and the first proofs; then `SetAll` with `SchedAttr`, exit events of
threads in `ProcessCache`, `Client` with `ForegroundReport`, `PreSuspend`, and
the proofs of `LiveEntryKept`, of `SetAll`, `Client` and `PreSuspend`, of `KernelTweaks` and of
`Daemon`'s types and cleanup, of `OomKiller`'s safety, of
`NoCycleWithoutRecycling` and of `ParentWalk`. Left:

1. An abstract `Replica` that `ProcessCache` implements: each pid's entry lags
   its process by at most what is queued; and to which stranger an orphan is
   attributed when its dead parent's pid is recycled.
2. The killer as a fifth thread of `Daemon`.
3. `SetAll`'s class of a process tied to `Policy`'s decision instead of given.

To repeat a run: `tlc -config MCDaemonShutdown.cfg MCDaemon.tla`, with the
community modules on the path; a proof: `tlapm DaemonProofs.tla`.
