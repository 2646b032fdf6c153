# Verification of aegis-sandbox

TLA+ specifications of aegis-sandbox, checked with TLC on small instances and,
for safety and refinement, proved with TLAPS for every value of the constants.
Line numbers refer to the repository; `PROJECT.json` maps each definition to
the lines it models.

## The system

`SandboxManager` (`src/runtime/sandbox_manager.cpp`) is the centre. A caller
creates a sandbox, executes code in it and terminates it. To create one, the
manager makes a runtime directory, asks the `CgroupManager` for a cgroup, opens
a TAP interface, forks Firecracker, waits up to 500 ms for its API socket,
attaches the process to the cgroup, boots the guest with HTTP PUTs (or restores
a snapshot), and pushes the policy of the `PolicyEngine` into BPF maps through
the `EBPFLoader`. `execute_code` talks to the guest agent over a socket. Three
BPF programs read the maps in the kernel and report to ring buffers, which a
`RingBufferReader` can consume. `aegis-cli` drives one manager per process.

| Part | Source | Modelled by |
| --- | --- | --- |
| Sandbox manager | `src/runtime/sandbox_manager.cpp` | `SandboxManager` |
| What its calls do to a sandbox | the same, and the states in `aegis.hpp` | `SandboxLifecycle` (abstract) |
| Child processes, sockets, TAPs, directories | the system calls of the manager | `Firecracker` (external) |
| Cgroup manager | `src/runtime/cgroup_manager.cpp` | `CgroupManager` |
| eBPF loader | `src/ebpf/ebpf_loader.cpp` | `EbpfLoader` |
| Kernel programs | `ebpf/*.bpf.c` | `KernelFilters` |
| Policy engine | `src/policy/policy_engine.cpp` | `PolicyEngine` |
| A policy's way into the kernel | `apply_ebpf_policies` and the four above | `Enforcement` (composition) |
| Ring buffer reader | `src/ebpf/ring_buffer_reader.cpp` | `RingBufferReader` |
| Guest agent and `execute_code` | `guest/cmd/agent/main.go`, the manager | `GuestAgent` |
| Command line tool | `cmd/aegis-cli/main.cpp` | `Cli` |

What is left out is under "Not modelled".

## Modules

- `Host` declares the constants that the components share.
- `CgroupManager` has the map of entries (`m_cgroups`), the open directory
  descriptors, and the part of cgroupfs that matters: the inode under each name
  and the cgroup of each process. A method holds its mutex throughout, so it is
  one step. Creating a directory, writing a limit and removing a directory can
  fail. A directory with a live process in it cannot be removed.
- `EbpfLoader` has the loader's pointer, flags and links, and the kernel's view:
  the objects still loaded, each with maps of its own. Loading again overwrites
  the pointer, as the code does. A hash map takes a new key only below
  `MaxMonitored`. A call that fails without changing anything is a stuttering
  step, so it has no action. The vector of links is a set.
- `Firecracker` is what the manager sees of the operating system. A process is
  starting, listening, running, dying, a zombie, or free. It binds its socket,
  and may exit at any moment. TUNSETIFF is refused while any process has the
  interface open.
- `SandboxManager` composes these three. Each thread has a step `pc[t]` and a
  `frame[t]` of locals. A public method takes `m_mutex`, and its body is split
  wherever a process can act between two system calls.
- `SandboxManagerInvariant` is the inductive invariant and the refinement
  mapping `LifeOf` to `SandboxLifecycle`.
- `PolicyEngine` has the registered policies. A policy file is a record of what
  the regular expressions find in it: a flag is true, false or absent, and a
  list is written in brackets or as a block of `-` lines. A block matches no
  expression, and a name outside the table is dropped.
- `KernelFilters` gives, for each of the three programs, the decision on one
  call of a process: whether it is stopped, and whether an event was reserved.
- `Enforcement` composes engine, loader, programs and `apply_ebpf_policies`.
- `GuestAgent` has one goroutine per connection, the files in `/tmp`, the clock
  that names them, and the host's `execute_code` as one of the peers.
- `RingBufferReader` has the members of the reader, its callers, the polling
  threads, and libbpf's consumer (external): producer and consumer positions of
  each map, and the position a poll in progress has read.
- `Cli` has `main` and the handlers of SIGINT and SIGTERM, which run on the same
  thread, on top of an abstraction of the manager's calls.
- The `MC*` modules instantiate the models for TLC; the eight `*Proofs` modules
  hold the theorems.

### How the code becomes steps

| Code | Steps |
| --- | --- |
| `create_sandbox` 89-168 | `create_sandbox` (lock), `LookupForCreate`, `CreateCgroup`, `setup_tap_interface`, `spawn_firecracker_process`, `PollSocket`, `AttachPid`, `SendPut` (one per PUT), `apply_ebpf_policies`, `Register` |
| its error exits 117-137 | the failing disjunct of each step, with `Unwind` |
| its exits by an exception 143, 171, 172, 208: `exists` and `remove` of `std::filesystem` without an error code | `Throw` in the step that makes the call |
| its error exits 149-158 | step `"relock"`: no further step exists |
| `execute_code` 327-368 | `LookupForExecute`, `SendToAgent`, `AgentReply`; in `GuestAgent` `HostCalls`, `HostReads` |
| `terminate_sandbox`, `terminate_all` 370-436 | `LookupForTeardown`, `KillProcess`, `ReapProcess`, `ReleaseSandbox` |
| `apply_ebpf_policies` 299-324, one locked call at a time | in `Enforcement`: `MonitorCgroup`, `FetchPolicy`, `PushSyscall` (one per number), `PushEgress` |
| `handleConnection` | `Decode`, `NameScript`, `OpenScript`, `FillScript`, `StartPython`, `RunReturns`, `SendResponse`, `CloseConn`; python3 and its timer: `PythonEnds`, `Deadline`, `PipesClose` |
| `start_polling` | `start_polling`, `MakeThread`, `AssignThread` |
| `stop_polling` and the destructor | `stop_polling` or `Destroy`, `TestJoinable`, `Join`, `FreeRingBuf`, `DestroyMembers` |
| `poll` and the polling loop | `poll` or `LoopTest` (the test of `m_ring_buf`), `ring_buffer__poll` (its use), `TakeSample`, `StorePosition`, `PollReturns` |
| the user's callback | returns (`StorePosition`), throws (`CallbackThrows`) or calls `stop_polling` (`CallbackStops`) |
| `main` of the CLI | `Start`, `CallManager`, `Boot`, `ApplyAndRegister`, `Lookup`, `GetMetadata`, `Unpublish`, `Destroy`, `Wipe`, `Leave` |
| `signal_handler` | `Deliver`, `TestPointer`, `HandlerLocks`, `HandlerWipes`, `HandlerExits` |

Decisions a reader should know:

- Locking a `std::mutex` that the thread already holds is undefined; the Linux
  implementation blocks, so the thread takes no further step.
- `/dev/net/tun` is opened without `O_CLOEXEC`, so a forked child has every TAP
  descriptor the manager has open at that moment.
- The poll loop for the API socket is one step that ends with either result at
  any moment, since 500 ms may or may not be enough.
- A failed `create_directories` for the runtime directory is modelled, because
  the code ignores it. Removing that directory is taken to succeed.
- An exception leaves `create_sandbox` with everything it has acquired still
  held and no entry made. `thrown` is a history variable: the ids this has
  happened to. `create_cgroup` refuses a later attempt with such an id, whose
  entry is still there.
- `swept` is a history variable as well: `terminate_all` has been called. It
  does not take back the marks of the monitored map, as `terminate_sandbox` does.
- The `read` of the answer to a PUT has no timeout, so a PUT that a living
  Firecracker has taken may wait for ever.
- An empty id returns as early as a registered one, so ids are never empty here.
- `SandboxManager` takes the policies as a constant (`PolicyTable`) and the
  loader with its object already loaded (`LoadedFile`). `Enforcement` drops both
  restrictions: other threads load objects, detach them and register policies
  between any two calls of `apply_ebpf_policies`. In exchange, its boot and
  teardown are one step each. `box[id].obj` and `box[id].blocked` are history
  variables: which object took the whole policy, and what the policy blocked.
- A process with a blocked call leaves `inside`: it is killed.
- `process_monitor.bpf.c` reads a flag of an event that it has submitted, so the
  value it acts on is a free choice.
- `Decode` tells three inputs apart: a request, a text the decoder rejects, and
  the beginning of a JSON value, for which it waits. The host sends the code as
  it is, not as an `ExecutionRequest`, so its own call can be any of the three.
- `cmd.Run` returns only when python3 has ended and its output pipes are closed;
  a grandchild may keep them. Its error, and so the response, also depends on
  whether the deadline has passed by the time the handler looks at it.
- In the reader a thread creation may fail: `std::thread` throws with
  `m_is_polling` already true. Assigning over or destroying a joinable
  `std::thread`, joining one that is gone or oneself, an exception that leaves
  the polling thread, or replacing the callback under a running poll is
  `aborted`. `poll` reads `m_ring_buf` twice without the lock: the use may find
  what the test found or what `init` has stored since, a null pointer included.
  `overlaps` and `callbacks` are history variables: the pairs of calls that ran
  at the same time although nothing excludes them, and what callbacks did other
  than return.
- A ring buffer manager is freed only by the destructor; `init` drops the
  previous one without freeing it.
- In the CLI, a signal is blocked while its own handler runs; the other one is
  not. On a destroyed manager anything may happen: the call seems to work, ends
  the process, or waits.
- The destructor of the manager is `terminate_all`; that of the cgroup manager
  is `destroy_all`; that of the loader is `detach_all`.
- The limit of the blocked-address map (4096) is left out: the manager only ever
  inserts one address.

## Runs

Passing runs, with the distinct states TLC finds:

| Run | States | Shows |
| --- | --- | --- |
| `manager` | 434,920 | A recorded pid is an unreaped child of that sandbox (`RecordedPidIsOwnChild`); between calls the resources held are those of the map and of the creations that an exception has left (`ResourcesMatchMap`); until `terminate_all` is called, no mark of the monitored map outlives its sandbox (`MarksFollowMap`); a running guest is always known (`RunningGuestIsTracked`); code waits on a guest only while its policy is in the kernel maps, unless the map was full (`ExecutesEnforced`); the inductive invariant (`ManagerInv`) and whose process is bound to a socket (`SocketOwn`); the refinement (`ImplementsLifecycle`); no step takes anything from a sandbox that is not being torn down (`OthersUntouched`). |
| `manager_liveness` | 202,792 | Two ids that share a TAP name take nothing from each other (`ResourcesMatchMap`); an entry's cgroup id is the inode of the directory under its name and of no other entry (`EntryNamesItsDirectory`), and the open descriptors are those of the entries (`NoDescriptorLeak`); every step of a call ends it or goes forward, `terminate_all` with fewer entries left each time round (`CallsGoForward`); a call keeps `m_mutex` for ever in three situations only: after a failed PUT, while a living Firecracker does not answer a PUT, and while the agent is silent (`LockIsReleased`). |
| `enforcement` | 1,739,237 | A system call that an applied policy blocks is killed whatever happens afterwards (`BlockedSyscallIsKilled`); an attached program has a link (`AttachedHasLink`); links and the loader's pointer name open objects (`LinksHaveObject`). |
| `reader` | 705,536 | The process ends only if `start_polling` meets `stop_polling`, `init` meets a poll, or a callback throws or stops the polling (`AbortNeedsCause`); without the first and the last, no poll works on a freed manager (`PolledBufferIsOpen`) and a `join` is one call's wait for a thread that has been told to stop (`JoinedThreadStops`); events arrive once and in order unless two polls overlap or a callback throws (`EachEventOnce`); `stop_polling` returns if the polls of the polling thread end (`StopReturns`). |
| `guest` | 266,546 | python3 runs the code of its own connection unless two handlers read the same nanosecond (`RunsOwnCode`); scripts are removed unless they could not be written (`ScriptsAreWiped`); the response tells how python3 ended, as far as the deadline lets it (`ResponseTellsOutcome`); the agent never closes the host's connection without a response (`EveryCallIsAnswered`); the host's call returns but for two named cases (`HostCallReturns`). |
| `cli` | 1,534 | A command that fails or is interrupted leaves its microVM running only if a signal came during the last teardown (`ExitLeavesNoGuest`); the handler meets a destroyed manager only after an error exit (`DestroyedOnlyOnError`); a handler that waits for the lock waits for what it interrupted (`HandlerWaitsForItself`); a signal ends the process but for three named cases (`SignalEndsProcess`). |

Several of these properties name exceptions. Each exception is a state the code
does reach: it is where the code's guarantee ends, and TLC finds each property
violated when one of its exceptions is left out.

Runs that end in a violation. Each one states what a header or comment says and
finds the code doing otherwise; `PROJECT.json` quotes the line.

| Run | What happens |
| --- | --- |
| `manager_call_returns` | After a failed PUT, `create_sandbox` calls `terminate_sandbox` and locks the mutex it holds. |
| `enforcement_denied` | A system call on no list is denied by `eval_syscall` and executes: only the block list reaches the kernel, and of the network rules only the metadata address. |
| `thread_safe` | An `init` that fails between the test and the use of `m_ring_buf` in a `poll` makes the poll work on a null pointer. |
| `event_kind` | A network event is delivered as a system call event, since both structures have 48 bytes. |
| `exec_exit_code` | `execute_code` returns 0 whenever the agent answered, whatever the exit code in the answer. |
| `cli_commands` | A successful `create` has terminated its sandbox when the process ends; the `exec` and `terminate` of the usage text find none. |

### Bounds

| Run | Instance | Why it is enough |
| --- | --- | --- |
| `manager` | 2 threads, 2 ids, 3 processes, 2 inodes, map of 1 entry, one policy | two sandboxes and an orphan of a timed-out attempt at the same time; the map fills up |
| `manager_liveness` | 2 threads, 2 ids with one TAP name, 2 processes, 2 inodes, no loader | the collision needs two ids, waiting for the lock two threads |
| `manager_call_returns` | 1 id, 2 threads | a second thread waits for the lock |
| `enforcement` | 2 sandboxes, 2 cgroups, 2 loads, ring buffer of 1 event, 2 creates, 1 policy update | an object loaded in the middle of a call, a policy replaced under it, a full ring buffer, a sandbox next to another |
| `enforcement_denied` | the same with a second system call | a call on neither list |
| `reader` | 2 callers, 2 polling threads, 1 map, 2 inits, 1 event | every pair of calls overlaps; a polling thread is started while another waits for its join; one event is enough to be lost or delivered twice |
| `thread_safe` | the same with 2 events | a poll, and an `init` in the middle of it |
| `event_kind` | 1 caller, the three maps, 1 event each | every kind of event |
| `guest` | 2 connections, 2 clock values | two handlers with the same name and with different ones |
| `exec_exit_code` | 1 connection | the host's |
| `cli`, `cli_commands` | none: 5 commands, 2 signals | complete |

The bounds on counters are `MaxLoads`, `MaxCreates`, `MaxUpdates`, `MaxInits`,
`MaxEvents` and `MaxTime`. `MaxMonitored` stands for the 1024 entries of the
map, `RingSize` and `Capacity` for the size of a ring buffer. Runs that check
safety only use symmetry where no property or action tells the elements apart:
threads, processes, ids and inodes in `manager`, ids and cgroups in
`enforcement`. A TAP interface is named by its id for that reason.
Runs with a liveness property use none. The deadlock
check is on in `enforcement`. It is off where the system really can stop: a
thread in `"relock"` holds the mutex for ever, a reader is destroyed, all
connections are closed, the command has exited.

Liveness keeps the instance of `reader` small. Its invariants were also checked
with two events and room for two (4,551,238 states). `destroy_all` of the cgroup
manager and the calls of the loader that take a rule back are not made by the
manager; only the component theorems are about them.

### Fairness

- Manager (`FairSpec`): weak fairness of each thread's own step, of the exit of
  a process that got SIGKILL, and of the failure of a PUT that no living process
  takes. The scheduler and the kernel give these. Nothing is assumed of
  Firecracker and the guest agent: the reads of their answers have no timeout.
  `AnsweringSpec` adds that both answer, so that the violation of `CallReturns`
  is not their fault.
- Reader (`RbFairSpec`): the scheduler runs every thread that is not waiting,
  and a callback that neither throws nor stops the polling returns. No call has
  to be made, and no poll has to end: `ring_buffer__poll` goes on as long as it
  finds events. That polls end is the premise of `StopReturns`, not fairness.
- Guest (`GaFairSpec`): goroutines and the host are scheduled, and the timer of
  the deadline fires. Nothing makes python3 end or a child close its pipes.
- CLI (`CliSpec`): weak fairness of the handler's steps. No signal has to come,
  and `main` may wait for ever for Firecracker or the guest.

## Theorems

All of them hold for every value of the constants that satisfies the named
assumptions. `PROJECT.json` lists them with the property each one is about.

| Module | Theorem | States |
| --- | --- | --- |
| `CgroupManagerProofs` | `CgroupTypeCorrect`, `CgroupManagerCorrect`, `NoLeakedDescriptor` | `CgSpec => []P` for `CgTypeOK`, `EntryNamesItsDirectory`, `NoDescriptorLeak` |
| `EbpfLoaderProofs` | `LoaderTypeCorrect`, `AttachedProgramsHaveLinks`, `EbpfLoaderCorrect` | `EbSpec => []P` for `EbTypeOK`, `AttachedHasLink`, `LinksHaveObject` |
| `SandboxManagerProofs` | `ManagerInvariant`, `TypeCorrect`, `OnlyOwnChildrenKilled`, `NoResourceLeaks`, `NoUntrackedGuest` | `Spec => []P` for `ManagerInv`, `TypeOK`, `RecordedPidIsOwnChild`, `ResourcesMatchMap`, `RunningGuestIsTracked` |
| `ManagerGuaranteesProofs` | `OnlyEnforcedCodeRuns`, `SocketInvariant`, `MarksBelongToEntries` | `Spec => []P` for `ExecutesEnforced`, `SocketOwn`, `MarksFollowMap` |
| | `ManagerImplementsLifecycle` | `Spec => ImplementsLifecycle` |
| | `NoSandboxDisturbsAnother`, `NoCallLoops` | `Spec => P` for the action properties `OthersUntouched`, `CallsGoForward` |
| | `ManagerImplementsCgroupCalls`, `CgroupsOfTheManager` | `Spec => CgSpec`, and with it `Spec => [](EntryNamesItsDirectory /\ NoDescriptorLeak)` |
| `EnforcementProofs` | `EnforcementTypeCorrect`, `BlockedSyscallsStayBlocked` | `EnfSpec => []P` for `EnfTypeOK`, `BlockedSyscallIsKilled` |
| | `EnforcementImplementsLoaderCalls`, `LoaderOfTheEnforcement` | `EnfSpec => EbSpec`, and with it `EnfSpec => [](AttachedHasLink /\ LinksHaveObject)` |
| `GuestAgentProofs` | `GuestTypeCorrect`, `OnlyOwnCodeRuns`, `NoScriptLeft`, `ResponsesAreTrue`, `AgentNeverHangsUp` | `GaSpec => []P` for `GaTypeOK`, `RunsOwnCode`, `ScriptsAreWiped`, `ResponseTellsOutcome`, `EveryCallIsAnswered` |
| `RingBufferReaderProofs` | `ReaderTypeCorrect`, `AbortsHaveCauses`, `NoPollAfterFree`, `EventsDeliveredOnce`, `JoinsEnd` | `RbSpec => []P` for `RbTypeOK`, `AbortNeedsCause`, `PolledBufferIsOpen`, `EachEventOnce`, `JoinedThreadStops` |
| `CliProofs` | `CliTypeCorrect`, `NoGuestLeftBehind`, `DanglingOnlyAfterError`, `WaitsOnlyForItself` | `CliSpec => []P` for `CliTypeOK`, `ExitLeavesNoGuest`, `DestroyedOnlyOnError`, `HandlerWaitsForItself` |

Assumptions: `HostAssumption` (0 is no inode, `None` is no id or pid, the
metadata address is an address), `TapAssumption` (every id has a TAP name; two
ids may share one), `ReaderAssumption` (callers and polling threads differ),
`GuestAssumption` (the clock has a value), `EngineAssumption` (the two names
the engine itself uses are names, the table maps names to numbers), and the
types of the constants (`LoaderAssumption`, `ManagerAssumption`,
`FilterAssumption`, `EnforcementAssumption`). TLC evaluates them in the runs.

**Cgroup manager.** The stated invariants are inductive once it is added that
directories under different names have different inodes (`DirsDistinct`): a new
entry takes the inode of its directory, and must differ from the other entries.

**Loader.** The addition is that a load not yet made has no resident object
(`FutureLoadsAbsent`). A link names a resident object, so a new load cannot
change the file of an object that a link already names.

**Manager.** None of the safety properties is inductive: each speaks of the
state between calls, or of entries, and says nothing of a call half done. The
mutex serialises calls, so `ManagerInv` describes the state through the step and
the locals of the one thread that holds it (`CurStep`, `CurFrame`):

- `Accounting` says which directories, cgroups and TAP descriptors are held:
  those of the entries not yet released (`Kept`; `terminate_all` keeps entries
  until it clears the map), those the call in progress has acquired, and those
  of creations that an exception has left. The last
  are never created again, and no two of all these share a TAP name.
- `EntryInv` says that the pid of an entry is an unreaped child. Only the
  manager reaps, and it erases the entry in the same call.
- `ProcessInv` is the reason why no guest goes untracked. A live process has the
  TAP interface of its own sandbox open, by inheritance. So while an orphan of a
  timed-out attempt lives, TUNSETIFF refuses the next attempt with that id; when
  a spawn happens, no other process of the sandbox is alive, and the socket file
  that the poll finds was bound by a process of that sandbox (`SocketInv`).

The last point rests on the missing `O_CLOEXEC`. Adding the flag without killing
the timed-out child would break `RunningGuestIsTracked`; the mutant
`NothingInherited` shows it.

**Code runs enforced.** A call to `set_cgroup_monitored` for one cgroup changes
no other key, a map without room for a key never gets room, and no system call
is ever unblocked. `ManagerInv` and the invariant of the cgroup manager add that
entries have cgroups of their own, so no other sandbox's teardown unmarks one.

**Marks belong to entries.** `MarkInv` says of every mark whose it is, also in
the middle of a call: that of an entry, or of the sandbox that `create_sandbox`
has just marked and inserts next, with no error exit in between. It also says that the mark is in the map of the
current object, and that no `terminate_all` is in progress: with both, a
teardown reaches the mark of the cgroup it destroys. That the cgroup entries of
the others stay as they are comes from the argument below.

**No sandbox disturbs another.** `ManagerInv` accounts for entries, cgroups,
directories and TAP descriptors, but says of a socket file only that some
process of that sandbox bound it. That is not enough for the step in which a process
binds its socket: an orphan of an earlier attempt could replace the file of a
registered sandbox. `SocketOwn` adds that the file of a sandbox was bound by the
process the manager recorded. It is inductive together with `ManagerInv`: by
`ProcessInv` a registered sandbox has no second living process that could still
bind. Each group of steps has a lemma that keeps `SocketOwn` and spares every
sandbox that is not being torn down.

**No call loops.** `StepRank` numbers the steps of a method in the order of the
code. By `ManagerInv` the entry that `ReleaseSandbox` has just torn down is
still in the call's list, so `terminate_all` starts its next round with a list
that is strictly smaller. This is the well-founded part of `LockIsReleased`;
what is left of it is that an enabled step is taken, which is fairness.

**Components inside compositions.** A step of the manager is a step of `CgNext`
or leaves the cgroup manager alone, so `Spec` implies `CgSpec` and the theorems
about that component carry over to the whole manager. The same holds for
`Enforcement` and the loader. The component proofs are thus about calls in any
order, and the composed systems are shown to be cases of them.

**Life cycle.** The refinement mapping `LifeOf` reads the life of a sandbox off
the map and the step of the call that holds the mutex. A sandbox is created when
`LookupForCreate` has passed its checks and active when `Register` is done; all
sandboxes of one `terminate_all` disappear together, when the map is cleared.
Every other step of a thread or a process is a stuttering step. The proof has
one lemma per group of steps and uses `ManagerInv` for the frame of the call.

**Enforcement.** `EnfInv` adds to the types and the loader's invariant: no two
sandboxes have the same cgroup (`CgroupsDistinct`); what was applied for a
sandbox is in the maps of the object that took it, as long as that object is
loaded (`BoxesHold`); the call in progress has pushed what is no longer to do
(`ApplyHolds`). The second needs the first, since a teardown unmarks its own
cgroup only, and the third, since it is what the end of a call hands over.

**Guest agent.** `GaInv` adds what each goroutine's own steps keep (`AllSound`),
that a goroutine whose clock value is nobody else's has its own code in its file
(`AllOwn`), and that a file in `/tmp` has a goroutine that will remove it
(`AllUsed`). A stamp is never taken back, so a collision stays one.
`EveryCallIsAnswered` has an induction of its own: a goroutine on its way out
has an exit code, and one whose connection the host waits on keeps it when it
closes (`AnswerInv`).

**Reader.** `RbInv` adds who may be where (`CallsInv`), what is true of the
handle as long as `start_polling` has not met `stop_polling` and no callback has
called the latter (`HandlesInv`: a handle without the flag is about to be joined
by exactly one call, and every polling thread has its handle stored or about to
be), and that a poll's copy of the consumer position is at most one event ahead
while it is the only one (`PositionsInv`). `NestedInv` ties a `stop_polling`
inside a callback to the history, and `BufferInv` says that without any of the
causes in `AbortNeedsCause` a poll never finds the pointer gone: only `init` and
the destructor change it, and the destructor has joined the polling thread.

**Command line tool.** `CliInv` says what `main` has made and not yet wiped at
each of its steps (`MainInv`), who holds `m_mutex` (`LockInv`), that the
handlers on the stack are those that have begun, each above what it interrupted
(`StackInv`), and what a handler knows at each of its steps (`HandlerInv`). A
handler runs on the thread it interrupts and never returns, so from the first
signal on `main` stands still, and a lock that a handler finds taken is held by
something beneath it.

### Only model-checked

The liveness properties `LockIsReleased`, `StopReturns`, `HostCallReturns` and
`SignalEndsProcess` need fairness and `ENABLED`, which are out of the prover's
reach. For each of them the safety part is proved: `CallsGoForward`,
`JoinedThreadStops`, `EveryCallIsAnswered` and `HandlerWaitsForItself`. Every
invariant and action property of a passing run is proved.

Most leaves name Zenon: they are first-order steps over sets and functions, and
tlapm's SMT translation slows down with every obligation it has handled in one
run. Leaves with arithmetic and with set comprehensions over changed state are
left to SMT.

## Mutants

Each property of a passing run has a mutant: a definition with a plausible bug,
kept beside the definition it replaces (comment "Mutant"), under which TLC finds
that property violated.

## Observations

Read in the code while modelling; no run is about them.

- `cgroup_manager.cpp:32` tests the stream before the buffered value reaches the
  kernel, so a limit the kernel rejects is reported as set.
- `ebpf_loader.cpp:36` overwrites the pointer to the previous object; it stays
  in the kernel after `detach_all`.
- `ebpf_loader.cpp:145` sets a key to 0 and never deletes it: with enough cgroups
  the map is full and `create_sandbox` still succeeds.
- `sandbox_manager.cpp:383`: `waitpid(WNOHANG)` right after the kill usually
  misses a process that is still dying; it stays a zombie.
- `sandbox_manager.cpp:272`: a terminated sandbox's TAP interface stays while
  another sandbox's process has inherited its descriptor.
- `sandbox_manager.cpp:432`: `terminate_all` leaves the cgroup ids marked.
- `net_filter.bpf.c:79` calls `bpf_hltonl`, which no header defines.
- `process_monitor.bpf.c:137` reads the event after it has been submitted; a
  verifier that refuses this makes the load fail, which is modelled as well.
- `sandbox_manager.cpp:57` and `350` write to a socket whose peer may be gone,
  which raises SIGPIPE unless the caller's process ignores it.
- The signal handler of the CLI uses `std::cout`, the heap and `std::exit`, none
  of them safe in a handler; only the locking of `m_mutex` is modelled.
- The shipped `strict_python.yaml` has its lists in block style, which the
  expressions read as empty: loading it replaces the built-in policy by one that
  blocks no system call. A name outside the table is dropped without an error.
- `tests/test_policy_engine.cpp:46` expects `eval_syscall("strict_python", 59)`
  to be true; execve is not in the built-in list of allowed system calls.
- Nothing in the repository configures `/vsock` or creates `guest_agent.socket`.

## Not modelled

| Part | Why |
| --- | --- |
| Scripts, root file system (`scripts/`, `Dockerfile.rootfs`) | one-shot provisioning, sequential, without state that the running system changes |
| gRPC interface (`api/aegis/v1/sandbox.proto`) | declarations without an implementation |
| Status codes and shared types (`aegis.hpp`) | names and their text |
| Go daemon and Go CLI, policy proto, seccomp profile, guest agent client, logger, network utilities, two of the YAML policies, benchmark script | the files are empty |
| Values of the cgroup limits | whether the kernel takes them changes no other state |
| Fields of an event, output, arguments and environment of the agent | data that no decision depends on |
| `max_execution_time_sec`, `blocked_cidrs` | stored and never read |
| `get_map_fd` without the loader's lock | public, but called only by locked methods |
| `handle_ebpf_security_event` | declared and not defined |
| Running out of memory in the manager | `std::bad_alloc` can leave any method at any allocation |
| Argument parsing and output of the CLI | sequential text handling |
