--------------------------- MODULE SandboxManager ---------------------------
(***************************************************************************)
(* The sandbox manager (src/runtime/sandbox_manager.cpp) with the three    *)
(* components it drives: the cgroup manager, the eBPF loader and the       *)
(* Firecracker processes.  Threads call the public methods; each method    *)
(* holds m_mutex from its first line to its return, and is split into      *)
(* steps wherever a process can act between two of its system calls.       *)
(***************************************************************************)
EXTENDS Firecracker, CgroupManager, EbpfLoader

CONSTANTS Threads,        \* callers of the manager
          PolicyNames,    \* values of config.security_policy_name
          PolicyTable,    \* the policies the policy engine knows
          HasLoader,      \* m_ebpf_loader was given
          HasEngine,      \* m_policy_engine was given
          LoadedFile      \* object the loader has loaded, or "none"

ASSUME ManagerAssumption ==
  /\ None \notin Threads /\ None \notin PolicyNames
  /\ HasLoader \in BOOLEAN /\ HasEngine \in BOOLEAN
  /\ LoadedFile \in ObjectFiles \cup {"none"}
  /\ LoadedFile # "none" => MaxLoads > 0
  /\ DOMAIN PolicyTable \subseteq PolicyNames
  /\ \A n \in DOMAIN PolicyTable :
       PolicyTable[n] \in [blocked_syscalls : SUBSET Syscalls,
                           block_cloud_metadata : BOOLEAN]

VARIABLES m_sandboxes,  \* the map, as a set of entries
          m_mutex,      \* thread that holds m_mutex, or None
          pc,           \* thread -> next step of its call
          frame,        \* thread -> locals of its call
          thrown,       \* sandboxes whose create_sandbox an exception has left
          swept         \* terminate_all has been called

mgrVars == <<m_sandboxes, m_mutex, pc, frame, thrown, swept>>
vars == <<mgrVars, fcVars, cgVars, ebVars>>

(* The fields of SandboxInstance that are read again after the insert.     *)
Instances == [id : Ids, pid : Pids, policy : PolicyNames]
Registered(id) == \E s \in m_sandboxes : s.id = id

PutSteps == {"boot-source", "drives", "machine-config", "actions", "snapshot"}
CreateSteps == {"cgroup", "tap", "spawn", "poll", "attach"} \cup PutSteps
                 \cup {"apply", "register"}
TeardownSteps == {"kill", "reap", "release"}
Steps == {"idle", "lookup", "relock", "agent", "reply"} \cup CreateSteps \cup TeardownSteps
Ops == {"create", "execute", "terminate", "terminate_all", "get_metadata"}

Frames == [op : Ops \cup {"none"}, id : Ids \cup {None}, pid : Pids \cup {None},
           policy : PolicyNames \cup {None}, todo : SUBSET Instances]
NoFrame == [op |-> "none", id |-> None, pid |-> None, policy |-> None, todo |-> {}]

TypeOK ==
  /\ FcTypeOK /\ CgTypeOK /\ EbTypeOK
  /\ m_sandboxes \subseteq Instances
  /\ m_mutex \in Threads \cup {None}
  /\ pc \in [Threads -> Steps]
  /\ frame \in [Threads -> Frames]
  /\ thrown \subseteq Ids /\ swept \in BOOLEAN

(* The loader may have been given an object before the manager is used.    *)
LoaderInit ==
  /\ m_bpf_obj = IF LoadedFile = "none" THEN 0 ELSE 1
  /\ m_is_loaded = (LoadedFile # "none")
  /\ loads = m_bpf_obj
  /\ resident = [o \in Loads |-> IF o = 1 THEN LoadedFile ELSE "none"]
  /\ m_programs = [n \in Programs |->
                     [is_loaded |-> LoadedFile # "none" /\ ProgramOf[LoadedFile] = n,
                      is_attached |-> FALSE]]
  /\ m_bpf_links = {}
  /\ EmptyMaps

Init ==
  /\ FcInit /\ CgInit /\ LoaderInit
  /\ m_sandboxes = {}
  /\ m_mutex = None
  /\ pc = [t \in Threads |-> "idle"]
  /\ frame = [t \in Threads |-> NoFrame]
  /\ thrown = {} /\ swept = FALSE

-----------------------------------------------------------------------------
Goto(t, step) ==
  /\ pc' = [pc EXCEPT ![t] = step]
  /\ UNCHANGED <<m_mutex, m_sandboxes, thrown, swept>>

(* The end of a method: the lock_guard releases m_mutex. *)
Leave(t) ==
  /\ m_mutex' = None
  /\ pc' = [pc EXCEPT ![t] = "idle"]
  /\ frame' = [frame EXCEPT ![t] = NoFrame]
  /\ UNCHANGED swept
Return(t) == Leave(t) /\ UNCHANGED thrown

(* std::filesystem::exists and remove are called without an error code: an *)
(* error leaves create_sandbox as an exception.  Nothing that was acquired *)
(* is released, and no entry is made.                                      *)
Throw(t) ==
  /\ Leave(t)
  /\ thrown' = thrown \cup {frame[t].id}
  /\ UNCHANGED m_sandboxes

(* The lock_guard at the top of every public method. *)
Lock(t) == m_mutex = None /\ m_mutex' = t

Call(t, op, id, policy) ==
  /\ pc[t] = "idle"
  /\ Lock(t)
  /\ pc' = [pc EXCEPT ![t] = "lookup"]
  /\ frame' = [frame EXCEPT ![t] = [NoFrame EXCEPT !.op = op, !.id = id,
                                                              !.policy = policy]]
  /\ swept' = (swept \/ op = "terminate_all")
  /\ UNCHANGED <<m_sandboxes, thrown, fcVars, cgVars, ebVars>>

create_sandbox(t) == \E id \in Ids, policy \in PolicyNames : Call(t, "create", id, policy)
execute_code(t) == \E id \in Ids : Call(t, "execute", id, None)
terminate_sandbox(t) == \E id \in Ids : Call(t, "terminate", id, None)
get_metadata(t) == \E id \in Ids : Call(t, "get_metadata", id, None)
terminate_all(t) == Call(t, "terminate_all", None, None)

-----------------------------------------------------------------------------
(* create_sandbox.  A new id gets its runtime directory, unless            *)
(* create_directories fails: its error code is ignored.                    *)
LookupForCreate(t) ==
  LET id == frame[t].id IN
  /\ pc[t] = "lookup" /\ frame[t].op = "create"
  /\ \/ /\ Registered(id)
        /\ Return(t)
        /\ UNCHANGED <<m_sandboxes, fcVars>>
     \/ /\ ~Registered(id)
        /\ sbx_dirs' \in {sbx_dirs, sbx_dirs \cup {id}}
        /\ Goto(t, "cgroup")
        /\ UNCHANGED <<frame, fc_state, fc_sbx, fc_taps, tap_fds, api_socket>>
  /\ UNCHANGED <<cgVars, ebVars>>

CreateCgroup(t) ==
  LET id == frame[t].id IN
  /\ pc[t] = "cgroup"
  /\ \/ /\ create_cgroup(id, "Success")
        /\ Goto(t, "tap")
        /\ UNCHANGED <<frame, fcVars>>
     \/ /\ \E status \in {"ErrInvalidSandboxID", "ErrCgroupQuotaExceeded"} :
             create_cgroup(id, status)
        /\ ReleaseFiles(id, {})
        /\ Return(t)
        /\ UNCHANGED m_sandboxes
  /\ UNCHANGED ebVars

(* The error exits of the TAP and spawn steps.  A child that was forked is *)
(* neither killed nor waited for.  Mutant: the cgroup is not destroyed.    *)
UnwindKeepsCgroup(t, taps) ==
  ReleaseFiles(frame[t].id, taps) /\ Return(t) /\ UNCHANGED <<m_sandboxes, cgVars>>
Unwind(t, taps) ==
  /\ \E status \in {"Success", "ErrInvalidSandboxID"} : destroy_cgroup(frame[t].id, status)
  /\ ReleaseFiles(frame[t].id, taps)
  /\ Return(t)
  /\ UNCHANGED m_sandboxes

setup_tap_interface(t) ==
  LET tap == TapName[frame[t].id] IN
  /\ pc[t] = "tap"
  /\ \/ /\ ~TapBusy(tap)
        /\ tap_fds' = tap_fds \cup {tap}
        /\ Goto(t, "spawn")
        /\ UNCHANGED <<frame, fc_state, fc_sbx, fc_taps, sbx_dirs, api_socket, cgVars>>
     \/ Unwind(t, {})
  /\ UNCHANGED ebVars

spawn_firecracker_process(t) ==
  /\ pc[t] = "spawn"
  /\ \/ /\ \E p \in Pids : /\ Fork(frame[t].id, p)
                          /\ frame' = [frame EXCEPT ![t].pid = p]
        /\ Goto(t, "poll")
        /\ UNCHANGED cgVars
     \/ Unwind(t, {TapName[frame[t].id]})
     \/ Throw(t) /\ UNCHANGED <<fcVars, cgVars>>
  /\ UNCHANGED ebVars

(* The poll loop: it ends when the socket file is there, or 10 ms after    *)
(* the last of 50 checks found none, whether or not the process has bound  *)
(* it since.  Mutant: it polls until the file is there.                    *)
PollForever(t) ==
  /\ pc[t] = "poll"
  /\ api_socket[frame[t].id] # None
  /\ Goto(t, "attach")
  /\ UNCHANGED <<frame, fcVars, cgVars, ebVars>>
PollSocket(t) ==
  LET id == frame[t].id IN
  /\ pc[t] = "poll"
  /\ \/ /\ api_socket[id] # None
        /\ Goto(t, "attach")
        /\ UNCHANGED <<frame, fcVars, cgVars>>
     \/ Unwind(t, {TapName[id]})
     \/ Throw(t) /\ UNCHANGED <<fcVars, cgVars>>
  /\ UNCHANGED ebVars

(* The result of attach_pid is ignored.  A snapshot is restored if it was  *)
(* asked for and exists.                                                   *)
AttachPid(t) ==
  LET f == frame[t] IN
  /\ pc[t] = "attach"
  /\ \E status \in {"Success", "ErrInvalidSandboxID", "ErrCgroupQuotaExceeded"} :
       attach_pid(f.id, f.pid, status)
  /\ ~Alive(f.pid) => cgroup_procs' = cgroup_procs
  /\ \/ /\ \E step \in {"boot-source", "snapshot"} : Goto(t, step)
        /\ UNCHANGED frame
     \/ Throw(t)
  /\ UNCHANGED <<fcVars, ebVars>>

(* Mutant of AfterPut: a restored sandbox is registered without policies. *)
SnapshotUnfiltered(step) ==
  CASE step = "boot-source"    -> "drives"
    [] step = "drives"         -> "machine-config"
    [] step = "machine-config" -> "actions"
    [] step = "actions"        -> "apply"
    [] OTHER                   -> "register"
(* Mutant: the drives are configured again after the machine. *)
DrivesAgain(step) ==
  CASE step = "boot-source"    -> "drives"
    [] step = "drives"         -> "machine-config"
    [] step = "machine-config" -> "drives"
    [] OTHER                   -> "apply"
AfterPut(step) ==
  CASE step = "boot-source"    -> "drives"
    [] step = "drives"         -> "machine-config"
    [] step = "machine-config" -> "actions"
    [] OTHER                   -> "apply"

(* configure_firecracker_api and restore_firecracker_snapshot.  After a    *)
(* PUT that failed, create_sandbox calls terminate_sandbox, which locks    *)
(* the m_mutex this thread already holds: it never takes another step.     *)
(* The read of the answer has no timeout.                                  *)
SendPut(t) ==
  /\ pc[t] \in PutSteps
  /\ \/ /\ PutAccepted(frame[t].id, pc[t] \in {"actions", "snapshot"})
        /\ Goto(t, AfterPut(pc[t]))
     \/ /\ Goto(t, "relock")
        /\ UNCHANGED fcVars
  /\ UNCHANGED <<frame, cgVars, ebVars>>

(* The results of the loader's calls are ignored. *)
apply_ebpf_policies(t) ==
  LET c == get_cgroup_id(frame[t].id)
      known == frame[t].policy \in DOMAIN PolicyTable
      policy == PolicyTable[frame[t].policy]
      enforced == HasLoader /\ HasEngine
  IN
  /\ pc[t] = "apply"
  /\ Goto(t, IF enforced /\ c = 0 THEN "relock" ELSE "register")
  /\ monitored' = IF enforced /\ c # 0 THEN MonitoredAfter(c, TRUE) ELSE monitored
  /\ syscall_policy' = IF enforced /\ c # 0 /\ known
                       THEN SyscallPolicyAfter(policy.blocked_syscalls, {})
                       ELSE syscall_policy
  /\ blocked_ips' = IF enforced /\ c # 0 /\ known /\ policy.block_cloud_metadata
                    THEN BlockedIpsAfter({MetadataIp}, {})
                    ELSE blocked_ips
  /\ UNCHANGED <<frame, fcVars, cgVars, objVars>>

(* The instance as it is inserted.  Mutant: inserted without its pid. *)
InstanceWithoutPid(f) == [id |-> f.id, pid |-> None, policy |-> f.policy]
NewInstance(f) == [id |-> f.id, pid |-> f.pid, policy |-> f.policy]

Register(t) ==
  LET f == frame[t] IN
  /\ pc[t] = "register"
  /\ m_sandboxes' = {s \in m_sandboxes : s.id # f.id} \cup {NewInstance(f)}
  /\ Return(t)
  /\ UNCHANGED <<fcVars, cgVars, ebVars>>

-----------------------------------------------------------------------------
(* execute_code.  A connect that fails, and every answer or end of file,   *)
(* ends the call; the read has no timeout.                                 *)
LookupForExecute(t) ==
  /\ pc[t] = "lookup" /\ frame[t].op = "execute"
  /\ \/ ~Registered(frame[t].id) /\ Return(t) /\ UNCHANGED m_sandboxes
     \/ Registered(frame[t].id) /\ Goto(t, "agent") /\ UNCHANGED frame
  /\ UNCHANGED <<fcVars, cgVars, ebVars>>

SendToAgent(t) ==
  /\ pc[t] = "agent"
  /\ \/ Return(t) /\ UNCHANGED m_sandboxes
     \/ /\ \E s \in m_sandboxes : s.id = frame[t].id /\ fc_state[s.pid] = "running"
        /\ Goto(t, "reply")
        /\ UNCHANGED frame
  /\ UNCHANGED <<fcVars, cgVars, ebVars>>

AgentReply(t) ==
  /\ pc[t] = "reply"
  /\ Return(t)
  /\ UNCHANGED <<m_sandboxes, fcVars, cgVars, ebVars>>

LookupForMetadata(t) ==
  /\ pc[t] = "lookup" /\ frame[t].op = "get_metadata"
  /\ Return(t)
  /\ UNCHANGED <<m_sandboxes, fcVars, cgVars, ebVars>>

-----------------------------------------------------------------------------
(* terminate_sandbox and terminate_all: todo holds the entries to tear     *)
(* down, id and pid the one being torn down.                               *)
LookupForTeardown(t) ==
  LET all == frame[t].op = "terminate_all"
      found == {s \in m_sandboxes : all \/ s.id = frame[t].id}
  IN
  /\ pc[t] = "lookup" /\ frame[t].op \in {"terminate", "terminate_all"}
  /\ \/ found = {} /\ Return(t) /\ UNCHANGED m_sandboxes
     \/ found # {} /\ Goto(t, "kill") /\ frame' = [frame EXCEPT ![t].todo = found]
  /\ UNCHANGED <<fcVars, cgVars, ebVars>>

KillProcess(t) ==
  /\ pc[t] = "kill"
  /\ \E s \in frame[t].todo :
       /\ Kill(s.pid)
       /\ frame' = [frame EXCEPT ![t].id = s.id, ![t].pid = s.pid]
  /\ Goto(t, "reap")
  /\ UNCHANGED <<cgVars, ebVars>>

ReapProcess(t) ==
  /\ pc[t] = "reap"
  /\ Reap(frame[t].pid)
  /\ Goto(t, "release")
  /\ UNCHANGED <<frame, cgVars, ebVars>>

(* Only terminate_sandbox turns the monitoring off.  Mutant: after         *)
(* destroy_cgroup, when there is no cgroup id any more.                    *)
UnmarkedTooLate(t) == monitored
MonitoredAfterTeardown(t) ==
  LET c == get_cgroup_id(frame[t].id) IN
  IF frame[t].op = "terminate" /\ HasLoader /\ c # 0
  THEN MonitoredAfter(c, FALSE)
  ELSE monitored

(* erase(it), or clear() after the loop.  Mutants: nothing is erased; both *)
(* clear the map.                                                          *)
MapKept(f) == IF f.op = "terminate" THEN m_sandboxes ELSE {}
MapCleared(f) == {}
MapAfterTeardown(f) == {s \in m_sandboxes : f.op = "terminate" /\ s.id # f.id}

(* The rest of one teardown, then the next entry, or erase / clear.        *)
ReleaseSandbox(t) ==
  LET f == frame[t]
      left == {s \in f.todo : s.id # f.id}
  IN
  /\ pc[t] = "release"
  /\ ReleaseFiles(f.id, {TapName[f.id]})
  /\ monitored' = MonitoredAfterTeardown(t)
  /\ \E status \in {"Success", "ErrInvalidSandboxID"} : destroy_cgroup(f.id, status)
  /\ \/ /\ left = {}
        /\ m_sandboxes' = MapAfterTeardown(f)
        /\ Return(t)
     \/ /\ left # {}
        /\ Goto(t, "kill")
        /\ frame' = [frame EXCEPT ![t].todo = left]
  /\ UNCHANGED <<objVars, syscall_policy, blocked_ips>>

-----------------------------------------------------------------------------
(* What a thread does after it has the lock, but for waiting for an answer *)
(* of Firecracker or of the guest agent.                                   *)
ManagerStep(t) ==
  \/ LookupForCreate(t) \/ CreateCgroup(t) \/ setup_tap_interface(t)
  \/ spawn_firecracker_process(t) \/ PollSocket(t) \/ AttachPid(t)
  \/ apply_ebpf_policies(t) \/ Register(t)
  \/ LookupForExecute(t) \/ SendToAgent(t) \/ LookupForMetadata(t)
  \/ LookupForTeardown(t) \/ KillProcess(t) \/ ReapProcess(t) \/ ReleaseSandbox(t)

NewCall(t) ==
  \/ create_sandbox(t) \/ execute_code(t) \/ terminate_sandbox(t)
  \/ get_metadata(t) \/ terminate_all(t)

ProcessBinds(p) == BindSocket(p) /\ UNCHANGED <<mgrVars, cgVars, ebVars>>
ProcessExits(p) == Exit(p) /\ LeaveCgroup(p) /\ UNCHANGED <<mgrVars, ebVars>>

Next ==
  \/ \E t \in Threads : NewCall(t) \/ ManagerStep(t) \/ SendPut(t) \/ AgentReply(t)
  \/ \E p \in Pids : ProcessBinds(p) \/ ProcessExits(p)

(* The scheduler runs every thread, a SIGKILL takes effect, and a PUT that *)
(* no live process takes fails at once.  Nothing makes a Firecracker that  *)
(* lives, or the guest agent, answer.                                      *)
Served(id) == api_socket[id] # None /\ Alive(api_socket[id])
Fairness ==
  /\ \A t \in Threads : WF_vars(ManagerStep(t))
  /\ \A t \in Threads : WF_vars(SendPut(t) /\ ~Served(frame[t].id))
  /\ \A p \in Pids : WF_vars(fc_state[p] = "dying" /\ ProcessExits(p))

Spec == Init /\ [][Next]_vars
FairSpec == Spec /\ Fairness

-----------------------------------------------------------------------------
(* What apply_ebpf_policies achieves for the cgroup c and the policy. *)
Enforced(c, policy) ==
  /\ m_bpf_obj # 0
  /\ monitored[m_bpf_obj][c] = "on" \/ ~MapHasRoom(m_bpf_obj, c)
  /\ policy \in DOMAIN PolicyTable =>
       PolicyTable[policy].blocked_syscalls \subseteq syscall_policy[m_bpf_obj]

(* A teardown that still holds the lock has waited for the process of s.   *)
TornDown(s) ==
  \E t \in Threads :
    \/ pc[t] = "release" /\ frame[t].id = s.id
    \/ pc[t] \in TeardownSteps /\ frame[t].op = "terminate_all" /\ s \notin frame[t].todo

(* Every pid in the map is a child forked for that sandbox and not waited  *)
(* for, and no two entries have the same one: the SIGKILL of               *)
(* terminate_sandbox and terminate_all cannot hit a pid the kernel has     *)
(* given to another process.                                               *)
RecordedPidIsOwnChild ==
  \A s \in m_sandboxes :
    /\ \A r \in m_sandboxes \ {s} : r.id # s.id
    /\ TornDown(s) \/ (fc_state[s.pid] # "free" /\ fc_sbx[s.pid] = s.id)

(* A call is tearing the sandbox down, alone or with all others. *)
Targeted(s) ==
  \E t \in Threads :
    /\ pc[t] \in TeardownSteps
    /\ frame[t].op = "terminate_all" \/ frame[t].id = s.id

(* No step of any thread or process takes anything from a sandbox in the   *)
(* map that is not being torn down: it keeps its entry, cgroup, directory, *)
(* TAP descriptor and API socket while others are created, fail halfway or *)
(* are terminated, and its process gets no signal; it can only exit.       *)
OthersUntouched ==
  [][\A s \in m_sandboxes :
       ~Targeted(s) =>
         /\ s \in m_sandboxes'
         /\ m_cgroups[s.id] # 0 /\ m_cgroups'[s.id] = m_cgroups[s.id]
         /\ s.id \in sbx_dirs' /\ TapName[s.id] \in tap_fds'
         /\ api_socket[s.id] = s.pid /\ api_socket'[s.id] = s.pid
         /\ fc_state'[s.pid] \in {fc_state[s.pid], "zombie"}]_vars

(* Between calls, the manager holds a cgroup entry and a TAP descriptor    *)
(* for exactly the sandboxes in its map and those whose create_sandbox an  *)
(* exception has left, which are never in the map: no other exit of        *)
(* create_sandbox, no retry and no teardown leaks one or takes one from a  *)
(* live sandbox, whose runtime directory is there as well.                 *)
ResourcesMatchMap ==
  LET registered == {s.id : s \in m_sandboxes} IN
  m_mutex = None =>
    /\ registered \cap thrown = {}
    /\ {id \in Ids : m_cgroups[id] # 0} = registered \cup thrown
    /\ tap_fds = {TapName[id] : id \in registered \cup thrown}
    /\ registered \subseteq sbx_dirs

(* Between calls, as long as terminate_all has not been called, only the   *)
(* cgroups of the sandboxes in the map are marked monitored: a terminated  *)
(* sandbox, a failed creation or one that an exception has left leaves no  *)
(* mark under which another owner of the inode would be filtered.          *)
MarksFollowMap ==
  m_mutex = None /\ ~swept =>
    \A o \in Loads, c \in CgroupIds :
      monitored[o][c] = "on" => \E s \in m_sandboxes : m_cgroups[s.id] = c

(* A guest runs only in the process the manager recorded for the sandbox,  *)
(* or in the one whose create_sandbox call is not finished.  The child of  *)
(* a create_sandbox that timed out is never killed, but it cannot take the *)
(* API calls of a later attempt with the same id.                          *)
RunningGuestIsTracked ==
  \A p \in Pids :
    fc_state[p] = "running" =>
      \/ \E s \in m_sandboxes : s.pid = p
      \/ \E t \in Threads : frame[t].pid = p /\ pc[t] \in {"apply", "register", "relock"}

(* Code is waiting on a guest only while the maps of the loaded object say *)
(* what the policy of that sandbox asks for: its cgroup is marked          *)
(* monitored, unless the map had no room for it, and the syscalls its      *)
(* policy blocks are marked blocked.  No call of another thread and no     *)
(* sandbox that came or went in between has undone it.                     *)
ExecutesEnforced ==
  HasLoader /\ HasEngine /\ LoadedFile = "sys_filter" =>
    \A t \in Threads, s \in m_sandboxes :
      pc[t] = "reply" /\ s.id = frame[t].id => Enforced(m_cgroups[s.id], s.policy)

(* The order of the steps in the text of the methods. *)
StepRank(step) ==
  CASE step = "idle"                            -> 0
    [] step = "lookup"                          -> 1
    [] step \in {"cgroup", "agent", "kill"}     -> 2
    [] step \in {"tap", "reply", "reap"}        -> 3
    [] step \in {"spawn", "release"}            -> 4
    [] step = "poll"                            -> 5
    [] step = "attach"                          -> 6
    [] step = "boot-source"                     -> 7
    [] step = "drives"                          -> 8
    [] step = "machine-config"                  -> 9
    [] step \in {"actions", "snapshot"}         -> 10
    [] step = "apply"                           -> 11
    [] step = "register"                        -> 12
    [] OTHER                                    -> 13

(* No call goes round in circles while it holds m_mutex: each of its steps *)
(* ends the call or goes forward in the method, but for the loop of        *)
(* terminate_all, which comes back with fewer entries to tear down.  No    *)
(* thread but the one that takes the step moves.                           *)
CallsGoForward ==
  [][\A t \in Threads :
       \/ UNCHANGED <<pc[t], frame[t]>>
       \/ pc[t] = "idle" /\ m_mutex = None /\ m_mutex' = t
       \/ /\ m_mutex = t
          /\ \/ pc'[t] = "idle" /\ m_mutex' = None
             \/ /\ m_mutex' = t /\ frame'[t].op = frame[t].op
                /\ \/ StepRank(pc'[t]) > StepRank(pc[t])
                   \/ /\ pc[t] = "release" /\ pc'[t] = "kill"
                      /\ frame[t].op = "terminate_all"
                      /\ frame'[t].todo \subseteq frame[t].todo
                      /\ frame'[t].todo # frame[t].todo]_vars

(* A call keeps m_mutex for ever in three situations only: create_sandbox  *)
(* waits for its own lock after a failed PUT, create_sandbox reads the     *)
(* answer to a PUT from a Firecracker that lives and does not answer, and  *)
(* execute_code reads from a guest agent that does not answer.             *)
WaitsForever(t) ==
  \/ pc[t] \in {"relock", "reply"}
  \/ pc[t] \in PutSteps /\ Served(frame[t].id)
LockIsReleased ==
  \A t \in Threads : <>[](m_mutex = t) => <>[]WaitsForever(t)

-----------------------------------------------------------------------------
(* What the headers and comments say of the manager. *)

(* sandbox_manager.hpp calls the manager thread-safe; with a Firecracker   *)
(* and a guest agent that always answer, a call that has the lock should   *)
(* give it back.                                                           *)
AnsweringSpec ==
  FairSpec /\ \A t \in Threads : WF_vars(SendPut(t)) /\ WF_vars(AgentReply(t))
CallReturns == \A t \in Threads : m_mutex = t ~> m_mutex # t
=============================================================================
