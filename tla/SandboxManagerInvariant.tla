----------------------- MODULE SandboxManagerInvariant -----------------------
(***************************************************************************)
(* The inductive invariant behind the sandbox manager's safety.  m_mutex   *)
(* serialises the calls, so the state between two system calls of the      *)
(* thread that holds it is described by that thread's step and locals.     *)
(***************************************************************************)
EXTENDS SandboxManager

(* The step and the locals of the call that holds m_mutex. *)
CurStep == IF m_mutex = None THEN "idle" ELSE pc[m_mutex]
CurFrame == IF m_mutex = None THEN NoFrame ELSE frame[m_mutex]

(* The steps of create_sandbox with the runtime directory, the cgroup, the *)
(* TAP descriptor and the child process in its hands; with a socket file   *)
(* bound by the child; with a guest that may run.                          *)
DirSteps == CreateSteps \cup {"relock"}
CgroupSteps == DirSteps \ {"cgroup"}
TapSteps == CgroupSteps \ {"tap"}
PidSteps == TapSteps \ {"spawn"}
BoundSteps == PidSteps \ {"poll"}
StartedSteps == {"apply", "register", "relock"}

(* The entries whose resources have not been released: terminate_all keeps *)
(* the entries it is done with until it clears the map.                    *)
Kept ==
  IF CurStep \in TeardownSteps /\ CurFrame.op = "terminate_all"
  THEN CurFrame.todo
  ELSE m_sandboxes

(* The sandboxes that have a resource of the manager, when create_sandbox  *)
(* holds it in the steps S; and those that still have one after an         *)
(* exception.                                                              *)
Owned(S) ==
  {s.id : s \in Kept} \cup (IF CurStep \in S THEN {CurFrame.id} ELSE {})
Held(S) == Owned(S) \cup thrown

-----------------------------------------------------------------------------
LockInv == \A t \in Threads : pc[t] = "idle" <=> m_mutex # t

FrameInv ==
  LET f == CurFrame IN
  /\ CurStep = "lookup" =>
       /\ f.op \in Ops
       /\ f.op # "terminate_all" => f.id \in Ids
       /\ f.op = "create" => f.policy \in PolicyNames
  /\ CurStep \in DirSteps => f.id \in Ids /\ f.policy \in PolicyNames /\ ~Registered(f.id)
  /\ CurStep \in PidSteps => f.pid \in Pids /\ fc_state[f.pid] # "free" /\ fc_sbx[f.pid] = f.id
  /\ CurStep \in TeardownSteps =>
       /\ f.op \in {"terminate", "terminate_all"}
       /\ f.todo # {} /\ f.todo \subseteq m_sandboxes
       /\ f.op = "terminate" => f.todo = {s \in m_sandboxes : s.id = f.id}
  /\ CurStep \in {"reap", "release"} =>
       /\ \E s \in f.todo : s.id = f.id /\ s.pid = f.pid
       /\ fc_state[f.pid] # "running"

(* Every resource the manager holds belongs to an entry, to the call in    *)
(* progress or to a sandbox whose create_sandbox an exception has left; no *)
(* two of these share a TAP name, and the last are never created again.    *)
Accounting ==
  /\ Owned(BoundSteps) \subseteq sbx_dirs
  /\ Owned(CgroupSteps) \cap thrown = {}
  /\ {id \in Ids : m_cgroups[id] # 0} = Held(CgroupSteps)
  /\ tap_fds = {TapName[id] : id \in Held(TapSteps)}
  /\ \A i, j \in Held(TapSteps) : TapName[i] = TapName[j] => i = j

(* The pid of an entry is a child of that sandbox until it is waited for.  *)
EntryInv ==
  /\ \A s, r \in m_sandboxes : s.id = r.id => s = r
  /\ \A s \in Kept :
       \/ CurStep = "release" /\ CurFrame.id = s.id
       \/ fc_state[s.pid] # "free" /\ fc_sbx[s.pid] = s.id

(* A live process has the TAP interface of its sandbox open, whether or    *)
(* not the manager still knows it; that is what keeps a second process of  *)
(* the same sandbox from being started.                                    *)
ProcessInv ==
  \A p \in Pids :
    /\ fc_state[p] # "free" => fc_sbx[p] \in Ids
    /\ Alive(p) => TapName[fc_sbx[p]] \in fc_taps[p]
    /\ Alive(p) /\ CurStep = "spawn" => fc_sbx[p] # CurFrame.id
    /\ Alive(p) /\ CurStep \in PidSteps /\ fc_sbx[p] = CurFrame.id => p = CurFrame.pid
    /\ \A s \in m_sandboxes : Alive(p) /\ fc_sbx[p] = s.id => p = s.pid

(* A running guest is tracked, and those of released entries do not run.   *)
RunningInv ==
  \A p \in Pids :
    fc_state[p] = "running" =>
      \/ \E s \in Kept : s.pid = p
      \/ CurStep \in StartedSteps /\ CurFrame.pid = p

(* A socket file lies in the directory of its sandbox and was bound by a   *)
(* process of that sandbox.                                                *)
SocketInv ==
  \A id \in Ids :
    api_socket[id] # None =>
      /\ id \in sbx_dirs
      /\ \/ CurStep = "release" /\ CurFrame.id = id
         \/ fc_state[api_socket[id]] # "free" /\ fc_sbx[api_socket[id]] = id

(* The state of a call in progress, step by step: what create_sandbox has  *)
(* acquired and what a teardown has released so far, exactly.              *)
ManagerInv ==
  /\ TypeOK /\ LockInv /\ FrameInv /\ Accounting
  /\ EntryInv /\ ProcessInv /\ RunningInv /\ SocketInv

(* The socket file of a sandbox whose process has bound it is the one of   *)
(* the process the manager recorded, not one that an earlier child of the  *)
(* same sandbox left behind.                                               *)
SocketOwn ==
  /\ CurStep = "poll" => api_socket[CurFrame.id] \in {None, CurFrame.pid}
  /\ CurStep \in BoundSteps => api_socket[CurFrame.id] = CurFrame.pid
  /\ \A s \in Kept : api_socket[s.id] = s.pid

-----------------------------------------------------------------------------
(* The life of a sandbox as the state of the call in progress shows it. *)
LifeOf(id) ==
  IF CurStep \in DirSteps /\ CurFrame.id = id
  THEN IF CurStep = "relock" THEN "stuck" ELSE "creating"
  ELSE IF ~Registered(id) THEN "absent"
  ELSE IF CurStep \in TeardownSteps /\ (CurFrame.op = "terminate_all" \/ CurFrame.id = id)
  THEN "terminating" ELSE "active"

Lifecycle == INSTANCE SandboxLifecycle WITH status <- [id \in Ids |-> LifeOf(id)]

(* Whatever the threads call and the processes do, the manager's map and   *)
(* its calls behave as SandboxLifecycle says: one sandbox at a time is     *)
(* created, a failed creation leaves no sandbox, a terminated one is gone  *)
(* from the map with all that were terminated by the same call, and no     *)
(* call changes a sandbox it was not made for.                             *)
ImplementsLifecycle == Lifecycle!LcSpec
=============================================================================
