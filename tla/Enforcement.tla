----------------------------- MODULE Enforcement ----------------------------
(***************************************************************************)
(* From a policy to a killed process: the policy engine, the loader, the   *)
(* kernel programs and the part of SandboxManager that connects them.      *)
(* apply_ebpf_policies makes one locked call after the other on the loader *)
(* and the engine while only the manager's own m_mutex is held: between    *)
(* two of them other threads may load objects and register policies, the   *)
(* kernel programs run, and the guest already executes.                    *)
(***************************************************************************)
EXTENDS KernelFilters, PolicyEngine

CONSTANTS MaxCreates,  \* bound: create_sandbox calls in one run
          MaxUpdates   \* bound: policies registered in one run

ASSUME EnforcementAssumption == MaxCreates \in Nat /\ MaxUpdates \in Nat

VARIABLES box,   \* id -> the sandbox and what was applied for it
          apply, \* the apply_ebpf_policies call in progress
          creates, updates  \* calls made so far

callVars == <<creates, updates>>
enfVars == <<box, apply>>
vars == <<enfVars, callVars, m_policies, kfVars, ebVars>>

(* cgroup: the inode of the cgroup directory, 0 if there is none; it may   *)
(* still be there when the sandbox is gone.  inside: the process is in the *)
(* cgroup; attach_pid may have failed, which is not looked at, or the      *)
(* process may be dead.  obj and blocked record, when create_sandbox has   *)
(* returned, the object that took the whole policy (0: none did) and the   *)
(* system calls the policy blocked when it was fetched.                    *)
Boxes == [state : {"none", "applying", "active"}, cgroup : CgroupIds \cup {0},
          policy : PolicyNames, inside : BOOLEAN,
          obj : Loads \cup {0}, blocked : SUBSET Syscalls]
NoBox == [state |-> "none", cgroup |-> 0, policy |-> "strict_python", inside |-> FALSE,
          obj |-> 0, blocked |-> {}]

(* obj: the object that was told to monitor the cgroup and has been the    *)
(* loader's object ever since, 0 if there is none.                         *)
Applies == [id : Ids \cup {None}, step : {"idle", "monitor", "fetch", "push"},
            obj : Loads \cup {0}, blocked : SUBSET Syscalls, todo : SUBSET Syscalls,
            metadata : BOOLEAN]
Idle == [id |-> None, step |-> "idle", obj |-> 0, blocked |-> {}, todo |-> {},
         metadata |-> FALSE]

EnfTypeOK ==
  /\ EbTypeOK /\ KfTypeOK /\ PeTypeOK
  /\ box \in [Ids -> Boxes]
  /\ apply \in Applies
  /\ creates \in 0..MaxCreates /\ updates \in 0..MaxUpdates

EnfInit ==
  /\ EbInit /\ KfInit /\ PeInit
  /\ box = [id \in Ids |-> NoBox]
  /\ apply = Idle
  /\ creates = 0 /\ updates = 0

(* The inodes create_cgroup can return: that of the directory if there is  *)
(* one, or a new one.                                                      *)
DirInodes(id) ==
  IF box[id].cgroup # 0 THEN {box[id].cgroup}
  ELSE CgroupIds \ {box[i].cgroup : i \in Ids}

-----------------------------------------------------------------------------
(* create_sandbox up to its call of apply_ebpf_policies; the guest runs.   *)
(* m_mutex keeps the calls of the manager apart.                           *)
create_sandbox(id) ==
  /\ apply.step = "idle" /\ box[id].state = "none"
  /\ creates < MaxCreates /\ creates' = creates + 1
  /\ \E c \in DirInodes(id), n \in PolicyNames, inside \in BOOLEAN :
       box' = [box EXCEPT ![id] = [NoBox EXCEPT !.state = "applying", !.cgroup = c,
                 !.policy = n, !.inside = inside]]
  /\ apply' = [Idle EXCEPT !.id = id, !.step = "monitor"]
  /\ UNCHANGED <<updates, m_policies, kfVars, ebVars>>

MonitorCgroup ==
  LET c == box[apply.id].cgroup
      taken == CurrentFile \in MonitoredMapFiles /\ MapHasRoom(m_bpf_obj, c)
  IN
  /\ apply.step = "monitor"
  /\ set_cgroup_monitored(c, TRUE)
  /\ apply' = [apply EXCEPT !.step = "fetch", !.obj = IF taken THEN m_bpf_obj ELSE 0]
  /\ UNCHANGED <<box, callVars, m_policies, kfVars>>

(* The end of create_sandbox. *)
Applied ==
  /\ box' = [box EXCEPT ![apply.id].state = "active", ![apply.id].obj = apply.obj,
                        ![apply.id].blocked = apply.blocked]
  /\ apply' = Idle

FetchPolicy ==
  LET policy == get_policy(box[apply.id].policy) IN
  /\ apply.step = "fetch"
  /\ \/ policy = None /\ Applied
     \/ /\ policy # None
        /\ apply' = [apply EXCEPT !.step = "push", !.blocked = policy.blocked_syscalls,
                       !.todo = policy.blocked_syscalls,
                       !.metadata = policy.block_cloud_metadata]
        /\ UNCHANGED box
  /\ UNCHANGED <<callVars, m_policies, kfVars, ebVars>>

(* The rules still to be pushed, in the copy get_policy returned.  Mutant: *)
(* they are looked up in the engine again.                                 *)
RulesReadAgain ==
  IF get_policy(box[apply.id].policy) = None THEN {}
  ELSE apply.todo \cap get_policy(box[apply.id].policy).blocked_syscalls
RulesToPush == apply.todo

PushSyscall ==
  /\ apply.step = "push"
  /\ \E nr \in RulesToPush :
       /\ set_syscall_policy(nr, TRUE)
       /\ apply' = [apply EXCEPT !.todo = @ \ {nr}]
  /\ UNCHANGED <<box, callVars, m_policies, kfVars>>

(* Of the network rules only this one is pushed. *)
BlockedEgress == IF apply.metadata THEN {MetadataIp} ELSE {}

PushEgress ==
  /\ apply.step = "push" /\ RulesToPush = {}
  /\ blocked_ips' = BlockedIpsAfter(BlockedEgress, {})
  /\ UNCHANGED <<objVars, monitored, syscall_policy>>
  /\ Applied
  /\ UNCHANGED <<callVars, m_policies, kfVars>>

(* destroy_cgroup ignores the error when the directory cannot be removed;  *)
(* one that is removed takes its attachments with it.                      *)
LeftBehind(ids, kept) ==
  /\ box' = [id \in Ids |->
               IF id \notin ids THEN box[id]
               ELSE [NoBox EXCEPT !.cgroup = IF id \in kept THEN box[id].cgroup ELSE 0]]
  /\ connect4' = {l \in connect4 : \E id \in Ids : l[2] = box'[id].cgroup}

terminate_sandbox(id) ==
  /\ apply.step = "idle" /\ box[id].state = "active"
  /\ set_cgroup_monitored(box[id].cgroup, FALSE)
  /\ \E kept \in SUBSET {id} : LeftBehind({id}, kept)
  /\ UNCHANGED <<apply, pending, callVars, m_policies>>

(* No call on the loader: the cgroups stay marked. *)
terminate_all ==
  LET active == {id \in Ids : box[id].state = "active"} IN
  /\ apply.step = "idle"
  /\ \E kept \in SUBSET active : LeftBehind(active, kept)
  /\ UNCHANGED <<apply, pending, callVars, m_policies, ebVars>>

-----------------------------------------------------------------------------
(* Other threads use the loader and the engine.  A closed object takes its *)
(* ring buffer and its attachments with it.                                *)
ChangeObject ==
  /\ (\E f \in ObjectFiles : load_bpf_object(f)) \/ load_bpf_object_fails \/ detach_all
  /\ apply' = [apply EXCEPT !.obj = 0]
  /\ connect4' = {l \in connect4 : <<l[1], "aegis_cgroup_connect4">> \in m_bpf_links'}
  /\ pending' = [o \in Loads |-> IF resident'[o] = "none" THEN 0 ELSE pending[o]]
  /\ UNCHANGED <<box, callVars, m_policies>>

attach_tracepoint(n) ==
  /\ n # "aegis_cgroup_connect4"
  /\ attach(n)
  /\ UNCHANGED <<enfVars, callVars, m_policies, kfVars>>

attach_cgroup_connect4(id) ==
  /\ box[id].cgroup # 0
  /\ attach("aegis_cgroup_connect4")
  /\ connect4' = connect4 \cup {<<m_bpf_obj, box[id].cgroup>>}
  /\ UNCHANGED <<enfVars, pending, callVars, m_policies>>

UpdatePolicies ==
  /\ updates < MaxUpdates /\ updates' = updates + 1
  /\ PeNext
  /\ UNCHANGED <<enfVars, creates, kfVars, ebVars>>

-----------------------------------------------------------------------------
(* A process in its sandbox's cgroup makes a call that runs a program.     *)
(* Without an attached program, or from outside, it has no effect.         *)
KernelRuns(id, n, arg, kills) ==
  /\ box[id].inside /\ Attached(n) # {}
  /\ pending' = EventsAfter(n, box[id].cgroup, arg)
  /\ box' = [box EXCEPT ![id].inside = ~(kills /\ Stops(n, box[id].cgroup, arg))]
  /\ UNCHANGED <<apply, connect4, callVars, m_policies, ebVars>>

SysEnter(id) == \E nr \in Syscalls : KernelRuns(id, "handle_sys_enter", nr, TRUE)
Execve(id) == \E flag \in BOOLEAN : KernelRuns(id, "handle_execve_enter", flag, TRUE)
Connect(id) == \E ip \in Ips : KernelRuns(id, "aegis_cgroup_connect4", ip, FALSE)

ReadEvent == (\E o \in Loads : Consume(o)) /\ UNCHANGED <<enfVars, callVars, m_policies>>

EnfNext ==
  \/ \E id \in Ids : create_sandbox(id) \/ terminate_sandbox(id)
  \/ terminate_all \/ MonitorCgroup \/ FetchPolicy \/ PushSyscall \/ PushEgress
  \/ ChangeObject \/ UpdatePolicies \/ ReadEvent
  \/ \E n \in Programs : attach_tracepoint(n)
  \/ \E id \in Ids : attach_cgroup_connect4(id) \/ SysEnter(id) \/ Execve(id) \/ Connect(id)

EnfSpec == EnfInit /\ [][EnfNext]_vars

-----------------------------------------------------------------------------
(* Object o took the whole policy of the sandbox, its program n is still   *)
(* attached, and the process is in the sandbox's cgroup.                   *)
Covered(id, o, n) ==
  /\ box[id].state = "active" /\ box[id].inside
  /\ box[id].obj = o /\ <<o, n>> \in m_bpf_links

(* A system call the sandbox's policy blocked when create_sandbox fetched  *)
(* it is killed from the moment create_sandbox has returned, whatever      *)
(* other sandboxes are created or terminated, policies registered, objects *)
(* loaded or events left in a full ring buffer since.  It can execute only *)
(* if attach_pid failed, the monitored-cgroup map was full, the loader's   *)
(* object was not sys_filter or changed while the policy was applied, or   *)
(* the program is not attached.                                            *)
BlockedSyscallIsKilled ==
  \A id \in Ids, o \in Loads, nr \in Syscalls :
    Covered(id, o, "handle_sys_enter") /\ nr \in box[id].blocked =>
      Stops("handle_sys_enter", box[id].cgroup, nr)

(* What policy_engine.hpp says of eval_syscall and eval_network_egress:    *)
(* what they answer false for is blocked, in a sandbox that the attached   *)
(* program covers and whose policy blocks what it blocked when it was      *)
(* applied.                                                                *)
DeniedIsStopped ==
  \A id \in Ids, o \in Loads :
    LET policy == m_policies[box[id].policy]
        c == box[id].cgroup
    IN
    policy # None /\ policy.blocked_syscalls = box[id].blocked =>
      /\ Covered(id, o, "handle_sys_enter") =>
           \A nr \in Syscalls :
             eval_syscall(box[id].policy, nr) \/ Stops("handle_sys_enter", c, nr)
      /\ box[id].state = "active" /\ box[id].inside /\ <<o, c>> \in connect4 =>
           \A ip \in Ips :
             eval_network_egress(box[id].policy, ip) \/ Stops("aegis_cgroup_connect4", c, ip)
=============================================================================
