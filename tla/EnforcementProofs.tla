-------------------------- MODULE EnforcementProofs -------------------------
(***************************************************************************)
(* Why a policy that was applied stays applied: for any number of          *)
(* sandboxes, cgroups, objects, policies and any size of the maps and the  *)
(* ring buffers.                                                           *)
(***************************************************************************)
EXTENDS Enforcement, EbpfLoaderProofs

(* Object o, as long as it is loaded, watches cgroup c and kills blocked. *)
Holds(o, c, blocked) ==
  /\ resident[o] \in MonitoredMapFiles => monitored[o][c] = "on"
  /\ resident[o] = "sys_filter" => blocked \subseteq syscall_policy[o]

(* No two sandboxes have the same cgroup. *)
CgroupsDistinct ==
  \A i, j \in Ids : i # j /\ box[i].cgroup # 0 => box[i].cgroup # box[j].cgroup

(* What was applied for a sandbox is in the maps of the object that took   *)
(* it; objects that will be loaded later took nothing.                     *)
BoxesHold ==
  \A id \in Ids :
    box[id].obj # 0 => /\ box[id].cgroup # 0 /\ box[id].obj <= loads
                       /\ Holds(box[id].obj, box[id].cgroup, box[id].blocked)

(* The call in progress has pushed what is no longer to do. *)
ApplyHolds ==
  /\ apply.step # "idle" => /\ apply.id \in Ids /\ box[apply.id].cgroup # 0
                            /\ box[apply.id].obj = 0
  /\ apply.step # "push" => apply.blocked = {} /\ apply.todo = {}
  /\ apply.obj # 0 => /\ apply.step \in {"fetch", "push"} /\ apply.obj = m_bpf_obj
                      /\ Holds(apply.obj, box[apply.id].cgroup, apply.blocked \ apply.todo)

EnfInv ==
  /\ EnfTypeOK /\ EbInv /\ CgroupsDistinct /\ BoxesHold /\ ApplyHolds
-----------------------------------------------------------------------------
(* The policy engine. *)
LEMMA ResolvedType ==
  ASSUME NEW names
  PROVE  Resolved(names) \subseteq Syscalls
BY EngineAssumption DEF Resolved

LEMMA EmptyPolicyType == EmptyPolicy \in Policies
BY Zenon DEF EmptyPolicy, Policies

LEMMA StrictPythonType == strict_python \in Policies
BY Zenon, EmptyPolicyType, ResolvedType DEF strict_python, Policies

LEMMA ParsedType ==
  ASSUME NEW f \in YamlFiles
  PROVE  Parsed(f) \in Policies
<1>1. \A list : ListOf(list) \subseteq Syscalls
  BY Zenon, ResolvedType DEF ListOf
<1>2. \A flag : \A default \in BOOLEAN : FlagOr(flag, default) \in BOOLEAN
  BY Zenon DEF FlagOr
<1>3. EmptyPolicy.block_all_egress \in BOOLEAN /\ EmptyPolicy.block_cloud_metadata \in BOOLEAN
  BY Zenon DEF EmptyPolicy
<1> QED
  BY Zenon, <1>1, <1>2, <1>3, EmptyPolicyType DEF Parsed, Policies

(* Whatever is loaded or registered, the engine's map stays well typed.    *)
LEMMA PeNextType == PeTypeOK /\ PeNext => PeTypeOK'
<1> SUFFICES ASSUME PeTypeOK, PeNext PROVE PeTypeOK'
  OBVIOUS
<1>1. ASSUME NEW n \in PolicyNames, NEW policy \in Policies, register_policy(n, policy)
      PROVE  PeTypeOK'
  BY Zenon, <1>1 DEF PeTypeOK, register_policy
<1>2. ASSUME NEW f \in PolicyFiles, load_from_yaml(f) PROVE PeTypeOK'
  <2>1. f \in YamlFiles
    BY Zenon, EngineAssumption
  <2>2. f.stem \in PolicyNames /\ f.policy_name \in PolicyNames \cup {None} /\ Parsed(f) \in Policies
    BY Zenon, <2>1, ParsedType DEF YamlFiles
  <2> QED
    BY Zenon, <1>1, <1>2, <2>2 DEF load_from_yaml
<1>3. CASE load_from_json
  BY Zenon, <1>1, <1>3, EmptyPolicyType, EngineAssumption DEF load_from_json
<1>4. ASSUME NEW given \in GivenPolicies, register_policy(given[1], given[2]) PROVE PeTypeOK'
  <2>1. given[1] \in PolicyNames /\ given[2] \in Policies
    BY EngineAssumption
  <2> QED
    BY Zenon, <1>1, <1>4, <2>1
<1> QED
  BY Zenon, <1>2, <1>3, <1>4 DEF PeNext

-----------------------------------------------------------------------------
(* The ring buffers. *)
LEMMA ConsumeType ==
  ASSUME KfTypeOK, NEW o \in Loads, Consume(o)
  PROVE  KfTypeOK'
BY FilterAssumption DEF KfTypeOK, Consume

(* A program never reports an event it has no room for. *)
LEMMA EventsType ==
  ASSUME KfTypeOK, NEW n \in Programs, NEW c, NEW arg,
         pending' = EventsAfter(n, c, arg), UNCHANGED connect4
  PROVE  KfTypeOK'
<1>1. \A o \in Loads : Decision(n, o, c, arg).event => RingHasRoom(o)
  BY Zenon DEF Decision, Programs, handle_sys_enter, handle_execve_enter, aegis_cgroup_connect4
<1>2. \A o \in Loads : RingHasRoom(o) => pending[o] + 1 \in 0..RingSize
  BY FilterAssumption DEF RingHasRoom, KfTypeOK
<1>3. \A o \in Loads : pending[o] \in 0..RingSize
  BY Zenon DEF KfTypeOK
<1>4. pending' \in [Loads -> 0..RingSize]
  BY Zenon, <1>1, <1>2, <1>3 DEF EventsAfter
<1> QED
  BY Zenon, <1>4 DEF KfTypeOK
-----------------------------------------------------------------------------
LEMMA BoxType ==
  ASSUME EnfTypeOK, NEW id \in Ids
  PROVE  /\ box[id].cgroup \in CgroupIds \cup {0} /\ box[id].policy \in PolicyNames
         /\ box[id].obj \in Loads \cup {0} /\ box[id].blocked \subseteq Syscalls
         /\ box[id].inside \in BOOLEAN
BY Zenon DEF EnfTypeOK, Boxes

LEMMA ApplyType ==
  ASSUME EnfTypeOK
  PROVE  /\ apply.obj \in Loads \cup {0} /\ apply.metadata \in BOOLEAN
         /\ apply.blocked \subseteq Syscalls /\ apply.todo \subseteq Syscalls
BY Zenon DEF EnfTypeOK, Applies

(* Object numbers are positive, and the loader's object is a past load. *)
LEMMA ObjectIsLoaded ==
  ASSUME EbInv, m_bpf_obj # 0
  PROVE  m_bpf_obj \in Loads /\ m_bpf_obj <= loads /\ CurrentFile = resident[m_bpf_obj]
BY LoaderAssumption DEF EbInv, EbTypeOK, FutureLoadsAbsent, LinksHaveObject, Loads, CurrentFile

LEMMA ZeroIsNoLoad == 0 \notin Loads
BY LoaderAssumption DEF Loads

LEMMA EnfInitInv == EnfInit => EnfInv
<1> SUFFICES ASSUME EnfInit PROVE EnfInv
  OBVIOUS
<1>1. EbInv
  BY Zenon, EbInitInv DEF EnfInit
<1>2. KfTypeOK
  BY FilterAssumption DEF EnfInit, KfInit, KfTypeOK
<1>3. PeTypeOK
  BY Zenon, StrictPythonType DEF EnfInit, PeInit, PeTypeOK
<1>4. NoBox \in Boxes /\ Idle \in Applies
  BY Zenon, EngineAssumption DEF NoBox, Boxes, Idle, Applies
<1>5. creates \in 0..MaxCreates /\ updates \in 0..MaxUpdates
  BY EnforcementAssumption DEF EnfInit
<1>6. EnfTypeOK
  BY Zenon, <1>1, <1>2, <1>3, <1>4, <1>5 DEF EnfTypeOK, EnfInit, EbInv
<1>7. \A id \in Ids : box[id].cgroup = 0 /\ box[id].obj = 0
  BY Zenon DEF EnfInit, NoBox
<1>8. apply.step = "idle" /\ apply.obj = 0 /\ apply.blocked = {} /\ apply.todo = {}
  BY Zenon DEF EnfInit, Idle
<1> QED
  BY Zenon, <1>1, <1>6, <1>7, <1>8 DEF EnfInv, CgroupsDistinct, BoxesHold, ApplyHolds

(* Steps that leave the maps, the loader's objects, the call in progress   *)
(* and the records of the sandboxes alone.                                 *)
LEMMA QuietStep ==
  ASSUME EnfInv, EnfTypeOK', EbInv',
         UNCHANGED <<apply, m_bpf_obj, loads, resident, mapVars>>,
         \A id \in Ids : /\ box'[id].cgroup = box[id].cgroup /\ box'[id].obj = box[id].obj
                         /\ box'[id].blocked = box[id].blocked
  PROVE  EnfInv'
<1>1. CgroupsDistinct'
  BY DEF EnfInv, CgroupsDistinct
<1>2. BoxesHold'
  BY DEF EnfInv, BoxesHold, Holds, mapVars
<1>3. ApplyHolds'
  <2>1. CASE apply.step = "idle"
    BY Zenon, <2>1 DEF EnfInv, ApplyHolds
  <2>2. CASE apply.step # "idle"
    BY Zenon, <2>2 DEF EnfInv, ApplyHolds, Holds, mapVars
  <2> QED
    BY <2>1, <2>2
<1> QED
  BY Zenon, <1>1, <1>2, <1>3 DEF EnfInv

(* A call of a guest changes nothing but the events and whether it lives. *)
LEMMA KernelRunsInv ==
  ASSUME EnfInv, NEW id \in Ids, NEW n \in Programs, NEW arg, NEW kills \in BOOLEAN,
         KernelRuns(id, n, arg, kills)
  PROVE  EnfInv'
<1>1. EbInv'
  BY Zenon, EbNextInv DEF EnfInv, KernelRuns
<1>2. KfTypeOK'
  BY Zenon, EventsType DEF EnfInv, EnfTypeOK, KernelRuns
<1>3. box' \in [Ids -> Boxes]
  <2> DEFINE alive == ~(kills /\ Stops(n, box[id].cgroup, arg))
  <2>1. alive \in BOOLEAN /\ box \in [Ids -> Boxes]
    BY Zenon DEF EnfInv, EnfTypeOK
  <2>2. box' = [box EXCEPT ![id].inside = alive]
    BY Zenon DEF KernelRuns
  <2> HIDE DEF alive
  <2> QED
    BY Zenon, <2>1, <2>2 DEF Boxes
<1>4. EnfTypeOK'
  BY Zenon, <1>1, <1>2, <1>3 DEF EnfInv, EnfTypeOK, EbInv, PeTypeOK, KernelRuns, callVars
<1>5. \A i \in Ids : /\ box'[i].cgroup = box[i].cgroup /\ box'[i].obj = box[i].obj
                     /\ box'[i].blocked = box[i].blocked
  BY Zenon DEF KernelRuns, EnfInv, EnfTypeOK, Boxes
<1>6. UNCHANGED <<apply, m_bpf_obj, loads, resident, mapVars>>
  BY Zenon DEF KernelRuns, ebVars, objVars
<1> QED
  BY Zenon, <1>1, <1>4, <1>5, <1>6, QuietStep

LEMMA AttachStepInv ==
  ASSUME EnfInv,
         \/ \E n \in Programs : attach_tracepoint(n)
         \/ \E id \in Ids : attach_cgroup_connect4(id)
  PROVE  EnfInv'
<1>1. PICK n \in Programs : attach(n)
  BY Zenon DEF attach_tracepoint, attach_cgroup_connect4, Programs
<1>2. EbInv'
  BY Zenon, <1>1, EbNextInv DEF EnfInv, EbNext
<1>3. KfTypeOK'
  <2>1. m_bpf_obj \in Loads
    BY Zenon, <1>1 DEF attach, EnfInv, EnfTypeOK, EbTypeOK
  <2>2. \A id \in Ids : box[id].cgroup # 0 => box[id].cgroup \in CgroupIds
    BY Zenon, BoxType DEF EnfInv
  <2> QED
    BY <2>1, <2>2 DEF attach_tracepoint, attach_cgroup_connect4, kfVars,
       KfTypeOK, EnfInv, EnfTypeOK
<1>4. EnfTypeOK' /\ UNCHANGED <<apply, box>>
  BY Zenon, <1>2, <1>3 DEF EnfInv, EnfTypeOK, EbInv, PeTypeOK, attach_tracepoint,
     attach_cgroup_connect4, callVars, enfVars
<1>5. UNCHANGED <<apply, m_bpf_obj, loads, resident, mapVars>>
  BY Zenon, <1>1, <1>4 DEF attach
<1> QED
  BY Zenon, <1>2, <1>4, <1>5, QuietStep

LEMMA UpdatePoliciesInv ==
  ASSUME EnfInv, UpdatePolicies
  PROVE  EnfInv'
<1>1. EbInv' /\ PeTypeOK'
  BY Zenon, EbNextInv, PeNextType DEF EnfInv, EnfTypeOK, UpdatePolicies
<1>2. updates' \in 0..MaxUpdates
  BY EnforcementAssumption DEF EnfInv, EnfTypeOK, UpdatePolicies
<1>3. EnfTypeOK'
  BY Zenon, <1>1, <1>2 DEF EnfInv, EnfTypeOK, EbInv, KfTypeOK, UpdatePolicies, kfVars, enfVars
<1>4. UNCHANGED <<apply, m_bpf_obj, loads, resident, mapVars>> /\ UNCHANGED box
  BY Zenon DEF UpdatePolicies, enfVars, ebVars, objVars
<1> QED
  BY Zenon, <1>1, <1>3, <1>4, QuietStep

LEMMA ReadEventInv ==
  ASSUME EnfInv, ReadEvent
  PROVE  EnfInv'
<1>1. EbInv' /\ KfTypeOK'
  BY Zenon, EbNextInv, ConsumeType DEF EnfInv, EnfTypeOK, ReadEvent, Consume
<1>2. EnfTypeOK'
  BY Zenon, <1>1 DEF EnfInv, EnfTypeOK, EbInv, PeTypeOK, ReadEvent, enfVars, callVars
<1>3. UNCHANGED <<apply, m_bpf_obj, loads, resident, mapVars>> /\ UNCHANGED box
  BY Zenon DEF ReadEvent, Consume, enfVars, ebVars, objVars
<1> QED
  BY Zenon, <1>1, <1>2, <1>3, QuietStep
-----------------------------------------------------------------------------
(* create_sandbox takes a cgroup no other sandbox has, and nothing is      *)
(* recorded for it yet.                                                    *)
LEMMA CreateInv ==
  ASSUME EnfInv, NEW id \in Ids, create_sandbox(id)
  PROVE  EnfInv'
<1>1. PICK c \in DirInodes(id), n \in PolicyNames, inside \in BOOLEAN :
        box' = [box EXCEPT ![id] = [NoBox EXCEPT !.state = "applying", !.cgroup = c,
                  !.policy = n, !.inside = inside]]
  BY Zenon DEF create_sandbox
<1>0. c \in CgroupIds
  BY Zenon, <1>1, BoxType DEF DirInodes, EnfInv
<1>2. EbInv'
  BY Zenon, EbNextInv DEF EnfInv, create_sandbox
<1> DEFINE new == [NoBox EXCEPT !.state = "applying", !.cgroup = c, !.policy = n,
                     !.inside = inside]
<1>3. new \in Boxes /\ new.cgroup = c /\ new.obj = 0
  BY Zenon, <1>0 DEF NoBox, Boxes
<1>4. box' = [box EXCEPT ![id] = new] /\ box \in [Ids -> Boxes]
  BY Zenon, <1>1 DEF EnfInv, EnfTypeOK
<1> HIDE DEF new
<1>5. apply' \in Applies
  BY Zenon DEF create_sandbox, Idle, Applies
<1>6. creates' \in 0..MaxCreates
  BY EnforcementAssumption DEF EnfInv, EnfTypeOK, create_sandbox
<1>7. EnfTypeOK'
  BY Zenon, <1>2, <1>3, <1>4, <1>5, <1>6 DEF EnfInv, EnfTypeOK, EbInv, PeTypeOK, KfTypeOK,
     kfVars, create_sandbox
<1>8. \A i \in Ids : box'[i] = IF i = id THEN new ELSE box[i]
  BY Zenon, <1>4
<1>9. CgroupsDistinct'
  <2>1. \A i \in Ids : i # id => box[i].cgroup # c
    BY Zenon, <1>1 DEF DirInodes, EnfInv, CgroupsDistinct
  <2> QED
    BY <1>3, <1>8, <2>1 DEF EnfInv, CgroupsDistinct
<1>10. BoxesHold'
  BY <1>3, <1>8 DEF EnfInv, BoxesHold, Holds, create_sandbox, ebVars, objVars, mapVars
<1>11. ApplyHolds'
  <2>1. /\ apply'.id = id /\ apply'.step = "monitor" /\ apply'.obj = 0
        /\ apply'.blocked = {} /\ apply'.todo = {}
    BY Zenon DEF create_sandbox, Idle
  <2>2. c # 0
    BY Zenon, <1>0, HostAssumption
  <2> QED
    BY Zenon, <1>3, <1>8, <2>1, <2>2 DEF ApplyHolds
<1> QED
  BY Zenon, <1>2, <1>7, <1>9, <1>10, <1>11 DEF EnfInv

(* Marking a cgroup monitored takes nothing from another sandbox. *)
LEMMA MonitorInv ==
  ASSUME EnfInv, MonitorCgroup
  PROVE  EnfInv'
<1>1. PICK id \in Ids : id = apply.id
  BY Zenon DEF EnfInv, ApplyHolds, MonitorCgroup
<1>2. PICK c \in CgroupIds : c = box[id].cgroup
  BY Zenon, <1>1, BoxType DEF EnfInv, ApplyHolds, MonitorCgroup
<1> DEFINE taken == CurrentFile \in MonitoredMapFiles /\ MapHasRoom(m_bpf_obj, c)
<1>3. /\ set_cgroup_monitored(c, TRUE) /\ apply.step = "monitor"
      /\ apply' = [apply EXCEPT !.step = "fetch", !.obj = IF taken THEN m_bpf_obj ELSE 0]
      /\ UNCHANGED <<box, callVars, m_policies, kfVars>>
  BY Zenon, <1>1, <1>2 DEF MonitorCgroup
<1>4. EbInv'
  BY Zenon, <1>3, EbNextInv DEF EnfInv, EbNext
<1>5. apply' \in Applies
  BY Zenon, <1>3 DEF EnfInv, EnfTypeOK, EbTypeOK, Applies
<1>6. EnfTypeOK'
  BY Zenon, <1>3, <1>4, <1>5 DEF EnfInv, EnfTypeOK, EbInv, PeTypeOK, KfTypeOK, kfVars, callVars
<1>7. \A o \in Loads, d \in CgroupIds :
        monitored'[o][d] = "on" \/ monitored'[o][d] = monitored[o][d]
  BY <1>3 DEF set_cgroup_monitored, MonitoredAfter, EnfInv, EnfTypeOK, EbTypeOK
<1>8. UNCHANGED <<objVars, syscall_policy, blocked_ips>>
  BY Zenon, <1>3 DEF set_cgroup_monitored
<1>9. CgroupsDistinct'
  BY Zenon, <1>3 DEF EnfInv, CgroupsDistinct
<1>10. BoxesHold'
  <2> SUFFICES ASSUME NEW i \in Ids, box[i].obj # 0
               PROVE  /\ box[i].cgroup # 0 /\ box[i].obj <= loads
                      /\ Holds(box[i].obj, box[i].cgroup, box[i].blocked)'
    BY Zenon, <1>3, <1>8 DEF BoxesHold, objVars
  <2>1. box[i].obj \in Loads /\ box[i].cgroup \in CgroupIds
    BY Zenon, BoxType DEF EnfInv, BoxesHold
  <2> QED
    BY Zenon, <1>3, <1>7, <1>8, <2>1 DEF EnfInv, BoxesHold, Holds, objVars
<1>11. ApplyHolds'
  <2>1. /\ apply'.id = id /\ apply'.step = "fetch" /\ apply'.blocked = {} /\ apply'.todo = {}
        /\ apply'.obj = IF taken THEN m_bpf_obj ELSE 0
    BY Zenon, <1>1, <1>3 DEF EnfInv, EnfTypeOK, Applies, ApplyHolds
  <2>2. taken /\ m_bpf_obj # 0 => monitored'[m_bpf_obj][c] = "on"
    BY <1>3 DEF set_cgroup_monitored, MonitoredAfter, EnfInv, EnfTypeOK, EbTypeOK
  <2>3. apply'.obj # 0 => Holds(apply.obj, box[apply.id].cgroup, apply.blocked \ apply.todo)'
    BY Zenon, <1>2, <1>3, <2>1, <2>2 DEF Holds
  <2>4. box'[id].cgroup # 0 /\ box'[id].obj = 0
    BY Zenon, <1>1, <1>3 DEF EnfInv, ApplyHolds
  <2> QED
    BY Zenon, <1>8, <2>1, <2>3, <2>4 DEF ApplyHolds, objVars
<1> QED
  BY Zenon, <1>4, <1>6, <1>9, <1>10, <1>11 DEF EnfInv
-----------------------------------------------------------------------------
(* The end of create_sandbox: what the call pushed is what is recorded. *)
LEMMA AppliedInv ==
  ASSUME EnfInv, EbInv', apply.step \in {"fetch", "push"}, apply.todo = {}, Applied,
         UNCHANGED <<objVars, monitored, syscall_policy, callVars, m_policies, kfVars>>
  PROVE  EnfInv'
<1>1. PICK id \in Ids : id = apply.id
  BY Zenon DEF EnfInv, ApplyHolds
<1> DEFINE new == [box[id] EXCEPT !.state = "active", !.obj = apply.obj,
                                  !.blocked = apply.blocked]
<1>2. box \in [Ids -> Boxes] /\ box' = [box EXCEPT ![id] = new]
  <2>1. box \in [Ids -> Boxes]
    BY Zenon DEF EnfInv, EnfTypeOK
  <2> QED
    BY <1>1, <2>1 DEF Applied, Boxes
<1>3. /\ new \in Boxes /\ new.cgroup = box[id].cgroup
      /\ new.obj = apply.obj /\ new.blocked = apply.blocked
  BY Zenon, <1>2, ApplyType DEF EnfInv, Boxes
<1> HIDE DEF new
<1>4. \A i \in Ids : box'[i] = IF i = id THEN new ELSE box[i]
  BY Zenon, <1>2
<1>5. apply' \in Applies
  BY Zenon DEF Applied, Idle, Applies
<1>6. EnfTypeOK'
  BY Zenon, <1>2, <1>3, <1>5 DEF EnfInv, EnfTypeOK, EbInv, PeTypeOK, KfTypeOK, kfVars, callVars
<1>7. CgroupsDistinct'
  BY <1>3, <1>4 DEF EnfInv, CgroupsDistinct
<1>8. BoxesHold'
  <2> SUFFICES ASSUME NEW i \in Ids, box'[i].obj # 0
               PROVE  /\ box'[i].cgroup # 0 /\ box'[i].obj <= loads
                      /\ Holds(box'[i].obj, box'[i].cgroup, box'[i].blocked)
    BY Zenon DEF BoxesHold, Holds, objVars
  <2>1. CASE i # id
    BY Zenon, <1>4, <2>1 DEF EnfInv, BoxesHold
  <2>2. CASE i = id
    <3>1. apply.obj # 0 /\ box'[i].obj = m_bpf_obj /\ m_bpf_obj <= loads
      BY Zenon, <1>3, <1>4, <2>2, ObjectIsLoaded DEF EnfInv, ApplyHolds
    <3>2. apply.blocked \ apply.todo = apply.blocked
      BY Zenon
    <3> QED
      BY Zenon, <1>1, <1>3, <1>4, <2>2, <3>1, <3>2 DEF EnfInv, ApplyHolds
  <2> QED
    BY <2>1, <2>2
<1>9. ApplyHolds'
  BY Zenon DEF Applied, Idle, ApplyHolds
<1> QED
  BY Zenon, <1>6, <1>7, <1>8, <1>9 DEF EnfInv

LEMMA FetchInv ==
  ASSUME EnfInv, FetchPolicy
  PROVE  EnfInv'
<1>1. EbInv'
  BY Zenon, EbNextInv DEF EnfInv, FetchPolicy
<1>2. UNCHANGED <<objVars, mapVars, callVars, m_policies, kfVars>> /\ apply.step = "fetch"
  BY Zenon DEF FetchPolicy, ebVars
<1>4. PICK id \in Ids : id = apply.id
  BY Zenon, <1>2 DEF EnfInv, ApplyHolds
<1> DEFINE policy == get_policy(box[id].policy)
<1>5. CASE policy = None
  <2>1. Applied /\ apply.todo = {}
    BY Zenon, <1>2, <1>4, <1>5 DEF FetchPolicy, EnfInv, ApplyHolds
  <2> QED
    BY Zenon, <1>1, <1>2, <2>1, AppliedInv DEF mapVars
<1>6. CASE policy # None
  <2>1. /\ apply' = [apply EXCEPT !.step = "push", !.blocked = policy.blocked_syscalls,
                       !.todo = policy.blocked_syscalls, !.metadata = policy.block_cloud_metadata]
        /\ UNCHANGED box
    BY Zenon, <1>4, <1>6 DEF FetchPolicy
  <2>2. policy \in Policies
    BY Zenon, <1>6, BoxType DEF get_policy, EnfInv, EnfTypeOK, PeTypeOK
  <2>3. policy.blocked_syscalls \subseteq Syscalls /\ policy.block_cloud_metadata \in BOOLEAN
    BY Zenon, <2>2 DEF Policies
  <2> HIDE DEF policy
  <2>4. apply' \in Applies
    BY Zenon, <2>1, <2>3 DEF EnfInv, EnfTypeOK, Applies
  <2>5. EnfTypeOK'
    BY Zenon, <1>1, <1>2, <2>1, <2>4 DEF EnfInv, EnfTypeOK, EbInv, PeTypeOK, KfTypeOK, kfVars,
       callVars
  <2>6. CgroupsDistinct' /\ BoxesHold'
    BY Zenon, <1>2, <2>1 DEF EnfInv, CgroupsDistinct, BoxesHold, Holds, objVars, mapVars
  <2>7. /\ apply'.id = id /\ apply'.step = "push" /\ apply'.obj = apply.obj
        /\ apply'.blocked = apply'.todo
    BY Zenon, <1>4, <2>1 DEF EnfInv, EnfTypeOK, Applies
  <2>8. ApplyHolds'
    <3>1. apply'.blocked \ apply'.todo = {}
      BY Zenon, <2>7
    <3>2. apply.obj # 0 => Holds(apply.obj, box[id].cgroup, {})
      BY Zenon, <1>4 DEF EnfInv, ApplyHolds, Holds
    <3>3. /\ box'[id].cgroup # 0 /\ box'[id].obj = 0
          /\ apply'.obj # 0 => apply'.obj = m_bpf_obj'
      BY Zenon, <1>2, <1>4, <2>1, <2>7 DEF EnfInv, ApplyHolds, objVars
    <3> QED
      BY Zenon, <1>2, <2>1, <2>7, <3>1, <3>2, <3>3 DEF ApplyHolds, Holds, objVars, mapVars
  <2> QED
    BY Zenon, <1>1, <2>5, <2>6, <2>8 DEF EnfInv
<1> QED
  BY Zenon, <1>5, <1>6

(* A pushed rule leaves the list of those to do and enters the map. *)
LEMMA PushSyscallInv ==
  ASSUME EnfInv, PushSyscall
  PROVE  EnfInv'
<1>1. PICK nr \in apply.todo :
        set_syscall_policy(nr, TRUE) /\ apply' = [apply EXCEPT !.todo = @ \ {nr}]
  BY Zenon DEF PushSyscall, RulesToPush
<1>2. nr \in Syscalls
  BY Zenon, ApplyType DEF EnfInv
<1>3. EbInv'
  BY Zenon, <1>1, <1>2, EbNextInv DEF EnfInv, EbNext
<1>4. /\ UNCHANGED <<objVars, monitored, blocked_ips, box, callVars, m_policies, kfVars>>
      /\ apply.step = "push"
  BY Zenon, <1>1 DEF PushSyscall, set_syscall_policy
<1>5. apply' \in Applies
  <2>1. apply.todo \ {nr} \in SUBSET Syscalls
    BY Zenon, ApplyType DEF EnfInv
  <2> QED
    BY Zenon, <1>1, <2>1 DEF EnfInv, EnfTypeOK, Applies
<1>6. EnfTypeOK'
  BY Zenon, <1>3, <1>4, <1>5 DEF EnfInv, EnfTypeOK, EbInv, PeTypeOK, KfTypeOK, kfVars, callVars
<1>7. \A o \in Loads : syscall_policy[o] \subseteq syscall_policy'[o]
  BY <1>1 DEF set_syscall_policy, SyscallPolicyAfter, EnfInv, EnfTypeOK, EbTypeOK
<1>8. m_bpf_obj # 0 /\ resident[m_bpf_obj] = "sys_filter" => nr \in syscall_policy'[m_bpf_obj]
  BY <1>1 DEF set_syscall_policy, SyscallPolicyAfter, CurrentFile, EnfInv, EnfTypeOK, EbTypeOK
<1>9. CgroupsDistinct'
  BY Zenon, <1>4 DEF EnfInv, CgroupsDistinct
<1>10. BoxesHold'
  <2> SUFFICES ASSUME NEW i \in Ids, box[i].obj # 0
               PROVE  /\ box[i].cgroup # 0 /\ box[i].obj <= loads
                      /\ Holds(box[i].obj, box[i].cgroup, box[i].blocked)'
    BY Zenon, <1>4 DEF BoxesHold, objVars
  <2>1. box[i].obj \in Loads
    BY Zenon, BoxType DEF EnfInv
  <2> QED
    BY Zenon, <1>4, <1>7, <2>1 DEF EnfInv, BoxesHold, Holds, objVars
<1>11. ApplyHolds'
  <2>1. /\ apply'.id = apply.id /\ apply'.step = apply.step /\ apply'.obj = apply.obj
        /\ apply'.blocked = apply.blocked /\ apply'.todo = apply.todo \ {nr}
    BY Zenon, <1>1 DEF EnfInv, EnfTypeOK, Applies
  <2>2. ASSUME apply.obj # 0
        PROVE  /\ apply.obj = m_bpf_obj /\ apply.obj \in Loads
               /\ Holds(apply.obj, box[apply.id].cgroup, apply.blocked \ apply.todo)
    BY Zenon, <2>2, ApplyType DEF EnfInv, ApplyHolds
  <2>3. ASSUME apply.obj # 0
        PROVE  Holds(apply.obj, box[apply.id].cgroup, apply.blocked \ apply.todo)'
    <3>1. monitored'[apply.obj] = monitored[apply.obj] /\ resident' = resident /\ box' = box
      BY Zenon, <1>4 DEF objVars
    <3>2. resident[apply.obj] = "sys_filter" =>
            apply.blocked \ (apply.todo \ {nr}) \subseteq syscall_policy'[apply.obj]
      BY <1>7, <1>8, <2>2, <2>3 DEF Holds
    <3> QED
      BY Zenon, <2>1, <2>2, <2>3, <3>1, <3>2 DEF Holds
  <2> QED
    BY Zenon, <1>4, <2>1, <2>3 DEF EnfInv, ApplyHolds, objVars
<1> QED
  BY Zenon, <1>3, <1>6, <1>9, <1>10, <1>11 DEF EnfInv

LEMMA PushEgressInv ==
  ASSUME EnfInv, PushEgress
  PROVE  EnfInv'
<1>1. BlockedEgress \in SUBSET Ips
  BY Zenon, HostAssumption DEF BlockedEgress
<1>2. blocked_ips' \in [Loads -> SUBSET Ips]
  BY Zenon, <1>1, BlockedIpsAfterType DEF PushEgress, EnfInv, EnfTypeOK
<1>3. EbInv'
  BY <1>2 DEF PushEgress, objVars, EnfInv, EbInv, EbTypeOK, FutureLoadsAbsent,
     AttachedHasLink, LinksHaveObject
<1> QED
  BY Zenon, <1>3, AppliedInv DEF PushEgress, RulesToPush
-----------------------------------------------------------------------------
(* Sandboxes that end keep nothing but, perhaps, their directory. *)
LEMMA LeftBehindHolds ==
  ASSUME EnfInv, NEW ids, NEW kept, LeftBehind(ids, kept), UNCHANGED pending
  PROVE  /\ box' \in [Ids -> Boxes] /\ KfTypeOK' /\ CgroupsDistinct'
         /\ \A i \in Ids : IF i \in ids THEN box'[i].obj = 0 ELSE box'[i] = box[i]
<1> DEFINE left(i) == [NoBox EXCEPT !.cgroup = IF i \in kept THEN box[i].cgroup ELSE 0]
<1>1. \A i \in Ids : box'[i] = IF i \in ids THEN left(i) ELSE box[i]
  BY Zenon DEF LeftBehind
<1>2. \A i \in Ids : /\ left(i) \in Boxes /\ left(i).obj = 0
                     /\ left(i).cgroup \in {0, box[i].cgroup}
  <2> SUFFICES ASSUME NEW i \in Ids
               PROVE  /\ left(i) \in Boxes /\ left(i).obj = 0
                      /\ left(i).cgroup \in {0, box[i].cgroup}
    BY Zenon
  <2> DEFINE c == IF i \in kept THEN box[i].cgroup ELSE 0
  <2>1. c \in CgroupIds \cup {0} /\ c \in {0, box[i].cgroup}
    BY Zenon, BoxType DEF EnfInv
  <2>2. left(i) = [NoBox EXCEPT !.cgroup = c]
    BY Zenon
  <2> HIDE DEF c, left
  <2> QED
    BY Zenon, <2>1, <2>2, EngineAssumption DEF NoBox, Boxes
<1> HIDE DEF left
<1>3. box' \in [Ids -> Boxes]
  <2>1. \A i \in Ids : box'[i] \in Boxes
    BY Zenon, <1>1, <1>2 DEF EnfInv, EnfTypeOK
  <2> QED
    BY Zenon, <2>1 DEF LeftBehind
<1>4. KfTypeOK'
  BY Zenon DEF LeftBehind, EnfInv, EnfTypeOK, KfTypeOK
<1>5. \A i \in Ids : box'[i].cgroup \in {0, box[i].cgroup}
  BY Zenon, <1>1, <1>2
<1>6. CgroupsDistinct'
  BY <1>5 DEF EnfInv, CgroupsDistinct
<1> QED
  BY Zenon, <1>1, <1>2, <1>3, <1>4, <1>6

(* Ending a sandbox unmarks its own cgroup, which no other sandbox has. *)
LEMMA TerminateInv ==
  ASSUME EnfInv, NEW id \in Ids, terminate_sandbox(id)
  PROVE  EnfInv'
<1>1. /\ box' \in [Ids -> Boxes] /\ KfTypeOK' /\ CgroupsDistinct' /\ box'[id].obj = 0
      /\ \A i \in Ids : i # id => box'[i] = box[i]
  BY Zenon, LeftBehindHolds DEF terminate_sandbox
<1>4. /\ set_cgroup_monitored(box[id].cgroup, FALSE) /\ apply.step = "idle"
      /\ UNCHANGED <<apply, pending, callVars, m_policies>>
  BY Zenon DEF terminate_sandbox
<1>5. UNCHANGED <<objVars, syscall_policy, blocked_ips>>
  BY Zenon, <1>4 DEF set_cgroup_monitored
<1>6. EbInv'
  <2>1. CASE box[id].cgroup \in CgroupIds
    BY Zenon, <1>4, <2>1, EbNextInv DEF EnfInv, EbNext
  <2>2. CASE box[id].cgroup = 0
    <3>1. \A o \in Loads : [monitored[o] EXCEPT ![0] = "off"] = monitored[o]
      BY HostAssumption DEF EnfInv, EnfTypeOK, EbTypeOK
    <3>2. monitored' = monitored
      BY <1>4, <2>2, <3>1 DEF set_cgroup_monitored, MonitoredAfter, EnfInv, EnfTypeOK, EbTypeOK
    <3> QED
      BY Zenon, <1>5, <3>2, EbNextInv DEF EnfInv, ebVars, mapVars
  <2> QED
    BY Zenon, <2>1, <2>2, BoxType DEF EnfInv
<1>8. EnfTypeOK'
  BY Zenon, <1>1, <1>4, <1>6 DEF EnfInv, EnfTypeOK, EbInv, PeTypeOK, callVars
<1>10. BoxesHold'
  <2> SUFFICES ASSUME NEW i \in Ids, i # id, box[i].obj # 0
               PROVE  /\ box[i].cgroup # 0 /\ box[i].obj <= loads
                      /\ Holds(box[i].obj, box[i].cgroup, box[i].blocked)
                      /\ monitored'[box[i].obj][box[i].cgroup] = monitored[box[i].obj][box[i].cgroup]
    BY Zenon, <1>1, <1>5 DEF BoxesHold, Holds, objVars
  <2>1. /\ box[i].cgroup # 0 /\ box[i].obj <= loads
        /\ Holds(box[i].obj, box[i].cgroup, box[i].blocked)
    BY Zenon DEF EnfInv, BoxesHold
  <2>2. box[i].cgroup # box[id].cgroup
    BY Zenon, <2>1 DEF EnfInv, CgroupsDistinct
  <2>3. box[i].obj \in Loads /\ box[i].cgroup \in CgroupIds
    BY Zenon, <2>1, BoxType DEF EnfInv
  <2>4. monitored'[box[i].obj][box[i].cgroup] = monitored[box[i].obj][box[i].cgroup]
    BY <1>4, <2>2, <2>3 DEF set_cgroup_monitored, MonitoredAfter, EnfInv, EnfTypeOK, EbTypeOK
  <2> QED
    BY Zenon, <2>1, <2>4
<1>11. ApplyHolds'
  BY Zenon, <1>4, <1>5 DEF EnfInv, ApplyHolds
<1> QED
  BY Zenon, <1>1, <1>6, <1>8, <1>10, <1>11 DEF EnfInv

LEMMA TerminateAllInv ==
  ASSUME EnfInv, terminate_all
  PROVE  EnfInv'
<1> DEFINE active == {id \in Ids : box[id].state = "active"}
<1>1. /\ box' \in [Ids -> Boxes] /\ KfTypeOK' /\ CgroupsDistinct'
      /\ \A i \in Ids : IF i \in active THEN box'[i].obj = 0 ELSE box'[i] = box[i]
  BY Zenon, LeftBehindHolds DEF terminate_all
<1> HIDE DEF active
<1>2. /\ apply.step = "idle" /\ UNCHANGED <<apply, callVars, m_policies, ebVars>>
  BY Zenon DEF terminate_all
<1>3. EbInv'
  BY Zenon, <1>2, EbNextInv DEF EnfInv
<1>4. EnfTypeOK'
  BY Zenon, <1>1, <1>2, <1>3 DEF EnfInv, EnfTypeOK, EbInv, PeTypeOK, callVars
<1>5. BoxesHold'
  BY Zenon, <1>1, <1>2 DEF EnfInv, BoxesHold, Holds, ebVars, objVars, mapVars
<1>6. ApplyHolds'
  BY Zenon, <1>2 DEF EnfInv, ApplyHolds
<1> QED
  BY Zenon, <1>1, <1>3, <1>4, <1>5, <1>6 DEF EnfInv

(* A load touches an object no sandbox has; detach_all closes the object   *)
(* whose maps it clears.                                                   *)
LEMMA ChangeObjectInv ==
  ASSUME EnfInv, ChangeObject
  PROVE  EnfInv'
<1>1. EbInv'
  BY Zenon, EbNextInv DEF EnfInv, ChangeObject, EbNext
<1>2. /\ apply' = [apply EXCEPT !.obj = 0]
      /\ UNCHANGED <<box, callVars, m_policies>>
  BY Zenon DEF ChangeObject
<1>3. apply' \in Applies
  BY Zenon, <1>2 DEF EnfInv, EnfTypeOK, Applies
<1>4. KfTypeOK'
  <2>1. 0 \in 0..RingSize
    BY FilterAssumption
  <2>2. pending' \in [Loads -> 0..RingSize]
    BY Zenon, <2>1 DEF ChangeObject, EnfInv, EnfTypeOK, KfTypeOK
  <2> QED
    BY Zenon, <2>2 DEF ChangeObject, EnfInv, EnfTypeOK, KfTypeOK
<1>5. EnfTypeOK'
  BY Zenon, <1>1, <1>2, <1>3, <1>4 DEF EnfInv, EnfTypeOK, EbInv, PeTypeOK, callVars
<1> DEFINE Kept(o) == /\ resident'[o] = resident[o] /\ monitored'[o] = monitored[o]
                      /\ syscall_policy'[o] = syscall_policy[o]
<1>6. loads <= loads' /\ \A o \in Loads : o <= loads => resident'[o] = "none" \/ Kept(o)
  <2>1. loads \in Nat
    BY LoaderAssumption DEF EnfInv, EnfTypeOK, EbTypeOK, Loads
  <2>2. ASSUME NEW f \in ObjectFiles, load_bpf_object(f)
        PROVE  loads <= loads' /\ \A o \in Loads : o <= loads => Kept(o)
    BY <2>1, <2>2, LoaderAssumption DEF load_bpf_object, ResidentAfterLoad, mapVars, Loads,
       EnfInv, EnfTypeOK, EbTypeOK
  <2>3. CASE load_bpf_object_fails
    BY <2>1, <2>3 DEF load_bpf_object_fails, mapVars
  <2>4. CASE detach_all
    <3>1. loads <= loads'
      BY <2>1, <2>4 DEF detach_all
    <3>2. \A o \in Loads : o = m_bpf_obj => resident'[o] = "none"
      BY Zenon, <2>4, ZeroIsNoLoad DEF detach_all, EnfInv, EnfTypeOK, EbTypeOK
    <3>3. \A o \in Loads : o # m_bpf_obj => Kept(o)
      BY Zenon, <2>4 DEF detach_all, EnfInv, EnfTypeOK, EbTypeOK
    <3> QED
      BY Zenon, <3>1, <3>2, <3>3
  <2> QED
    BY Zenon, <2>2, <2>3, <2>4 DEF ChangeObject
<1>7. CgroupsDistinct'
  BY Zenon, <1>2 DEF EnfInv, CgroupsDistinct
<1>8. BoxesHold'
  <2> SUFFICES ASSUME NEW i \in Ids, box[i].obj # 0
               PROVE  /\ box[i].cgroup # 0 /\ box[i].obj <= loads'
                      /\ Holds(box[i].obj, box[i].cgroup, box[i].blocked)'
    BY Zenon, <1>2 DEF BoxesHold
  <2>1. /\ box[i].obj \in Loads /\ box[i].cgroup # 0 /\ box[i].obj <= loads
        /\ Holds(box[i].obj, box[i].cgroup, box[i].blocked)
    BY Zenon, BoxType DEF EnfInv, BoxesHold
  <2>2. box[i].obj <= loads'
    BY <1>1, <1>6, <2>1, LoaderAssumption DEF EnfInv, EbInv, EbTypeOK, Loads
  <2> QED
    BY Zenon, <1>2, <1>6, <2>1, <2>2 DEF Holds, MonitoredMapFiles
<1>9. ApplyHolds'
  <2>1. /\ apply'.id = apply.id /\ apply'.step = apply.step /\ apply'.obj = 0
        /\ apply'.blocked = apply.blocked /\ apply'.todo = apply.todo
    BY Zenon, <1>2 DEF EnfInv, EnfTypeOK, Applies
  <2> QED
    BY Zenon, <1>2, <2>1 DEF EnfInv, ApplyHolds
<1> QED
  BY Zenon, <1>1, <1>5, <1>7, <1>8, <1>9 DEF EnfInv

-----------------------------------------------------------------------------
LEMMA EnfNextInv == EnfInv /\ [EnfNext]_vars => EnfInv'
<1> SUFFICES ASSUME EnfInv, [EnfNext]_vars PROVE EnfInv'
  OBVIOUS
<1>1. ASSUME NEW id \in Ids, SysEnter(id) \/ Execve(id) \/ Connect(id) PROVE EnfInv'
  BY Zenon, <1>1, KernelRunsInv DEF SysEnter, Execve, Connect, Programs
<1>2. CASE UNCHANGED vars
  <2>1. EbInv'
    BY Zenon, <1>2, EbNextInv DEF EnfInv, vars
  <2>2. EnfTypeOK'
    BY Zenon, <1>2, <2>1 DEF EnfInv, EnfTypeOK, EbInv, PeTypeOK, KfTypeOK, vars, enfVars,
       callVars, kfVars
  <2> QED
    BY Zenon, <1>2, <2>1, <2>2, QuietStep DEF vars, enfVars, ebVars, objVars
<1> QED
  BY Zenon, <1>1, <1>2, CreateInv, TerminateInv, TerminateAllInv, MonitorInv, FetchInv,
     PushSyscallInv, PushEgressInv, ChangeObjectInv, UpdatePoliciesInv, ReadEventInv,
     AttachStepInv DEF EnfNext

LEMMA EnfInvariant == EnfSpec => []EnfInv
BY EnfInitInv, EnfNextInv, PTL DEF EnfSpec

(* The engine, the loader, the maps, the ring buffers and the call in      *)
(* progress stay well formed; no program overfills a ring buffer.          *)
THEOREM EnforcementTypeCorrect == EnfSpec => []EnfTypeOK
<1> QED BY EnfInvariant, PTL DEF EnfInv

(* The file an object with an attached program was loaded from. *)
LEMMA FileOfProgram ==
  ASSUME EbInv, NEW o \in Loads, NEW n \in Programs, <<o, n>> \in m_bpf_links
  PROVE  n = "handle_sys_enter" => resident[o] = "sys_filter"
<1>1. resident[o] \in ObjectFiles /\ ProgramOf[resident[o]] = n
  BY DEF EbInv, EbTypeOK, LinksHaveObject
<1> QED
  BY <1>1 DEF ProgramOf, ObjectFiles

(* A covered sandbox's cgroup is watched by the object that covers it. *)
LEMMA CoveredIsMonitored ==
  ASSUME EnfInv, NEW id \in Ids, NEW o \in Loads, NEW n \in Programs, Covered(id, o, n)
  PROVE  /\ o \in Attached(n) /\ Holds(o, box[id].cgroup, box[id].blocked)
         /\ resident[o] \in MonitoredMapFiles => Monitored(o, box[id].cgroup)
<1>1. /\ <<o, n>> \in m_bpf_links /\ box[id].obj = o /\ o # 0
  BY Zenon, ZeroIsNoLoad DEF Covered
<1>2. box[id].cgroup # 0 /\ Holds(o, box[id].cgroup, box[id].blocked)
  BY Zenon, <1>1 DEF EnfInv, BoxesHold
<1> QED
  BY Zenon, <1>1, <1>2 DEF Attached, Holds, Monitored

(* A system call the policy blocked when it was fetched is killed in every *)
(* sandbox whose policy an attached sys_filter object took: other          *)
(* sandboxes, later policies, other objects and full ring buffers do not   *)
(* change that, for any number of them.                                    *)
THEOREM BlockedSyscallsStayBlocked == EnfSpec => []BlockedSyscallIsKilled
<1>1. EnfInv => BlockedSyscallIsKilled
  <2> SUFFICES ASSUME EnfInv, NEW id \in Ids, NEW o \in Loads, NEW nr \in Syscalls,
                      Covered(id, o, "handle_sys_enter"), nr \in box[id].blocked
               PROVE  Stops("handle_sys_enter", box[id].cgroup, nr)
    BY Zenon DEF BlockedSyscallIsKilled
  <2>1. resident[o] = "sys_filter"
    BY Zenon, FileOfProgram DEF Covered, EnfInv, Programs
  <2>2. /\ o \in Attached("handle_sys_enter") /\ Monitored(o, box[id].cgroup)
        /\ nr \in syscall_policy[o]
    BY Zenon, <2>1, CoveredIsMonitored DEF Programs, MonitoredMapFiles, Holds
  <2>3. Decision("handle_sys_enter", o, box[id].cgroup, nr).stop
    BY Zenon, <2>2 DEF Decision, handle_sys_enter
  <2> QED
    BY Zenon, <2>2, <2>3 DEF Stops
<1> QED
  BY <1>1, EnfInvariant, PTL

-----------------------------------------------------------------------------
(* The kernel programs, the engine and the manager reach the loader only   *)
(* through its methods.                                                    *)
LEMMA LoaderStep ==
  ASSUME EnfInv, [EnfNext]_vars
  PROVE  [EbNext]_ebVars
<1>1. CASE MonitorCgroup
  <2>1. box[apply.id].cgroup \in CgroupIds
    BY Zenon, <1>1, BoxType DEF MonitorCgroup, EnfInv, ApplyHolds
  <2> QED
    BY Zenon, <1>1, <2>1 DEF MonitorCgroup, EbNext
<1>2. CASE PushSyscall
  <2>1. RulesToPush \subseteq Syscalls
    BY Zenon, ApplyType DEF RulesToPush, EnfInv
  <2> QED
    BY Zenon, <1>2, <2>1 DEF PushSyscall, EbNext
<1>3. CASE PushEgress
  <2>1. CASE apply.metadata
    <3>1. set_blocked_ip(MetadataIp, TRUE)
      BY Zenon, <1>3, <2>1 DEF PushEgress, BlockedEgress, set_blocked_ip
    <3> QED
      BY Zenon, <3>1, HostAssumption DEF EbNext
  <2>2. CASE ~apply.metadata
    <3>1. blocked_ips' = BlockedIpsAfter({}, {})
      BY Zenon, <1>3, <2>2 DEF PushEgress, BlockedEgress
    <3>2. blocked_ips' = blocked_ips
      BY <3>1 DEF BlockedIpsAfter, EnfInv, EnfTypeOK, EbTypeOK
    <3> QED
      BY Zenon, <1>3, <3>2 DEF PushEgress, ebVars, mapVars
  <2> QED
    BY Zenon, <2>1, <2>2
<1>4. ASSUME NEW id \in Ids, terminate_sandbox(id) PROVE [EbNext]_ebVars
  <2>1. set_cgroup_monitored(box[id].cgroup, FALSE)
    BY Zenon, <1>4 DEF terminate_sandbox
  <2>2. CASE box[id].cgroup \in CgroupIds
    BY Zenon, <2>1, <2>2 DEF EbNext
  <2>3. CASE box[id].cgroup = 0
    <3>1. \A o \in Loads : [monitored[o] EXCEPT ![0] = "off"] = monitored[o]
      BY HostAssumption DEF EnfInv, EnfTypeOK, EbTypeOK
    <3>2. monitored' = monitored
      BY <2>1, <2>3, <3>1 DEF set_cgroup_monitored, MonitoredAfter, EnfInv, EnfTypeOK, EbTypeOK
    <3> QED
      BY Zenon, <2>1, <3>2 DEF set_cgroup_monitored, ebVars, mapVars
  <2> QED
    BY Zenon, <2>2, <2>3, BoxType DEF EnfInv
<1>5. CASE ChangeObject
  BY Zenon, <1>5 DEF ChangeObject, EbNext
<1>6. ASSUME NEW id \in Ids, attach_cgroup_connect4(id) PROVE [EbNext]_ebVars
  BY Zenon, <1>6 DEF attach_cgroup_connect4, EbNext, Programs
<1>7. ASSUME NEW n \in Programs, attach_tracepoint(n) PROVE [EbNext]_ebVars
  BY Zenon, <1>7 DEF attach_tracepoint, EbNext
<1>8. ASSUME NEW id \in Ids, create_sandbox(id) \/ SysEnter(id) \/ Execve(id) \/ Connect(id)
      PROVE  [EbNext]_ebVars
  BY Zenon, <1>8 DEF create_sandbox, SysEnter, Execve, Connect, KernelRuns
<1>9. CASE terminate_all \/ FetchPolicy \/ UpdatePolicies \/ ReadEvent
  BY Zenon, <1>9 DEF terminate_all, FetchPolicy, UpdatePolicies, ReadEvent, Consume
<1> QED
  BY Zenon, <1>1, <1>2, <1>3, <1>4, <1>5, <1>6, <1>7, <1>8, <1>9 DEF EnfNext, vars

(* Seen from the loader, the whole pipeline is one of its users.           *)
THEOREM EnforcementImplementsLoaderCalls == EnfSpec => EbSpec
<1>1. EnfInit => EbInit
  BY Zenon DEF EnfInit
<1>2. EnfInv /\ [EnfNext]_vars => [EbNext]_ebVars
  BY Zenon, LoaderStep
<1> QED
  BY <1>1, <1>2, EnfInvariant, PTL DEF EnfSpec, EbSpec

(* So with policies applied, sandboxes ended and objects replaced by other *)
(* threads between any two calls, the flags, the links and the objects of  *)
(* the loader still agree.                                                 *)
THEOREM LoaderOfTheEnforcement == EnfSpec => [](AttachedHasLink /\ LinksHaveObject)
BY EnforcementImplementsLoaderCalls, AttachedProgramsHaveLinks, EbpfLoaderCorrect, PTL
=============================================================================
