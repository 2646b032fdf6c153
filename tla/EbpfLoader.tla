----------------------------- MODULE EbpfLoader -----------------------------
(***************************************************************************)
(* The eBPF loader (src/ebpf/ebpf_loader.cpp) and the kernel objects it    *)
(* creates through libbpf.  The loader keeps one bpf_object pointer; the   *)
(* kernel keeps every object that was loaded and not closed, each with     *)
(* maps of its own.  Loads are numbered, and an object is named by the     *)
(* number of the load that made it.  All methods but get_map_fd hold       *)
(* EBPFLoader::m_mutex for their whole body, so a method is one step.      *)
(***************************************************************************)
EXTENDS Host

CONSTANTS MaxMonitored,\* max_entries of the monitored-cgroup maps
          MaxLoads     \* bound: objects loaded in one run

ASSUME LoaderAssumption == MaxMonitored \in Nat /\ MaxLoads \in Nat

(* The three bytecode files, the program and the maps each one has. *)
ObjectFiles == {"sys_filter", "net_filter", "process_monitor"}
Programs == {"handle_sys_enter", "aegis_cgroup_connect4", "handle_execve_enter"}
ProgramOf ==
  [f \in ObjectFiles |->
     CASE f = "sys_filter"      -> "handle_sys_enter"
       [] f = "net_filter"      -> "aegis_cgroup_connect4"
       [] f = "process_monitor" -> "handle_execve_enter"]
MonitoredMapFiles == {"sys_filter", "process_monitor"}

Loads == 1..MaxLoads

VARIABLES m_bpf_obj,      \* the object the loader points to; 0: nullptr
          m_is_loaded,
          m_programs,     \* metadata flags of each program name
          m_bpf_links,    \* links held: <<object, program>>
          loads,          \* loads that reached the kernel so far
          resident,       \* kernel: object -> file it was loaded from, "none"
          monitored,      \* kernel: object -> cgroup_id -> "none", "off", "on"
          syscall_policy, \* kernel: object -> syscalls whose entry is 1
          blocked_ips     \* kernel: object -> addresses whose entry is 1

mapVars == <<monitored, syscall_policy, blocked_ips>>
objVars == <<m_bpf_obj, m_is_loaded, m_programs, m_bpf_links, loads, resident>>
ebVars == <<objVars, mapVars>>

Metadata == [is_loaded : BOOLEAN, is_attached : BOOLEAN]

EbTypeOK ==
  /\ m_bpf_obj \in Loads \cup {0}
  /\ m_is_loaded \in BOOLEAN
  /\ m_programs \in [Programs -> Metadata]
  /\ m_bpf_links \subseteq Loads \X Programs
  /\ loads \in Loads \cup {0}
  /\ resident \in [Loads -> ObjectFiles \cup {"none"}]
  /\ monitored \in [Loads -> [CgroupIds -> {"none", "off", "on"}]]
  /\ syscall_policy \in [Loads -> SUBSET Syscalls]
  /\ blocked_ips \in [Loads -> SUBSET Ips]

EmptyMaps ==
  /\ monitored = [o \in Loads |-> [c \in CgroupIds |-> "none"]]
  /\ syscall_policy = [o \in Loads |-> {}]
  /\ blocked_ips = [o \in Loads |-> {}]

EbInit ==
  /\ m_bpf_obj = 0
  /\ m_is_loaded = FALSE
  /\ m_programs = [n \in Programs |-> [is_loaded |-> FALSE, is_attached |-> FALSE]]
  /\ m_bpf_links = {}
  /\ loads = 0
  /\ resident = [o \in Loads |-> "none"]
  /\ EmptyMaps

-----------------------------------------------------------------------------
(* get_map_fd returns a descriptor iff the current object has the map. *)
CurrentFile == IF m_bpf_obj = 0 THEN "none" ELSE resident[m_bpf_obj]

(* bpf_object__open_file failed, or the verifier rejected the new object   *)
(* and it was closed: the pointer to a previous object is overwritten with *)
(* nullptr and nothing else changes.                                       *)
load_bpf_object_fails ==
  /\ m_bpf_obj' = 0
  /\ UNCHANGED <<m_is_loaded, m_programs, m_bpf_links, loads, resident, mapVars>>

(* Mutant of ResidentAfterLoad: the previous object is closed on a reload. *)
PreviousClosed(f) ==
  [o \in Loads |-> IF o = loads + 1 THEN f
                   ELSE IF o = m_bpf_obj THEN "none" ELSE resident[o]]
ResidentAfterLoad(f) == [resident EXCEPT ![loads + 1] = f]

load_bpf_object(f) ==
  /\ loads < MaxLoads
  /\ loads' = loads + 1
  /\ m_bpf_obj' = loads + 1
  /\ resident' = ResidentAfterLoad(f)
  /\ m_programs' = [m_programs EXCEPT
        ![ProgramOf[f]] = [is_loaded |-> TRUE, is_attached |-> FALSE]]
  /\ m_is_loaded' = TRUE
  /\ UNCHANGED <<m_bpf_links, mapVars>>

(* attach_tracepoint and attach_cgroup_connect4 differ only in the libbpf  *)
(* call; either fails without a change when the program is not in the      *)
(* current object.                                                         *)
attach(n) ==
  /\ m_bpf_obj # 0 /\ m_is_loaded
  /\ ProgramOf[CurrentFile] = n
  /\ m_bpf_links' = m_bpf_links \cup {<<m_bpf_obj, n>>}
  /\ m_programs' = [m_programs EXCEPT ![n].is_attached = TRUE]
  /\ UNCHANGED <<m_bpf_obj, m_is_loaded, loads, resident, mapVars>>

(* bpf_map_update_elem on a hash map takes a new key only below            *)
(* max_entries; an existing key is always updated.                         *)
MapHasRoom(o, c) ==
  \/ monitored[o][c] # "none"
  \/ Cardinality({k \in CgroupIds : monitored[o][k] # "none"}) < MaxMonitored

(* The kernel maps after a call.  Both branches of the lookup in           *)
(* set_cgroup_monitored (aegis_monitored_cgroups, then the _proc map) go   *)
(* to the current object.  Nothing ever deletes a key.                     *)
MonitoredAfter(c, on) ==
  IF CurrentFile \in MonitoredMapFiles /\ MapHasRoom(m_bpf_obj, c)
  THEN [monitored EXCEPT ![m_bpf_obj] = [@ EXCEPT ![c] = IF on THEN "on" ELSE "off"]]
  ELSE monitored

SyscallPolicyAfter(block, allow) ==
  IF CurrentFile = "sys_filter"
  THEN [syscall_policy EXCEPT ![m_bpf_obj] = (@ \cup block) \ allow]
  ELSE syscall_policy

BlockedIpsAfter(block, allow) ==
  IF CurrentFile = "net_filter"
  THEN [blocked_ips EXCEPT ![m_bpf_obj] = (@ \cup block) \ allow]
  ELSE blocked_ips

set_cgroup_monitored(c, on) ==
  /\ monitored' = MonitoredAfter(c, on)
  /\ UNCHANGED <<objVars, syscall_policy, blocked_ips>>

set_syscall_policy(nr, is_blocked) ==
  /\ syscall_policy' = IF is_blocked THEN SyscallPolicyAfter({nr}, {})
                                     ELSE SyscallPolicyAfter({}, {nr})
  /\ UNCHANGED <<objVars, monitored, blocked_ips>>

set_blocked_ip(ip, is_blocked) ==
  /\ blocked_ips' = IF is_blocked THEN BlockedIpsAfter({ip}, {})
                                  ELSE BlockedIpsAfter({}, {ip})
  /\ UNCHANGED <<objVars, monitored, syscall_policy>>

(* Mutant of FlagsAfterDetach: is_attached is not reset. *)
AttachedFlagKept == [n \in Programs |-> [m_programs[n] EXCEPT !.is_loaded = FALSE]]
FlagsAfterDetach ==
  [n \in Programs |-> [m_programs[n] EXCEPT !.is_attached = FALSE, !.is_loaded = FALSE]]

(* Also the destructor.  The maps of the closed object go with it. *)
detach_all ==
  /\ m_bpf_links' = {}
  /\ resident' = IF m_bpf_obj = 0 THEN resident
                 ELSE [resident EXCEPT ![m_bpf_obj] = "none"]
  /\ m_bpf_obj' = 0
  /\ m_programs' = FlagsAfterDetach
  /\ m_is_loaded' = FALSE
  /\ monitored' = [o \in Loads |-> IF o = m_bpf_obj THEN [c \in CgroupIds |-> "none"]
                                   ELSE monitored[o]]
  /\ syscall_policy' = [o \in Loads |-> IF o = m_bpf_obj THEN {} ELSE syscall_policy[o]]
  /\ blocked_ips' = [o \in Loads |-> IF o = m_bpf_obj THEN {} ELSE blocked_ips[o]]
  /\ UNCHANGED loads

-----------------------------------------------------------------------------
EbNext ==
  \/ \E f \in ObjectFiles : load_bpf_object(f)
  \/ load_bpf_object_fails
  \/ \E n \in Programs : attach(n)
  \/ \E c \in CgroupIds, on \in BOOLEAN : set_cgroup_monitored(c, on)
  \/ \E nr \in Syscalls, is_blocked \in BOOLEAN : set_syscall_policy(nr, is_blocked)
  \/ \E ip \in Ips, is_blocked \in BOOLEAN : set_blocked_ip(ip, is_blocked)
  \/ detach_all

EbSpec == EbInit /\ [][EbNext]_ebVars

(* A program the metadata calls attached has a link: no sequence of loads, *)
(* reloads, failed loads and detach_all leaves the is_attached flag behind *)
(* after the link is destroyed.                                            *)
AttachedHasLink ==
  \A n \in Programs :
    m_programs[n].is_attached => \E o \in Loads : <<o, n>> \in m_bpf_links

(* A link never outlives its object, and the loader's pointer names an     *)
(* object that is open: bpf_link__destroy and get_map_fd never touch a     *)
(* closed bpf_object, however often load_bpf_object replaced the pointer.  *)
LinksHaveObject ==
  /\ \A l \in m_bpf_links :
       resident[l[1]] # "none" /\ ProgramOf[resident[l[1]]] = l[2]
  /\ m_bpf_obj # 0 => resident[m_bpf_obj] # "none"
=============================================================================
