---------------------------- MODULE PolicyEngine ----------------------------
(***************************************************************************)
(* The policy engine (src/policy/policy_engine.cpp): named policies, the   *)
(* readers of policy files and the two evaluation functions.  Every method *)
(* holds PolicyEngine::m_mutex for its whole body, so a method is one      *)
(* step.  max_execution_time_sec and blocked_cidrs are left out: nothing   *)
(* reads them.                                                             *)
(***************************************************************************)
EXTENDS Host

CONSTANTS PolicyNames,
          SyscallNames,       \* what a list of system calls may contain
          s_syscall_name_map, \* the names the engine can resolve
          PolicyFiles,        \* the contents of the policy files there are
          GivenPolicies,      \* <<name, policy>> a caller passes to register_policy
          StrictAllowed, StrictBlocked  \* name lists of the built-in policy

Policies == [allowed_syscalls : SUBSET Syscalls, blocked_syscalls : SUBSET Syscalls,
             default_allow : BOOLEAN, block_all_egress : BOOLEAN,
             block_cloud_metadata : BOOLEAN, blocked_ips_network_order : SUBSET Ips]

(* A file as the regular expressions see it: a flag is "true", "false" or  *)
(* not found, and a list is written in brackets or as a block of "-" lines.*)
Flags == {"true", "false", "absent"}
NameLists == [brackets : BOOLEAN, names : SUBSET SyscallNames]
YamlFiles == [policy_name : PolicyNames \cup {None}, stem : PolicyNames,
              block_all_network_egress : Flags, block_cloud_metadata_ips : Flags,
              allowed_sys_calls : NameLists, blocked_sys_calls : NameLists]

ASSUME EngineAssumption ==
  /\ {"strict_python", "json_imported_policy"} \subseteq PolicyNames
  /\ DOMAIN s_syscall_name_map \subseteq SyscallNames
  /\ \A n \in DOMAIN s_syscall_name_map : s_syscall_name_map[n] \in Syscalls
  /\ PolicyFiles \subseteq YamlFiles
  /\ GivenPolicies \subseteq PolicyNames \X Policies
  /\ StrictAllowed \subseteq SyscallNames /\ StrictBlocked \subseteq SyscallNames
  /\ None \notin PolicyNames /\ None \notin Policies

VARIABLE m_policies  \* name -> policy, None if there is none

PeTypeOK == m_policies \in [PolicyNames -> Policies \cup {None}]

(* The numbers of the names in a list that resolve_syscall_name knows;     *)
(* the others are dropped without an error.                                *)
Resolved(names) ==
  {s_syscall_name_map[n] : n \in names \cap DOMAIN s_syscall_name_map}

(* SecurityPolicy{}: the default member values. *)
EmptyPolicy ==
  [allowed_syscalls |-> {}, blocked_syscalls |-> {}, default_allow |-> FALSE,
   block_all_egress |-> FALSE, block_cloud_metadata |-> TRUE,
   blocked_ips_network_order |-> {}]

(* The flags have the values the constructor's policy sets already. *)
strict_python ==
  [EmptyPolicy EXCEPT !.allowed_syscalls = Resolved(StrictAllowed),
                      !.blocked_syscalls = Resolved(StrictBlocked)]

PeInit ==
  m_policies = [n \in PolicyNames |-> IF n = "strict_python" THEN strict_python ELSE None]

-----------------------------------------------------------------------------
FlagOr(flag, default) == IF flag = "absent" THEN default ELSE flag = "true"

(* Only a list in brackets matches the regular expression. *)
ListOf(list) == IF list.brackets THEN Resolved(list.names) ELSE {}

Parsed(f) ==
  [EmptyPolicy EXCEPT
     !.block_all_egress = FlagOr(f.block_all_network_egress, @),
     !.block_cloud_metadata = FlagOr(f.block_cloud_metadata_ips, @),
     !.allowed_syscalls = ListOf(f.allowed_sys_calls),
     !.blocked_syscalls = ListOf(f.blocked_sys_calls)]

(* insert_or_assign: a policy of that name is replaced. *)
register_policy(n, policy) == m_policies' = [m_policies EXCEPT ![n] = policy]

(* A file that is missing or cannot be opened changes nothing. *)
load_from_yaml(f) ==
  register_policy(IF f.policy_name = None THEN f.stem ELSE f.policy_name, Parsed(f))

(* The string is not read. *)
load_from_json == register_policy("json_imported_policy", EmptyPolicy)

get_policy(n) == m_policies[n]

eval_syscall(n, nr) ==
  /\ m_policies[n] # None
  /\ nr \notin m_policies[n].blocked_syscalls
  /\ nr \in m_policies[n].allowed_syscalls \/ m_policies[n].default_allow

eval_network_egress(n, ip) ==
  /\ m_policies[n] # None
  /\ ~m_policies[n].block_all_egress
  /\ ~(m_policies[n].block_cloud_metadata /\ ip = MetadataIp)
  /\ ip \notin m_policies[n].blocked_ips_network_order

PeNext ==
  \/ \E f \in PolicyFiles : load_from_yaml(f)
  \/ load_from_json
  \/ \E given \in GivenPolicies : register_policy(given[1], given[2])
=============================================================================
