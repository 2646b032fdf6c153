--------------------------- MODULE MCEnforcement ----------------------------
(***************************************************************************)
(* Two sandboxes, two cgroups, one system call that the built-in policy    *)
(* blocks, objects loaded twice.  The policy file has one list in each     *)
(* style; the name in its list in brackets is one that strict_python.yaml  *)
(* has and the engine cannot resolve.                                      *)
(***************************************************************************)
EXTENDS Enforcement, TLC

MCNameMap == [n \in {"ptrace"} |-> 101]
MCNames == {"ptrace", "kexec_load"}

MCPolicyFiles ==
  {[policy_name |-> None, stem |-> "strict_python",
    block_all_network_egress |-> "false", block_cloud_metadata_ips |-> "absent",
    allowed_sys_calls |-> [brackets |-> FALSE, names |-> {"ptrace"}],
    blocked_sys_calls |-> [brackets |-> TRUE, names |-> {"kexec_load"}]]}

MCGivenPolicies ==
  {<<"json_imported_policy",
    [allowed_syscalls |-> {}, blocked_syscalls |-> {101}, default_allow |-> TRUE,
     block_all_egress |-> FALSE, block_cloud_metadata |-> TRUE,
     blocked_ips_network_order |-> {8}]>>}

Symmetry == Permutations(Ids) \cup Permutations(CgroupIds)
=============================================================================
