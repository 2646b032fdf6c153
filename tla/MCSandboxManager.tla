-------------------------- MODULE MCSandboxManager --------------------------
(* Two sandboxes with TAP interfaces of their own and a policy that the    *)
(* engine knows; or, in the liveness run, two ids with the same first      *)
(* eight characters and a manager without loader and engine.  An interface *)
(* is named by its id or by the id it shares it with; nothing compares the *)
(* two, so that ids can be permuted.                                       *)
EXTENDS SandboxManagerInvariant, TLC

CONSTANTS a, b, t1, t2, p1, p2, p3, strict, unlisted

MCTapName == [id \in Ids |-> id]
MCSharedTap == [id \in Ids |-> a]
MCPolicyTable == strict :> [blocked_syscalls |-> {101}, block_cloud_metadata |-> TRUE]
MCNoPolicies == [n \in {} |-> MCPolicyTable[strict]]
MCSymmetry ==
  UNION {Permutations(S) : S \in {Threads, Pids, Ids, CgroupIds}}
=============================================================================
