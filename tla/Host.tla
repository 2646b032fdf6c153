-------------------------------- MODULE Host --------------------------------
(* The names the components share. *)
EXTENDS Naturals, FiniteSets

CONSTANTS Ids,        \* sandbox ids
          Pids,       \* process ids
          CgroupIds,  \* inode numbers cgroupfs can give to a directory
          Syscalls,   \* system call numbers, indices of aegis_syscall_policy
          Ips,        \* IPv4 addresses, keys of aegis_blocked_ips
          MetadataIp, \* 169.254.169.254
          None        \* no sandbox, no process, no thread

(* fetch_inode_id and get_cgroup_id use 0 for "no cgroup". *)
ASSUME HostAssumption ==
  /\ 0 \notin CgroupIds
  /\ None \notin Ids /\ None \notin Pids
  /\ MetadataIp \in Ips
=============================================================================
