---------------------------- MODULE CgroupManager ----------------------------
(***************************************************************************)
(* The cgroup v2 manager (src/runtime/cgroup_manager.cpp): the map         *)
(* m_cgroups, the directory descriptors it owns, and the part of cgroupfs  *)
(* its calls read and write.  Every method holds CgroupManager::m_mutex    *)
(* for its whole body, so a method is one step.  A method that reports a   *)
(* Status takes it as its last parameter.                                  *)
(***************************************************************************)
EXTENDS Host

VARIABLES m_cgroups,    \* id -> cgroup_id of its entry; 0: no entry
          cgroup_fds,   \* cgroups whose directory descriptor is open
          cgroup_dirs,  \* cgroupfs: id -> inode of its directory; 0: none
          cgroup_procs  \* cgroupfs: pid -> cgroup it lives in; 0: none of these

cgVars == <<m_cgroups, cgroup_fds, cgroup_dirs, cgroup_procs>>

CgTypeOK ==
  /\ m_cgroups \in [Ids -> CgroupIds \cup {0}]
  /\ cgroup_fds \subseteq CgroupIds
  /\ cgroup_dirs \in [Ids -> CgroupIds \cup {0}]
  /\ cgroup_procs \in [Pids -> CgroupIds \cup {0}]

(* The constructor makes only the root directory. *)
CgInit ==
  /\ m_cgroups = [id \in Ids |-> 0]
  /\ cgroup_fds = {}
  /\ cgroup_dirs = [id \in Ids |-> 0]
  /\ cgroup_procs = [p \in Pids |-> 0]

-----------------------------------------------------------------------------
(* cgroupfs.  create_directories keeps an existing directory (and its      *)
(* inode); a new one gets an inode no directory has.                       *)
DirInodes(id) ==
  IF cgroup_dirs[id] # 0
  THEN {cgroup_dirs[id]}
  ELSE {c \in CgroupIds : \A other \in Ids : cgroup_dirs[other] # c}

(* remove_all on a cgroup directory, its error_code ignored by every       *)
(* caller: the kernel refuses while a process lives in the cgroup, and may *)
(* refuse otherwise (the control files inside cannot be unlinked).  The    *)
(* inode left under the name afterwards.                                   *)
RemoveAll(c) ==
  IF \E p \in Pids : cgroup_procs[p] = c THEN {c} ELSE {0, c}

(* A write_sysfs_file that returned true: the stream is checked before it  *)
(* is flushed, so the kernel may still have rejected the value.            *)
KernelTook == {TRUE, FALSE}

-----------------------------------------------------------------------------
(* close(cgroup_fd) of an entry.  Mutant: it stays open. *)
NoClose(c) == UNCHANGED cgroup_fds
CloseFd(c) == cgroup_fds' = cgroup_fds \ {c}

create_cgroup(id, status) ==
  \/ /\ m_cgroups[id] # 0
     /\ status = "ErrInvalidSandboxID"
     /\ UNCHANGED cgVars
  \/ \* create_directories reported an error
     /\ m_cgroups[id] = 0
     /\ status = "ErrCgroupQuotaExceeded"
     /\ UNCHANGED cgVars
  \/ \* a limit file, stat or open failed; the directory is removed again
     /\ m_cgroups[id] = 0
     /\ status = "ErrCgroupQuotaExceeded"
     /\ \E c \in DirInodes(id) : \E left \in RemoveAll(c) :
          cgroup_dirs' = [cgroup_dirs EXCEPT ![id] = left]
     /\ UNCHANGED <<m_cgroups, cgroup_fds, cgroup_procs>>
  \/ /\ m_cgroups[id] = 0
     /\ status = "Success"
     /\ \E c \in DirInodes(id) :
          /\ cgroup_dirs' = [cgroup_dirs EXCEPT ![id] = c]
          /\ cgroup_fds' = cgroup_fds \cup {c}
          /\ m_cgroups' = [m_cgroups EXCEPT ![id] = c]
     /\ UNCHANGED cgroup_procs

(* moves: whether cgroup.procs took the pid.  A dead process never moves.  *)
attach_pid(id, p, status) ==
  \/ /\ m_cgroups[id] = 0
     /\ status = "ErrInvalidSandboxID"
     /\ UNCHANGED cgVars
  \/ \* cgroup.procs could not be opened
     /\ m_cgroups[id] # 0
     /\ status = "ErrCgroupQuotaExceeded"
     /\ UNCHANGED cgVars
  \/ /\ m_cgroups[id] # 0
     /\ status = "Success"
     /\ \E moves \in KernelTook :
          cgroup_procs' = IF moves
                          THEN [cgroup_procs EXCEPT ![p] = m_cgroups[id]]
                          ELSE cgroup_procs
     /\ UNCHANGED <<m_cgroups, cgroup_fds, cgroup_dirs>>

(* Mutant of destroy_cgroup: the entry stays in the map. *)
DestroyKeepsEntry(id, status) ==
  /\ m_cgroups[id] # 0
  /\ status = "Success"
  /\ CloseFd(m_cgroups[id])
  /\ \E left \in RemoveAll(m_cgroups[id]) :
       cgroup_dirs' = [cgroup_dirs EXCEPT ![id] = left]
  /\ UNCHANGED <<m_cgroups, cgroup_procs>>

destroy_cgroup(id, status) ==
  \/ /\ m_cgroups[id] = 0
     /\ status = "ErrInvalidSandboxID"
     /\ UNCHANGED cgVars
  \/ /\ m_cgroups[id] # 0
     /\ status = "Success"
     /\ CloseFd(m_cgroups[id])
     /\ \E left \in RemoveAll(m_cgroups[id]) :
          cgroup_dirs' = [cgroup_dirs EXCEPT ![id] = left]
     /\ m_cgroups' = [m_cgroups EXCEPT ![id] = 0]
     /\ UNCHANGED cgroup_procs

(* Also the destructor. *)
destroy_all ==
  /\ cgroup_fds' = cgroup_fds \ {m_cgroups[id] : id \in Ids}
  /\ \E gone \in SUBSET {id \in Ids : m_cgroups[id] # 0
                                       /\ 0 \in RemoveAll(m_cgroups[id])} :
       cgroup_dirs' = [id \in Ids |-> IF id \in gone THEN 0 ELSE cgroup_dirs[id]]
  /\ m_cgroups' = [id \in Ids |-> 0]
  /\ UNCHANGED cgroup_procs

get_cgroup_id(id) == m_cgroups[id]

(* A process exits, or is moved elsewhere by another program. *)
LeaveCgroup(p) ==
  /\ cgroup_procs' = [cgroup_procs EXCEPT ![p] = 0]
  /\ UNCHANGED <<m_cgroups, cgroup_fds, cgroup_dirs>>

-----------------------------------------------------------------------------
(* Any number of threads call the methods in any order. *)
CgNext ==
  \/ \E id \in Ids, status \in {"Success", "ErrInvalidSandboxID", "ErrCgroupQuotaExceeded"} :
       \/ create_cgroup(id, status)
       \/ destroy_cgroup(id, status)
       \/ \E p \in Pids : attach_pid(id, p, status)
  \/ destroy_all
  \/ \E p \in Pids : LeaveCgroup(p)

CgSpec == CgInit /\ [][CgNext]_cgVars

(* The cgroup_id of an entry is the inode of the directory that exists     *)
(* under its name, and no two entries have the same one: the number        *)
(* get_cgroup_id hands to the BPF maps selects the processes of this       *)
(* sandbox and of no other.                                                *)
EntryNamesItsDirectory ==
  \A id \in Ids :
    m_cgroups[id] # 0 =>
      /\ cgroup_dirs[id] = m_cgroups[id]
      /\ \A other \in Ids \ {id} : m_cgroups[other] # m_cgroups[id]

(* The open directory descriptors are exactly those of the entries: no     *)
(* error path of create_cgroup and no destroy leaks one, and none is       *)
(* closed while get_cgroup_fd can still return it.                         *)
NoDescriptorLeak ==
  cgroup_fds = {m_cgroups[id] : id \in Ids} \ {0}
=============================================================================
