------------------------- MODULE CgroupManagerProofs -------------------------
(***************************************************************************)
(* Theorems about the cgroup manager, for every set of sandboxes,          *)
(* processes and inode numbers.                                            *)
(***************************************************************************)
EXTENDS CgroupManager, TLAPS

(* create_directories yields an inode number other than 0, and one that no *)
(* other directory has.                                                    *)
LEMMA DirInodesFact ==
  ASSUME CgTypeOK, NEW id \in Ids, NEW c \in DirInodes(id)
  PROVE  /\ c \in CgroupIds
         /\ cgroup_dirs[id] = c \/ \A other \in Ids : cgroup_dirs[other] # c
BY DEF DirInodes, CgTypeOK

(* remove_all leaves nothing or the same directory. *)
LEMMA RemoveAllFact ==
  ASSUME NEW c \in CgroupIds, NEW left \in RemoveAll(c)
  PROVE  left \in {0, c}
BY DEF RemoveAll

(* create_cgroup keeps the cgroup state well typed. *)
LEMMA CreateCgroupType ==
  ASSUME CgTypeOK, NEW id \in Ids, NEW status, create_cgroup(id, status)
  PROVE  CgTypeOK'
<1>1. CASE UNCHANGED cgVars
  BY <1>1 DEF CgTypeOK, cgVars
<1>2. ASSUME NEW c \in DirInodes(id), NEW left \in RemoveAll(c),
             cgroup_dirs' = [cgroup_dirs EXCEPT ![id] = left],
             UNCHANGED <<m_cgroups, cgroup_fds, cgroup_procs>>
      PROVE  CgTypeOK'
  BY <1>2, DirInodesFact, RemoveAllFact DEF CgTypeOK
<1>3. ASSUME NEW c \in DirInodes(id),
             cgroup_dirs' = [cgroup_dirs EXCEPT ![id] = c],
             cgroup_fds' = cgroup_fds \cup {c},
             m_cgroups' = [m_cgroups EXCEPT ![id] = c],
             UNCHANGED cgroup_procs
      PROVE  CgTypeOK'
  BY <1>3, DirInodesFact DEF CgTypeOK
<1> QED
  BY <1>1, <1>2, <1>3 DEF create_cgroup

(* destroy_cgroup keeps the cgroup state well typed. *)
LEMMA DestroyCgroupType ==
  ASSUME CgTypeOK, NEW id \in Ids, NEW status, destroy_cgroup(id, status)
  PROVE  CgTypeOK'
BY DEF CgTypeOK, destroy_cgroup, RemoveAll, CloseFd, cgVars

(* attach_pid keeps the cgroup state well typed. *)
LEMMA AttachPidType ==
  ASSUME CgTypeOK, NEW id \in Ids, NEW p \in Pids, NEW status, attach_pid(id, p, status)
  PROVE  CgTypeOK'
BY DEF CgTypeOK, attach_pid, KernelTook, cgVars

(* destroy_all and a process that leaves keep the cgroup state well typed. *)
LEMMA OtherStepsType ==
  ASSUME CgTypeOK, destroy_all \/ \E p \in Pids : LeaveCgroup(p)
  PROVE  CgTypeOK'
BY DEF CgTypeOK, destroy_all, LeaveCgroup

(* The entries before and after: create_cgroup adds one exactly when it    *)
(* succeeds, destroy_cgroup leaves none.                                   *)
LEMMA CreateCgroupEntries ==
  ASSUME CgTypeOK, NEW id \in Ids, NEW status, create_cgroup(id, status)
  PROVE  /\ status # "Success" => m_cgroups' = m_cgroups
         /\ status = "Success" =>
              \A i \in Ids : m_cgroups'[i] # 0 <=> m_cgroups[i] # 0 \/ i = id
<1>1. CASE status # "Success"
  BY <1>1 DEF create_cgroup, cgVars
<1>2. ASSUME NEW c \in DirInodes(id), m_cgroups' = [m_cgroups EXCEPT ![id] = c]
      PROVE  \A i \in Ids : m_cgroups'[i] # 0 <=> m_cgroups[i] # 0 \/ i = id
  BY <1>2, DirInodesFact, HostAssumption DEF CgTypeOK
<1> QED
  BY <1>1, <1>2 DEF create_cgroup

LEMMA DestroyCgroupEntries ==
  ASSUME CgTypeOK, NEW id \in Ids, NEW status, destroy_cgroup(id, status)
  PROVE  \A i \in Ids : m_cgroups'[i] # 0 <=> m_cgroups[i] # 0 /\ i # id
<1>1. CASE m_cgroups[id] = 0 /\ UNCHANGED cgVars
  BY <1>1 DEF cgVars
<1>2. CASE m_cgroups' = [m_cgroups EXCEPT ![id] = 0]
  BY <1>2 DEF CgTypeOK
<1> QED
  BY <1>1, <1>2 DEF destroy_cgroup

-----------------------------------------------------------------------------
(* The inductive invariant.  The code relies on a fact about cgroupfs that *)
(* none of its properties mentions: directories, entries or not, have      *)
(* different inodes.                                                       *)
DirsDistinct ==
  \A id, other \in Ids : id # other /\ cgroup_dirs[id] # 0 => cgroup_dirs[id] # cgroup_dirs[other]

CgInv == CgTypeOK /\ DirsDistinct /\ EntryNamesItsDirectory /\ NoDescriptorLeak

(* create_cgroup keeps the invariant: the descriptor it opens and the      *)
(* inode it stores are those of the directory that is there when it        *)
(* returns Success, and an error path changes no entry.                    *)
LEMMA CreateCgroupInv ==
  ASSUME CgInv, NEW id \in Ids, NEW status, create_cgroup(id, status)
  PROVE  CgInv'
<1> USE DEF CgInv
<1>0. CgTypeOK'
  BY CreateCgroupType
<1>1. CASE UNCHANGED cgVars
  BY <1>0, <1>1 DEF DirsDistinct, EntryNamesItsDirectory, NoDescriptorLeak, cgVars
<1>2. ASSUME m_cgroups[id] = 0,
             NEW c \in DirInodes(id), NEW left \in RemoveAll(c),
             cgroup_dirs' = [cgroup_dirs EXCEPT ![id] = left],
             UNCHANGED <<m_cgroups, cgroup_fds, cgroup_procs>>
      PROVE  CgInv'
  <2>1. /\ c \in CgroupIds /\ left \in {0, c}
        /\ cgroup_dirs[id] = c \/ \A other \in Ids : cgroup_dirs[other] # c
    BY DirInodesFact, RemoveAllFact
  <2>2. DirsDistinct'
    BY <1>2, <2>1 DEF DirsDistinct, CgTypeOK
  <2>3. EntryNamesItsDirectory'
    BY <1>2, <2>1 DEF EntryNamesItsDirectory, CgTypeOK
  <2>4. NoDescriptorLeak'
    BY <1>2 DEF NoDescriptorLeak
  <2> QED
    BY <1>0, <2>2, <2>3, <2>4
<1>3. ASSUME m_cgroups[id] = 0, NEW c \in DirInodes(id),
             cgroup_dirs' = [cgroup_dirs EXCEPT ![id] = c],
             cgroup_fds' = cgroup_fds \cup {c},
             m_cgroups' = [m_cgroups EXCEPT ![id] = c]
      PROVE  CgInv'
  <2>1. /\ c \in CgroupIds /\ c # 0
        /\ cgroup_dirs[id] = c \/ \A other \in Ids : cgroup_dirs[other] # c
    BY DirInodesFact, HostAssumption
  <2>2. DirsDistinct'
    BY <1>3, <2>1 DEF DirsDistinct, CgTypeOK
  <2>3. EntryNamesItsDirectory'
    BY <1>3, <2>1 DEF EntryNamesItsDirectory, DirsDistinct, CgTypeOK
  <2>4. NoDescriptorLeak'
    BY <1>3, <2>1 DEF NoDescriptorLeak, CgTypeOK
  <2> QED
    BY <1>0, <2>2, <2>3, <2>4
<1> QED
  BY <1>1, <1>2, <1>3 DEF create_cgroup

(* destroy_cgroup keeps the invariant: it closes the descriptor of the     *)
(* entry it erases and of no other.                                        *)
LEMMA DestroyCgroupInv ==
  ASSUME CgInv, NEW id \in Ids, NEW status, destroy_cgroup(id, status)
  PROVE  CgInv'
<1> USE DEF CgInv
<1>0. CgTypeOK'
  BY DestroyCgroupType
<1>1. CASE UNCHANGED cgVars
  BY <1>0, <1>1 DEF DirsDistinct, EntryNamesItsDirectory, NoDescriptorLeak, cgVars
<1>2. ASSUME m_cgroups[id] # 0, NEW left \in RemoveAll(m_cgroups[id]),
             cgroup_fds' = cgroup_fds \ {m_cgroups[id]},
             cgroup_dirs' = [cgroup_dirs EXCEPT ![id] = left],
             m_cgroups' = [m_cgroups EXCEPT ![id] = 0]
      PROVE  CgInv'
  <2>1. /\ m_cgroups[id] \in CgroupIds
        /\ left \in {0, m_cgroups[id]}
        /\ cgroup_dirs[id] = m_cgroups[id]
    BY <1>2, RemoveAllFact DEF CgTypeOK, EntryNamesItsDirectory
  <2>2. DirsDistinct'
    BY <1>2, <2>1 DEF DirsDistinct, CgTypeOK
  <2>3. EntryNamesItsDirectory'
    BY <1>2, <2>1 DEF EntryNamesItsDirectory, CgTypeOK
  <2>4. NoDescriptorLeak'
    BY <1>2, <2>1 DEF NoDescriptorLeak, EntryNamesItsDirectory, CgTypeOK
  <2> QED
    BY <1>0, <2>2, <2>3, <2>4
<1> QED
  BY <1>1, <1>2 DEF destroy_cgroup, CloseFd

(* The steps that change no entry, descriptor or directory keep it too. *)
LEMMA AttachAndLeaveInv ==
  ASSUME CgInv, NEW p \in Pids,
         LeaveCgroup(p) \/ \E id \in Ids : \E status : attach_pid(id, p, status)
  PROVE  CgInv'
<1>1. CgTypeOK'
  BY AttachPidType, OtherStepsType DEF CgInv
<1>2. UNCHANGED <<m_cgroups, cgroup_fds, cgroup_dirs>>
  BY DEF attach_pid, LeaveCgroup, cgVars
<1> QED
  BY <1>1, <1>2 DEF CgInv, DirsDistinct, EntryNamesItsDirectory, NoDescriptorLeak

(* destroy_all keeps it: afterwards there is no entry and no descriptor. *)
LEMMA DestroyAllInv == CgInv /\ destroy_all => CgInv'
<1> SUFFICES ASSUME CgInv, destroy_all PROVE CgInv'
  OBVIOUS
<1>1. CgTypeOK'
  BY OtherStepsType DEF CgInv
<1>2. /\ \A id \in Ids : m_cgroups'[id] = 0
      /\ \A id \in Ids : cgroup_dirs'[id] \in {0, cgroup_dirs[id]}
      /\ cgroup_fds' = {}
  BY DEF destroy_all, CgInv, NoDescriptorLeak, CgTypeOK
<1> QED
  BY <1>1, <1>2 DEF CgInv, DirsDistinct, EntryNamesItsDirectory, NoDescriptorLeak, CgTypeOK

(* In every run of the cgroup manager, whatever calls its users make. *)
LEMMA CgInvariant == CgSpec => []CgInv
<1>1. CgInit => CgInv
  BY DEF CgInit, CgInv, CgTypeOK, DirsDistinct, EntryNamesItsDirectory, NoDescriptorLeak
<1>2. CgInv /\ [CgNext]_cgVars => CgInv'
  <2> SUFFICES ASSUME CgInv, [CgNext]_cgVars PROVE CgInv'
    OBVIOUS
  <2>1. CASE UNCHANGED cgVars
    BY <2>1 DEF cgVars, CgInv, CgTypeOK, DirsDistinct, EntryNamesItsDirectory, NoDescriptorLeak
  <2>2. ASSUME NEW id \in Ids, NEW status, create_cgroup(id, status) PROVE CgInv'
    BY <2>2, CreateCgroupInv
  <2>3. ASSUME NEW id \in Ids, NEW status, destroy_cgroup(id, status) PROVE CgInv'
    BY <2>3, DestroyCgroupInv
  <2>4. ASSUME NEW id \in Ids, NEW p \in Pids, NEW status, attach_pid(id, p, status) PROVE CgInv'
    BY <2>4, AttachAndLeaveInv
  <2>5. ASSUME NEW p \in Pids, LeaveCgroup(p) PROVE CgInv'
    BY <2>5, AttachAndLeaveInv
  <2> QED
    BY <2>1, <2>2, <2>3, <2>4, <2>5, DestroyAllInv DEF CgNext
<1> QED
  BY <1>1, <1>2, PTL DEF CgSpec

(* An inode of 0 is never stored, and a process is never recorded in a     *)
(* cgroup that is not one of cgroupfs.                                     *)
THEOREM CgroupTypeCorrect == CgSpec => []CgTypeOK
<1> QED BY CgInvariant, PTL DEF CgInv

(* Each entry of the cgroup manager names the directory that exists under  *)
(* its name, and no two entries name the same one.                         *)
THEOREM CgroupManagerCorrect == CgSpec => []EntryNamesItsDirectory
<1> QED BY CgInvariant, PTL DEF CgInv

(* The open directory descriptors are exactly those of the entries, after  *)
(* every error path of create_cgroup and every order of destroys.          *)
THEOREM NoLeakedDescriptor == CgSpec => []NoDescriptorLeak
<1> QED BY CgInvariant, PTL DEF CgInv
=============================================================================
