-------------------------- MODULE EbpfLoaderProofs --------------------------
(***************************************************************************)
(* Proofs about the eBPF loader: its metadata, its links and its object    *)
(* pointer agree after every sequence of loads, reloads and detach_all.    *)
(***************************************************************************)
EXTENDS EbpfLoader, TLAPS

(* The maps a caller of the loader can produce are well typed. *)
LEMMA MonitoredAfterType ==
  ASSUME EbTypeOK, NEW c \in CgroupIds, NEW on \in BOOLEAN
  PROVE  MonitoredAfter(c, on) \in [Loads -> [CgroupIds -> {"none", "off", "on"}]]
<1>1. CASE MonitoredAfter(c, on) = monitored
  BY <1>1 DEF EbTypeOK
<1>2. CASE MonitoredAfter(c, on) =
             [monitored EXCEPT ![m_bpf_obj] = [@ EXCEPT ![c] = IF on THEN "on" ELSE "off"]]
  <2> DEFINE row == [monitored[m_bpf_obj] EXCEPT ![c] = IF on THEN "on" ELSE "off"]
  <2>1. monitored \in [Loads -> [CgroupIds -> {"none", "off", "on"}]]
    BY DEF EbTypeOK
  <2>2. m_bpf_obj \in Loads => row \in [CgroupIds -> {"none", "off", "on"}]
    BY <2>1
  <2>3. MonitoredAfter(c, on) = [monitored EXCEPT ![m_bpf_obj] = row]
    BY <1>2
  <2> HIDE DEF row
  <2> QED
    BY Zenon, <2>1, <2>2, <2>3
<1> QED
  BY <1>1, <1>2 DEF MonitoredAfter

LEMMA SyscallPolicyAfterType ==
  ASSUME EbTypeOK, NEW block \in SUBSET Syscalls, NEW allow
  PROVE  SyscallPolicyAfter(block, allow) \in [Loads -> SUBSET Syscalls]
BY Zenon DEF EbTypeOK, SyscallPolicyAfter

LEMMA BlockedIpsAfterType ==
  ASSUME EbTypeOK, NEW block \in SUBSET Ips, NEW allow
  PROVE  BlockedIpsAfter(block, allow) \in [Loads -> SUBSET Ips]
BY Zenon DEF EbTypeOK, BlockedIpsAfter

-----------------------------------------------------------------------------
(* The inductive invariant: the objects that were not loaded yet are not   *)
(* resident, so that a load never reuses the number of an object whose     *)
(* links are still held.                                                   *)
FutureLoadsAbsent == \A o \in Loads : o > loads => resident[o] = "none"

EbInv == EbTypeOK /\ FutureLoadsAbsent /\ AttachedHasLink /\ LinksHaveObject

LEMMA EbInitInv == EbInit => EbInv
<1> SUFFICES ASSUME EbInit PROVE EbInv
  OBVIOUS
<1>1. EbTypeOK
  BY Zenon, LoaderAssumption DEF EbInit, EmptyMaps, EbTypeOK, Metadata
<1> QED
  BY <1>1 DEF EbInit, EbInv, FutureLoadsAbsent, AttachedHasLink, LinksHaveObject

(* A load keeps the invariant, whatever object it replaces. *)
LEMMA LoadInv ==
  ASSUME EbInv, NEW f \in ObjectFiles, load_bpf_object(f)
  PROVE  EbInv'
<1> USE LoaderAssumption DEF EbInv, load_bpf_object, ResidentAfterLoad
<1>1. loads + 1 \in Loads /\ ProgramOf[f] \in Programs /\ f # "none"
  BY DEF Loads, EbTypeOK, ProgramOf, ObjectFiles, Programs
<1>2. EbTypeOK'
  BY <1>1 DEF EbTypeOK, mapVars, Metadata
<1>3. resident[loads + 1] = "none"
  BY <1>1 DEF FutureLoadsAbsent, EbTypeOK, Loads
<1>4. FutureLoadsAbsent'
  BY <1>1 DEF FutureLoadsAbsent, EbTypeOK, Loads
<1>5. AttachedHasLink'
  BY Zenon, <1>1 DEF AttachedHasLink, EbTypeOK
<1>6. LinksHaveObject'
  <2>1. ASSUME NEW l \in m_bpf_links
        PROVE  l[1] \in Loads /\ l[1] # loads + 1 /\ resident'[l[1]] = resident[l[1]]
    BY <1>1, <1>3 DEF LinksHaveObject, EbTypeOK
  <2> QED
    BY <1>1, <2>1 DEF LinksHaveObject, EbTypeOK
<1> QED
  BY <1>2, <1>4, <1>5, <1>6

LEMMA AttachInv ==
  ASSUME EbInv, NEW n \in Programs, attach(n)
  PROVE  EbInv'
<1> USE DEF EbInv, attach
<1>1. EbTypeOK'
  <2>1. m_programs' \in [Programs -> Metadata]
    BY ZenonT(40) DEF EbTypeOK, Metadata
  <2>2. m_bpf_links' \subseteq Loads \X Programs
    BY DEF EbTypeOK
  <2> QED
    BY <2>1, <2>2 DEF EbTypeOK, mapVars
<1>2. AttachedHasLink'
  BY ZenonT(40) DEF AttachedHasLink, EbTypeOK
<1>3. LinksHaveObject'
  BY DEF LinksHaveObject, EbTypeOK, CurrentFile
<1> QED
  BY <1>1, <1>2, <1>3 DEF FutureLoadsAbsent

LEMMA DetachAllInv ==
  ASSUME EbInv, detach_all
  PROVE  EbInv'
<1> USE DEF EbInv, detach_all, FlagsAfterDetach
<1>1. EbTypeOK'
  <2>1. m_programs' \in [Programs -> Metadata]
    BY Zenon DEF EbTypeOK, Metadata
  <2>2. resident' \in [Loads -> ObjectFiles \cup {"none"}]
    BY Zenon DEF EbTypeOK
  <2>3. monitored' \in [Loads -> [CgroupIds -> {"none", "off", "on"}]]
    BY DEF EbTypeOK
  <2>4. syscall_policy' \in [Loads -> SUBSET Syscalls] /\ blocked_ips' \in [Loads -> SUBSET Ips]
    BY DEF EbTypeOK
  <2> QED
    BY Zenon, <2>1, <2>2, <2>3, <2>4 DEF EbTypeOK
<1>2. AttachedHasLink' /\ LinksHaveObject'
  BY Zenon DEF AttachedHasLink, LinksHaveObject, EbTypeOK, Metadata
<1> QED
  BY Zenon, <1>1, <1>2 DEF FutureLoadsAbsent, EbTypeOK

(* A failed load and the three map updates change no link, flag or object. *)
LEMMA MapStepsInv ==
  ASSUME EbInv,
         \/ load_bpf_object_fails
         \/ \E c \in CgroupIds, on \in BOOLEAN : set_cgroup_monitored(c, on)
         \/ \E nr \in Syscalls, is_blocked \in BOOLEAN : set_syscall_policy(nr, is_blocked)
         \/ \E ip \in Ips, is_blocked \in BOOLEAN : set_blocked_ip(ip, is_blocked)
  PROVE  EbInv'
<1> USE DEF EbInv
<1>1. CASE load_bpf_object_fails
  BY Zenon, <1>1 DEF load_bpf_object_fails, mapVars, EbTypeOK, FutureLoadsAbsent,
              AttachedHasLink, LinksHaveObject
<1>2. ASSUME NEW c \in CgroupIds, NEW on \in BOOLEAN, set_cgroup_monitored(c, on)
      PROVE  EbTypeOK'
  BY <1>2, MonitoredAfterType DEF set_cgroup_monitored, objVars, EbTypeOK
<1>3. ASSUME NEW nr \in Syscalls, NEW is_blocked \in BOOLEAN, set_syscall_policy(nr, is_blocked)
      PROVE  EbTypeOK'
  BY Zenon, <1>3, SyscallPolicyAfterType DEF set_syscall_policy, objVars, EbTypeOK
<1>4. ASSUME NEW ip \in Ips, NEW is_blocked \in BOOLEAN, set_blocked_ip(ip, is_blocked)
      PROVE  EbTypeOK'
  BY Zenon, <1>4, BlockedIpsAfterType DEF set_blocked_ip, objVars, EbTypeOK
<1>5. ASSUME UNCHANGED objVars, EbTypeOK' PROVE EbInv'
  BY <1>5 DEF objVars, FutureLoadsAbsent, AttachedHasLink, LinksHaveObject
<1> QED
  BY Zenon, <1>1, <1>2, <1>3, <1>4, <1>5 DEF set_cgroup_monitored, set_syscall_policy, set_blocked_ip

(* So does every other step. *)
LEMMA EbNextInv == EbInv /\ [EbNext]_ebVars => EbInv'
<1> SUFFICES ASSUME EbInv, [EbNext]_ebVars PROVE EbInv'
  OBVIOUS
<1>1. CASE UNCHANGED ebVars
  BY Zenon, <1>1 DEF ebVars, objVars, mapVars, EbInv, EbTypeOK, FutureLoadsAbsent,
              AttachedHasLink, LinksHaveObject
<1>2. CASE EbNext
  BY <1>2, LoadInv, AttachInv, DetachAllInv, MapStepsInv DEF EbNext
<1> QED
  BY <1>1, <1>2

(* In every run of the loader, whatever calls its users make. *)
LEMMA EbInvariant == EbSpec => []EbInv
BY EbInitInv, EbNextInv, PTL DEF EbSpec

(* The pointer, the flags, the links and the maps stay well formed through *)
(* every order of loads, reloads, map updates and detach_all.              *)
THEOREM LoaderTypeCorrect == EbSpec => []EbTypeOK
<1> QED BY EbInvariant, PTL DEF EbInv

(* A program the metadata calls attached has its link. *)
THEOREM AttachedProgramsHaveLinks == EbSpec => []AttachedHasLink
<1> QED BY EbInvariant, PTL DEF EbInv

(* A link has the open object it belongs to, and the object pointer names  *)
(* an open object: no order of loads, failed loads, attaches and           *)
(* detach_all makes bpf_link__destroy or get_map_fd touch a closed object. *)
THEOREM EbpfLoaderCorrect == EbSpec => []LinksHaveObject
<1> QED BY EbInvariant, PTL DEF EbInv
=============================================================================
