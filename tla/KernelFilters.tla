--------------------------- MODULE KernelFilters ----------------------------
(***************************************************************************)
(* The three BPF programs (ebpf/*.bpf.c), as what they decide for one call *)
(* of a process in cgroup c when object o is attached.  A program reads    *)
(* the maps of its own object only.  A decision has two parts: whether the *)
(* call is stopped (SIGKILL before it executes, or a refused connect), and *)
(* whether an event was put in the object's ring buffer.                   *)
(***************************************************************************)
EXTENDS EbpfLoader

CONSTANT RingSize  \* bound: events a ring buffer holds

ASSUME FilterAssumption == RingSize \in Nat

VARIABLES pending,    \* object -> events in its ring buffer
          connect4    \* cgroups an object's connect4 program is attached to

kfVars == <<pending, connect4>>

KfTypeOK ==
  /\ pending \in [Loads -> 0..RingSize]
  /\ connect4 \subseteq Loads \X CgroupIds

KfInit == pending = [o \in Loads |-> 0] /\ connect4 = {}

(* bpf_ringbuf_reserve *)
RingHasRoom(o) == pending[o] < RingSize

Monitored(o, c) == c # 0 /\ monitored[o][c] = "on"

(* Mutant of handle_sys_enter: like handle_execve_enter, it returns when   *)
(* there is no room for the event.                                         *)
KillsOnlyWithEvent(o, c, nr) ==
  LET hit == Monitored(o, c) /\ nr \in syscall_policy[o] /\ RingHasRoom(o) IN
  [stop |-> hit, event |-> hit]
handle_sys_enter(o, c, nr) ==
  LET hit == Monitored(o, c) /\ nr \in syscall_policy[o] IN
  [stop |-> hit, event |-> hit /\ RingHasRoom(o)]

(* With a full buffer the program returns before its privilege check.      *)
(* Otherwise it sends SIGKILL if it finds is_privilege_escalation set in   *)
(* the record, but it reads that after bpf_ringbuf_submit has given the    *)
(* record away: flag is what the memory holds then, whatever the uid was.  *)
(* A kernel that refuses the program for this read fails its load.         *)
handle_execve_enter(o, c, flag) ==
  LET logged == Monitored(o, c) /\ RingHasRoom(o) IN
  [stop |-> logged /\ flag, event |-> logged]

(* Mutant: the result of the reservation is not looked at. *)
ReportsWithoutRoom(o, c, ip) ==
  LET hit == <<o, c>> \in connect4 /\ (ip = MetadataIp \/ ip \in blocked_ips[o]) IN
  [stop |-> hit, event |-> hit]
aegis_cgroup_connect4(o, c, ip) ==
  LET hit == <<o, c>> \in connect4 /\ (ip = MetadataIp \/ ip \in blocked_ips[o]) IN
  [stop |-> hit, event |-> hit /\ RingHasRoom(o)]

-----------------------------------------------------------------------------
(* A call of a process in cgroup c reaches the program n of every object   *)
(* that has it attached.                                                   *)
Decision(n, o, c, arg) ==
  CASE n = "handle_sys_enter"      -> handle_sys_enter(o, c, arg)
    [] n = "handle_execve_enter"   -> handle_execve_enter(o, c, arg)
    [] n = "aegis_cgroup_connect4" -> aegis_cgroup_connect4(o, c, arg)

Attached(n) == {o \in Loads : <<o, n>> \in m_bpf_links}
Stops(n, c, arg) == \E o \in Attached(n) : Decision(n, o, c, arg).stop

EventsAfter(n, c, arg) ==
  [o \in Loads |-> IF o \in Attached(n) /\ Decision(n, o, c, arg).event
                   THEN pending[o] + 1 ELSE pending[o]]

(* The reader takes an event out of the ring buffer. *)
Consume(o) ==
  /\ pending[o] > 0
  /\ pending' = [pending EXCEPT ![o] = @ - 1]
  /\ UNCHANGED <<connect4, ebVars>>
=============================================================================
