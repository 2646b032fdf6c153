----------------------------- MODULE Firecracker -----------------------------
(***************************************************************************)
(* What the sandbox manager sees of the operating system: the Firecracker  *)
(* child processes, their API sockets, the TAP interfaces and the runtime  *)
(* directories.  The manager changes this state with fork, kill, waitpid,  *)
(* open, close and remove_all; the processes change it by themselves.      *)
(***************************************************************************)
EXTENDS Host

CONSTANTS Taps,     \* TAP interface names
          TapName   \* id -> "tap_" and the first eight characters of the id

ASSUME TapAssumption == TapName \in [Ids -> Taps]

VARIABLES fc_state,   \* pid -> state of the child process
          fc_sbx,     \* pid -> sandbox it was forked for
          fc_taps,    \* pid -> TAP interfaces it has an open descriptor of
          tap_fds,    \* TAP interfaces the manager has an open descriptor of
          sbx_dirs,   \* sandboxes whose runtime directory exists
          api_socket  \* id -> process that bound the socket file; None: no file

fcVars == <<fc_state, fc_sbx, fc_taps, tap_fds, sbx_dirs, api_socket>>

(* "starting": forked, socket not bound yet; "listening": serves the API;  *)
(* "running": the guest was started; "dying": SIGKILL sent, still there;   *)
(* "zombie": exited, not waited for; "free": no such child.                *)
FcStates == {"free", "starting", "listening", "running", "dying", "zombie"}

FcTypeOK ==
  /\ fc_state \in [Pids -> FcStates]
  /\ fc_sbx \in [Pids -> Ids \cup {None}]
  /\ fc_taps \in [Pids -> SUBSET Taps]
  /\ tap_fds \subseteq Taps
  /\ sbx_dirs \subseteq Ids
  /\ api_socket \in [Ids -> Pids \cup {None}]

FcInit ==
  /\ fc_state = [p \in Pids |-> "free"]
  /\ fc_sbx = [p \in Pids |-> None]
  /\ fc_taps = [p \in Pids |-> {}]
  /\ tap_fds = {}
  /\ sbx_dirs = {}
  /\ api_socket = [id \in Ids |-> None]

Alive(p) == fc_state[p] \in {"starting", "listening", "running", "dying"}

(* TUNSETIFF is refused while any process has the interface open.          *)
(* Mutant: an interface can be opened twice (IFF_MULTI_QUEUE).             *)
NeverBusy(tap) == FALSE
TapBusy(tap) == tap \in tap_fds \/ \E p \in Pids : tap \in fc_taps[p]

-----------------------------------------------------------------------------
(* The processes' own steps. *)

(* Firecracker binds its API socket.  It cannot when the directory is gone *)
(* or the file exists; it exits then (Exit).                               *)
BindSocket(p) ==
  /\ fc_state[p] = "starting"
  /\ fc_sbx[p] \in sbx_dirs
  /\ api_socket[fc_sbx[p]] = None
  /\ fc_state' = [fc_state EXCEPT ![p] = "listening"]
  /\ api_socket' = [api_socket EXCEPT ![fc_sbx[p]] = p]
  /\ UNCHANGED <<fc_sbx, fc_taps, tap_fds, sbx_dirs>>

(* A process ends: execv failed, it crashed, the guest shut down, or a     *)
(* SIGKILL took effect.  Its descriptors are closed, its socket file stays.*)
Exit(p) ==
  /\ Alive(p)
  /\ fc_state' = [fc_state EXCEPT ![p] = "zombie"]
  /\ fc_taps' = [fc_taps EXCEPT ![p] = {}]
  /\ UNCHANGED <<fc_sbx, tap_fds, sbx_dirs, api_socket>>

-----------------------------------------------------------------------------
(* The manager's system calls, by the variables they change. *)

(* The descriptors a child has open after execv.  /dev/net/tun is opened   *)
(* without O_CLOEXEC, so it keeps every TAP descriptor of the manager.     *)
(* Mutant: with O_CLOEXEC.                                                 *)
NothingInherited == {}
InheritedTaps == tap_fds

(* fork in spawn_firecracker_process, after a stale socket file is removed. *)
Fork(id, p) ==
  /\ fc_state[p] = "free"
  /\ fc_state' = [fc_state EXCEPT ![p] = "starting"]
  /\ fc_sbx' = [fc_sbx EXCEPT ![p] = id]
  /\ fc_taps' = [fc_taps EXCEPT ![p] = InheritedTaps]
  /\ api_socket' = [api_socket EXCEPT ![id] = None]
  /\ UNCHANGED <<tap_fds, sbx_dirs>>

(* kill(pid, SIGKILL): no effect on a zombie.  Mutant: a signal that       *)
(* Firecracker ignores.                                                    *)
IgnoredSignal(p) == UNCHANGED fcVars
Kill(p) ==
  /\ fc_state' = IF Alive(p) THEN [fc_state EXCEPT ![p] = "dying"] ELSE fc_state
  /\ UNCHANGED <<fc_sbx, fc_taps, tap_fds, sbx_dirs, api_socket>>

(* waitpid(pid, WNOHANG): reaps a zombie, does not wait for a dying child. *)
Reap(p) ==
  /\ IF fc_state[p] = "zombie"
     THEN /\ fc_state' = [fc_state EXCEPT ![p] = "free"]
          /\ fc_sbx' = [fc_sbx EXCEPT ![p] = None]
     ELSE UNCHANGED <<fc_state, fc_sbx>>
  /\ UNCHANGED <<fc_taps, tap_fds, sbx_dirs, api_socket>>

(* close(tap_fd) and remove_all of the runtime directory, after the socket *)
(* in it.  The error code is ignored: the directory may stay.              *)
ReleaseFiles(id, taps) ==
  /\ tap_fds' = tap_fds \ taps
  /\ sbx_dirs' \in {sbx_dirs, sbx_dirs \ {id}}
  /\ api_socket' = [api_socket EXCEPT ![id] = None]
  /\ UNCHANGED <<fc_state, fc_sbx, fc_taps>>

(* One PUT to the API socket is answered with a 2xx status: by the process *)
(* that bound the socket file, whoever that is, while its guest has not    *)
(* been started.  InstanceStart and a snapshot load start the guest.       *)
PutAccepted(id, starts) ==
  LET q == api_socket[id] IN
  /\ q # None
  /\ fc_state[q] = "listening"
  /\ fc_state' = IF starts THEN [fc_state EXCEPT ![q] = "running"] ELSE fc_state
  /\ UNCHANGED <<fc_sbx, fc_taps, tap_fds, sbx_dirs, api_socket>>
=============================================================================
