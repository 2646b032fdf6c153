-------------------------- MODULE SandboxLifecycle --------------------------
(***************************************************************************)
(* What the sandbox manager promises of the life of its sandboxes, without *)
(* threads, processes or the mutex: each one is absent, being created,     *)
(* active or being terminated, and while one is in between nothing happens *)
(* to any other.  A creation may get stuck for ever; then the manager is   *)
(* dead and the active sandboxes stay as they are.                         *)
(***************************************************************************)
CONSTANT Ids

VARIABLE status

Statuses == {"absent", "creating", "stuck", "active", "terminating"}

LcInit == status = [id \in Ids |-> "absent"]

(* No call is half done. *)
Quiet == \A id \in Ids : status[id] \in {"absent", "active"}

BeginCreate(id) ==
  /\ Quiet /\ status[id] = "absent"
  /\ status' = [status EXCEPT ![id] = "creating"]

(* The three ends of a creation: Success, an error, or no end at all. *)
EndCreate(id) ==
  /\ status[id] = "creating"
  /\ \E end \in {"active", "absent", "stuck"} : status' = [status EXCEPT ![id] = end]

(* One sandbox, or all there are. *)
BeginTerminate(S) ==
  /\ Quiet /\ S # {}
  /\ \A id \in S : status[id] = "active"
  /\ \/ \E id \in Ids : S = {id}
     \/ \A id \in Ids : status[id] = "active" => id \in S
  /\ status' = [id \in Ids |-> IF id \in S THEN "terminating" ELSE status[id]]

(* Those being terminated disappear together. *)
EndTerminate ==
  /\ \E id \in Ids : status[id] = "terminating"
  /\ status' = [id \in Ids |-> IF status[id] = "terminating" THEN "absent" ELSE status[id]]

LcNext ==
  \/ \E id \in Ids : BeginCreate(id) \/ EndCreate(id)
  \/ \E S \in SUBSET Ids : BeginTerminate(S)
  \/ EndTerminate

LcSpec == LcInit /\ [][LcNext]_status
=============================================================================
