-------------------------------- MODULE Cli ---------------------------------
(***************************************************************************)
(* The command line tool (cmd/aegis-cli/main.cpp).  One process runs one   *)
(* command on a SandboxManager of its own, which main's scope destroys;    *)
(* SIGINT and SIGTERM run signal_handler on the same thread, at any point, *)
(* through the global g_sandbox_manager.  A handler never returns: it      *)
(* calls std::exit, which does not unwind main.  The manager's methods     *)
(* are as in SandboxManager: they hold m_mutex throughout, a new manager's *)
(* map is empty, and a create_sandbox that fails late waits for itself.    *)
(***************************************************************************)
EXTENDS Naturals, Sequences, SequencesExt

Commands == {"create", "exec", "terminate", "status", "other"}
Signals == {"SIGINT", "SIGTERM"}

(* Where main is, and where it holds m_mutex. *)
Held == {"boot", "relock", "apply", "lookup", "wipe"}
MainSteps == {"start", "call", "created", "unpublish", "destroy", "leave", "exited"}
               \cup Held
HandlerSteps == {"idle", "test", "terminate_all", "wipe", "lost", "exit"}

VARIABLES pc, command,
          g_sandbox_manager, \* the pointer is not null
          manager,           \* the object on main's stack
          m_mutex,           \* who holds it
          guest,             \* a microVM: none, running or in the map
          code,              \* what main returns
          handlers,          \* handlers on the stack, the running one last
          step,              \* signal -> step of its handler
          at                 \* signal -> what it interrupted

mainVars == <<pc, command, g_sandbox_manager, code>>
sigVars == <<handlers, step, at>>
vars == <<mainVars, manager, m_mutex, guest, sigVars>>

CliTypeOK ==
  /\ pc \in MainSteps
  /\ command \in Commands
  /\ g_sandbox_manager \in BOOLEAN
  /\ manager \in {"none", "alive", "destroyed"}
  /\ m_mutex \in {"none", "main"} \cup Signals
  /\ guest \in {"none", "running", "registered"}
  /\ code \in {0, 1}
  /\ handlers \in BoundedSeq(Signals, 2)
  /\ step \in [Signals -> HandlerSteps]
  /\ at \in [Signals -> MainSteps \cup HandlerSteps]

(* The handlers are installed. *)
CliInit ==
  /\ pc = "start" /\ command \in Commands
  /\ g_sandbox_manager = FALSE /\ manager = "none" /\ m_mutex = "none"
  /\ guest = "none" /\ code = 0
  /\ handlers = <<>>
  /\ step = [s \in Signals |-> "idle"]
  /\ at = [s \in Signals |-> "idle"]

-----------------------------------------------------------------------------
At(label) == pc = label /\ handlers = <<>>
Goto(label) == pc' = label /\ UNCHANGED <<command, code, g_sandbox_manager>>

(* A return statement or an exception: the scope of the try block ends     *)
(* without the assignment of nullptr.                                      *)
ReturnEarly == pc' = "destroy" /\ code' = 1 /\ UNCHANGED <<command, g_sandbox_manager>>

(* The end of a lock_guard's scope.  Mutant: m_mutex stays locked. *)
KeepLocked == UNCHANGED m_mutex
Unlock == m_mutex' = "none"

(* main returns at once without a command or for version, both "other",    *)
(* and when a constructor throws; else g_sandbox_manager = &manager.       *)
Start ==
  /\ At("start")
  /\ \/ /\ pc' = "leave" /\ code' \in (IF command = "other" THEN {0, 1} ELSE {1})
        /\ UNCHANGED <<g_sandbox_manager, manager>>
     \/ /\ pc' = "call" /\ g_sandbox_manager' = TRUE /\ manager' = "alive"
        /\ UNCHANGED code
  /\ UNCHANGED <<command, m_mutex, guest, sigVars>>

(* The command's call of the manager takes the lock. *)
CallManager ==
  /\ At("call")
  /\ \/ /\ command = "other" /\ ReturnEarly
        /\ UNCHANGED m_mutex
     \/ /\ command # "other"
        /\ Goto(IF command = "create" THEN "boot" ELSE "lookup")
        /\ m_mutex' = "main"
  /\ UNCHANGED <<manager, guest, sigVars>>

(* create_sandbox: it fails or throws before the microVM starts, the       *)
(* microVM starts, or it fails late and stays in its own lock.             *)
Boot ==
  /\ At("boot")
  /\ \/ ReturnEarly /\ Unlock /\ UNCHANGED guest
     \/ Goto("apply") /\ guest' = "running" /\ UNCHANGED m_mutex
     \/ Goto("relock") /\ guest' \in {"none", "running"} /\ UNCHANGED m_mutex
  /\ UNCHANGED <<manager, sigVars>>

ApplyAndRegister ==
  /\ At("apply")
  /\ Goto("created")
  /\ guest' = "registered" /\ Unlock
  /\ UNCHANGED <<manager, sigVars>>

(* execute_code, terminate_sandbox and get_metadata find nothing in the    *)
(* map of a new manager; get_metadata after create finds the sandbox.      *)
Lookup ==
  /\ At("lookup")
  /\ IF command = "terminate" THEN ReturnEarly ELSE Goto("unpublish")
  /\ Unlock
  /\ UNCHANGED <<manager, guest, sigVars>>

GetMetadata ==
  /\ At("created")
  /\ Goto("lookup") /\ m_mutex' = "main"
  /\ UNCHANGED <<manager, guest, sigVars>>

(* g_sandbox_manager = nullptr; return 0, unless the output threw.         *)
(* Mutant: the pointer is not cleared.                                     *)
PointerKept == g_sandbox_manager
ClearedPointer == FALSE
Unpublish ==
  /\ At("unpublish")
  /\ \/ ReturnEarly
     \/ /\ pc' = "destroy" /\ g_sandbox_manager' = ClearedPointer
        /\ UNCHANGED <<command, code>>
  /\ UNCHANGED <<manager, m_mutex, guest, sigVars>>

(* ~SandboxManager calls terminate_all. *)
Destroy ==
  /\ At("destroy")
  /\ Goto("wipe") /\ m_mutex' = "main"
  /\ UNCHANGED <<manager, guest, sigVars>>

(* Mutant of WipedBy: terminate_all leaves the guest running. *)
NothingWiped == guest
WipedBy == IF guest = "registered" THEN "none" ELSE guest

Wipe ==
  /\ At("wipe")
  /\ Goto("leave")
  /\ guest' = WipedBy /\ Unlock /\ manager' = "destroyed"
  /\ UNCHANGED sigVars

(* The return from main: static objects are destroyed, the process ends.   *)
Leave ==
  /\ At("leave")
  /\ Goto("exited")
  /\ UNCHANGED <<manager, m_mutex, guest, sigVars>>

-----------------------------------------------------------------------------
Running == Last(handlers)
HandlerAt(label) == handlers # <<>> /\ pc # "exited" /\ step[Running] = label
HandlerGoto(label) == step' = [step EXCEPT ![Running] = label] /\ UNCHANGED <<handlers, at>>

(* std::signal blocks a signal while its own handler runs; the other is    *)
(* not blocked.  Mutant: neither is.                                       *)
NeverBlocked(s) == TRUE
Deliverable(s) == s \notin Range(handlers)

Deliver(s) ==
  /\ pc # "exited" /\ Deliverable(s)
  /\ handlers' = Append(handlers, s)
  /\ step' = [step EXCEPT ![s] = "test"]
  /\ at' = [at EXCEPT ![s] = IF handlers = <<>> THEN pc ELSE step[Running]]
  /\ UNCHANGED <<mainVars, manager, m_mutex, guest>>

TestPointer ==
  /\ HandlerAt("test")
  /\ HandlerGoto(IF g_sandbox_manager THEN "terminate_all" ELSE "exit")
  /\ UNCHANGED <<mainVars, manager, m_mutex, guest>>

(* The lock of terminate_all, taken from whatever was interrupted: if that *)
(* holds it, this is the end.  On a destroyed manager anything may happen: *)
(* it seems to work, it ends the process, or it waits.                     *)
HandlerLocks ==
  /\ HandlerAt("terminate_all")
  /\ \/ /\ manager = "alive" /\ m_mutex = "none"
        /\ m_mutex' = Running
        /\ HandlerGoto("wipe")
        /\ UNCHANGED mainVars
     \/ /\ manager = "destroyed"
        /\ HandlerGoto("exit") \/ HandlerGoto("lost")
        /\ UNCHANGED <<mainVars, m_mutex>>
     \/ /\ manager = "destroyed"
        /\ Goto("exited")
        /\ UNCHANGED <<m_mutex, sigVars>>
  /\ UNCHANGED <<manager, guest>>

HandlerWipes ==
  /\ HandlerAt("wipe")
  /\ guest' = WipedBy /\ Unlock
  /\ HandlerGoto("exit")
  /\ UNCHANGED <<mainVars, manager>>

(* std::exit *)
HandlerExits ==
  /\ HandlerAt("exit")
  /\ Goto("exited")
  /\ UNCHANGED <<manager, m_mutex, guest, sigVars>>

MainStep ==
  \/ Start \/ CallManager \/ Boot \/ ApplyAndRegister
  \/ Lookup \/ GetMetadata \/ Unpublish \/ Destroy \/ Wipe \/ Leave

HandlerStep == TestPointer \/ HandlerLocks \/ HandlerWipes \/ HandlerExits

CliNext == MainStep \/ HandlerStep \/ \E s \in Signals : Deliver(s)

(* A handler that can go on does; main may wait in a read without timeout, *)
(* and no signal has to come.                                              *)
CliSpec == CliInit /\ [][CliNext]_vars /\ WF_vars(HandlerStep)

-----------------------------------------------------------------------------
Interrupted(places) == \E s \in Range(handlers) : at[s] \in places

(* "Wiping active sandboxes": a process that a signal ends, or that fails, *)
(* leaves no microVM of its own running, unless the signal came while main *)
(* was tearing down with the pointer already cleared.                      *)
ExitLeavesNoGuest ==
  pc = "exited" /\ (code = 1 \/ handlers # <<>>) /\ guest # "none" =>
    ~g_sandbox_manager /\ Interrupted({"destroy", "wipe"})

(* The usage text and README.md show create, exec and terminate as three   *)
(* commands on one sandbox: a create that succeeds leaves its sandbox to   *)
(* the commands after it.  It does not: main's scope destroys the manager, *)
(* and with it the sandbox.                                                *)
SandboxOutlivesCreate ==
  pc = "exited" /\ command = "create" /\ code = 0 /\ handlers = <<>> => guest # "none"

(* A signal ends the process, with three exceptions: the handler waits for *)
(* m_mutex because what it interrupted on the same thread holds it, main   *)
(* or the other signal's handler, or it uses a manager that is destroyed.   *)
SignalEndsProcess ==
  handlers # <<>> ~> \/ pc = "exited"
                     \/ m_mutex # "none" /\ Interrupted(Held)
                     \/ \E s \in Signals : step[s] = "lost"

(* The handler can meet a destroyed manager only after a path on which     *)
(* main returned without clearing the pointer, always with code 1.         *)
DestroyedOnlyOnError ==
  HandlerAt("terminate_all") /\ manager = "destroyed" => code = 1

(* The safety side of SignalEndsProcess: a handler in terminate_all finds  *)
(* the lock free, or what holds it is beneath it on its own stack, main or *)
(* the other signal's handler, and cannot run before it returns; there is  *)
(* no third party it waits for.  Or the manager is gone.                   *)
HandlerWaitsForItself ==
  HandlerAt("terminate_all") /\ manager # "destroyed" =>
    manager = "alive" /\ (m_mutex = "none" \/ Interrupted(Held))
=============================================================================
