------------------------------ MODULE CliProofs ------------------------------
(***************************************************************************)
(* Safety of the command line tool.  The whole argument rests on one fact: *)
(* a handler never returns, so from the first signal on main stands still  *)
(* at the place the oldest handler on the stack recorded.                  *)
(***************************************************************************)
EXTENDS Cli, TLAPS

(* Where the pointer is published, and where a microVM may exist. *)
Published == {"call", "boot", "relock", "apply", "created", "lookup", "unpublish"}
WithGuest == {"boot", "relock", "apply", "created", "lookup", "unpublish", "destroy", "wipe"}

(* What main has done by the time it is at pc. *)
MainInv ==
  /\ pc = "start" => manager = "none" /\ ~g_sandbox_manager
  /\ pc \in Published => manager = "alive" /\ g_sandbox_manager
  /\ pc \in {"destroy", "wipe"} => manager = "alive"
  /\ pc = "leave" => manager = "destroyed" \/ (manager = "none" /\ ~g_sandbox_manager)
  /\ pc \in {"destroy", "wipe", "leave"} /\ g_sandbox_manager => code = 1
  /\ pc # "exited" /\ guest # "none" => pc \in WithGuest
  /\ pc # "exited" /\ guest = "running" => pc \in {"apply", "relock"}

(* The lock is held exactly by the scope that took it. *)
LockInv ==
  /\ pc # "exited" => (m_mutex = "main" <=> pc \in Held)
  /\ \A s \in Signals : m_mutex = s <=> step[s] = "wipe"

(* The handlers on the stack: each signal at most once, the first one on   *)
(* top of main, the second on top of the first.                            *)
StackInv ==
  /\ \A i, j \in 1..Len(handlers) : handlers[i] = handlers[j] => i = j
  /\ \A s \in Signals : step[s] = "idle" <=> s \notin Range(handlers)
  /\ pc # "exited" /\ handlers # <<>> => at[handlers[1]] = pc
  /\ \A i \in 1..Len(handlers) : i > 1 => at[handlers[i]] = step[handlers[i - 1]]

(* What a handler knows at each of its steps. *)
HandlerInv ==
  \A s \in Signals :
    /\ step[s] \in {"terminate_all", "wipe", "lost"} => g_sandbox_manager
    /\ step[s] = "wipe" => manager = "alive"
    /\ pc # "exited" /\ step[s] = "exit" /\ guest # "none" => ~g_sandbox_manager

CliInv ==
  CliTypeOK /\ MainInv /\ LockInv /\ StackInv /\ HandlerInv /\ ExitLeavesNoGuest

-----------------------------------------------------------------------------
(* The stack of handlers as a sequence of length at most two. *)
LEMMA StackType ==
  ASSUME CliTypeOK
  PROVE  /\ handlers \in Seq(Signals) /\ Len(handlers) \in 0..2
         /\ \A i \in 1..Len(handlers) : handlers[i] \in Signals
         /\ Range(handlers) = {handlers[i] : i \in 1..Len(handlers)}
<1>1. PICK m \in 0..2 : handlers \in [1..m -> Signals]
  BY DEF CliTypeOK, BoundedSeq, SeqOf
<1>2. handlers \in Seq(Signals) /\ Len(handlers) = m /\ DOMAIN handlers = 1..m
  BY <1>1
<1> QED
  BY <1>1, <1>2 DEF Range

(* The running handler is the last one of the stack. *)
LEMMA RunningFacts ==
  ASSUME CliTypeOK, StackInv, handlers # <<>>
  PROVE  /\ Len(handlers) \in 1..2 /\ Running = handlers[Len(handlers)]
         /\ Running \in Signals /\ Running \in Range(handlers)
         /\ handlers[1] \in Range(handlers)
         /\ \A i \in 1..Len(handlers) : i > 1 => handlers[i - 1] # Running
<1>1. Len(handlers) \in 1..2
  BY StackType
<1>2. Running = handlers[Len(handlers)]
  BY Zenon DEF Running, Last
<1> QED
  BY <1>1, <1>2, StackType DEF StackInv

(* Without a signal no handler has begun. *)
LEMMA NoHandler ==
  ASSUME CliTypeOK, StackInv, handlers = <<>>
  PROVE  \A s \in Signals : step[s] = "idle"
<1>1. Range(handlers) = {}
  BY StackType
<1> QED
  BY Zenon, <1>1 DEF StackInv

LEMMA InitCliInv == CliInit => CliInv
<1> SUFFICES ASSUME CliInit PROVE CliInv
  OBVIOUS
<1>1. handlers \in [1..0 -> Signals] /\ Len(handlers) = 0 /\ DOMAIN handlers = 1..0
  BY DEF CliInit
<1>2. handlers \in BoundedSeq(Signals, 2) /\ Range(handlers) = {}
  BY <1>1 DEF BoundedSeq, SeqOf, Range
<1>3. CliTypeOK
  BY Zenon, <1>2 DEF CliInit, CliTypeOK, MainSteps, HandlerSteps
<1>4. MainInv /\ HandlerInv /\ ExitLeavesNoGuest
  BY Zenon DEF CliInit, MainInv, HandlerInv, ExitLeavesNoGuest, Published
<1>5. LockInv
  BY Zenon DEF CliInit, LockInv, Held, Signals
<1>6. StackInv
  BY <1>1, <1>2 DEF CliInit, StackInv
<1> QED
  BY Zenon, <1>3, <1>4, <1>5, <1>6 DEF CliInv

(* Main moves only while no handler is on the stack: what is left to check *)
(* of its steps is MainInv, the lock, and that it ends without a guest.    *)
LEMMA MainMoves ==
  ASSUME CliInv, handlers = <<>>, UNCHANGED sigVars,
         MainInv', pc' \in MainSteps, command' \in Commands, g_sandbox_manager' \in BOOLEAN,
         manager' \in {"none", "alive", "destroyed"}, guest' \in {"none", "running", "registered"},
         code' \in {0, 1}, m_mutex' = IF pc' \in Held THEN "main" ELSE "none",
         pc' = "exited" => guest' = "none"
  PROVE  CliInv'
<1>1. \A s \in Signals : step[s] = "idle"
  BY Zenon, NoHandler DEF CliInv
<1>2. m_mutex' \in {"none", "main"} /\ "none" \notin Signals /\ "main" \notin Signals
  BY Zenon DEF Signals
<1>3. CliTypeOK'
  BY Zenon, <1>2 DEF CliInv, CliTypeOK, sigVars
<1>4. LockInv'
  BY Zenon, <1>1, <1>2 DEF LockInv, sigVars
<1>5. StackInv'
  BY <1>1 DEF CliInv, StackInv, sigVars
<1>6. HandlerInv' /\ ExitLeavesNoGuest'
  BY Zenon, <1>1 DEF HandlerInv, ExitLeavesNoGuest, sigVars
<1> QED
  BY Zenon, <1>3, <1>4, <1>5, <1>6 DEF CliInv

LEMMA MainStepInv ==
  ASSUME CliInv, MainStep
  PROVE  CliInv'
<1>1. handlers = <<>> /\ pc # "exited" /\ UNCHANGED sigVars
  BY Zenon DEF MainStep, Start, CallManager, Boot, ApplyAndRegister, Lookup, GetMetadata,
     Unpublish, Destroy, Wipe, Leave, At
<1>2. /\ command' \in Commands /\ g_sandbox_manager' \in BOOLEAN /\ code' \in {0, 1}
      /\ manager' \in {"none", "alive", "destroyed"}
      /\ guest' \in {"none", "running", "registered"} /\ pc' \in MainSteps
  BY Zenon DEF CliInv, CliTypeOK, MainSteps, Held, MainStep, Start, CallManager, Boot,
     ApplyAndRegister, Lookup, GetMetadata, Unpublish, Destroy, Wipe, Leave, Goto, ReturnEarly,
     ClearedPointer, WipedBy, mainVars
<1>3. m_mutex = IF pc \in Held THEN "main" ELSE "none"
  BY Zenon, <1>1, NoHandler DEF CliInv, CliTypeOK, LockInv
<1>4. m_mutex' = IF pc' \in Held THEN "main" ELSE "none"
  BY SMT, <1>3 DEF MainStep, Start, CallManager, Boot, ApplyAndRegister, Lookup, GetMetadata,
     Unpublish, Destroy, Wipe, Leave, At, Goto, ReturnEarly, Unlock, Held
<1>5. MainInv'
  BY SMT DEF CliInv, CliTypeOK, MainInv, MainStep, Start, CallManager, Boot, ApplyAndRegister,
     Lookup, GetMetadata, Unpublish, Destroy, Wipe, Leave, At, Goto, ReturnEarly, ClearedPointer,
     WipedBy, Published, WithGuest
<1>6. pc' = "exited" => guest' = "none"
  BY Zenon DEF CliInv, MainInv, WithGuest, MainStep, Start, CallManager, Boot, ApplyAndRegister,
     Lookup, GetMetadata, Unpublish, Destroy, Wipe, Leave, At, Goto, ReturnEarly
<1> QED
  BY Zenon, <1>1, <1>2, <1>4, <1>5, <1>6, MainMoves

(* A signal comes: the stack grows by one, and main stays where it is. *)
LEMMA DeliverInv ==
  ASSUME CliInv, NEW s \in Signals, Deliver(s)
  PROVE  CliInv'
<1> DEFINE n == Len(handlers)
<1>1. /\ pc # "exited" /\ s \notin Range(handlers) /\ handlers' = Append(handlers, s)
      /\ step' = [step EXCEPT ![s] = "test"]
      /\ UNCHANGED <<mainVars, manager, m_mutex, guest>>
  BY Zenon DEF Deliver, Deliverable
<1>2. /\ handlers \in Seq(Signals) /\ n \in 0..2 /\ \A i \in 1..n : handlers[i] \in Signals
      /\ Range(handlers) = {handlers[i] : i \in 1..n}
  BY Zenon, StackType DEF CliInv
<1>3. \A i, j \in 1..n : handlers[i] = handlers[j] => i = j
  BY Zenon DEF CliInv, StackInv
<1>4. n \in 0..1
  <2> SUFFICES ASSUME n = 2 PROVE FALSE
    BY <1>2
  <2>1. 1 \in 1..n /\ 2 \in 1..n
    OBVIOUS
  <2>2. handlers[1] # handlers[2] /\ handlers[1] \in Signals \ {s} /\ handlers[2] \in Signals \ {s}
    BY <2>1, <1>1, <1>2, <1>3
  <2> QED
    BY Zenon, <2>2 DEF Signals
<1>5. /\ Len(handlers') = n + 1 /\ handlers'[n + 1] = s
      /\ \A i \in 1..n : handlers'[i] = handlers[i]
      /\ handlers' \in [1..(n + 1) -> Signals] /\ DOMAIN handlers' = 1..(n + 1)
  <2>1. handlers' \in Seq(Signals) /\ Len(handlers') = n + 1
    BY <1>1, <1>2
  <2>2. handlers'[n + 1] = s /\ \A i \in 1..n : handlers'[i] = handlers[i]
    BY <1>1, <1>2
  <2>3. handlers' \in [1..Len(handlers') -> Signals] /\ DOMAIN handlers' = 1..Len(handlers')
    BY <2>1
  <2> QED
    BY Zenon, <2>1, <2>2, <2>3
<1>6. handlers' \in BoundedSeq(Signals, 2)
  BY <1>4, <1>5 DEF BoundedSeq, SeqOf
<1>7. Range(handlers') = Range(handlers) \cup {s}
  BY <1>2, <1>5 DEF Range
<1>8. step[s] = "idle"
  BY Zenon, <1>1 DEF CliInv, StackInv
<1>9. \A q \in Signals : step'[q] = IF q = s THEN "test" ELSE step[q]
  BY Zenon, <1>1 DEF CliInv, CliTypeOK
<1>10. /\ at' \in [Signals -> MainSteps \cup HandlerSteps]
       /\ at'[s] = IF n = 0 THEN pc ELSE step[handlers[n]]
       /\ \A q \in Signals : q # s => at'[q] = at[q]
  <2>1. handlers = <<>> <=> n = 0
    BY <1>2
  <2>2. n # 0 => Running = handlers[n] /\ Running \in Signals
    BY <1>2 DEF Running, Last
  <2>3. (IF handlers = <<>> THEN pc ELSE step[Running]) \in MainSteps \cup HandlerSteps
    BY Zenon, <2>1, <2>2 DEF CliInv, CliTypeOK
  <2> QED
    BY Zenon, <2>1, <2>2, <2>3 DEF CliInv, CliTypeOK, Deliver
<1>11. CliTypeOK'
  BY Zenon, <1>1, <1>6, <1>10 DEF CliInv, CliTypeOK, mainVars, HandlerSteps
<1>12. MainInv' /\ ExitLeavesNoGuest'
  BY Zenon, <1>1 DEF CliInv, MainInv, mainVars, ExitLeavesNoGuest
<1>13. LockInv' /\ HandlerInv'
  <2>1. UNCHANGED <<pc, m_mutex, g_sandbox_manager, manager, guest>>
    BY Zenon, <1>1 DEF mainVars
  <2>2. \A q \in Signals : \A l \in {"terminate_all", "wipe", "lost", "exit"} :
          step'[q] = l <=> step[q] = l
    BY Zenon, <1>8, <1>9
  <2>3. LockInv'
    BY Zenon, <2>1, <2>2 DEF CliInv, LockInv
  <2>4. HandlerInv'
    BY Zenon, <2>1, <2>2 DEF CliInv, HandlerInv
  <2> QED
    BY Zenon, <2>3, <2>4
<1>14. StackInv'
  <2>1. \A i, j \in 1..(n + 1) : handlers'[i] = handlers'[j] => i = j
    BY <1>1, <1>2, <1>3, <1>5
  <2>2. \A q \in Signals : step'[q] = "idle" <=> q \notin Range(handlers')
    BY Zenon, <1>7, <1>9 DEF CliInv, StackInv
  <2>3. at'[handlers'[1]] = pc'
    BY <1>1, <1>2, <1>5, <1>10 DEF CliInv, StackInv, mainVars
  <2>4. ASSUME NEW i \in 1..(n + 1), i > 1 PROVE at'[handlers'[i]] = step'[handlers'[i - 1]]
    <3>1. i - 1 \in 1..n /\ handlers'[i - 1] = handlers[i - 1] /\ handlers[i - 1] # s
      BY <2>4, <1>1, <1>2, <1>5
    <3>2. step'[handlers'[i - 1]] = step[handlers[i - 1]]
      BY <3>1, <1>2, <1>9
    <3>3. CASE i = n + 1
      BY <3>1, <3>2, <3>3, <2>4, <1>5, <1>10
    <3>4. CASE i \in 1..n
      BY <3>2, <3>4, <2>4, <1>1, <1>2, <1>5, <1>10 DEF CliInv, StackInv
    <3> QED
      BY <3>3, <3>4, <1>2
  <2> QED
    BY Zenon, <2>1, <2>2, <2>3, <2>4, <1>5 DEF StackInv
<1> QED
  BY Zenon, <1>11, <1>12, <1>13, <1>14 DEF CliInv

(* Only the last handler of the stack moves, so what the ones above it     *)
(* recorded stays true.                                                    *)
LEMMA HandlerMoves ==
  ASSUME CliInv, handlers # <<>>, NEW label \in HandlerSteps \ {"idle"}, HandlerGoto(label),
         UNCHANGED mainVars
  PROVE  /\ Running \in Signals /\ UNCHANGED <<handlers, at>> /\ Running' = Running
         /\ \A q \in Signals : step'[q] = IF q = Running THEN label ELSE step[q]
         /\ step' \in [Signals -> HandlerSteps]
         /\ StackInv'
<1>1. /\ step' = [step EXCEPT ![Running] = label] /\ UNCHANGED <<handlers, at>>
  BY Zenon DEF HandlerGoto
<1>2. /\ Running \in Signals /\ Running \in Range(handlers) /\ Len(handlers) \in 1..2
      /\ \A i \in 1..Len(handlers) : i > 1 => handlers[i - 1] # Running
  BY Zenon, RunningFacts DEF CliInv
<1>3. /\ \A q \in Signals : step'[q] = IF q = Running THEN label ELSE step[q]
      /\ step' \in [Signals -> HandlerSteps]
  BY Zenon, <1>1, <1>2 DEF CliInv, CliTypeOK
<1>4. \A q \in Signals : step'[q] = "idle" <=> q \notin Range(handlers)
  BY Zenon, <1>2, <1>3 DEF CliInv, StackInv
<1>5. \A i \in 1..Len(handlers) : i > 1 => at[handlers[i]] = step'[handlers[i - 1]]
  <2> SUFFICES ASSUME NEW i \in 1..Len(handlers), i > 1
               PROVE  at[handlers[i]] = step'[handlers[i - 1]]
    BY Zenon
  <2>1. i - 1 \in 1..Len(handlers) /\ handlers[i - 1] # Running
    BY <1>2
  <2>2. handlers[i - 1] \in Signals
    BY Zenon, <2>1, StackType DEF CliInv
  <2> QED
    BY Zenon, <2>1, <2>2, <1>3 DEF CliInv, StackInv
<1>6. StackInv'
  BY Zenon, <1>1, <1>4, <1>5 DEF CliInv, StackInv, mainVars
<1>7. Running' = Running
  BY Zenon, <1>1 DEF Running
<1> QED
  BY Zenon, <1>1, <1>2, <1>3, <1>6, <1>7

(* Main is interrupted with the manager destroyed only on its way out. *)
LEMMA DestroyedAtTheEnd ==
  ASSUME CliInv, pc # "exited", manager = "destroyed"
  PROVE  pc = "leave" /\ guest = "none"
BY Zenon DEF CliInv, CliTypeOK, MainInv, MainSteps, Held, Published, WithGuest

(* With the pointer null, a microVM can be there only in the teardown. *)
LEMMA GuestUnpublished ==
  ASSUME CliInv, pc # "exited", guest # "none", ~g_sandbox_manager
  PROVE  pc \in {"destroy", "wipe"}
BY Zenon DEF CliInv, MainInv, Published, WithGuest

LEMMA TestPointerInv ==
  ASSUME CliInv, TestPointer
  PROVE  CliInv'
<1> DEFINE label == IF g_sandbox_manager THEN "terminate_all" ELSE "exit"
<1>1. /\ handlers # <<>> /\ pc # "exited" /\ step[Running] = "test" /\ HandlerGoto(label)
      /\ UNCHANGED <<mainVars, manager, m_mutex, guest>> /\ UNCHANGED mainVars
  BY Zenon DEF TestPointer, HandlerAt
<1>2. label \in HandlerSteps \ {"idle"}
  BY Zenon DEF HandlerSteps
<1>3. /\ Running \in Signals /\ UNCHANGED <<handlers, at>>
      /\ \A q \in Signals : step'[q] = IF q = Running THEN label ELSE step[q]
      /\ step' \in [Signals -> HandlerSteps] /\ StackInv'
  <2> HIDE DEF label
  <2> QED
    BY Zenon, <1>1, <1>2, HandlerMoves
<1>4. UNCHANGED <<pc, command, code, m_mutex, g_sandbox_manager, manager, guest, handlers, at>>
  BY Zenon, <1>1, <1>3 DEF mainVars
<1>5. CliTypeOK' /\ MainInv'
  BY Zenon, <1>3, <1>4 DEF CliInv, CliTypeOK, MainInv
<1>6. LockInv'
  <2>1. \A q \in Signals : step'[q] = "wipe" <=> step[q] = "wipe"
    BY Zenon, <1>1, <1>3
  <2> QED
    BY Zenon, <2>1, <1>4 DEF CliInv, LockInv
<1>7. HandlerInv'
  <2>1. \A q \in Signals : q # Running => step'[q] = step[q]
    BY Zenon, <1>3
  <2>2. step'[Running] = label
    BY Zenon, <1>3
  <2> QED
    BY Zenon, <2>1, <2>2, <1>3, <1>4 DEF CliInv, HandlerInv
<1>8. ExitLeavesNoGuest'
  BY Zenon, <1>1, <1>4 DEF ExitLeavesNoGuest
<1> QED
  BY Zenon, <1>3, <1>5, <1>6, <1>7, <1>8 DEF CliInv

LEMMA HandlerWipesInv ==
  ASSUME CliInv, HandlerWipes
  PROVE  CliInv'
<1>1. /\ handlers # <<>> /\ pc # "exited" /\ step[Running] = "wipe" /\ HandlerGoto("exit")
      /\ UNCHANGED <<mainVars, manager>> /\ UNCHANGED mainVars /\ guest' = WipedBy
      /\ m_mutex' = "none"
  BY Zenon DEF HandlerWipes, HandlerAt, Unlock
<1>2. "exit" \in HandlerSteps \ {"idle"}
  BY Zenon DEF HandlerSteps
<1>3. /\ Running \in Signals /\ UNCHANGED <<handlers, at>>
      /\ \A q \in Signals : step'[q] = IF q = Running THEN "exit" ELSE step[q]
      /\ step' \in [Signals -> HandlerSteps] /\ StackInv'
  BY Zenon, <1>1, <1>2, HandlerMoves
<1>4. UNCHANGED <<pc, command, code, g_sandbox_manager, manager, handlers, at>>
  BY Zenon, <1>1, <1>3 DEF mainVars
<1>5. m_mutex = Running /\ Running # "main" /\ pc \notin Held
  BY Zenon, <1>1, <1>3 DEF CliInv, LockInv, Signals
<1>6. guest' = "none"
  <2>1. guest # "running"
    BY Zenon, <1>1, <1>5 DEF CliInv, MainInv, Held
  <2> QED
    BY Zenon, <2>1, <1>1 DEF CliInv, CliTypeOK, WipedBy
<1>7. CliTypeOK' /\ MainInv'
  BY Zenon, <1>1, <1>3, <1>4, <1>6 DEF CliInv, CliTypeOK, MainInv
<1>8. LockInv'
  <2>1. \A q \in Signals : step'[q] # "wipe"
    BY Zenon, <1>3, <1>5 DEF CliInv, LockInv
  <2>2. "none" \notin Signals /\ "none" # "main"
    BY Zenon DEF Signals
  <2> QED
    BY Zenon, <2>1, <2>2, <1>1, <1>4, <1>5 DEF LockInv
<1>9. HandlerInv' /\ ExitLeavesNoGuest'
  <2>1. \A q \in Signals : step'[q] = "exit" \/ step'[q] = step[q]
    BY Zenon, <1>3
  <2> QED
    BY Zenon, <2>1, <1>4, <1>6 DEF CliInv, HandlerInv, ExitLeavesNoGuest
<1> QED
  BY Zenon, <1>3, <1>7, <1>8, <1>9 DEF CliInv

(* The end of the process: nothing but pc changes. *)
LEMMA ExitedInv ==
  ASSUME CliInv, handlers # <<>>, pc # "exited", Goto("exited"),
         UNCHANGED <<manager, m_mutex, guest, sigVars>>,
         guest # "none" => ~g_sandbox_manager
  PROVE  CliInv'
<1>1. /\ pc' = "exited"
      /\ UNCHANGED <<command, code, g_sandbox_manager, manager, m_mutex, guest, handlers, step, at>>
  BY Zenon DEF Goto, sigVars
<1>2. CliTypeOK'
  BY Zenon, <1>1 DEF CliInv, CliTypeOK, MainSteps
<1>3. MainInv' /\ LockInv' /\ HandlerInv'
  BY Zenon, <1>1 DEF CliInv, MainInv, LockInv, HandlerInv, Published
<1>4. StackInv'
  BY Zenon, <1>1 DEF CliInv, StackInv
<1>5. ExitLeavesNoGuest'
  <2> SUFFICES ASSUME guest # "none"
               PROVE  ~g_sandbox_manager /\ Interrupted({"destroy", "wipe"})'
    BY Zenon, <1>1 DEF ExitLeavesNoGuest
  <2>1. pc \in {"destroy", "wipe"}
    BY Zenon, GuestUnpublished
  <2>2. at[handlers[1]] = pc /\ handlers[1] \in Range(handlers)
    BY Zenon, RunningFacts DEF CliInv, StackInv
  <2> QED
    BY Zenon, <2>1, <2>2, <1>1 DEF Interrupted
<1> QED
  BY Zenon, <1>2, <1>3, <1>4, <1>5 DEF CliInv

LEMMA HandlerExitsInv ==
  ASSUME CliInv, HandlerExits
  PROVE  CliInv'
<1>1. handlers # <<>> /\ pc # "exited" /\ step[Running] = "exit"
  BY Zenon DEF HandlerExits, HandlerAt
<1>2. Running \in Signals
  BY Zenon, <1>1, RunningFacts DEF CliInv
<1>3. guest # "none" => ~g_sandbox_manager
  BY Zenon, <1>1, <1>2 DEF CliInv, HandlerInv
<1> QED
  BY Zenon, <1>1, <1>3, ExitedInv DEF HandlerExits

(* A handler that goes to label without changing the guest. *)
LEMMA HandlerGoesOn ==
  ASSUME CliInv, handlers # <<>>, pc # "exited", step[Running] = "terminate_all",
         NEW label \in {"wipe", "exit", "lost"}, HandlerGoto(label), UNCHANGED mainVars,
         UNCHANGED <<manager, guest>>,
         label = "wipe" => manager = "alive" /\ m_mutex = "none" /\ m_mutex' = Running,
         label # "wipe" => UNCHANGED m_mutex,
         label = "exit" => guest = "none"
  PROVE  CliInv'
<1>1. label \in HandlerSteps \ {"idle"}
  BY Zenon DEF HandlerSteps
<1>2. /\ Running \in Signals /\ UNCHANGED <<handlers, at>>
      /\ \A q \in Signals : step'[q] = IF q = Running THEN label ELSE step[q]
      /\ step' \in [Signals -> HandlerSteps] /\ StackInv'
  BY Zenon, <1>1, HandlerMoves
<1>3. UNCHANGED <<pc, command, code, g_sandbox_manager, manager, guest, handlers, at>>
  BY Zenon, <1>2 DEF mainVars
<1>4. CliTypeOK'
  BY Zenon, <1>2, <1>3 DEF CliInv, CliTypeOK
<1>5. MainInv' /\ ExitLeavesNoGuest'
  BY Zenon, <1>3 DEF CliInv, MainInv, ExitLeavesNoGuest
<1>6. LockInv'
  <2>1. "none" \notin Signals /\ "main" \notin Signals
    BY Zenon DEF Signals
  <2>2. CASE label = "wipe"
    <3>1. \A q \in Signals : step[q] # "wipe"
      BY Zenon, <2>1, <2>2 DEF CliInv, LockInv
    <3>2. \A q \in Signals : m_mutex' = q <=> step'[q] = "wipe"
      BY Zenon, <3>1, <2>2, <1>2
    <3>3. pc \notin Held /\ m_mutex' # "main"
      BY Zenon, <2>1, <2>2, <1>2 DEF CliInv, LockInv
    <3> QED
      BY Zenon, <3>2, <3>3, <1>3 DEF LockInv
  <2>3. CASE label # "wipe"
    <3>1. \A q \in Signals : step'[q] = "wipe" <=> step[q] = "wipe"
      BY Zenon, <2>3, <1>2
    <3> QED
      BY Zenon, <3>1, <2>3, <1>3 DEF CliInv, LockInv
  <2> QED
    BY Zenon, <2>2, <2>3
<1>7. HandlerInv'
  <2>1. g_sandbox_manager
    BY Zenon, <1>2 DEF CliInv, HandlerInv
  <2>2. \A q \in Signals : step'[q] = "wipe" => manager = "alive"
    BY Zenon, <1>2 DEF CliInv, HandlerInv
  <2>3. \A q \in Signals : step'[q] = "exit" /\ guest # "none" => step[q] = "exit"
    BY Zenon, <1>2
  <2> QED
    BY Zenon, <2>1, <2>2, <2>3, <1>3 DEF CliInv, HandlerInv
<1> QED
  BY Zenon, <1>2, <1>4, <1>5, <1>6, <1>7 DEF CliInv

LEMMA HandlerLocksInv ==
  ASSUME CliInv, HandlerLocks
  PROVE  CliInv'
<1>1. /\ handlers # <<>> /\ pc # "exited" /\ step[Running] = "terminate_all"
      /\ UNCHANGED <<manager, guest>>
  BY Zenon DEF HandlerLocks, HandlerAt
<1>2. manager = "destroyed" => guest = "none"
  BY Zenon, <1>1, DestroyedAtTheEnd
<1>3. CASE manager = "alive" /\ m_mutex = "none" /\ m_mutex' = Running /\ HandlerGoto("wipe")
           /\ UNCHANGED mainVars
  BY Zenon, <1>1, <1>3, HandlerGoesOn
<1>4. CASE manager = "destroyed" /\ (HandlerGoto("exit") \/ HandlerGoto("lost"))
           /\ UNCHANGED <<mainVars, m_mutex>>
  <2>1. UNCHANGED mainVars /\ UNCHANGED m_mutex
    BY Zenon, <1>4
  <2>2. CASE HandlerGoto("exit")
    BY Zenon, <2>1, <2>2, <1>1, <1>2, <1>4, HandlerGoesOn
  <2>3. CASE HandlerGoto("lost")
    BY Zenon, <2>1, <2>3, <1>1, HandlerGoesOn
  <2> QED
    BY Zenon, <2>2, <2>3, <1>4
<1>5. CASE manager = "destroyed" /\ Goto("exited") /\ UNCHANGED <<m_mutex, sigVars>>
  BY Zenon, <1>1, <1>2, <1>5, ExitedInv
<1> QED
  BY Zenon, <1>3, <1>4, <1>5 DEF HandlerLocks

(* The pointer is not null, so main left through an error path. *)
LEMMA DestroyedMeansError ==
  ASSUME CliInv
  PROVE  DestroyedOnlyOnError
<1> SUFFICES ASSUME HandlerAt("terminate_all"), manager = "destroyed" PROVE code = 1
  BY Zenon DEF DestroyedOnlyOnError
<1>1. handlers # <<>> /\ pc # "exited" /\ step[Running] = "terminate_all"
  BY Zenon DEF HandlerAt
<1>2. Running \in Signals /\ pc = "leave"
  BY Zenon, <1>1, RunningFacts, DestroyedAtTheEnd DEF CliInv
<1> QED
  BY Zenon, <1>1, <1>2 DEF CliInv, HandlerInv, MainInv

(* Who holds the lock is on the stack, and was interrupted where it holds  *)
(* it by the entry above.                                                  *)
LEMMA HolderIsBeneath ==
  ASSUME CliInv
  PROVE  HandlerWaitsForItself
<1> SUFFICES ASSUME HandlerAt("terminate_all"), manager # "destroyed"
             PROVE  manager = "alive" /\ (m_mutex = "none" \/ Interrupted(Held))
  BY Zenon DEF HandlerWaitsForItself
<1>1. handlers # <<>> /\ pc # "exited" /\ step[Running] = "terminate_all"
  BY Zenon DEF HandlerAt
<1>2. /\ Running \in Signals /\ handlers[1] \in Range(handlers) /\ Len(handlers) \in 1..2
      /\ Running = handlers[Len(handlers)]
  BY Zenon, <1>1, RunningFacts DEF CliInv
<1>3. manager = "alive"
  <2>1. g_sandbox_manager /\ manager \in {"none", "alive"}
    BY Zenon, <1>1, <1>2 DEF CliInv, HandlerInv, CliTypeOK
  <2> QED
    BY Zenon, <2>1, <1>1 DEF CliInv, CliTypeOK, MainInv, MainSteps, Held, Published
<1>4. CASE m_mutex = "main"
  BY Zenon, <1>1, <1>2, <1>3, <1>4 DEF CliInv, LockInv, StackInv, Interrupted
<1>5. CASE m_mutex \in Signals
  <2>1. step[m_mutex] = "wipe" /\ m_mutex \in Range(handlers)
    BY Zenon, <1>5 DEF CliInv, LockInv, StackInv
  <2>2. PICK i \in 1..Len(handlers) : m_mutex = handlers[i]
    BY <2>1, StackType DEF CliInv
  <2>3. i + 1 \in 1..Len(handlers) /\ i + 1 > 1 /\ (i + 1) - 1 = i
    BY <2>1, <2>2, <1>1, <1>2
  <2>4. at[handlers[i + 1]] = "wipe"
    <3> DEFINE j == i + 1
    <3>1. at[handlers[j]] = step[handlers[j - 1]]
      <4> HIDE DEF j
      <4>1. j \in 1..Len(handlers) /\ j > 1
        BY Zenon, <2>3 DEF j
      <4> QED
        BY Zenon, <4>1 DEF CliInv, StackInv
    <3> QED
      BY <3>1, <2>1, <2>2, <2>3
  <2>5. handlers[i + 1] \in Range(handlers)
    BY <2>3, StackType DEF CliInv
  <2> QED
    BY Zenon, <2>4, <2>5, <1>3 DEF Interrupted, Held
<1> QED
  BY Zenon, <1>3, <1>4, <1>5 DEF CliInv, CliTypeOK

-----------------------------------------------------------------------------
LEMMA CliNextInv == CliInv /\ [CliNext]_vars => CliInv'
<1> SUFFICES ASSUME CliInv, [CliNext]_vars PROVE CliInv'
  OBVIOUS
<1>1. CASE UNCHANGED vars
  <2>1. UNCHANGED <<pc, command, g_sandbox_manager, code, manager, m_mutex, guest,
                    handlers, step, at>>
    BY Zenon, <1>1 DEF vars, mainVars, sigVars
  <2>2. CliTypeOK' /\ MainInv' /\ LockInv' /\ HandlerInv'
    BY Zenon, <2>1 DEF CliInv, CliTypeOK, MainInv, LockInv, HandlerInv
  <2>3. StackInv' /\ ExitLeavesNoGuest'
    BY Zenon, <2>1 DEF CliInv, StackInv, ExitLeavesNoGuest, Interrupted
  <2> QED
    BY Zenon, <2>2, <2>3 DEF CliInv
<1>2. CASE CliNext
  BY Zenon, <1>2, MainStepInv, DeliverInv, TestPointerInv, HandlerLocksInv, HandlerWipesInv,
     HandlerExitsInv DEF CliNext, HandlerStep
<1> QED
  BY Zenon, <1>1, <1>2

(* Whatever main does and whenever the signals come, main stands still     *)
(* from the first signal on, m_mutex is held by the scope that took it,    *)
(* and each handler knows of the pointer what it tested.                   *)
LEMMA CliInvariant == CliSpec => []CliInv
BY InitCliInv, CliNextInv, PTL DEF CliSpec

(* The tool's state is well typed; in particular no signal's handler is on *)
(* the stack twice, so the stack has at most two.                          *)
THEOREM CliTypeCorrect == CliSpec => []CliTypeOK
<1>1. CliInv => CliTypeOK
  BY Zenon DEF CliInv
<1> QED
  BY <1>1, CliInvariant, PTL

(* A command that fails, on any of the error paths of main, and a handler  *)
(* that calls std::exit leave no microVM of the process behind, except     *)
(* after a signal that found main tearing down with the pointer null.      *)
THEOREM NoGuestLeftBehind == CliSpec => []ExitLeavesNoGuest
<1>1. CliInv => ExitLeavesNoGuest
  BY Zenon DEF CliInv
<1> QED
  BY <1>1, CliInvariant, PTL

(* signal_handler calls terminate_all on a destroyed manager only after    *)
(* main has returned 1 without clearing g_sandbox_manager.                 *)
THEOREM DanglingOnlyAfterError == CliSpec => []DestroyedOnlyOnError
<1>1. CliInv => DestroyedOnlyOnError
  BY Zenon, DestroyedMeansError
<1> QED
  BY <1>1, CliInvariant, PTL

(* A handler in terminate_all waits only for a scope beneath it on its own *)
(* stack: main, or the handler of the other signal.                        *)
THEOREM WaitsOnlyForItself == CliSpec => []HandlerWaitsForItself
<1>1. CliInv => HandlerWaitsForItself
  BY Zenon, HolderIsBeneath
<1> QED
  BY <1>1, CliInvariant, PTL
=============================================================================
