---------------------- MODULE ManagerGuaranteesProofs -----------------------
(***************************************************************************)
(* What the invariant of the sandbox manager gives its callers, each part  *)
(* with an argument of its own.                                            *)
(*                                                                         *)
(* The manager implements SandboxLifecycle: every step of a thread or      *)
(* process is a step of the abstract specification or leaves the life of   *)
(* every sandbox as it is.                                                 *)
(*                                                                         *)
(* Code only ever waits on a guest whose policy is in the kernel maps: the *)
(* maps of other sandboxes' cgroups are never touched, a full map stays    *)
(* full, and blocked syscalls are never unblocked.                         *)
(*                                                                         *)
(* No step takes anything from a sandbox it is not tearing down.  Besides  *)
(* ManagerInv this needs SocketOwn, which says whose process is bound to   *)
(* an API socket.                                                          *)
(*                                                                         *)
(* The manager calls CgroupManager only as its specification allows, so    *)
(* what CgroupManagerProofs shows of that component holds inside it.       *)
(*                                                                         *)
(* Every step of a call ends it or goes forward.                           *)
(***************************************************************************)
EXTENDS SandboxManagerProofs

life == [id \in Ids |-> LifeOf(id)]

(* A step that changes the life of no sandbox is a stuttering step. *)
LEMMA SameLife ==
  ASSUME \A id \in Ids : LifeOf(id)' = LifeOf(id)
  PROVE  life' = life
BY DEF life

(* Between two calls, and in a call that has not begun to create or tear   *)
(* down anything, no sandbox is in between.                                *)
LEMMA QuietLife ==
  ASSUME CurStep \notin DirSteps, CurStep \notin TeardownSteps
  PROVE  /\ Lifecycle!Quiet
         /\ \A id \in Ids : life[id] = IF Registered(id) THEN "active" ELSE "absent"
<1>1. \A id \in Ids : life[id] = IF Registered(id) THEN "active" ELSE "absent"
  BY Zenon DEF LifeOf, life
<1> QED
  BY Zenon, <1>1 DEF Lifecycle!Quiet, life

(* Steps that leave the kind of call and the map as they were. *)
LEMMA QuietStepLife ==
  ASSUME CurStep \notin DirSteps, CurStep \notin TeardownSteps,
         CurStep' \notin DirSteps, CurStep' \notin TeardownSteps,
         m_sandboxes' = m_sandboxes
  PROVE  life' = life
<1>1. \A id \in Ids : LifeOf(id)' = LifeOf(id)
  BY Zenon DEF LifeOf, Registered
<1> QED
  BY Zenon, <1>1, SameLife

LEMMA CreatingStepLife ==
  ASSUME CurStep \in DirSteps \ {"relock"}, CurStep' \in DirSteps \ {"relock"},
         CurFrame'.id = CurFrame.id, m_sandboxes' = m_sandboxes
  PROVE  life' = life
<1>1. \A id \in Ids : LifeOf(id)' = LifeOf(id)
  BY Zenon DEF LifeOf, Registered, DirSteps, CreateSteps, PutSteps, TeardownSteps
<1> QED
  BY Zenon, <1>1, SameLife

(* A sandbox that is being created becomes something else, and nothing     *)
(* happens to the others.                                                  *)
LEMMA EndCreateLife ==
  ASSUME CurStep \in DirSteps \ {"relock"}, NEW id \in Ids, CurFrame.id = id,
         NEW end \in {"active", "absent", "stuck"},
         \A i \in Ids \ {id} : LifeOf(i)' = LifeOf(i), LifeOf(id)' = end
  PROVE  Lifecycle!LcNext
<1>1. life[id] = "creating"
  BY Zenon DEF LifeOf, life
<1>2. life' = [life EXCEPT ![id] = end]
  BY DEF life
<1>3. Lifecycle!EndCreate(id)
  BY Zenon, <1>1, <1>2 DEF Lifecycle!EndCreate, life
<1> QED
  BY Zenon, <1>3 DEF Lifecycle!LcNext

-----------------------------------------------------------------------------
(* create_sandbox. *)

(* The steps that go on, end with an error, or get stuck. *)
LEMMA CreateGoesOn ==
  ASSUME ManagerInv, NEW t \in Threads, pc[t] \in CreateSteps,
         NEW step \in CreateSteps, Goto(t, step),
         frame' \in [Threads -> Frames], frame'[t].id = frame[t].id
  PROVE  life' = life
<1>1. pc[t] \in DirSteps \ {"relock"} /\ step \in DirSteps \ {"relock"} /\ pc[t] # "idle"
      /\ step \in Steps \ {"idle"}
  BY Zenon DEF DirSteps, CreateSteps, PutSteps, Steps
<1>2. CurStep = pc[t] /\ CurFrame = frame[t] /\ CurStep' = step /\ CurFrame' = frame'[t]
      /\ m_sandboxes' = m_sandboxes
  BY Zenon, <1>1, HolderFacts, GotoFacts DEF ManagerInv
<1> QED
  BY Zenon, <1>1, <1>2, CreatingStepLife

LEMMA CreateFails ==
  ASSUME ManagerInv, NEW t \in Threads, pc[t] \in CreateSteps, Leave(t), UNCHANGED m_sandboxes
  PROVE  Lifecycle!LcNext
<1>1. pc[t] \in DirSteps \ {"relock"} /\ pc[t] # "idle"
      /\ "idle" \notin DirSteps /\ "idle" \notin TeardownSteps /\ pc[t] \notin TeardownSteps
  BY Zenon DEF DirSteps, CreateSteps, PutSteps, TeardownSteps
<1>2. CurStep = pc[t] /\ CurFrame = frame[t] /\ CurStep' = "idle"
  BY Zenon, <1>1, HolderFacts, LeaveFacts DEF ManagerInv
<1>3. PICK id \in Ids : id = frame[t].id /\ ~Registered(id)
  BY Zenon, <1>1, CreatingFacts DEF Registered
<1>4. LifeOf(id)' = "absent" /\ \A i \in Ids \ {id} : LifeOf(i)' = LifeOf(i)
  BY Zenon, <1>1, <1>2, <1>3 DEF LifeOf, Registered
<1> QED
  BY Zenon, <1>1, <1>2, <1>3, <1>4, EndCreateLife

LEMMA CreateSticks ==
  ASSUME ManagerInv, NEW t \in Threads, pc[t] \in CreateSteps, Goto(t, "relock"), UNCHANGED frame
  PROVE  Lifecycle!LcNext
<1>1. pc[t] \in DirSteps \ {"relock"} /\ pc[t] # "idle" /\ "relock" \in Steps \ {"idle"}
      /\ "relock" \in DirSteps /\ "relock" \notin TeardownSteps /\ pc[t] \notin TeardownSteps
  BY Zenon DEF DirSteps, CreateSteps, PutSteps, TeardownSteps, Steps
<1>2. CurStep = pc[t] /\ CurFrame = frame[t] /\ CurStep' = "relock" /\ CurFrame' = frame[t]
      /\ m_sandboxes' = m_sandboxes
  BY Zenon, <1>1, HolderFacts, GotoFacts DEF ManagerInv, TypeOK
<1>3. PICK id \in Ids : id = frame[t].id
  BY Zenon, <1>1, CreatingFacts
<1>4. LifeOf(id)' = "stuck" /\ \A i \in Ids \ {id} : LifeOf(i)' = LifeOf(i)
  BY Zenon, <1>1, <1>2, <1>3 DEF LifeOf, Registered
<1> QED
  BY Zenon, <1>1, <1>2, <1>3, <1>4, EndCreateLife

LEMMA LookupForCreateLife ==
  ASSUME ManagerInv, NEW t \in Threads, LookupForCreate(t)
  PROVE  life' = life \/ Lifecycle!LcNext
<1>1. /\ "lookup" \notin DirSteps /\ "lookup" \notin TeardownSteps /\ "lookup" # "idle"
      /\ "idle" \notin DirSteps /\ "idle" \notin TeardownSteps
      /\ "cgroup" \in DirSteps \ {"relock"} /\ "cgroup" \notin TeardownSteps
      /\ "cgroup" \in Steps \ {"idle"}
  BY Zenon DEF DirSteps, CreateSteps, PutSteps, TeardownSteps, Steps
<1>2. pc[t] = "lookup" /\ CurStep = "lookup" /\ CurFrame = frame[t] /\ frame[t].id \in Ids
  BY Zenon, <1>1, HolderFacts DEF ManagerInv, LookupForCreate, FrameInv
<1> PICK id \in Ids : id = frame[t].id
  BY Zenon, <1>2
<1>3. CASE Return(t) /\ UNCHANGED m_sandboxes
  BY Zenon, <1>1, <1>2, <1>3, ReturnFacts, QuietStepLife DEF ManagerInv
<1>4. CASE ~Registered(id) /\ Goto(t, "cgroup") /\ UNCHANGED frame
  <2>1. CurStep' = "cgroup" /\ CurFrame' = frame[t] /\ m_sandboxes' = m_sandboxes
    BY Zenon, <1>1, <1>2, <1>4, GotoFacts DEF ManagerInv, TypeOK
  <2>2. Lifecycle!Quiet /\ life[id] = "absent"
    BY Zenon, <1>1, <1>2, <1>4, QuietLife
  <2>3. LifeOf(id)' = "creating" /\ \A i \in Ids \ {id} : LifeOf(i)' = LifeOf(i)
    BY Zenon, <1>1, <1>2, <2>1 DEF LifeOf, Registered
  <2>4. life' = [life EXCEPT ![id] = "creating"]
    BY <2>3, <1>2 DEF life
  <2>5. Lifecycle!BeginCreate(id)
    BY Zenon, <2>2, <2>4 DEF Lifecycle!BeginCreate, life
  <2> QED
    BY Zenon, <1>2, <2>5 DEF Lifecycle!LcNext
<1> QED
  BY Zenon, <1>3, <1>4 DEF LookupForCreate

LEMMA CreateStepsLife ==
  ASSUME ManagerInv, NEW t \in Threads,
         \/ CreateCgroup(t) \/ setup_tap_interface(t) \/ spawn_firecracker_process(t)
         \/ PollSocket(t) \/ AttachPid(t) \/ SendPut(t) \/ apply_ebpf_policies(t)
  PROVE  life' = life \/ Lifecycle!LcNext
<1>1. pc[t] \in CreateSteps
  BY Zenon DEF CreateCgroup, setup_tap_interface, spawn_firecracker_process, PollSocket,
               AttachPid, SendPut, apply_ebpf_policies, CreateSteps
<1>2. CASE Leave(t) /\ UNCHANGED m_sandboxes
  BY Zenon, <1>1, <1>2, CreateFails
<1>3. CASE Goto(t, "relock") /\ UNCHANGED frame
  BY Zenon, <1>1, <1>3, CreateSticks
<1>4. ASSUME NEW step \in CreateSteps, Goto(t, step), UNCHANGED frame PROVE life' = life
  BY Zenon, <1>1, <1>4, CreateGoesOn DEF ManagerInv, TypeOK
<1>5. ASSUME spawn_firecracker_process(t), Goto(t, "poll"),
             NEW p \in Pids, frame' = [frame EXCEPT ![t].pid = p]
      PROVE  life' = life
  <2>1. frame[t] \in Frames
    BY Zenon DEF ManagerInv, TypeOK
  <2>2. [frame[t] EXCEPT !.pid = p] \in Frames /\ [frame[t] EXCEPT !.pid = p].id = frame[t].id
    BY Zenon, <2>1 DEF Frames
  <2>3. frame' \in [Threads -> Frames] /\ frame'[t].id = frame[t].id
    BY Zenon, <1>5, <2>2 DEF ManagerInv, TypeOK
  <2>4. "poll" \in CreateSteps
    BY Zenon DEF CreateSteps
  <2> QED
    BY Zenon, <1>1, <1>5, <2>3, <2>4, CreateGoesOn
<1>6. CASE CreateCgroup(t)
  BY Zenon, <1>2, <1>4, <1>6 DEF CreateCgroup, CreateSteps, Return
<1>7. CASE setup_tap_interface(t) \/ PollSocket(t)
  BY Zenon, <1>2, <1>4, <1>7 DEF setup_tap_interface, PollSocket, Unwind, Return, Throw, CreateSteps
<1>8. CASE spawn_firecracker_process(t)
  BY Zenon, <1>2, <1>5, <1>8 DEF spawn_firecracker_process, Unwind, Return, Throw
<1>9. CASE AttachPid(t)
  BY Zenon, <1>2, <1>4, <1>9 DEF AttachPid, Throw, CreateSteps, PutSteps
<1>10. CASE SendPut(t)
  <2>1. AfterPut(pc[t]) \in CreateSteps
    BY Zenon DEF AfterPut, CreateSteps, PutSteps
  <2> QED
    BY Zenon, <1>3, <1>4, <1>10, <2>1 DEF SendPut
<1>11. CASE apply_ebpf_policies(t)
  BY Zenon, <1>3, <1>4, <1>11 DEF apply_ebpf_policies, CreateSteps
<1> QED
  BY Zenon, <1>6, <1>7, <1>8, <1>9, <1>10, <1>11

LEMMA RegisterLife ==
  ASSUME ManagerInv, NEW t \in Threads, Register(t)
  PROVE  Lifecycle!LcNext
<1>1. pc[t] = "register" /\ "register" \in DirSteps \ {"relock"} /\ "register" # "idle"
      /\ "idle" \notin DirSteps /\ "idle" \notin TeardownSteps /\ "register" \notin TeardownSteps
  BY Zenon DEF DirSteps, CreateSteps, PutSteps, TeardownSteps, Register
<1>2. CurStep = "register" /\ CurFrame = frame[t] /\ CurStep' = "idle" /\ frame[t].id \in Ids
  BY Zenon, <1>1, HolderFacts, ReturnFacts, CreatingFacts DEF ManagerInv, Register
<1> PICK id \in Ids : id = frame[t].id
  BY Zenon, <1>2
<1>3. NewInstance(frame[t]).id = id
  BY Zenon DEF NewInstance
<1>4. Registered(id)' /\ \A i \in Ids \ {id} : Registered(i)' <=> Registered(i)
  BY Zenon, <1>3 DEF Registered, Register
<1>5. LifeOf(id)' = "active" /\ \A i \in Ids \ {id} : LifeOf(i)' = LifeOf(i)
  BY Zenon, <1>1, <1>2, <1>4 DEF LifeOf
<1> QED
  BY Zenon, <1>1, <1>2, <1>5, EndCreateLife

-----------------------------------------------------------------------------
(* terminate_sandbox and terminate_all. *)

LEMMA LookupForTeardownLife ==
  ASSUME ManagerInv, NEW t \in Threads, LookupForTeardown(t)
  PROVE  life' = life \/ Lifecycle!LcNext
<1> DEFINE all == frame[t].op = "terminate_all"
<1> DEFINE found == {s \in m_sandboxes : all \/ s.id = frame[t].id}
<1>1. /\ "lookup" \notin DirSteps /\ "lookup" \notin TeardownSteps /\ "lookup" # "idle"
      /\ "idle" \notin DirSteps /\ "idle" \notin TeardownSteps
      /\ "kill" \in TeardownSteps /\ "kill" \notin DirSteps /\ "kill" \in Steps \ {"idle"}
  BY Zenon DEF DirSteps, CreateSteps, PutSteps, TeardownSteps, Steps
<1>2. /\ pc[t] = "lookup" /\ CurStep = "lookup" /\ CurFrame = frame[t]
      /\ ~all => frame[t].id \in Ids
  BY Zenon, <1>1, HolderFacts DEF ManagerInv, LookupForTeardown, FrameInv
<1>3. CASE Return(t) /\ UNCHANGED m_sandboxes
  BY Zenon, <1>1, <1>2, <1>3, ReturnFacts, QuietStepLife DEF ManagerInv
<1>4. CASE found # {} /\ Goto(t, "kill") /\ frame' = [frame EXCEPT ![t].todo = found]
  <2>1. frame[t] \in Frames /\ found \subseteq Instances
    BY Zenon DEF ManagerInv, TypeOK
  <2>2. [frame[t] EXCEPT !.todo = found] \in Frames
        /\ [frame[t] EXCEPT !.todo = found].id = frame[t].id
        /\ [frame[t] EXCEPT !.todo = found].op = frame[t].op
    BY Zenon, <2>1 DEF Frames
  <2>3. frame' \in [Threads -> Frames] /\ frame'[t].id = frame[t].id /\ frame'[t].op = frame[t].op
    BY Zenon, <1>4, <2>2 DEF ManagerInv, TypeOK
  <2>4. CurStep' = "kill" /\ CurFrame'.id = frame[t].id /\ CurFrame'.op = frame[t].op
        /\ m_sandboxes' = m_sandboxes
    BY Zenon, <1>1, <1>2, <1>4, <2>3, GotoFacts DEF ManagerInv
  <2>5. PICK S \in SUBSET Ids : S = {id \in Ids : Registered(id) /\ (all \/ id = frame[t].id)}
    OBVIOUS
  <2>6. S # {}
    <3>1. PICK s \in found : TRUE
      BY Zenon, <1>4
    <3>2. s.id \in Ids /\ Registered(s.id) /\ (all \/ s.id = frame[t].id)
      BY Zenon, <2>1 DEF Instances, Registered
    <3> QED
      BY Zenon, <2>5, <3>2
  <2>7. Lifecycle!Quiet /\ \A id \in Ids : life[id] = IF Registered(id) THEN "active" ELSE "absent"
    BY Zenon, <1>1, <1>2, QuietLife
  <2>8. \A id \in Ids : LifeOf(id)' = IF id \in S THEN "terminating" ELSE life[id]
    BY Zenon, <1>1, <2>4, <2>5, <2>7 DEF LifeOf, Registered
  <2>9. life' = [id \in Ids |-> IF id \in S THEN "terminating" ELSE life[id]]
    BY Zenon, <2>8 DEF life
  <2>10. (\E id \in Ids : S = {id}) \/ \A id \in Ids : life[id] = "active" => id \in S
    <3>1. CASE all
      BY Zenon, <3>1, <2>5, <2>7
    <3>2. CASE ~all
      BY <1>2, <3>2, <2>5, <2>6
    <3> QED
      BY Zenon, <3>1, <3>2
  <2>11. Lifecycle!BeginTerminate(S)
    <3>1. \A id \in S : life[id] = "active"
      BY Zenon, <2>5, <2>7
    <3> QED
      BY Zenon, <2>6, <2>7, <2>9, <2>10, <3>1 DEF Lifecycle!BeginTerminate, life
  <2> QED
    BY Zenon, <2>11 DEF Lifecycle!LcNext
<1> QED
  BY Zenon, <1>3, <1>4 DEF LookupForTeardown

(* While a teardown goes on, the sandboxes it is for stay the same.        *)
LEMMA TeardownGoesOn ==
  ASSUME ManagerInv, NEW t \in Threads, pc[t] \in TeardownSteps,
         NEW step \in TeardownSteps, Goto(t, step),
         frame' \in [Threads -> Frames], frame'[t].op = frame[t].op,
         frame[t].op = "terminate" => frame'[t].id = frame[t].id
  PROVE  life' = life
<1>1. step \in Steps \ {"idle"} /\ step \notin DirSteps
  BY Zenon DEF DirSteps, CreateSteps, PutSteps, TeardownSteps, Steps
<1>2. /\ CurStep = pc[t] /\ CurFrame = frame[t] /\ pc[t] \notin DirSteps /\ pc[t] # "idle"
      /\ frame[t].op \in {"terminate", "terminate_all"}
  BY Zenon, TeardownFacts
<1>3. CurStep' = step /\ CurFrame' = frame'[t] /\ m_sandboxes' = m_sandboxes
  BY Zenon, <1>1, <1>2, GotoFacts DEF ManagerInv
<1>4. \A id \in Ids : LifeOf(id)' = LifeOf(id)
  BY Zenon, <1>1, <1>2, <1>3 DEF LifeOf, Registered
<1> QED
  BY Zenon, <1>4, SameLife

LEMMA KillAndReapLife ==
  ASSUME ManagerInv, NEW t \in Threads, KillProcess(t) \/ ReapProcess(t)
  PROVE  life' = life
<1>1. pc[t] \in TeardownSteps /\ frame[t] \in Frames
  BY Zenon DEF KillProcess, ReapProcess, TeardownSteps, ManagerInv, TypeOK
<1>2. CASE ReapProcess(t)
  BY Zenon, <1>1, <1>2, TeardownGoesOn DEF ReapProcess, TeardownSteps, ManagerInv, TypeOK
<1>3. CASE KillProcess(t)
  <2>1. PICK s \in frame[t].todo : frame' = [frame EXCEPT ![t].id = s.id, ![t].pid = s.pid]
    BY Zenon, <1>3 DEF KillProcess
  <2>2. s \in Instances /\ (frame[t].op = "terminate" => s.id = frame[t].id)
    BY Zenon, <1>1, TeardownFacts DEF ManagerInv, TypeOK
  <2>3. s.id \in Ids /\ s.pid \in Pids
    BY Zenon, <2>2 DEF Instances
  <2> DEFINE new == [frame[t] EXCEPT !.id = s.id, !.pid = s.pid]
  <2>4. new \in Frames /\ new.id = s.id /\ new.op = frame[t].op
    BY Zenon, <1>1, <2>3 DEF Frames
  <2>5. frame' = [frame EXCEPT ![t] = new]
    BY <2>1 DEF ManagerInv, TypeOK
  <2> HIDE DEF new
  <2>6. frame' \in [Threads -> Frames] /\ frame'[t] = new
    BY Zenon, <2>4, <2>5 DEF ManagerInv, TypeOK
  <2> QED
    BY Zenon, <1>1, <1>3, <2>2, <2>4, <2>6, TeardownGoesOn DEF KillProcess, TeardownSteps
<1> QED
  BY Zenon, <1>2, <1>3

LEMMA ReleaseLife ==
  ASSUME ManagerInv, NEW t \in Threads, ReleaseSandbox(t)
  PROVE  life' = life \/ Lifecycle!LcNext
<1> DEFINE f == frame[t]
<1> DEFINE left == {s \in f.todo : s.id # f.id}
<1>1. /\ pc[t] = "release" /\ "release" \in TeardownSteps /\ "release" \notin DirSteps
      /\ "idle" \notin DirSteps /\ "idle" \notin TeardownSteps
  BY Zenon DEF ReleaseSandbox, DirSteps, CreateSteps, PutSteps, TeardownSteps
<1>2. /\ CurStep = "release" /\ CurFrame = f /\ pc[t] # "idle"
      /\ f.op \in {"terminate", "terminate_all"}
      /\ f.todo # {} /\ f.todo \subseteq m_sandboxes
      /\ f.op = "terminate" => f.todo = {s \in m_sandboxes : s.id = f.id}
  BY Zenon, <1>1, TeardownFacts
<1>3. CASE left # {} /\ Goto(t, "kill") /\ frame' = [frame EXCEPT ![t].todo = left]
  <2>1. f \in Frames /\ left \subseteq Instances
    BY Zenon, <1>2 DEF ManagerInv, TypeOK
  <2>2. [f EXCEPT !.todo = left] \in Frames /\ [f EXCEPT !.todo = left].op = f.op
        /\ [f EXCEPT !.todo = left].id = f.id
    BY Zenon, <2>1 DEF Frames
  <2>3. frame' \in [Threads -> Frames] /\ frame'[t].op = f.op /\ frame'[t].id = f.id
    BY Zenon, <1>3, <2>2 DEF ManagerInv, TypeOK
  <2> QED
    BY Zenon, <1>1, <1>3, <2>3, TeardownGoesOn DEF TeardownSteps
<1>4. CASE left = {} /\ m_sandboxes' = MapAfterTeardown(f) /\ Return(t)
  <2>1. CurStep' = "idle"
    BY Zenon, <1>2, <1>4, ReturnFacts DEF ManagerInv
  <2>2. \A id \in Ids : LifeOf(id) = IF ~Registered(id) THEN "absent"
                                     ELSE IF f.op = "terminate_all" \/ f.id = id
                                     THEN "terminating" ELSE "active"
    BY Zenon, <1>1, <1>2 DEF LifeOf
  <2>3. \A id \in Ids : Registered(id)' <=> Registered(id) /\ f.op = "terminate" /\ id # f.id
    BY Zenon, <1>4 DEF Registered, MapAfterTeardown
  <2>4. \A id \in Ids : LifeOf(id)' = IF Registered(id)' THEN "active" ELSE "absent"
    BY Zenon, <1>1, <2>1 DEF LifeOf
  <2>5. \A id \in Ids :
          LifeOf(id)' = IF LifeOf(id) = "terminating" THEN "absent" ELSE LifeOf(id)
    BY Zenon, <1>2, <2>2, <2>3, <2>4
  <2>6. life' = [id \in Ids |-> IF life[id] = "terminating" THEN "absent" ELSE life[id]]
    BY <2>5 DEF life
  <2>7. \E id \in Ids : life[id] = "terminating"
    <3>1. PICK s \in f.todo : TRUE
      BY Zenon, <1>2
    <3>2. s \in m_sandboxes /\ s.id \in Ids /\ Registered(s.id)
          /\ (f.op = "terminate" => s.id = f.id)
      BY Zenon, <1>2 DEF ManagerInv, TypeOK, Instances, Registered
    <3> QED
      BY Zenon, <1>2, <2>2, <3>2 DEF life
  <2>8. Lifecycle!EndTerminate
    BY Zenon, <2>6, <2>7 DEF Lifecycle!EndTerminate, life
  <2> QED
    BY Zenon, <2>8 DEF Lifecycle!LcNext
<1> QED
  BY Zenon, <1>3, <1>4 DEF ReleaseSandbox

-----------------------------------------------------------------------------
(* The beginning of a call, execute_code, get_metadata and the processes. *)
LEMMA OtherStepsLife ==
  ASSUME ManagerInv, NEW t \in Threads,
         \/ NewCall(t) \/ LookupForExecute(t) \/ SendToAgent(t) \/ AgentReply(t)
         \/ LookupForMetadata(t)
  PROVE  life' = life
<1>1. \A step \in {"idle", "lookup", "agent", "reply"} :
        step \notin DirSteps /\ step \notin TeardownSteps /\ step \in Steps
  BY Zenon DEF DirSteps, CreateSteps, PutSteps, TeardownSteps, Steps
<1>2. CASE NewCall(t)
  <2>1. /\ m_mutex = None /\ m_mutex' = t /\ pc' = [pc EXCEPT ![t] = "lookup"]
        /\ m_sandboxes' = m_sandboxes
    BY Zenon, <1>2 DEF NewCall, create_sandbox, execute_code, terminate_sandbox, get_metadata,
                       terminate_all, Call, Lock
  <2>2. CurStep = "idle" /\ CurStep' = "lookup"
    BY Zenon, <2>1, ManagerAssumption DEF CurStep, ManagerInv, TypeOK
  <2> QED
    BY Zenon, <1>1, <2>1, <2>2, QuietStepLife
<1>3. ASSUME pc[t] \in {"lookup", "agent", "reply"}, Return(t), UNCHANGED m_sandboxes
      PROVE  life' = life
  BY Zenon, <1>1, <1>3, HolderFacts, ReturnFacts, QuietStepLife DEF ManagerInv
<1>4. ASSUME pc[t] \in {"lookup", "agent", "reply"}, NEW step \in {"agent", "reply"},
             Goto(t, step), UNCHANGED frame
      PROVE  life' = life
  BY Zenon, <1>1, <1>4, HolderFacts, GotoFacts, QuietStepLife DEF ManagerInv, TypeOK
<1> QED
  BY Zenon, <1>2, <1>3, <1>4 DEF LookupForExecute, SendToAgent, AgentReply, LookupForMetadata

LEMMA ProcessStepsLife ==
  ASSUME UNCHANGED mgrVars
  PROVE  life' = life
<1>1. \A id \in Ids : LifeOf(id)' = LifeOf(id)
  BY Zenon DEF LifeOf, Registered, CurStep, CurFrame, mgrVars
<1> QED
  BY Zenon, <1>1, SameLife

(* The sandbox manager implements its abstract specification, for any      *)
(* number of threads, sandboxes and processes: m_mutex makes every call    *)
(* appear as one change of the life of the sandboxes it is for, with the   *)
(* failed PUT that never returns as the only way to get stuck.             *)
THEOREM ManagerImplementsLifecycle == Spec => ImplementsLifecycle
<1>1. Init => Lifecycle!LcInit
  <2> SUFFICES ASSUME Init PROVE Lifecycle!LcInit
    OBVIOUS
  <2>1. CurStep = "idle" /\ m_sandboxes = {} /\ "idle" \notin DirSteps
    BY Zenon DEF Init, CurStep, DirSteps, CreateSteps, PutSteps
  <2>2. \A id \in Ids : LifeOf(id) = "absent"
    BY Zenon, <2>1 DEF LifeOf, Registered
  <2> QED
    BY Zenon, <2>2 DEF Lifecycle!LcInit
<1>2. ManagerInv /\ [Next]_vars => Lifecycle!LcNext \/ life' = life
  <2> SUFFICES ASSUME ManagerInv, [Next]_vars PROVE Lifecycle!LcNext \/ life' = life
    OBVIOUS
  <2>1. ASSUME NEW t \in Threads, NewCall(t) \/ ManagerStep(t) \/ SendPut(t) \/ AgentReply(t)
        PROVE  Lifecycle!LcNext \/ life' = life
    BY Zenon, <2>1, LookupForCreateLife, CreateStepsLife, RegisterLife, LookupForTeardownLife,
       KillAndReapLife, ReleaseLife, OtherStepsLife DEF ManagerStep
  <2>2. ASSUME NEW p \in Pids, ProcessBinds(p) \/ ProcessExits(p) PROVE life' = life
    BY Zenon, <2>2, ProcessStepsLife DEF ProcessBinds, ProcessExits
  <2>3. CASE UNCHANGED vars
    BY Zenon, <2>3, ProcessStepsLife DEF vars
  <2> QED
    BY Zenon, <2>1, <2>2, <2>3 DEF Next
<1>3. ManagerInv /\ [Next]_vars => [Lifecycle!LcNext]_[id \in Ids |-> LifeOf(id)]
  BY Zenon, <1>2 DEF life
<1> QED
  BY <1>1, <1>3, ManagerInvariant, PTL DEF Spec, ImplementsLifecycle, Lifecycle!LcSpec

-----------------------------------------------------------------------------
(* The configuration ExecutesEnforced is about. *)
Filtered == HasLoader /\ HasEngine /\ LoadedFile = "sys_filter"

(* What is written for one cgroup leaves every other one as enforced as it *)
(* was: its mark stays, and a map that had no room for it has none after.  *)
LEMMA OtherCgroupKept ==
  ASSUME EbTypeOK, NEW o \in Loads, NEW c \in CgroupIds, NEW d \in CgroupIds, c # d,
         NEW on \in BOOLEAN, o = m_bpf_obj, monitored' = MonitoredAfter(c, on),
         monitored[o][d] = "on" \/ ~MapHasRoom(o, d)
  PROVE  monitored'[o][d] = "on" \/ ~MapHasRoom(o, d)'
<1> DEFINE mark == IF on THEN "on" ELSE "off"
<1>1. CASE monitored' = monitored
  BY Zenon, <1>1 DEF MapHasRoom
<1>2. CASE MapHasRoom(o, c)
           /\ monitored' = [monitored EXCEPT ![o] = [monitored[o] EXCEPT ![c] = mark]]
  <2>1. /\ monitored'[o][d] = monitored[o][d] /\ monitored'[o][c] = mark
        /\ \A k \in CgroupIds \ {c} : monitored'[o][k] = monitored[o][k]
    BY <1>2 DEF EbTypeOK
  <2>2. CASE ~MapHasRoom(o, d)
    <3>1. monitored[o][c] # "none" /\ mark # "none" /\ monitored[o][d] = "none"
      BY Zenon, <1>2, <2>2 DEF MapHasRoom
    <3> HIDE DEF mark
    <3>2. {k \in CgroupIds : monitored'[o][k] # "none"} = {k \in CgroupIds : monitored[o][k] # "none"}
      BY <2>1, <3>1
    <3> QED
      BY Zenon, <2>1, <2>2, <3>1, <3>2 DEF MapHasRoom
  <2> QED
    BY Zenon, <2>1, <2>2
<1>3. \/ monitored' = monitored
      \/ /\ MapHasRoom(o, c)
         /\ monitored' = [monitored EXCEPT ![o] = [monitored[o] EXCEPT ![c] = mark]]
  BY DEF MonitoredAfter
<1> QED
  BY Zenon, <1>1, <1>2, <1>3

(* A cgroup that is marked is monitored, or the map had no room. *)
LEMMA MarkedCgroup ==
  ASSUME EbTypeOK, NEW o \in Loads, NEW c \in CgroupIds, o = m_bpf_obj,
         CurrentFile = "sys_filter", monitored' = MonitoredAfter(c, TRUE)
  PROVE  monitored'[o][c] = "on" \/ ~MapHasRoom(o, c)'
<1>1. CASE MapHasRoom(o, c)
  <2>0. CurrentFile \in MonitoredMapFiles
    BY Zenon DEF MonitoredMapFiles
  <2>1. monitored' = [monitored EXCEPT ![o] = [monitored[o] EXCEPT ![c] = "on"]]
    BY Zenon, <1>1, <2>0 DEF MonitoredAfter
  <2>2. o \in DOMAIN monitored /\ c \in DOMAIN monitored[o]
    BY Zenon DEF EbTypeOK
  <2>3. monitored'[o][c] = "on"
    BY Zenon, <2>1, <2>2
  <2> QED
    BY Zenon, <2>3
<1>2. CASE ~MapHasRoom(o, c)
  <2>1. monitored' = monitored
    BY Zenon, <1>2 DEF MonitoredAfter
  <2> QED
    BY Zenon, <1>2, <2>1 DEF MapHasRoom
<1> QED
  BY Zenon, <1>1, <1>2
-----------------------------------------------------------------------------
(* The inductive invariant: what apply_ebpf_policies achieved for a        *)
(* sandbox stays achieved as long as the manager knows its cgroup.         *)
EnforceInv ==
  /\ CgInv
  /\ Filtered =>
       /\ m_bpf_obj # 0 /\ resident[m_bpf_obj] = "sys_filter"
       /\ \A s \in m_sandboxes :
            m_cgroups[s.id] # 0 => Enforced(m_cgroups[s.id], s.policy)
       /\ CurStep = "register" => Enforced(m_cgroups[CurFrame.id], CurFrame.policy)

LEMMA EnforceInit == Init => EnforceInv
<1> SUFFICES ASSUME Init PROVE EnforceInv
  OBVIOUS
<1>1. CgInv
  BY DEF Init, CgInit, CgInv, CgTypeOK, DirsDistinct, EntryNamesItsDirectory, NoDescriptorLeak
<1>2. CurStep = "idle"
  BY Zenon DEF Init, CurStep
<1>3. Filtered => m_bpf_obj = 1 /\ resident[m_bpf_obj] = "sys_filter"
  BY ManagerAssumption, LoaderAssumption DEF Init, LoaderInit, Filtered, Loads
<1>4. Filtered => m_bpf_obj # 0
  BY <1>3
<1> QED
  BY Zenon, <1>1, <1>2, <1>3, <1>4 DEF EnforceInv, Init

LEMMA SameCgroups ==
  ASSUME CgInv, UNCHANGED cgVars
  PROVE  CgInv'
BY DEF CgInv, CgTypeOK, DirsDistinct, EntryNamesItsDirectory, NoDescriptorLeak, cgVars

(* A step that writes no map, adds no sandbox and changes no cgroup of a   *)
(* sandbox but to erase it.                                                *)
LEMMA NothingWritten ==
  ASSUME EnforceInv, CgInv', UNCHANGED <<objVars, monitored, syscall_policy>>,
         m_sandboxes' \subseteq m_sandboxes,
         \A s \in m_sandboxes' : m_cgroups'[s.id] \in {0, m_cgroups[s.id]},
         \/ CurStep' # "register"
         \/ UNCHANGED <<CurStep, CurFrame, m_cgroups>>
  PROVE  EnforceInv'
<1>1. /\ m_bpf_obj' = m_bpf_obj /\ resident' = resident
      /\ monitored' = monitored /\ syscall_policy' = syscall_policy
  BY Zenon DEF objVars
<1>2. \A s \in m_sandboxes' : m_cgroups'[s.id] # 0 =>
        s \in m_sandboxes /\ m_cgroups'[s.id] = m_cgroups[s.id]
  BY Zenon
<1> QED
  BY ZenonT(30), <1>1, <1>2 DEF EnforceInv, Enforced, MapHasRoom

(* Such a step by a thread that changes no cgroup either. *)
LEMMA QuietEnforced ==
  ASSUME ManagerInv, EnforceInv, NEW t \in Threads, pc[t] # "idle",
         UNCHANGED <<cgVars, objVars, monitored, syscall_policy>>,
         \/ Leave(t) /\ m_sandboxes' \subseteq m_sandboxes
         \/ /\ frame' \in [Threads -> Frames]
            /\ \E step \in Steps \ {"idle", "register"} : Goto(t, step)
  PROVE  EnforceInv'
<1>1. m_sandboxes' \subseteq m_sandboxes /\ CurStep' # "register"
  BY Zenon, LeaveFacts, GotoFacts DEF ManagerInv
<1>2. CgInv' /\ m_cgroups' = m_cgroups
  BY Zenon, SameCgroups DEF EnforceInv, cgVars
<1> QED
  BY Zenon, <1>1, <1>2, NothingWritten
-----------------------------------------------------------------------------
(* create_sandbox. *)

LEMMA CreateCgroupEnforced ==
  ASSUME ManagerInv, EnforceInv, NEW t \in Threads, CreateCgroup(t)
  PROVE  EnforceInv'
<1>1. pc[t] = "cgroup" /\ "cgroup" \in DirSteps /\ "cgroup" # "idle"
      /\ "tap" \in Steps \ {"idle"} /\ "tap" # "register"
  BY Zenon DEF CreateCgroup, DirSteps, CreateSteps, Steps
<1>2. frame[t].id \in Ids /\ \A s \in m_sandboxes : s.id \in Ids /\ s.id # frame[t].id
  BY Zenon, <1>1, CreatingFacts DEF ManagerInv, TypeOK, Instances
<1>3. PICK status : create_cgroup(frame[t].id, status)
  BY Zenon DEF CreateCgroup
<1>4. CgInv' /\ \A i \in Ids : i # frame[t].id => m_cgroups'[i] = m_cgroups[i]
  <2>1. CgInv'
    BY Zenon, <1>2, <1>3, CreateCgroupInv DEF EnforceInv
  <2>2. m_cgroups \in [Ids -> CgroupIds \cup {0}]
    BY Zenon DEF ManagerInv, TypeOK, CgTypeOK
  <2>3. \/ m_cgroups' = m_cgroups
        \/ \E c \in DirInodes(frame[t].id) : m_cgroups' = [m_cgroups EXCEPT ![frame[t].id] = c]
    BY Zenon, <1>3 DEF create_cgroup, cgVars
  <2> QED
    BY Zenon, <1>2, <2>1, <2>2, <2>3
<1>5. m_sandboxes' = m_sandboxes /\ CurStep' # "register"
  BY Zenon, <1>1, ReturnFacts, GotoFacts DEF ManagerInv, TypeOK, CreateCgroup, Goto
<1>6. UNCHANGED <<objVars, monitored, syscall_policy>>
  BY Zenon DEF CreateCgroup, ebVars, mapVars
<1> QED
  BY Zenon, <1>2, <1>4, <1>5, <1>6, NothingWritten

(* A cgroup that is destroyed is one sandbox less to enforce. *)
LEMMA DestroyedCgroup ==
  ASSUME EnforceInv, NEW id \in Ids, NEW status, destroy_cgroup(id, status)
  PROVE  /\ CgInv' /\ m_cgroups'[id] = 0
         /\ \A i \in Ids : i # id => m_cgroups'[i] = m_cgroups[i]
<1>1. CgInv' /\ m_cgroups \in [Ids -> CgroupIds \cup {0}]
  BY Zenon, DestroyCgroupInv DEF EnforceInv, CgInv, CgTypeOK
<1>2. \/ m_cgroups[id] = 0 /\ m_cgroups' = m_cgroups
      \/ m_cgroups' = [m_cgroups EXCEPT ![id] = 0]
  BY Zenon DEF destroy_cgroup, cgVars
<1> QED
  BY Zenon, <1>1, <1>2

LEMMA UnwindEnforced ==
  ASSUME ManagerInv, EnforceInv, NEW t \in Threads, pc[t] \in DirSteps, NEW taps,
         Unwind(t, taps), UNCHANGED ebVars
  PROVE  EnforceInv'
<1>1. frame[t].id \in Ids /\ pc[t] # "idle" /\ \A s \in m_sandboxes : s.id \in Ids
  BY Zenon, CreatingFacts DEF ManagerInv, TypeOK, Instances, DirSteps, CreateSteps, PutSteps
<1>2. CgInv' /\ \A i \in Ids : m_cgroups'[i] \in {0, m_cgroups[i]}
  BY Zenon, <1>1, DestroyedCgroup DEF Unwind
<1>3. m_sandboxes' = m_sandboxes /\ CurStep' # "register"
  BY Zenon, <1>1, ReturnFacts DEF ManagerInv, Unwind
<1>4. UNCHANGED <<objVars, monitored, syscall_policy>>
  BY Zenon DEF ebVars, mapVars
<1> QED
  BY Zenon, <1>1, <1>2, <1>3, <1>4, NothingWritten

LEMMA AttachEnforced ==
  ASSUME ManagerInv, EnforceInv, NEW t \in Threads, AttachPid(t)
  PROVE  EnforceInv'
<1>1. /\ pc[t] = "attach" /\ "attach" \in PidSteps /\ "attach" \in DirSteps /\ "attach" # "idle"
      /\ {"snapshot", "boot-source"} \subseteq Steps \ {"idle", "register"}
  BY Zenon, PidStepsFact DEF AttachPid, Steps, CreateSteps, PutSteps
<1>2. frame[t].id \in Ids /\ frame[t].pid \in Pids
  BY Zenon, <1>1, CreatingFacts DEF ManagerInv, FrameInv
<1>3. CgInv'
  BY Zenon, <1>2, AttachAndLeaveInv DEF AttachPid, EnforceInv
<1>4. m_cgroups' = m_cgroups
  BY Zenon DEF AttachPid, attach_pid, cgVars
<1>5. \/ Leave(t) /\ UNCHANGED m_sandboxes
      \/ UNCHANGED frame /\ \E step \in Steps \ {"idle", "register"} : Goto(t, step)
  BY Zenon, <1>1 DEF AttachPid, Throw
<1>6. m_sandboxes' = m_sandboxes /\ CurStep' # "register"
  BY Zenon, <1>1, <1>5, LeaveFacts, GotoFacts DEF ManagerInv, TypeOK
<1>7. UNCHANGED <<objVars, monitored, syscall_policy>>
  BY Zenon DEF AttachPid, ebVars, mapVars
<1> QED
  BY Zenon, <1>3, <1>4, <1>6, <1>7, NothingWritten

(* The steps between the directory and the policies. *)
LEMMA CreateStepsEnforced ==
  ASSUME ManagerInv, EnforceInv, ManagerInv', NEW t \in Threads,
         \/ LookupForCreate(t) \/ setup_tap_interface(t) \/ spawn_firecracker_process(t)
         \/ PollSocket(t) \/ SendPut(t)
  PROVE  EnforceInv'
<1>1. /\ frame' \in [Threads -> Frames]
      /\ {"cgroup", "spawn", "poll", "attach", "relock", "apply"} \subseteq Steps \ {"idle", "register"}
  BY Zenon DEF ManagerInv, TypeOK, Steps, CreateSteps
<1>2. CASE LookupForCreate(t)
  BY Zenon, <1>1, <1>2, QuietEnforced DEF LookupForCreate, ebVars, mapVars, Goto, Return
<1>3. CASE setup_tap_interface(t) \/ spawn_firecracker_process(t) \/ PollSocket(t)
  <2>1. pc[t] \in DirSteps /\ pc[t] # "idle" /\ UNCHANGED ebVars
    BY Zenon, <1>3 DEF setup_tap_interface, spawn_firecracker_process, PollSocket, DirSteps, CreateSteps
  <2>2. \/ \E taps : Unwind(t, taps)
        \/ UNCHANGED cgVars /\ Leave(t) /\ UNCHANGED m_sandboxes
        \/ UNCHANGED cgVars /\ \E step \in Steps \ {"idle", "register"} : Goto(t, step)
    BY Zenon, <1>1, <1>3 DEF setup_tap_interface, spawn_firecracker_process, PollSocket, Throw
  <2> QED
    BY Zenon, <1>1, <2>1, <2>2, UnwindEnforced, QuietEnforced DEF ebVars, mapVars
<1>4. CASE SendPut(t)
  <2>1. AfterPut(pc[t]) \in Steps \ {"idle", "register"} /\ pc[t] # "idle"
    BY Zenon, <1>4 DEF SendPut, AfterPut, Steps, CreateSteps, PutSteps
  <2> QED
    BY Zenon, <1>1, <1>4, <2>1, QuietEnforced DEF SendPut, ebVars, mapVars
<1> QED
  BY Zenon, <1>2, <1>3, <1>4

(* The policies reach the maps, and nothing another sandbox relies on goes. *)
LEMMA ApplyEnforced ==
  ASSUME ManagerInv, EnforceInv, NEW t \in Threads, apply_ebpf_policies(t)
  PROVE  EnforceInv'
<1> DEFINE id == frame[t].id
<1> DEFINE name == frame[t].policy
<1> DEFINE c == m_cgroups[id]
<1>1. /\ pc[t] = "apply" /\ "apply" \in PidSteps /\ "apply" \in DirSteps /\ "apply" # "idle"
      /\ "apply" \in CgroupSteps /\ {"register", "relock"} \subseteq Steps \ {"idle"}
  BY Zenon, PidStepsFact DEF apply_ebpf_policies, Steps, CreateSteps
<1>2. /\ id \in Ids /\ CurStep = "apply" /\ CurFrame = frame[t]
      /\ \A s \in m_sandboxes : s.id \in Ids /\ s.id # id
  BY Zenon, <1>1, CreatingFacts DEF ManagerInv, TypeOK, Instances
<1>3. c \in CgroupIds /\ c # 0
  <2>1. id \in Owned(CgroupSteps)
    BY Zenon, <1>1, <1>2 DEF Owned
  <2>2. c # 0
    BY Zenon, <2>1 DEF ManagerInv, Accounting, Held
  <2> QED
    BY Zenon, <1>2, <2>2 DEF ManagerInv, TypeOK, CgTypeOK
<1>4. UNCHANGED <<frame, cgVars, objVars, m_cgroups, m_sandboxes>> /\ CgInv'
  BY Zenon, SameCgroups DEF apply_ebpf_policies, Goto, cgVars, EnforceInv
<1>5. CASE ~Filtered
  BY Zenon, <1>4, <1>5 DEF EnforceInv
<1>6. CASE Filtered
  <2>1. /\ m_bpf_obj \in Loads /\ m_bpf_obj # 0 /\ CurrentFile = "sys_filter"
        /\ m_bpf_obj' = m_bpf_obj /\ resident' = resident
        /\ syscall_policy \in [Loads -> SUBSET Syscalls]
    BY Zenon, <1>4, <1>6 DEF EnforceInv, ManagerInv, TypeOK, EbTypeOK, CurrentFile, objVars
  <2>2. /\ monitored' = MonitoredAfter(c, TRUE)
        /\ syscall_policy' = IF name \in DOMAIN PolicyTable
                             THEN SyscallPolicyAfter(PolicyTable[name].blocked_syscalls, {})
                             ELSE syscall_policy
        /\ Goto(t, "register")
    BY Zenon, <1>3, <1>6 DEF apply_ebpf_policies, Filtered, get_cgroup_id
  <2>3. CurStep' = "register" /\ CurFrame' = frame[t]
    BY Zenon, <1>1, <1>4, <2>2, GotoFacts DEF ManagerInv, TypeOK
  <2>4. PICK o \in Loads : o = m_bpf_obj
    BY Zenon, <2>1
  <2>5. /\ syscall_policy[o] \subseteq syscall_policy'[o]
        /\ name \in DOMAIN PolicyTable => PolicyTable[name].blocked_syscalls \subseteq syscall_policy'[o]
    <3>1. CASE name \notin DOMAIN PolicyTable
      BY Zenon, <3>1, <2>2
    <3>2. CASE name \in DOMAIN PolicyTable
      <4>1. syscall_policy' =
              [syscall_policy EXCEPT ![o] = (syscall_policy[o] \cup PolicyTable[name].blocked_syscalls) \ {}]
        BY Zenon, <3>2, <2>1, <2>2, <2>4 DEF SyscallPolicyAfter
      <4>2. syscall_policy'[o] = (syscall_policy[o] \cup PolicyTable[name].blocked_syscalls) \ {}
        BY Zenon, <2>1, <4>1
      <4> QED
        BY Zenon, <4>2
    <3> QED
      BY Zenon, <3>1, <3>2
  <2>6. monitored'[o][c] = "on" \/ ~MapHasRoom(o, c)'
    <3>1. PICK d \in CgroupIds : d = c
      BY Zenon, <1>3
    <3>2. monitored'[o][d] = "on" \/ ~MapHasRoom(o, d)'
      BY Zenon, <2>1, <2>2, <2>4, <3>1, MarkedCgroup DEF ManagerInv, TypeOK
    <3> QED
      BY Zenon, <1>4, <3>1, <3>2 DEF MapHasRoom
  <2>7. ASSUME NEW s \in m_sandboxes, m_cgroups[s.id] # 0
        PROVE  Enforced(m_cgroups[s.id], s.policy)'
    <3>1. PICK d \in CgroupIds : d = m_cgroups[s.id] /\ d # c
      BY Zenon, <1>2, <1>3, <2>7 DEF EnforceInv, CgInv, CgTypeOK, EntryNamesItsDirectory
    <3>2. Enforced(d, s.policy)
      BY Zenon, <1>6, <2>7, <3>1 DEF EnforceInv
    <3>3. monitored'[o][d] = "on" \/ ~MapHasRoom(o, d)'
      BY Zenon, <1>3, <2>2, <2>4, <3>1, <3>2, OtherCgroupKept DEF Enforced, ManagerInv, TypeOK
    <3> QED
      BY Zenon, <1>4, <2>1, <2>4, <2>5, <3>1, <3>2, <3>3 DEF Enforced, MapHasRoom
  <2>8. Enforced(m_cgroups[id], name)'
    BY Zenon, <1>4, <2>1, <2>4, <2>5, <2>6 DEF Enforced, MapHasRoom
  <2> QED
    BY Zenon, <1>4, <1>6, <2>1, <2>3, <2>7, <2>8 DEF EnforceInv
<1> QED
  BY Zenon, <1>5, <1>6

LEMMA RegisterEnforced ==
  ASSUME ManagerInv, EnforceInv, NEW t \in Threads, Register(t)
  PROVE  EnforceInv'
<1> DEFINE new == NewInstance(frame[t])
<1>1. pc[t] = "register" /\ "register" # "idle"
  BY Zenon DEF Register
<1>2. CurStep = "register" /\ CurFrame = frame[t] /\ CurStep' = "idle"
  BY Zenon, <1>1, HolderFacts, ReturnFacts DEF ManagerInv, Register
<1>3. new.id = frame[t].id /\ new.policy = frame[t].policy
  BY Zenon DEF NewInstance
<1>4. m_sandboxes' \subseteq m_sandboxes \cup {new}
  BY Zenon DEF Register
<1> HIDE DEF new
<1>5. /\ m_cgroups' = m_cgroups /\ m_bpf_obj' = m_bpf_obj /\ resident' = resident
      /\ monitored' = monitored /\ syscall_policy' = syscall_policy /\ CgInv'
  BY Zenon, SameCgroups DEF Register, cgVars, ebVars, objVars, mapVars, EnforceInv
<1> QED
  BY ZenonT(30), <1>2, <1>3, <1>4, <1>5 DEF EnforceInv, Enforced, MapHasRoom
-----------------------------------------------------------------------------
(* terminate_sandbox turns off the monitoring of the cgroup it destroys,   *)
(* and of no other.                                                        *)
LEMMA ReleaseEnforced ==
  ASSUME ManagerInv, EnforceInv, ManagerInv', NEW t \in Threads, ReleaseSandbox(t)
  PROVE  EnforceInv'
<1> DEFINE f == frame[t]
<1>1. pc[t] = "release" /\ "release" \in TeardownSteps /\ "kill" \in Steps \ {"idle"}
  BY Zenon DEF ReleaseSandbox, TeardownSteps, Steps
<1>2. /\ CurFrame = f /\ pc[t] # "idle" /\ f.id \in Ids
      /\ \A s \in m_sandboxes : s.id \in Ids
  <2>1. CurStep = "release" /\ CurFrame = f /\ pc[t] # "idle" /\ f.todo \subseteq m_sandboxes
    BY Zenon, <1>1, TeardownFacts
  <2>2. \A s \in m_sandboxes : s.id \in Ids
    BY Zenon DEF ManagerInv, TypeOK, Instances
  <2> QED
    BY Zenon, <2>1, <2>2 DEF ManagerInv, FrameInv
<1>3. /\ CgInv' /\ m_cgroups'[f.id] = 0
      /\ \A i \in Ids : i # f.id => m_cgroups'[i] = m_cgroups[i]
  BY Zenon, <1>2, DestroyedCgroup DEF ReleaseSandbox
<1>4. CurStep' # "register"
  <2>1. frame' \in [Threads -> Frames]
    BY Zenon DEF ManagerInv, TypeOK
  <2> QED
    BY Zenon, <1>1, <1>2, <2>1, ReturnFacts, GotoFacts DEF ManagerInv, ReleaseSandbox
<1>5. m_sandboxes' \subseteq m_sandboxes
  BY Zenon DEF ReleaseSandbox, MapAfterTeardown, Goto
<1>6. /\ m_bpf_obj' = m_bpf_obj /\ resident' = resident /\ syscall_policy' = syscall_policy
      /\ UNCHANGED objVars /\ monitored' = MonitoredAfterTeardown(t)
  BY Zenon DEF ReleaseSandbox, objVars
<1>7. CASE monitored' = monitored
  BY Zenon, <1>2, <1>3, <1>4, <1>5, <1>6, <1>7, NothingWritten
<1>8. CASE Filtered /\ m_cgroups[f.id] # 0 /\ monitored' = MonitoredAfter(m_cgroups[f.id], FALSE)
  <2>1. PICK c \in CgroupIds : c = m_cgroups[f.id]
    BY Zenon, <1>2, <1>8 DEF ManagerInv, TypeOK, CgTypeOK
  <2>2. PICK o \in Loads : o = m_bpf_obj
    BY Zenon, <1>8 DEF EnforceInv, ManagerInv, TypeOK, EbTypeOK
  <2>3. ASSUME NEW s \in m_sandboxes', m_cgroups'[s.id] # 0
        PROVE  Enforced(m_cgroups[s.id], s.policy)'
    <3>1. PICK d \in CgroupIds : d = m_cgroups[s.id] /\ d # c /\ m_cgroups'[s.id] = d
      BY Zenon, <1>2, <1>3, <1>5, <2>1, <2>3 DEF EnforceInv, CgInv, CgTypeOK, EntryNamesItsDirectory
    <3>2. Enforced(d, s.policy)
      BY Zenon, <1>3, <1>5, <1>8, <2>3, <3>1 DEF EnforceInv
    <3>3. monitored'[o][d] = "on" \/ ~MapHasRoom(o, d)'
      BY Zenon, <1>8, <2>1, <2>2, <3>1, <3>2, OtherCgroupKept DEF Enforced, ManagerInv, TypeOK
    <3> QED
      BY Zenon, <1>6, <2>2, <3>1, <3>2, <3>3 DEF Enforced, MapHasRoom
  <2> QED
    BY Zenon, <1>3, <1>4, <1>6, <1>8, <2>3 DEF EnforceInv
<1>9. CASE ~Filtered
  BY Zenon, <1>3, <1>9 DEF EnforceInv
<1> QED
  BY Zenon, <1>6, <1>7, <1>8, <1>9 DEF MonitoredAfterTeardown, get_cgroup_id

(* The steps that change neither a cgroup entry nor a map. *)
LEMMA OtherStepsEnforced ==
  ASSUME ManagerInv, EnforceInv, ManagerInv', NEW t \in Threads,
         \/ LookupForExecute(t) \/ SendToAgent(t) \/ AgentReply(t) \/ LookupForMetadata(t)
         \/ LookupForTeardown(t) \/ KillProcess(t) \/ ReapProcess(t)
  PROVE  EnforceInv'
<1>1. /\ frame' \in [Threads -> Frames]
      /\ {"agent", "reply", "kill", "reap", "release"} \subseteq Steps \ {"idle", "register"}
  BY Zenon DEF ManagerInv, TypeOK, Steps, TeardownSteps
<1>2. /\ pc[t] # "idle" /\ UNCHANGED <<cgVars, ebVars>>
      /\ \/ Return(t) /\ UNCHANGED m_sandboxes
         \/ \E step \in {"agent", "reply", "kill", "reap", "release"} : Goto(t, step)
  BY ZenonT(30) DEF LookupForExecute, SendToAgent, AgentReply, LookupForMetadata, LookupForTeardown,
                    KillProcess, ReapProcess
<1> QED
  BY Zenon, <1>1, <1>2, QuietEnforced DEF ebVars, mapVars, Return

LEMMA NewCallEnforced ==
  ASSUME ManagerInv, EnforceInv, NEW t \in Threads, NewCall(t)
  PROVE  EnforceInv'
<1>1. /\ m_mutex' = t /\ pc' = [pc EXCEPT ![t] = "lookup"]
      /\ UNCHANGED <<m_sandboxes, cgVars, ebVars>>
  BY Zenon DEF NewCall, create_sandbox, execute_code, terminate_sandbox, get_metadata,
               terminate_all, Call, Lock
<1>2. CurStep' = "lookup"
  BY Zenon, <1>1, ManagerAssumption DEF CurStep, ManagerInv, TypeOK
<1>3. CgInv' /\ m_cgroups' = m_cgroups
  BY Zenon, <1>1, SameCgroups DEF EnforceInv, cgVars
<1> QED
  BY Zenon, <1>1, <1>2, <1>3, NothingWritten DEF ebVars, mapVars

LEMMA ProcessStepsEnforced ==
  ASSUME ManagerInv, EnforceInv,
         UNCHANGED vars \/ \E p \in Pids : ProcessBinds(p) \/ ProcessExits(p)
  PROVE  EnforceInv'
<1>1. UNCHANGED <<m_sandboxes, m_mutex, pc, frame, m_cgroups, objVars, monitored, syscall_policy>>
  BY Zenon DEF vars, ProcessBinds, ProcessExits, LeaveCgroup, mgrVars, ebVars, mapVars, cgVars
<1>2. CgInv'
  BY Zenon, SameCgroups, AttachAndLeaveInv DEF EnforceInv, vars, ProcessBinds, ProcessExits
<1>3. UNCHANGED <<CurStep, CurFrame, m_cgroups>>
  BY Zenon, <1>1 DEF CurStep, CurFrame
<1> QED
  BY Zenon, <1>1, <1>2, <1>3, NothingWritten

(* What the policies of the sandboxes ask for stays in the maps. *)
THEOREM EnforceInvariant == Spec => []EnforceInv
<1>1. ManagerInv /\ ManagerInv' /\ EnforceInv /\ [Next]_vars => EnforceInv'
  <2> SUFFICES ASSUME ManagerInv, ManagerInv', EnforceInv, [Next]_vars PROVE EnforceInv'
    OBVIOUS
  <2>1. ASSUME NEW t \in Threads, NewCall(t) \/ ManagerStep(t) \/ SendPut(t) \/ AgentReply(t)
        PROVE  EnforceInv'
    BY Zenon, <2>1, NewCallEnforced, CreateStepsEnforced, CreateCgroupEnforced, AttachEnforced,
       ApplyEnforced, RegisterEnforced, OtherStepsEnforced, ReleaseEnforced DEF ManagerStep
  <2> QED
    BY Zenon, <2>1, ProcessStepsEnforced DEF Next
<1> QED
  BY <1>1, EnforceInit, ManagerInvariant, PTL DEF Spec

(* Code waits on a guest only while the policy of its sandbox is enforced, *)
(* for any number of threads, sandboxes, cgroups and policies and any size *)
(* of the map, however the calls for other sandboxes interleave with it.   *)
THEOREM OnlyEnforcedCodeRuns == Spec => []ExecutesEnforced
<1>1. ManagerInv /\ EnforceInv => ExecutesEnforced
  <2> SUFFICES ASSUME ManagerInv, EnforceInv, Filtered, NEW t \in Threads, NEW s \in m_sandboxes,
                      pc[t] = "reply", s.id = frame[t].id
               PROVE  Enforced(m_cgroups[s.id], s.policy)
    BY Zenon DEF ExecutesEnforced, Filtered
  <2>0. pc[t] # "idle"
    BY Zenon
  <2>1. CurStep = "reply"
    <3>1. TypeOK /\ LockInv
      BY Zenon DEF ManagerInv
    <3>2. m_mutex = t /\ t # None
      BY Zenon, <2>0, <3>1, ManagerAssumption DEF LockInv
    <3> QED
      BY Zenon, <3>2 DEF CurStep
  <2>2. s \in Kept
    BY Zenon, <2>1 DEF Kept, TeardownSteps
  <2>3. s.id \in Owned(CgroupSteps)
    BY Zenon, <2>2 DEF Owned
  <2>4. m_cgroups[s.id] # 0
    BY Zenon, <2>3 DEF ManagerInv, Accounting, Held
  <2> QED
    BY Zenon, <2>4 DEF EnforceInv
<1> QED
  BY <1>1, ManagerInvariant, EnforceInvariant, PTL DEF Spec

-----------------------------------------------------------------------------
(* A sandbox that is not being torn down loses nothing.  A step spares the *)
(* others when it keeps their entries, their cgroups and their processes;  *)
(* the rest then follows from the invariant after the step.                *)
Spared ==
  \A s \in m_sandboxes :
    ~Targeted(s) =>
      /\ s \in Kept'
      /\ m_cgroups'[s.id] = m_cgroups[s.id]
      /\ fc_state'[s.pid] \in {fc_state[s.pid], "zombie"}

(* What the manager holds for an entry whose resources are not released. *)
LEMMA KeptFacts ==
  ASSUME ManagerInv, SocketOwn, NEW s \in Kept
  PROVE  /\ s \in m_sandboxes /\ s.id \in Ids /\ s.pid \in Pids
         /\ s.id \in sbx_dirs /\ TapName[s.id] \in tap_fds
         /\ m_cgroups[s.id] # 0 /\ api_socket[s.id] = s.pid
<1>1. s \in m_sandboxes
  BY Zenon DEF Kept, ManagerInv, FrameInv
<1>2. s.id \in Ids /\ s.pid \in Pids
  BY Zenon, <1>1 DEF ManagerInv, TypeOK, Instances
<1>3. \A S : s.id \in Owned(S)
  BY Zenon DEF Owned
<1>4. s.id \in sbx_dirs /\ TapName[s.id] \in tap_fds
  BY Zenon, <1>3 DEF ManagerInv, Accounting, Held
<1>5. s.id \in {id \in Ids : m_cgroups[id] # 0}
  BY Zenon, <1>3 DEF ManagerInv, Accounting, Held
<1> QED
  BY Zenon, <1>1, <1>2, <1>4, <1>5 DEF SocketOwn

(* An entry that is not being torn down, while a call tears down another.  *)
LEMMA UntargetedFacts ==
  ASSUME ManagerInv, NEW s \in m_sandboxes, ~Targeted(s)
  PROVE  /\ s \in Kept /\ s.id \in Ids /\ s.pid \in Pids
         /\ CurStep \in TeardownSteps => CurFrame.op = "terminate" /\ CurFrame.id # s.id
         /\ fc_state[s.pid] # "free" /\ fc_sbx[s.pid] = s.id
<1>1. CurStep \in TeardownSteps => CurFrame.op = "terminate" /\ CurFrame.id # s.id
  <2> SUFFICES ASSUME CurStep \in TeardownSteps
               PROVE  CurFrame.op = "terminate" /\ CurFrame.id # s.id
    OBVIOUS
  <2>1. m_mutex \in Threads /\ CurStep = pc[m_mutex] /\ CurFrame = frame[m_mutex]
    BY Zenon DEF ManagerInv, TypeOK, CurStep, CurFrame, TeardownSteps
  <2>2. CurFrame.op \in {"terminate", "terminate_all"}
    BY Zenon DEF ManagerInv, FrameInv
  <2> QED
    BY Zenon, <2>1, <2>2 DEF Targeted
<1>2. s \in Kept
  BY Zenon, <1>1 DEF Kept
<1>3. s.id \in Ids /\ s.pid \in Pids
  BY Zenon DEF ManagerInv, TypeOK, Instances
<1>4. ~(CurStep = "release" /\ CurFrame.id = s.id)
  BY Zenon, <1>1 DEF TeardownSteps
<1> QED
  BY Zenon, <1>1, <1>2, <1>3, <1>4 DEF ManagerInv, EntryInv

(* A step by which no socket file changes, and that leaves the poll loop   *)
(* only when it found one.                                                 *)
LEMMA NothingTaken ==
  ASSUME ManagerInv, SocketOwn, UNCHANGED api_socket, Kept' = Kept,
         \A s \in Kept :
           ~Targeted(s) => /\ m_cgroups'[s.id] = m_cgroups[s.id]
                           /\ fc_state'[s.pid] \in {fc_state[s.pid], "zombie"},
         CurStep' \in PidSteps =>
           /\ CurStep \in PidSteps /\ CurFrame'.id = CurFrame.id /\ CurFrame'.pid = CurFrame.pid
           /\ CurStep' = "poll" => CurStep = "poll"
           /\ CurStep = "poll" /\ CurStep' # "poll" => api_socket[CurFrame.id] # None
  PROVE  SocketOwn' /\ Spared
<1>1. Spared
  BY Zenon, UntargetedFacts DEF Spared
<1>2. CurStep' = "poll" => api_socket'[CurFrame'.id] \in {None, CurFrame'.pid}
  BY Zenon, PidStepsFact DEF SocketOwn
<1>3. CurStep' \in BoundSteps => api_socket'[CurFrame'.id] = CurFrame'.pid
  BY Zenon, PidStepsFact DEF SocketOwn, BoundSteps
<1>4. \A s \in Kept' : api_socket'[s.id] = s.pid
  BY Zenon DEF SocketOwn
<1> QED
  BY Zenon, <1>1, <1>2, <1>3, <1>4 DEF SocketOwn

(* A step that removes the files of one sandbox, which is not registered   *)
(* or is released by this step.                                            *)
LEMMA FilesReleased ==
  ASSUME ManagerInv, SocketOwn, NEW id \in Ids, NEW taps, ReleaseFiles(id, taps),
         \A i \in Ids \ {id} : m_cgroups'[i] = m_cgroups[i],
         Kept' \subseteq {s \in Kept : s.id # id},
         \A s \in m_sandboxes : ~Targeted(s) => s \in Kept',
         CurStep' \notin PidSteps
  PROVE  SocketOwn' /\ Spared
<1>1. fc_state' = fc_state /\ api_socket' = [api_socket EXCEPT ![id] = None]
  BY Zenon DEF ReleaseFiles
<1>2. Spared
  BY Zenon, <1>1, UntargetedFacts DEF Spared
<1>3. \A s \in Kept' : api_socket'[s.id] = s.pid
  <2> TAKE s \in Kept'
  <2>1. s \in Kept /\ s.id # id
    BY Zenon
  <2>2. s.id \in Ids /\ api_socket[s.id] = s.pid
    BY Zenon, <2>1, KeptFacts
  <2> QED
    BY Zenon, <1>1, <2>1, <2>2 DEF ManagerInv, TypeOK, FcTypeOK
<1>4. CurStep' # "poll" /\ CurStep' \notin BoundSteps
  BY Zenon, PidStepsFact
<1> QED
  BY Zenon, <1>2, <1>3, <1>4 DEF SocketOwn

(* A call outside create_sandbox and teardown goes on or returns.          *)
LEMMA QuietSpared ==
  ASSUME ManagerInv, SocketOwn, NEW t \in Threads, pc[t] \in {"lookup", "agent", "reply"},
         \/ Return(t) /\ UNCHANGED m_sandboxes
         \/ /\ frame' \in [Threads -> Frames]
            /\ \E step \in {"agent", "reply", "cgroup"} : Goto(t, step),
         UNCHANGED <<api_socket, fc_state, m_cgroups>>
  PROVE  SocketOwn' /\ Spared
<1>1. \A step \in {"idle", "lookup", "agent", "reply", "cgroup"} :
        step \notin TeardownSteps /\ step \notin PidSteps /\ step \in Steps
  BY Zenon, PidStepsFact DEF TeardownSteps, PutSteps, Steps, CreateSteps
<1>2. CurStep = pc[t] /\ CurStep' \in {"idle", "agent", "reply", "cgroup"}
      /\ m_sandboxes' = m_sandboxes
  BY Zenon, <1>1, HolderFacts, ReturnFacts, GotoFacts DEF ManagerInv
<1>3. Kept' = Kept
  BY Zenon, <1>1, <1>2 DEF Kept
<1> QED
  BY Zenon, <1>1, <1>2, <1>3, NothingTaken

LEMMA CallsSpared ==
  ASSUME ManagerInv, ManagerInv', SocketOwn, NEW t \in Threads,
         \/ LookupForCreate(t) \/ LookupForExecute(t) \/ SendToAgent(t) \/ AgentReply(t)
         \/ LookupForMetadata(t)
  PROVE  SocketOwn' /\ Spared
<1>1. pc[t] \in {"lookup", "agent", "reply"} /\ UNCHANGED <<api_socket, fc_state, m_cgroups>>
  BY Zenon DEF LookupForCreate, LookupForExecute, SendToAgent, AgentReply, LookupForMetadata,
               fcVars, cgVars
<1>2. \/ Return(t) /\ UNCHANGED m_sandboxes
      \/ \E step \in {"agent", "reply", "cgroup"} : Goto(t, step)
  BY Zenon DEF LookupForCreate, LookupForExecute, SendToAgent, AgentReply, LookupForMetadata
<1> QED
  BY Zenon, <1>1, <1>2, QuietSpared DEF ManagerInv, TypeOK

LEMMA NewCallSpared ==
  ASSUME ManagerInv, SocketOwn, NEW t \in Threads, NewCall(t)
  PROVE  SocketOwn' /\ Spared
<1>1. /\ m_mutex = None /\ m_mutex' = t /\ pc' = [pc EXCEPT ![t] = "lookup"]
      /\ UNCHANGED <<m_sandboxes, api_socket, fc_state, m_cgroups>>
  BY Zenon DEF NewCall, create_sandbox, execute_code, terminate_sandbox, get_metadata,
               terminate_all, Call, Lock, fcVars, cgVars
<1>2. CurStep = "idle" /\ CurStep' = "lookup"
  BY Zenon, <1>1, ManagerAssumption DEF CurStep, ManagerInv, TypeOK
<1>3. Kept' = Kept /\ "lookup" \notin PidSteps
  BY Zenon, <1>1, <1>2, PidStepsFact DEF Kept, TeardownSteps
<1> QED
  BY Zenon, <1>1, <1>2, <1>3, NothingTaken

(* create_sandbox: the steps that go on. *)
LEMMA CreateSpared ==
  ASSUME ManagerInv, SocketOwn, NEW t \in Threads, pc[t] \in DirSteps, NEW step \in DirSteps,
         Goto(t, step), UNCHANGED <<frame, api_socket>>,
         \A i \in Ids \ {frame[t].id} : m_cgroups'[i] = m_cgroups[i],
         \A s \in m_sandboxes : fc_state'[s.pid] = fc_state[s.pid],
         step \in PidSteps => pc[t] \in PidSteps /\ step # "poll",
         pc[t] = "poll" => api_socket[frame[t].id] # None
  PROVE  SocketOwn' /\ Spared
<1>1. /\ CurStep = pc[t] /\ CurFrame = frame[t] /\ Kept = m_sandboxes
      /\ \A s \in m_sandboxes : s.id # frame[t].id
  BY Zenon, CreatingFacts
<1>2. CurStep' = step /\ CurFrame' = frame[t] /\ Kept' = m_sandboxes
  BY Zenon, CreateStepFacts DEF ManagerInv, TypeOK
<1>3. \A s \in m_sandboxes : s.id \in Ids \ {frame[t].id}
  BY Zenon, <1>1 DEF ManagerInv, TypeOK, Instances
<1> QED
  BY Zenon, <1>1, <1>2, <1>3, NothingTaken

(* create_sandbox: the error exits. *)
LEMMA GiveBackSpared ==
  ASSUME ManagerInv, SocketOwn, NEW t \in Threads, pc[t] \in DirSteps, NEW taps,
         ReleaseFiles(frame[t].id, taps), Return(t), UNCHANGED m_sandboxes,
         \A i \in Ids \ {frame[t].id} : m_cgroups'[i] = m_cgroups[i]
  PROVE  SocketOwn' /\ Spared
<1>1. /\ frame[t].id \in Ids /\ Kept = m_sandboxes /\ pc[t] # "idle"
      /\ \A s \in m_sandboxes : s.id # frame[t].id
  BY Zenon, CreatingFacts DEF DirSteps, CreateSteps, PutSteps
<1>2. CurStep' = "idle" /\ "idle" \notin TeardownSteps /\ "idle" \notin PidSteps
  BY Zenon, <1>1, ReturnFacts, PidStepsFact DEF ManagerInv, TeardownSteps, PutSteps
<1>3. Kept' = m_sandboxes
  BY Zenon, <1>2 DEF Kept
<1>4. Kept' \subseteq {s \in Kept : s.id # frame[t].id}
  BY Zenon, <1>1, <1>3
<1> QED
  BY Zenon, <1>1, <1>2, <1>3, <1>4, FilesReleased

(* create_sandbox: the exits by an exception. *)
LEMMA ThrowSpared ==
  ASSUME ManagerInv, SocketOwn, NEW t \in Threads, pc[t] \in DirSteps, Throw(t),
         UNCHANGED <<fcVars, m_cgroups>>
  PROVE  SocketOwn' /\ Spared
<1>1. Kept = m_sandboxes /\ pc[t] # "idle"
  BY Zenon, CreatingFacts DEF DirSteps, CreateSteps, PutSteps
<1>2. CurStep' = "idle" /\ "idle" \notin TeardownSteps /\ "idle" \notin PidSteps
  BY Zenon, <1>1, LeaveFacts, PidStepsFact DEF ManagerInv, Throw, TeardownSteps, PutSteps
<1>3. Kept' = Kept
  BY Zenon, <1>1, <1>2 DEF Kept, Throw
<1> QED
  BY Zenon, <1>2, <1>3, NothingTaken DEF fcVars

(* destroy_cgroup takes no other entry. *)
LEMMA OtherCgroupsKept ==
  ASSUME CgTypeOK, NEW id \in Ids, NEW status,
         create_cgroup(id, status) \/ destroy_cgroup(id, status)
  PROVE  \A i \in Ids \ {id} : m_cgroups'[i] = m_cgroups[i]
<1>1. m_cgroups' = m_cgroups \/ \E c : m_cgroups' = [m_cgroups EXCEPT ![id] = c]
  BY Zenon DEF create_cgroup, destroy_cgroup, cgVars
<1> QED
  BY Zenon, <1>1 DEF CgTypeOK

LEMMA UnwindSpared ==
  ASSUME ManagerInv, SocketOwn, NEW t \in Threads, pc[t] \in DirSteps, NEW taps, Unwind(t, taps)
  PROVE  SocketOwn' /\ Spared
<1>1. frame[t].id \in Ids /\ CgTypeOK
  BY Zenon, CreatingFacts DEF ManagerInv, TypeOK
<1>2. \A i \in Ids \ {frame[t].id} : m_cgroups'[i] = m_cgroups[i]
  BY Zenon, <1>1, OtherCgroupsKept DEF Unwind
<1> QED
  BY Zenon, <1>2, GiveBackSpared DEF Unwind

LEMMA BeforeForkSpared ==
  ASSUME ManagerInv, SocketOwn, NEW t \in Threads, CreateCgroup(t) \/ setup_tap_interface(t)
  PROVE  SocketOwn' /\ Spared
<1>1. /\ {"cgroup", "tap", "spawn"} \subseteq DirSteps
      /\ \A step \in {"cgroup", "tap", "spawn"} : step \notin PidSteps
      /\ pc[t] \in {"cgroup", "tap"}
  BY Zenon, PidStepsFact DEF DirSteps, CreateSteps, PutSteps, CreateCgroup, setup_tap_interface
<1>2. frame[t].id \in Ids /\ CgTypeOK
  BY Zenon, <1>1, CreatingFacts DEF ManagerInv, TypeOK
<1>3. CASE CreateCgroup(t)
  <2>1. \A i \in Ids \ {frame[t].id} : m_cgroups'[i] = m_cgroups[i]
    BY Zenon, <1>2, <1>3, OtherCgroupsKept DEF CreateCgroup
  <2>2. CASE Goto(t, "tap") /\ UNCHANGED <<frame, fcVars>>
    BY Zenon, <1>1, <2>1, <2>2, CreateSpared DEF fcVars
  <2>3. CASE ReleaseFiles(frame[t].id, {}) /\ Return(t) /\ UNCHANGED m_sandboxes
    BY Zenon, <1>1, <2>1, <2>3, GiveBackSpared
  <2> QED
    BY Zenon, <1>3, <2>2, <2>3 DEF CreateCgroup
<1>4. CASE setup_tap_interface(t)
  <2>1. CASE Goto(t, "spawn") /\ UNCHANGED <<frame, fc_state, api_socket, cgVars>>
    BY Zenon, <1>1, <2>1, CreateSpared DEF cgVars
  <2>2. CASE Unwind(t, {})
    BY Zenon, <1>1, <2>2, UnwindSpared
  <2> QED
    BY Zenon, <1>4, <2>1, <2>2 DEF setup_tap_interface
<1> QED
  BY Zenon, <1>3, <1>4

(* fork: the new process has no socket yet, and no entry has its pid. *)
LEMMA SpawnSpared ==
  ASSUME ManagerInv, SocketOwn, NEW t \in Threads, spawn_firecracker_process(t)
  PROVE  SocketOwn' /\ Spared
<1> DEFINE id == frame[t].id
<1>1. /\ pc[t] = "spawn" /\ "spawn" \in DirSteps /\ "poll" \in DirSteps
      /\ "poll" \notin BoundSteps
  BY Zenon DEF spawn_firecracker_process, DirSteps, CreateSteps, BoundSteps
<1>2. /\ id \in Ids /\ Kept = m_sandboxes /\ \A s \in m_sandboxes : s.id # id
  BY Zenon, <1>1, CreatingFacts
<1>3. ASSUME NEW p \in Pids, Fork(id, p), frame' = [frame EXCEPT ![t].pid = p],
             Goto(t, "poll"), UNCHANGED cgVars
      PROVE  SocketOwn' /\ Spared
  <2>1. /\ frame' \in [Threads -> Frames]
        /\ frame'[t].id = id /\ frame'[t].policy = frame[t].policy
    BY ZenonT(30), <1>3 DEF ManagerInv, TypeOK, Frames
  <2>2. CurStep' = "poll" /\ CurFrame' = frame'[t] /\ Kept' = m_sandboxes
    BY Zenon, <1>1, <1>3, <2>1, CreateStepFacts
  <2>3. /\ fc_state[p] = "free" /\ api_socket'[id] = None
        /\ \A q \in Pids \ {p} : fc_state'[q] = fc_state[q]
        /\ \A i \in Ids \ {id} : api_socket'[i] = api_socket[i]
    BY Zenon, <1>2, <1>3 DEF Fork, ManagerInv, TypeOK, FcTypeOK
  <2>4. \A s \in m_sandboxes : ~Targeted(s) => s.pid \in Pids \ {p}
    BY Zenon, <2>3, UntargetedFacts
  <2>5. Spared
    BY Zenon, <1>3, <2>2, <2>3, <2>4 DEF Spared, cgVars
  <2>6. \A s \in Kept' : api_socket'[s.id] = s.pid
    BY Zenon, <1>2, <2>2, <2>3, KeptFacts
  <2> QED
    BY Zenon, <1>1, <2>1, <2>2, <2>3, <2>5, <2>6 DEF SocketOwn
<1>4. CASE Unwind(t, {TapName[id]})
  BY Zenon, <1>1, <1>4, UnwindSpared
<1>5. CASE Throw(t) /\ UNCHANGED <<fcVars, cgVars>>
  BY Zenon, <1>1, <1>5, ThrowSpared DEF cgVars
<1> QED
  BY Zenon, <1>3, <1>4, <1>5 DEF spawn_firecracker_process

LEMMA AfterForkSpared ==
  ASSUME ManagerInv, SocketOwn, NEW t \in Threads,
         PollSocket(t) \/ AttachPid(t) \/ apply_ebpf_policies(t)
  PROVE  SocketOwn' /\ Spared
<1>1. /\ pc[t] \in {"poll", "attach", "apply"} /\ {"poll", "attach", "apply"} \subseteq PidSteps
      /\ {"attach", "boot-source", "snapshot", "relock", "register"} \subseteq PidSteps
      /\ PidSteps \subseteq DirSteps
  BY Zenon, PidStepsFact DEF PollSocket, AttachPid, apply_ebpf_policies, PutSteps
<1>2. ASSUME NEW step \in {"attach", "boot-source", "snapshot", "relock", "register"},
             Goto(t, step), UNCHANGED <<frame, fcVars, m_cgroups>>,
             pc[t] = "poll" => api_socket[frame[t].id] # None
      PROVE  SocketOwn' /\ Spared
  <2>1. step \in DirSteps /\ step # "poll" /\ pc[t] \in PidSteps /\ pc[t] \in DirSteps
    BY Zenon, <1>1
  <2> QED
    BY Zenon, <1>2, <2>1, CreateSpared DEF fcVars
<1>3. CASE PollSocket(t)
  <2>1. CASE Unwind(t, {TapName[frame[t].id]})
    BY Zenon, <1>1, <2>1, UnwindSpared
  <2>2. CASE Throw(t) /\ UNCHANGED <<fcVars, cgVars>>
    BY Zenon, <1>1, <2>2, ThrowSpared DEF cgVars
  <2> QED
    BY Zenon, <1>2, <1>3, <2>1, <2>2 DEF PollSocket, cgVars
<1>4. CASE AttachPid(t)
  <2>1. m_cgroups' = m_cgroups /\ pc[t] = "attach"
    BY Zenon, <1>4 DEF AttachPid, attach_pid, cgVars
  <2>2. CASE Throw(t)
    BY Zenon, <1>1, <1>4, <2>1, <2>2, ThrowSpared DEF AttachPid
  <2> QED
    BY Zenon, <1>2, <1>4, <2>1, <2>2 DEF AttachPid
<1>5. CASE apply_ebpf_policies(t)
  BY Zenon, <1>2, <1>5 DEF apply_ebpf_policies, cgVars
<1> QED
  BY Zenon, <1>3, <1>4, <1>5

(* A PUT reaches the process that was forked for this sandbox. *)
LEMMA SendPutSpared ==
  ASSUME ManagerInv, SocketOwn, NEW t \in Threads, SendPut(t)
  PROVE  SocketOwn' /\ Spared
<1> DEFINE id == frame[t].id
<1>1. /\ pc[t] \in PidSteps /\ pc[t] \in BoundSteps /\ pc[t] # "poll"
      /\ AfterPut(pc[t]) \in BoundSteps /\ "relock" \in BoundSteps
      /\ BoundSteps \subseteq DirSteps /\ BoundSteps \subseteq PidSteps /\ "poll" \notin BoundSteps
  BY Zenon, PidStepsFact DEF SendPut, PutSteps, AfterPut, BoundSteps
<1>2. /\ CurStep = pc[t] /\ CurFrame = frame[t]
      /\ \A s \in m_sandboxes : s.id # id
  BY Zenon, <1>1, CreatingFacts
<1>3. api_socket[id] = frame[t].pid /\ frame[t].pid \in Pids /\ fc_sbx[frame[t].pid] = id
  BY Zenon, <1>1, <1>2 DEF SocketOwn, ManagerInv, FrameInv
<1>4. \A s \in m_sandboxes : s.pid \in Pids \ {frame[t].pid}
  <2>1. Kept = m_sandboxes /\ CurStep # "release"
    BY Zenon, <1>1, <1>2, CreatingFacts, PidStepsFact
  <2> TAKE s \in m_sandboxes
  <2>2. fc_sbx[s.pid] = s.id /\ s.pid \in Pids
    BY Zenon, <2>1 DEF ManagerInv, EntryInv, TypeOK, Instances
  <2>3. s.pid # frame[t].pid
    BY Zenon, <1>2, <1>3, <2>2
  <2> QED
    BY Zenon, <2>2, <2>3
<1>5. /\ \A s \in m_sandboxes : fc_state'[s.pid] = fc_state[s.pid]
      /\ UNCHANGED <<frame, api_socket, m_cgroups>>
  <2>0. UNCHANGED <<frame, m_cgroups>>
    BY Zenon DEF SendPut, cgVars
  <2>1. CASE UNCHANGED fcVars
    BY Zenon, <2>0, <2>1 DEF fcVars
  <2>2. CASE PutAccepted(id, pc[t] \in {"actions", "snapshot"})
    <3>1. fc_state' = fc_state \/ fc_state' = [fc_state EXCEPT ![frame[t].pid] = "running"]
      BY Zenon, <1>3, <2>2 DEF PutAccepted
    <3>2. \A p \in Pids \ {frame[t].pid} : fc_state'[p] = fc_state[p]
      BY Zenon, <3>1 DEF ManagerInv, TypeOK, FcTypeOK
    <3> QED
      BY Zenon, <1>4, <2>0, <2>2, <3>2 DEF PutAccepted
  <2> QED
    BY Zenon, <2>1, <2>2 DEF SendPut
<1>6. PICK step \in BoundSteps : Goto(t, step)
  BY Zenon, <1>1 DEF SendPut
<1>7. /\ pc[t] \in DirSteps /\ step \in DirSteps /\ step # "poll"
  BY Zenon, <1>1
<1> QED
  BY Zenon, <1>1, <1>5, <1>6, <1>7, CreateSpared

(* The new entry has the socket its own process bound. *)
LEMMA RegisterSpared ==
  ASSUME ManagerInv, SocketOwn, NEW t \in Threads, Register(t)
  PROVE  SocketOwn' /\ Spared
<1> DEFINE new == NewInstance(frame[t])
<1>1. pc[t] = "register" /\ "register" \in BoundSteps /\ "register" \in DirSteps
  BY Zenon, PidStepsFact DEF Register
<1>2. /\ CurStep = "register" /\ CurFrame = frame[t] /\ Kept = m_sandboxes
      /\ \A s \in m_sandboxes : s.id # frame[t].id
  BY Zenon, <1>1, CreatingFacts
<1>3. CurStep' = "idle" /\ "idle" \notin PidSteps /\ "idle" \notin TeardownSteps
  BY Zenon, <1>1, ReturnFacts, PidStepsFact DEF ManagerInv, Register, TeardownSteps, PutSteps
<1>4. Kept' = m_sandboxes \cup {new}
  BY Zenon, <1>2, <1>3 DEF Kept, Register
<1>5. UNCHANGED <<api_socket, fc_state, m_cgroups>>
  BY Zenon DEF Register, fcVars, cgVars
<1>6. new.id = frame[t].id /\ new.pid = frame[t].pid
  BY Zenon DEF NewInstance
<1> HIDE DEF new
<1>7. \A s \in Kept' : api_socket'[s.id] = s.pid
  BY Zenon, <1>1, <1>2, <1>4, <1>5, <1>6 DEF SocketOwn
<1>8. Spared
  BY Zenon, <1>4, <1>5 DEF Spared
<1>9. CurStep' # "poll" /\ CurStep' \notin BoundSteps
  BY Zenon, <1>3, PidStepsFact
<1> QED
  BY Zenon, <1>7, <1>8, <1>9 DEF SocketOwn

-----------------------------------------------------------------------------
LEMMA LookupForTeardownSpared ==
  ASSUME ManagerInv, ManagerInv', SocketOwn, NEW t \in Threads, LookupForTeardown(t)
  PROVE  SocketOwn' /\ Spared
<1> DEFINE f == frame[t]
<1> DEFINE found == {s \in m_sandboxes : f.op = "terminate_all" \/ s.id = f.id}
<1>1. pc[t] = "lookup" /\ UNCHANGED <<api_socket, fc_state, m_cgroups>>
  BY Zenon DEF LookupForTeardown, fcVars, cgVars
<1>2. CASE Return(t) /\ UNCHANGED m_sandboxes
  BY Zenon, <1>1, <1>2, QuietSpared
<1>3. CASE Goto(t, "kill") /\ frame' = [frame EXCEPT ![t].todo = found]
  <2>1. frame'[t].op = f.op /\ frame'[t].todo = found /\ frame' \in [Threads -> Frames]
    BY ZenonT(30), <1>3 DEF ManagerInv, TypeOK, Frames
  <2>2. CurStep' = "kill" /\ CurFrame' = frame'[t] /\ m_sandboxes' = m_sandboxes
    BY Zenon, <1>1, <1>3, <2>1, GotoFacts DEF ManagerInv, Steps, TeardownSteps
  <2>3. CurStep = "lookup" /\ "lookup" \notin TeardownSteps /\ "kill" \notin PidSteps
    BY Zenon, <1>1, HolderFacts, PidStepsFact DEF ManagerInv, TeardownSteps
  <2>4. Kept = m_sandboxes /\ Kept' = m_sandboxes
    BY Zenon, <2>1, <2>2, <2>3 DEF Kept
  <2> QED
    BY Zenon, <1>1, <2>2, <2>3, <2>4, NothingTaken
<1> QED
  BY Zenon, <1>2, <1>3 DEF LookupForTeardown

(* SIGKILL and waitpid reach the process of the entry being torn down, and *)
(* entries that are not have processes of their own.                       *)
LEMMA SignalSpared ==
  ASSUME ManagerInv, ManagerInv', SocketOwn, NEW t \in Threads, pc[t] \in TeardownSteps,
         NEW step \in {"reap", "release"}, Goto(t, step), frame'[t].op = frame[t].op,
         frame'[t].todo = frame[t].todo, UNCHANGED <<api_socket, m_cgroups>>,
         NEW e \in frame[t].todo,
         \A p \in Pids \ {e.pid} : fc_state'[p] = fc_state[p],
         fc_sbx[e.pid] = e.id
  PROVE  SocketOwn' /\ Spared
<1>1. /\ CurStep = pc[t] /\ CurFrame = frame[t] /\ pc[t] # "idle"
      /\ frame[t].op = "terminate" => frame[t].todo = {s \in m_sandboxes : s.id = frame[t].id}
  BY Zenon, TeardownFacts
<1>2. step \in TeardownSteps /\ step \in Steps \ {"idle"} /\ step \notin PidSteps
  BY Zenon, PidStepsFact DEF TeardownSteps, Steps
<1>3. CurStep' = step /\ CurFrame' = frame'[t] /\ m_sandboxes' = m_sandboxes
  BY Zenon, <1>1, <1>2, GotoFacts DEF ManagerInv, TypeOK
<1>4. Kept' = Kept
  BY Zenon, <1>1, <1>2, <1>3 DEF Kept
<1>5. ASSUME NEW s \in m_sandboxes, ~Targeted(s) PROVE fc_state'[s.pid] = fc_state[s.pid]
  <2>1. s.id # frame[t].id /\ frame[t].op = "terminate" /\ s.pid \in Pids /\ fc_sbx[s.pid] = s.id
    BY Zenon, <1>1, <1>5, UntargetedFacts
  <2>2. e.id = frame[t].id
    BY Zenon, <1>1, <2>1
  <2>3. s.pid # e.pid
    BY Zenon, <2>1, <2>2
  <2> QED
    BY Zenon, <2>1, <2>3
<1>6. Kept \subseteq m_sandboxes
  BY Zenon, TeardownFacts
<1>7. \A s \in Kept :
        ~Targeted(s) => /\ m_cgroups'[s.id] = m_cgroups[s.id]
                        /\ fc_state'[s.pid] \in {fc_state[s.pid], "zombie"}
  BY Zenon, <1>5, <1>6
<1> QED
  BY Zenon, <1>2, <1>3, <1>4, <1>7, NothingTaken

LEMMA KillSpared ==
  ASSUME ManagerInv, ManagerInv', SocketOwn, NEW t \in Threads, KillProcess(t)
  PROVE  SocketOwn' /\ Spared
<1>1. PICK e \in frame[t].todo : /\ Kill(e.pid)
                                 /\ frame' = [frame EXCEPT ![t].id = e.id, ![t].pid = e.pid]
  BY Zenon DEF KillProcess
<1>2. pc[t] = "kill" /\ "kill" \in TeardownSteps /\ Goto(t, "reap")
  BY Zenon DEF KillProcess, TeardownSteps
<1>3. CurStep = "kill" /\ e \in Kept
  BY Zenon, <1>2, TeardownFacts
<1>4. fc_sbx[e.pid] = e.id
  BY Zenon, <1>3 DEF ManagerInv, EntryInv
<1>5. frame'[t].op = frame[t].op /\ frame'[t].todo = frame[t].todo
  <2>1. frame' = [frame EXCEPT ![t] = [frame[t] EXCEPT !.id = e.id, !.pid = e.pid]]
    BY <1>1 DEF ManagerInv, TypeOK
  <2>2. /\ frame \in [Threads -> Frames]
        /\ frame'[t] = [frame[t] EXCEPT !.id = e.id, !.pid = e.pid]
    BY Zenon, <2>1 DEF ManagerInv, TypeOK
  <2> QED
    BY Zenon, <2>2 DEF Frames
<1>6. \A p \in Pids \ {e.pid} : fc_state'[p] = fc_state[p]
  BY Zenon, <1>1 DEF Kill, ManagerInv, TypeOK, FcTypeOK
<1>7. UNCHANGED <<api_socket, m_cgroups>>
  BY Zenon, <1>1 DEF Kill, KillProcess, cgVars
<1> QED
  BY Zenon, <1>2, <1>4, <1>5, <1>6, <1>7, SignalSpared

LEMMA ReapSpared ==
  ASSUME ManagerInv, ManagerInv', SocketOwn, NEW t \in Threads, ReapProcess(t)
  PROVE  SocketOwn' /\ Spared
<1>1. pc[t] = "reap" /\ "reap" \in TeardownSteps /\ Goto(t, "release") /\ frame' = frame
  BY Zenon DEF ReapProcess, TeardownSteps
<1>2. CurStep = "reap" /\ CurFrame = frame[t] /\ frame[t].todo \subseteq Kept
  BY Zenon, <1>1, TeardownFacts
<1>3. PICK e \in frame[t].todo : e.id = frame[t].id /\ e.pid = frame[t].pid
  BY Zenon, <1>2 DEF ManagerInv, FrameInv
<1>4. fc_sbx[e.pid] = e.id
  BY Zenon, <1>2, <1>3 DEF ManagerInv, EntryInv
<1>5. \A p \in Pids \ {e.pid} : fc_state'[p] = fc_state[p]
  BY Zenon, <1>3 DEF ReapProcess, Reap, ManagerInv, TypeOK, FcTypeOK
<1>6. UNCHANGED <<api_socket, m_cgroups>>
  BY Zenon DEF ReapProcess, Reap, cgVars
<1> QED
  BY Zenon, <1>1, <1>4, <1>5, <1>6, SignalSpared

LEMMA ReleaseSpared ==
  ASSUME ManagerInv, ManagerInv', SocketOwn, NEW t \in Threads, ReleaseSandbox(t)
  PROVE  SocketOwn' /\ Spared
<1> DEFINE f == frame[t]
<1> DEFINE left == {s \in f.todo : s.id # f.id}
<1>1. /\ pc[t] = "release" /\ "release" \in TeardownSteps /\ "kill" \in TeardownSteps
      /\ "kill" \notin PidSteps /\ "idle" \notin PidSteps /\ "idle" \notin TeardownSteps
      /\ "kill" \in Steps \ {"idle"}
  BY Zenon, PidStepsFact DEF ReleaseSandbox, TeardownSteps, PutSteps, Steps
<1>2. /\ CurStep = "release" /\ CurFrame = f /\ f.op \in {"terminate", "terminate_all"}
      /\ f.op = "terminate" => f.todo = {r \in m_sandboxes : r.id = f.id} /\ Kept = m_sandboxes
      /\ f.op = "terminate_all" => Kept = f.todo
      /\ f.todo \subseteq m_sandboxes
  BY Zenon, <1>1, TeardownFacts
<1>3. f.id \in Ids /\ CgTypeOK
  <2>1. \E e \in f.todo : e.id = f.id
    BY Zenon, <1>2 DEF ManagerInv, FrameInv
  <2> QED
    BY Zenon, <1>2, <2>1 DEF ManagerInv, TypeOK, Instances
<1>4. \A i \in Ids \ {f.id} : m_cgroups'[i] = m_cgroups[i]
  BY Zenon, <1>3, OtherCgroupsKept DEF ReleaseSandbox
<1>5. Kept' = {s \in Kept : s.id # f.id} /\ CurStep' \notin PidSteps
  <2>1. CASE left = {} /\ m_sandboxes' = MapAfterTeardown(f) /\ Return(t)
    <3>1. CurStep' = "idle"
      BY Zenon, <1>1, <2>1, ReturnFacts DEF ManagerInv
    <3>2. Kept' = m_sandboxes'
      BY Zenon, <1>1, <3>1 DEF Kept
    <3> QED
      BY Zenon, <1>1, <1>2, <2>1, <3>1, <3>2 DEF MapAfterTeardown
  <2>2. CASE left # {} /\ Goto(t, "kill") /\ frame' = [frame EXCEPT ![t].todo = left]
    <3>1. frame'[t].op = f.op /\ frame'[t].todo = left
      BY ZenonT(30), <2>2 DEF ManagerInv, TypeOK, Frames
    <3>2. CurStep' = "kill" /\ CurFrame' = frame'[t]
      BY Zenon, <1>1, <2>2, GotoFacts DEF ManagerInv, TypeOK
    <3>3. f.op = "terminate_all"
      BY Zenon, <1>2, <2>2
    <3> QED
      BY Zenon, <1>1, <1>2, <3>1, <3>2, <3>3 DEF Kept
  <2> QED
    BY Zenon, <2>1, <2>2 DEF ReleaseSandbox
<1>6. \A s \in m_sandboxes : ~Targeted(s) => s \in Kept'
  BY Zenon, <1>1, <1>2, <1>5, UntargetedFacts
<1>7. ReleaseFiles(f.id, {TapName[f.id]})
  BY Zenon DEF ReleaseSandbox
<1>8. Kept' \subseteq {s \in Kept : s.id # f.id} /\ CurStep' \notin PidSteps
  BY Zenon, <1>5
<1> QED
  BY Zenon, <1>3, <1>4, <1>6, <1>7, <1>8, FilesReleased

-----------------------------------------------------------------------------
(* A process binds the socket only of a sandbox that is being created, and *)
(* there it is the process create_sandbox waits for.                       *)
LEMMA BindSpared ==
  ASSUME ManagerInv, SocketOwn, NEW p \in Pids, ProcessBinds(p)
  PROVE  SocketOwn' /\ Spared
<1> DEFINE id == fc_sbx[p]
<1>1. CurStep' = CurStep /\ CurFrame' = CurFrame /\ Kept' = Kept
  BY Zenon, ProcessStepFacts DEF ProcessBinds
<1>2. /\ fc_state[p] = "starting" /\ id \in Ids /\ api_socket[id] = None
      /\ m_cgroups' = m_cgroups
  BY Zenon DEF ProcessBinds, BindSocket, ManagerInv, ProcessInv, cgVars
<1>3. /\ \A q \in Pids \ {p} : fc_state'[q] = fc_state[q]
      /\ api_socket'[id] = p /\ \A i \in Ids \ {id} : api_socket'[i] = api_socket[i]
  BY Zenon, <1>2 DEF ProcessBinds, BindSocket, ManagerInv, TypeOK, FcTypeOK
<1>4. \A s \in Kept : s.id \in Ids \ {id} /\ api_socket[s.id] = s.pid
  BY Zenon, <1>2, KeptFacts, HostAssumption
<1>5. Spared
  <2> SUFFICES ASSUME NEW s \in m_sandboxes, ~Targeted(s)
               PROVE  s \in Kept' /\ fc_state'[s.pid] = fc_state[s.pid]
    BY Zenon, <1>2 DEF Spared
  <2>1. s \in Kept /\ s.pid \in Pids /\ fc_sbx[s.pid] = s.id
    BY Zenon, UntargetedFacts
  <2>2. s.pid # p
    BY Zenon, <1>4, <2>1
  <2> QED
    BY Zenon, <1>1, <1>3, <2>1, <2>2
<1>6. \A s \in Kept' : api_socket'[s.id] = s.pid
  BY Zenon, <1>1, <1>3, <1>4
<1>7. ASSUME CurStep \in PidSteps
      PROVE  CurFrame.id \in Ids /\ CurFrame.pid \in Pids
  BY Zenon, <1>7, PidStepsFact DEF ManagerInv, FrameInv
<1>8. ASSUME CurStep = "poll" PROVE api_socket'[CurFrame.id] \in {None, CurFrame.pid}
  <2>1. CurStep \in PidSteps /\ CurFrame.id \in Ids
    BY Zenon, <1>7, <1>8, PidStepsFact
  <2>2. CASE CurFrame.id = id
    <3>1. p = CurFrame.pid
      BY Zenon, <1>2, <2>1, <2>2 DEF ManagerInv, ProcessInv, Alive
    <3> QED
      BY Zenon, <1>3, <2>2, <3>1
  <2>3. CASE CurFrame.id # id
    BY Zenon, <1>3, <1>8, <2>1, <2>3 DEF SocketOwn
  <2> QED
    BY Zenon, <2>2, <2>3
<1>9. ASSUME CurStep \in BoundSteps PROVE api_socket'[CurFrame.id] = CurFrame.pid
  <2>1. CurFrame.id \in Ids /\ CurFrame.pid \in Pids /\ api_socket[CurFrame.id] = CurFrame.pid
    BY Zenon, <1>7, <1>9 DEF SocketOwn, BoundSteps
  <2>2. CurFrame.id # id
    BY Zenon, <1>2, <2>1, HostAssumption
  <2> QED
    BY Zenon, <1>3, <2>1, <2>2
<1> QED
  BY Zenon, <1>1, <1>5, <1>6, <1>8, <1>9 DEF SocketOwn

LEMMA ExitSpared ==
  ASSUME ManagerInv, SocketOwn, NEW p \in Pids, ProcessExits(p)
  PROVE  SocketOwn' /\ Spared
<1>1. CurStep' = CurStep /\ CurFrame' = CurFrame /\ Kept' = Kept
  BY Zenon, ProcessStepFacts DEF ProcessExits
<1>2. /\ UNCHANGED <<api_socket, m_cgroups>>
      /\ fc_state' = [fc_state EXCEPT ![p] = "zombie"]
  BY Zenon DEF ProcessExits, Exit, LeaveCgroup
<1>3. \A q \in Pids : fc_state'[q] \in {fc_state[q], "zombie"}
  BY Zenon, <1>2 DEF ManagerInv, TypeOK, FcTypeOK
<1>4. \A s \in Kept : s.pid \in Pids
  BY Zenon, KeptFacts
<1> QED
  BY Zenon, <1>1, <1>2, <1>3, <1>4, NothingTaken

-----------------------------------------------------------------------------
LEMMA NextSpared ==
  ASSUME ManagerInv, ManagerInv', SocketOwn, [Next]_vars
  PROVE  SocketOwn' /\ Spared
<1>1. ASSUME NEW t \in Threads, NewCall(t) \/ ManagerStep(t) \/ SendPut(t) \/ AgentReply(t)
      PROVE  SocketOwn' /\ Spared
  BY Zenon, <1>1, NewCallSpared, CallsSpared, BeforeForkSpared, SpawnSpared, AfterForkSpared,
     SendPutSpared, RegisterSpared, LookupForTeardownSpared, KillSpared, ReapSpared,
     ReleaseSpared DEF ManagerStep
<1>2. ASSUME UNCHANGED vars PROVE SocketOwn' /\ Spared
  <2>1. /\ UNCHANGED <<CurStep, CurFrame, Kept>>
        /\ UNCHANGED <<api_socket, fc_state, m_cgroups>>
    BY Zenon, <1>2, ProcessStepFacts DEF vars, fcVars, cgVars
  <2> QED
    BY Zenon, <2>1, NothingTaken
<1> QED
  BY Zenon, <1>1, <1>2, BindSpared, ExitSpared DEF Next

(* However calls, processes and deaths interleave, the process bound to a  *)
(* sandbox's API socket is the one that sandbox was given.                 *)
THEOREM SocketInvariant == Spec => []SocketOwn
<1>1. Init => SocketOwn
  <2> SUFFICES ASSUME Init PROVE SocketOwn
    OBVIOUS
  <2>1. CurStep = "idle" /\ m_sandboxes = {} /\ "idle" \notin TeardownSteps /\ "idle" \notin PidSteps
    BY Zenon, PidStepsFact DEF Init, CurStep, TeardownSteps, PutSteps
  <2> QED
    BY Zenon, <2>1, PidStepsFact DEF SocketOwn, Kept, BoundSteps
<1>2. ManagerInv /\ ManagerInv' /\ SocketOwn /\ [Next]_vars => SocketOwn'
  BY Zenon, NextSpared
<1> QED
  BY <1>1, <1>2, ManagerInvariant, PTL DEF Spec

(* No step of a thread or a process takes anything from a sandbox that is  *)
(* not being torn down, for any number of threads, sandboxes and processes *)
(* and for TAP names that may collide.                                     *)
THEOREM NoSandboxDisturbsAnother == Spec => OthersUntouched
<1>1. ManagerInv /\ ManagerInv' /\ SocketOwn /\ SocketOwn' /\ [Next]_vars =>
        [\A s \in m_sandboxes : ~Targeted(s) =>
            /\ s \in m_sandboxes'
            /\ m_cgroups[s.id] # 0 /\ m_cgroups'[s.id] = m_cgroups[s.id]
            /\ s.id \in sbx_dirs' /\ TapName[s.id] \in tap_fds'
            /\ api_socket[s.id] = s.pid /\ api_socket'[s.id] = s.pid
            /\ fc_state'[s.pid] \in {fc_state[s.pid], "zombie"}]_vars
  <2> SUFFICES ASSUME ManagerInv, ManagerInv', SocketOwn, SocketOwn', [Next]_vars,
                      NEW s \in m_sandboxes, ~Targeted(s)
               PROVE  /\ s \in m_sandboxes'
                      /\ m_cgroups[s.id] # 0 /\ m_cgroups'[s.id] = m_cgroups[s.id]
                      /\ s.id \in sbx_dirs' /\ TapName[s.id] \in tap_fds'
                      /\ api_socket[s.id] = s.pid /\ api_socket'[s.id] = s.pid
                      /\ fc_state'[s.pid] \in {fc_state[s.pid], "zombie"}
    OBVIOUS
  <2>1. /\ s \in Kept' /\ m_cgroups'[s.id] = m_cgroups[s.id]
        /\ fc_state'[s.pid] \in {fc_state[s.pid], "zombie"}
    BY Zenon, NextSpared DEF Spared
  <2>2. m_cgroups[s.id] # 0 /\ api_socket[s.id] = s.pid
    BY Zenon, UntargetedFacts, KeptFacts
  <2>3. s \in m_sandboxes' /\ s.id \in sbx_dirs' /\ TapName[s.id] \in tap_fds'
        /\ api_socket'[s.id] = s.pid
    <3>1. s \in m_sandboxes'
      BY Zenon, <2>1 DEF Kept, ManagerInv, FrameInv
    <3>2. \A S : s.id \in Owned(S)'
      BY Zenon, <2>1 DEF Owned
    <3> QED
      BY Zenon, <2>1, <3>1, <3>2 DEF ManagerInv, Accounting, Held, SocketOwn
  <2> QED
    BY Zenon, <2>1, <2>2, <2>3
<1> QED
  BY <1>1, ManagerInvariant, SocketInvariant, PTL DEF Spec, OthersUntouched

-----------------------------------------------------------------------------
(* The manager uses the cgroup manager as CgSpec says it may be used: what *)
(* is proved of any sequence of its calls holds inside the manager.        *)
LEMMA CgroupStep ==
  ASSUME ManagerInv, [Next]_vars
  PROVE  [CgNext]_cgVars
<1>1. ASSUME NEW t \in Threads, NewCall(t) \/ ManagerStep(t) \/ SendPut(t) \/ AgentReply(t)
      PROVE  [CgNext]_cgVars
  <2>1. CASE CreateCgroup(t)
    <3>1. "cgroup" \in DirSteps
      BY Zenon DEF DirSteps, CreateSteps
    <3>2. frame[t].id \in Ids
      BY Zenon, <2>1, <3>1, CreatingFacts DEF CreateCgroup
    <3> QED
      BY Zenon, <2>1, <3>2 DEF CreateCgroup, CgNext
  <2>2. CASE AttachPid(t)
    <3>1. pc[t] = "attach" /\ "attach" \in DirSteps /\ "attach" \in PidSteps
      BY Zenon, <2>2, PidStepsFact DEF AttachPid
    <3>2. frame[t].id \in Ids /\ CurStep = "attach" /\ CurFrame = frame[t]
      BY Zenon, <3>1, CreatingFacts
    <3>3. frame[t].pid \in Pids
      BY Zenon, <3>1, <3>2 DEF ManagerInv, FrameInv
    <3> QED
      BY Zenon, <2>2, <3>2, <3>3 DEF AttachPid, CgNext
  <2>3. CASE \E taps : Unwind(t, taps) /\ pc[t] \in DirSteps
    <3>1. frame[t].id \in Ids
      BY Zenon, <2>3, CreatingFacts
    <3> QED
      BY Zenon, <2>3, <3>1 DEF Unwind, CgNext
  <2>4. CASE ReleaseSandbox(t)
    <3>1. pc[t] = "release" /\ "release" \in TeardownSteps
      BY Zenon, <2>4 DEF ReleaseSandbox, TeardownSteps
    <3>2. CurStep = "release" /\ CurFrame = frame[t] /\ frame[t].todo \subseteq m_sandboxes
      BY Zenon, <3>1, TeardownFacts
    <3>3. frame[t].id \in Ids
      BY Zenon, <3>2 DEF ManagerInv, FrameInv, TypeOK, Instances
    <3> QED
      BY Zenon, <2>4, <3>3 DEF ReleaseSandbox, CgNext
  <2>5. CASE setup_tap_interface(t) \/ spawn_firecracker_process(t) \/ PollSocket(t)
    <3>1. {"tap", "spawn", "poll"} \subseteq DirSteps
      BY Zenon DEF DirSteps, CreateSteps
    <3>2. pc[t] \in {"tap", "spawn", "poll"} /\ (UNCHANGED cgVars \/ \E taps : Unwind(t, taps))
      BY Zenon, <2>5 DEF setup_tap_interface, spawn_firecracker_process, PollSocket
    <3> QED
      BY Zenon, <2>3, <3>1, <3>2
  <2>6. CASE \/ NewCall(t) \/ LookupForCreate(t) \/ SendPut(t) \/ apply_ebpf_policies(t)
             \/ Register(t) \/ LookupForExecute(t) \/ SendToAgent(t) \/ AgentReply(t)
             \/ LookupForMetadata(t) \/ LookupForTeardown(t) \/ KillProcess(t) \/ ReapProcess(t)
    <3>1. UNCHANGED cgVars
      BY Zenon, <2>6 DEF NewCall, create_sandbox, execute_code, terminate_sandbox, get_metadata,
           terminate_all, Call, LookupForCreate, SendPut, apply_ebpf_policies, Register,
           LookupForExecute, SendToAgent, AgentReply, LookupForMetadata, LookupForTeardown,
           KillProcess, ReapProcess
    <3> QED
      BY Zenon, <3>1
  <2> QED
    BY Zenon, <1>1, <2>1, <2>2, <2>4, <2>5, <2>6 DEF ManagerStep
<1>2. ASSUME NEW p \in Pids, ProcessBinds(p) \/ ProcessExits(p) PROVE [CgNext]_cgVars
  BY Zenon, <1>2 DEF ProcessBinds, ProcessExits, CgNext
<1> QED
  BY Zenon, <1>1, <1>2 DEF Next, vars

(* Seen from the cgroup manager, the sandbox manager is one of its         *)
(* callers: create_sandbox, its error exits, the teardowns and the         *)
(* processes that exit take only steps of CgNext.                          *)
THEOREM ManagerImplementsCgroupCalls == Spec => CgSpec
<1>1. Init => CgInit
  BY Zenon DEF Init
<1>2. ManagerInv /\ [Next]_vars => [CgNext]_cgVars
  BY Zenon, CgroupStep
<1> QED
  BY <1>1, <1>2, ManagerInvariant, PTL DEF Spec, CgSpec

(* So in the whole manager the cgroup id that apply_ebpf_policies marks    *)
(* is that of the sandbox's own directory, and no descriptor leaks.        *)
THEOREM CgroupsOfTheManager == Spec => [](EntryNamesItsDirectory /\ NoDescriptorLeak)
BY ManagerImplementsCgroupCalls, CgroupManagerCorrect, NoLeakedDescriptor, PTL

-----------------------------------------------------------------------------
(* Every step of a call ends it or goes forward. *)
Forward ==
  \A t \in Threads :
    \/ UNCHANGED <<pc[t], frame[t]>>
    \/ pc[t] = "idle" /\ m_mutex = None /\ m_mutex' = t
    \/ /\ m_mutex = t
       /\ \/ pc'[t] = "idle" /\ m_mutex' = None
          \/ /\ m_mutex' = t /\ frame'[t].op = frame[t].op
             /\ \/ StepRank(pc'[t]) > StepRank(pc[t])
                \/ /\ pc[t] = "release" /\ pc'[t] = "kill"
                   /\ frame[t].op = "terminate_all"
                   /\ frame'[t].todo \subseteq frame[t].todo
                   /\ frame'[t].todo # frame[t].todo

LEMMA Ranks ==
  /\ StepRank("lookup") = 1 /\ StepRank("relock") = 13
  /\ StepRank("cgroup") = 2 /\ StepRank("tap") = 3 /\ StepRank("spawn") = 4
  /\ StepRank("poll") = 5 /\ StepRank("attach") = 6 /\ StepRank("boot-source") = 7
  /\ StepRank("drives") = 8 /\ StepRank("machine-config") = 9 /\ StepRank("actions") = 10
  /\ StepRank("snapshot") = 10 /\ StepRank("apply") = 11 /\ StepRank("register") = 12
  /\ StepRank("agent") = 2 /\ StepRank("reply") = 3
  /\ StepRank("kill") = 2 /\ StepRank("reap") = 3 /\ StepRank("release") = 4
BY DEF StepRank

LEMMA LeaveForward ==
  ASSUME ManagerInv, NEW t \in Threads, pc[t] # "idle", Leave(t)
  PROVE  Forward
<1>1. m_mutex = t
  BY Zenon, HolderFacts DEF ManagerInv
<1>2. pc'[t] = "idle" /\ m_mutex' = None
  BY Zenon DEF Leave, ManagerInv, TypeOK
<1>3. \A u \in Threads \ {t} : pc'[u] = pc[u] /\ frame'[u] = frame[u]
  BY Zenon DEF Leave, ManagerInv, TypeOK
<1> QED
  BY Zenon, <1>1, <1>2, <1>3 DEF Forward

LEMMA GotoForward ==
  ASSUME ManagerInv, NEW t \in Threads, pc[t] # "idle", NEW step, Goto(t, step),
         \A u \in Threads \ {t} : frame'[u] = frame[u], frame'[t].op = frame[t].op,
         \/ StepRank(step) > StepRank(pc[t])
         \/ /\ pc[t] = "release" /\ step = "kill" /\ frame[t].op = "terminate_all"
            /\ frame'[t].todo \subseteq frame[t].todo /\ frame'[t].todo # frame[t].todo
  PROVE  Forward
<1>1. m_mutex = t /\ m_mutex' = t
  BY Zenon, HolderFacts DEF ManagerInv, Goto
<1>2. pc'[t] = step /\ \A u \in Threads \ {t} : pc'[u] = pc[u]
  BY Zenon DEF Goto, ManagerInv, TypeOK
<1>3. \A u \in Threads \ {t} : UNCHANGED <<pc[u], frame[u]>>
  BY Zenon, <1>2
<1> QED
  BY Zenon, <1>1, <1>2, <1>3 DEF Forward

(* The same for the steps that leave the locals alone. *)
LEMMA SameFrameForward ==
  ASSUME ManagerInv, NEW t \in Threads, pc[t] # "idle", NEW step, Goto(t, step),
         UNCHANGED frame, StepRank(step) > StepRank(pc[t])
  PROVE  Forward
BY Zenon, GotoForward

LEMMA CreateForward ==
  ASSUME ManagerInv, NEW t \in Threads,
         \/ LookupForCreate(t) \/ CreateCgroup(t) \/ setup_tap_interface(t)
         \/ PollSocket(t) \/ AttachPid(t) \/ apply_ebpf_policies(t) \/ Register(t)
  PROVE  Forward
<1>1. /\ pc[t] \in {"lookup", "cgroup", "tap", "poll", "attach", "apply", "register"}
      /\ \/ Leave(t)
         \/ /\ UNCHANGED frame
            /\ \/ pc[t] = "lookup" /\ Goto(t, "cgroup")
               \/ pc[t] = "cgroup" /\ Goto(t, "tap")
               \/ pc[t] = "tap" /\ Goto(t, "spawn")
               \/ pc[t] = "poll" /\ Goto(t, "attach")
               \/ pc[t] = "attach" /\ (Goto(t, "snapshot") \/ Goto(t, "boot-source"))
               \/ pc[t] = "apply" /\ (Goto(t, "relock") \/ Goto(t, "register"))
  BY Zenon DEF LookupForCreate, CreateCgroup, setup_tap_interface, PollSocket, AttachPid,
               apply_ebpf_policies, Register, Unwind, Return, Throw
<1>2. /\ StepRank("cgroup") > StepRank("lookup") /\ StepRank("tap") > StepRank("cgroup")
      /\ StepRank("spawn") > StepRank("tap") /\ StepRank("attach") > StepRank("poll")
      /\ StepRank("snapshot") > StepRank("attach") /\ StepRank("boot-source") > StepRank("attach")
      /\ StepRank("relock") > StepRank("apply") /\ StepRank("register") > StepRank("apply")
  BY Ranks
<1> QED
  BY Zenon, <1>1, <1>2, LeaveForward, SameFrameForward

LEMMA SpawnForward ==
  ASSUME ManagerInv, NEW t \in Threads, spawn_firecracker_process(t)
  PROVE  Forward
<1>1. CASE Unwind(t, {TapName[frame[t].id]}) \/ Throw(t)
  BY Zenon, <1>1, LeaveForward DEF spawn_firecracker_process, Unwind, Return, Throw
<1>2. ASSUME NEW p \in Pids, frame' = [frame EXCEPT ![t].pid = p], Goto(t, "poll")
      PROVE  Forward
  <2>1. frame'[t].op = frame[t].op /\ \A u \in Threads \ {t} : frame'[u] = frame[u]
    BY ZenonT(30), <1>2 DEF ManagerInv, TypeOK, Frames
  <2>2. StepRank("poll") > StepRank("spawn")
    BY Ranks
  <2> QED
    BY Zenon, <1>2, <2>1, <2>2, GotoForward DEF spawn_firecracker_process
<1> QED
  BY Zenon, <1>1, <1>2 DEF spawn_firecracker_process

LEMMA SendPutForward ==
  ASSUME ManagerInv, NEW t \in Threads, SendPut(t)
  PROVE  Forward
<1>1. StepRank(AfterPut(pc[t])) > StepRank(pc[t]) /\ StepRank("relock") > StepRank(pc[t])
  <2>1. CASE pc[t] = "boot-source" /\ AfterPut(pc[t]) = "drives"
    BY <2>1, Ranks
  <2>2. CASE pc[t] = "drives" /\ AfterPut(pc[t]) = "machine-config"
    BY <2>2, Ranks
  <2>3. CASE pc[t] = "machine-config" /\ AfterPut(pc[t]) = "actions"
    BY <2>3, Ranks
  <2>4. CASE pc[t] \in {"actions", "snapshot"} /\ AfterPut(pc[t]) = "apply"
    BY <2>4, Ranks
  <2> QED
    BY Zenon, <2>1, <2>2, <2>3, <2>4 DEF SendPut, PutSteps, AfterPut
<1> QED
  BY Zenon, <1>1, SameFrameForward DEF SendPut, PutSteps

LEMMA OtherCallsForward ==
  ASSUME ManagerInv, NEW t \in Threads,
         LookupForExecute(t) \/ SendToAgent(t) \/ AgentReply(t) \/ LookupForMetadata(t)
  PROVE  Forward
<1>1. StepRank("agent") > StepRank("lookup") /\ StepRank("reply") > StepRank("agent")
  BY Ranks
<1> QED
  BY Zenon, <1>1, LeaveForward, SameFrameForward
     DEF Return, LookupForExecute, SendToAgent, AgentReply, LookupForMetadata

(* A teardown ends, goes forward, or starts over without the entry it has  *)
(* just released.                                                          *)
LEMMA TeardownForward ==
  ASSUME ManagerInv, NEW t \in Threads,
         LookupForTeardown(t) \/ KillProcess(t) \/ ReapProcess(t) \/ ReleaseSandbox(t)
  PROVE  Forward
<1>0. /\ StepRank("kill") > StepRank("lookup") /\ StepRank("reap") > StepRank("kill")
      /\ StepRank("release") > StepRank("reap")
  BY Ranks
<1>1. ASSUME LookupForTeardown(t) PROVE Forward
  <2>1. CASE Return(t)
    BY Zenon, <1>1, <2>1, LeaveForward DEF LookupForTeardown, Return
  <2>2. ASSUME NEW found, frame' = [frame EXCEPT ![t].todo = found], Goto(t, "kill")
        PROVE  Forward
    <3>1. frame'[t].op = frame[t].op /\ \A u \in Threads \ {t} : frame'[u] = frame[u]
      BY ZenonT(30), <2>2 DEF ManagerInv, TypeOK, Frames
    <3> QED
      BY Zenon, <1>0, <1>1, <2>2, <3>1, GotoForward DEF LookupForTeardown
  <2> QED
    BY Zenon, <1>1, <2>1, <2>2 DEF LookupForTeardown
<1>2. ASSUME KillProcess(t) PROVE Forward
  <2>1. PICK e \in frame[t].todo : frame' = [frame EXCEPT ![t].id = e.id, ![t].pid = e.pid]
    BY Zenon, <1>2 DEF KillProcess
  <2>2. frame' = [frame EXCEPT ![t] = [frame[t] EXCEPT !.id = e.id, !.pid = e.pid]]
    BY <2>1 DEF ManagerInv, TypeOK
  <2>3. /\ frame[t] \in Frames /\ frame'[t] = [frame[t] EXCEPT !.id = e.id, !.pid = e.pid]
        /\ \A u \in Threads \ {t} : frame'[u] = frame[u]
    BY Zenon, <2>2 DEF ManagerInv, TypeOK
  <2>4. frame'[t].op = frame[t].op
    BY Zenon, <2>3 DEF Frames
  <2> QED
    BY Zenon, <1>0, <1>2, <2>3, <2>4, GotoForward DEF KillProcess
<1>3. ASSUME ReapProcess(t) PROVE Forward
  BY Zenon, <1>0, <1>3, SameFrameForward DEF ReapProcess
<1>4. ASSUME ReleaseSandbox(t) PROVE Forward
  <2> DEFINE left == {s \in frame[t].todo : s.id # frame[t].id}
  <2>0. pc[t] = "release" /\ "release" \in TeardownSteps
    BY Zenon, <1>4 DEF ReleaseSandbox, TeardownSteps
  <2>1. CASE Return(t)
    BY Zenon, <2>0, <2>1, LeaveForward DEF Return
  <2>2. CASE left # {} /\ Goto(t, "kill") /\ frame' = [frame EXCEPT ![t].todo = left]
    <3>1. frame'[t].op = frame[t].op /\ frame'[t].todo = left
          /\ \A u \in Threads \ {t} : frame'[u] = frame[u]
      BY ZenonT(30), <2>2 DEF ManagerInv, TypeOK, Frames
    <3>2. /\ CurStep = "release" /\ CurFrame = frame[t]
          /\ frame[t].op \in {"terminate", "terminate_all"}
          /\ frame[t].op = "terminate" => \A s \in frame[t].todo : s.id = frame[t].id
      BY Zenon, <2>0, TeardownFacts
    <3>3. PICK e \in frame[t].todo : e.id = frame[t].id
      BY Zenon, <3>2 DEF ManagerInv, FrameInv
    <3>4. left \subseteq frame[t].todo /\ left # frame[t].todo /\ frame[t].op = "terminate_all"
      BY Zenon, <2>2, <3>2, <3>3
    <3> QED
      BY Zenon, <2>0, <2>2, <3>1, <3>4, GotoForward
  <2> QED
    BY Zenon, <1>4, <2>1, <2>2 DEF ReleaseSandbox
<1> QED
  BY Zenon, <1>1, <1>2, <1>3, <1>4

LEMMA NewCallForward ==
  ASSUME ManagerInv, NEW t \in Threads, NewCall(t)
  PROVE  Forward
<1>1. /\ pc[t] = "idle" /\ m_mutex = None /\ m_mutex' = t
      /\ \A u \in Threads \ {t} : pc'[u] = pc[u] /\ frame'[u] = frame[u]
  BY Zenon DEF NewCall, create_sandbox, execute_code, terminate_sandbox, get_metadata,
               terminate_all, Call, Lock, ManagerInv, TypeOK
<1> QED
  BY Zenon, <1>1 DEF Forward

LEMMA NextForward ==
  ASSUME ManagerInv, [Next]_vars
  PROVE  Forward
<1>1. ASSUME NEW t \in Threads, NewCall(t) \/ ManagerStep(t) \/ SendPut(t) \/ AgentReply(t)
      PROVE  Forward
  BY Zenon, <1>1, NewCallForward, CreateForward, SpawnForward, SendPutForward,
     OtherCallsForward, TeardownForward DEF ManagerStep
<1>2. ASSUME UNCHANGED mgrVars PROVE Forward
  BY Zenon, <1>2 DEF Forward, mgrVars
<1> QED
  BY Zenon, <1>1, <1>2 DEF Next, ProcessBinds, ProcessExits, vars

(* No call loops, for any number of threads and sandboxes: with the        *)
(* fairness of FairSpec, a call that does not get stuck on its own mutex   *)
(* or on a silent guest runs out of steps to take.                         *)
THEOREM NoCallLoops == Spec => CallsGoForward
<1>1. ManagerInv /\ [Next]_vars => [Forward]_vars
  BY Zenon, NextForward
<1> QED
  BY <1>1, ManagerInvariant, PTL DEF Spec, CallsGoForward, Forward

-----------------------------------------------------------------------------
(* The marks in the monitored map.  While terminate_all has not been       *)
(* called, every mark is in the map of the current object, so that a       *)
(* teardown reaches it, and is the one of an entry, or of the sandbox that *)
(* create_sandbox has marked and is about to register.                     *)
MarkInv ==
  ~swept =>
    /\ CurFrame.op # "terminate_all"
    /\ \A o \in Loads, c \in CgroupIds :
         monitored[o][c] = "on" =>
           /\ o = m_bpf_obj /\ HasLoader /\ CurrentFile \in MonitoredMapFiles
           /\ \/ \E s \in m_sandboxes : m_cgroups[s.id] = c
              \/ CurStep = "register" /\ m_cgroups[CurFrame.id] = c

(* What is written for one cgroup marks no other, and a mark in the        *)
(* current object is taken back.                                           *)
LEMMA MarksWritten ==
  ASSUME EbTypeOK, NEW o \in Loads, NEW c \in CgroupIds, NEW d \in CgroupIds,
         NEW on \in BOOLEAN, monitored' = MonitoredAfter(c, on), monitored'[o][d] = "on"
  PROVE  /\ \/ monitored[o][d] = "on"
            \/ on /\ o = m_bpf_obj /\ d = c /\ CurrentFile \in MonitoredMapFiles
         /\ ~on /\ o = m_bpf_obj /\ CurrentFile \in MonitoredMapFiles => d # c
<1> DEFINE mark == IF on THEN "on" ELSE "off"
<1>1. CASE ~(CurrentFile \in MonitoredMapFiles /\ MapHasRoom(m_bpf_obj, c))
  <2>1. monitored' = monitored
    BY Zenon, <1>1 DEF MonitoredAfter
  <2> QED
    BY Zenon, <1>1, <2>1 DEF MapHasRoom
<1>2. CASE CurrentFile \in MonitoredMapFiles /\ MapHasRoom(m_bpf_obj, c)
  <2>1. monitored' = [monitored EXCEPT ![m_bpf_obj] = [@ EXCEPT ![c] = mark]]
    BY Zenon, <1>2 DEF MonitoredAfter
  <2>2. mark = "on" => on
    BY Zenon
  <2> HIDE DEF mark
  <2>3. monitored'[o][d] = IF o = m_bpf_obj /\ d = c THEN mark ELSE monitored[o][d]
    BY <2>1 DEF EbTypeOK
  <2>4. CASE o = m_bpf_obj /\ d = c
    BY Zenon, <1>2, <2>2, <2>3, <2>4
  <2>5. CASE ~(o = m_bpf_obj /\ d = c)
    BY Zenon, <2>3, <2>5
  <2> QED
    BY Zenon, <2>4, <2>5
<1> QED
  BY Zenon, <1>1, <1>2

(* Only the call that sets it finds swept set. *)
LEMMA SweepFacts ==
  ASSUME ManagerInv, ManagerInv', MarkInv, [Next]_vars, ~swept'
  PROVE  ~swept /\ CurFrame'.op # "terminate_all"
<1>1. ASSUME NEW t \in Threads, NewCall(t) PROVE ~swept /\ CurFrame'.op # "terminate_all"
  <2>1. PICK op, id, policy : Call(t, op, id, policy)
    BY Zenon, <1>1 DEF NewCall, create_sandbox, execute_code, terminate_sandbox, get_metadata,
                       terminate_all
  <2>2. ~swept /\ op # "terminate_all" /\ m_mutex' = t /\ t # None
    BY Zenon, <2>1, ManagerAssumption DEF Call, Lock
  <2>3. frame'[t] = [NoFrame EXCEPT !.op = op, !.id = id, !.policy = policy]
    BY Zenon, <2>1 DEF Call, ManagerInv, TypeOK
  <2>4. frame'[t].op = op
    BY <2>3 DEF NoFrame
  <2> QED
    BY Zenon, <2>2, <2>4 DEF CurFrame
<1>2. CASE ~\E t \in Threads : NewCall(t)
  <2>1. swept' = swept /\ m_mutex' \in {m_mutex, None}
    BY ZenonT(60), <1>2 DEF Next, vars, mgrVars, ManagerStep, LookupForCreate, CreateCgroup, Unwind,
       setup_tap_interface, spawn_firecracker_process, PollSocket, AttachPid, SendPut, Throw,
       apply_ebpf_policies, Register, LookupForExecute, SendToAgent, AgentReply, LookupForMetadata,
       LookupForTeardown, KillProcess, ReapProcess, ReleaseSandbox, Goto, Return, Leave,
       ProcessBinds, ProcessExits
  <2>2. CASE m_mutex' = None
    BY Zenon, <2>1, <2>2 DEF CurFrame, NoFrame
  <2>3. ASSUME NEW t \in Threads, m_mutex' = t PROVE CurFrame'.op # "terminate_all"
    <3>1. t # None /\ pc'[t] # "idle" /\ CurFrame' = frame'[t]
      BY Zenon, <2>3, ManagerAssumption DEF ManagerInv, LockInv, CurFrame
    <3>2. m_mutex = t
      BY Zenon, <2>1, <2>3, <3>1
    <3>3. frame'[t].op = frame[t].op
      BY Zenon, <3>1, <3>2, NextForward DEF Forward
    <3> QED
      BY Zenon, <2>1, <3>1, <3>2, <3>3 DEF MarkInv, CurFrame
  <2> QED
    BY Zenon, <2>1, <2>2, <2>3 DEF ManagerInv, TypeOK
<1> QED
  BY Zenon, <1>1, <1>2

(* A step that writes no mark, changes no entry and takes no cgroup from   *)
(* one, and comes before the policies are applied or after the insert.     *)
LEMMA MarksKept ==
  ASSUME MarkInv, UNCHANGED <<objVars, monitored, m_sandboxes>>,
         \A s \in m_sandboxes : m_cgroups'[s.id] = m_cgroups[s.id],
         CurStep # "register" \/ UNCHANGED <<CurStep, CurFrame, m_cgroups>>,
         ~swept' => ~swept /\ CurFrame'.op # "terminate_all"
  PROVE  MarkInv'
<1>1. CurrentFile' = CurrentFile /\ m_bpf_obj' = m_bpf_obj
  BY Zenon DEF objVars, CurrentFile
<1> QED
  BY ZenonT(30), <1>1 DEF MarkInv

LEMMA ApplyMarks ==
  ASSUME ManagerInv, MarkInv, NEW t \in Threads, apply_ebpf_policies(t),
         ~swept' => ~swept /\ CurFrame'.op # "terminate_all"
  PROVE  MarkInv'
<1> DEFINE c == m_cgroups[frame[t].id]
<1>1. /\ pc[t] = "apply" /\ "apply" \in DirSteps /\ "apply" \in CgroupSteps
      /\ {"register", "relock"} \subseteq Steps \ {"idle"}
  BY Zenon, PidStepsFact DEF apply_ebpf_policies, Steps, CreateSteps, DirSteps, CgroupSteps
<1>2. frame[t].id \in Ids /\ CurStep = "apply" /\ CurFrame = frame[t]
  BY Zenon, <1>1, CreatingFacts
<1>3. c \in CgroupIds /\ c # 0
  BY Zenon, <1>1, <1>2 DEF Owned, Held, ManagerInv, Accounting, TypeOK, CgTypeOK
<1>4. UNCHANGED <<frame, m_cgroups, m_sandboxes, m_bpf_obj, CurrentFile>>
  BY Zenon DEF apply_ebpf_policies, Goto, cgVars, objVars, CurrentFile
<1>5. CASE ~(HasLoader /\ HasEngine)
  <2>1. UNCHANGED <<objVars, monitored, m_sandboxes, m_cgroups>>
    BY Zenon, <1>4, <1>5 DEF apply_ebpf_policies
  <2> QED
    BY Zenon, <1>2, <2>1, MarksKept
<1>6. CASE HasLoader /\ HasEngine
  <2>1. monitored' = MonitoredAfter(c, TRUE) /\ Goto(t, "register")
    BY Zenon, <1>3, <1>6 DEF apply_ebpf_policies, get_cgroup_id
  <2>2. CurStep' = "register" /\ CurFrame' = frame[t]
    BY Zenon, <1>1, <1>4, <2>1, GotoFacts DEF ManagerInv, TypeOK
  <2>3. PICK k \in CgroupIds : k = c
    BY Zenon, <1>3
  <2> HIDE DEF c
  <2>4. ASSUME NEW o \in Loads, NEW d \in CgroupIds, monitored'[o][d] = "on"
        PROVE  \/ monitored[o][d] = "on"
               \/ o = m_bpf_obj /\ d = c /\ CurrentFile \in MonitoredMapFiles
    BY Zenon, <2>1, <2>3, <2>4, MarksWritten DEF ManagerInv, TypeOK
  <2>5. c = m_cgroups[frame[t].id]
    BY DEF c
  <2> QED
    BY ZenonT(30), <1>2, <1>4, <1>6, <2>2, <2>4, <2>5 DEF MarkInv
<1> QED
  BY Zenon, <1>5, <1>6

LEMMA RegisterMarks ==
  ASSUME ManagerInv, MarkInv, NEW t \in Threads, Register(t),
         ~swept' => ~swept /\ CurFrame'.op # "terminate_all"
  PROVE  MarkInv'
<1>1. pc[t] = "register" /\ "register" \in DirSteps
  BY Zenon DEF Register, DirSteps, CreateSteps
<1>2. /\ CurStep = "register" /\ CurFrame = frame[t]
      /\ \A s \in m_sandboxes : s.id # frame[t].id
  BY Zenon, <1>1, CreatingFacts
<1>3. /\ m_sandboxes \subseteq m_sandboxes' /\ NewInstance(frame[t]) \in m_sandboxes'
      /\ NewInstance(frame[t]).id = frame[t].id
  BY Zenon, <1>2 DEF Register, NewInstance
<1>4. UNCHANGED <<m_cgroups, m_bpf_obj, monitored, CurrentFile>>
  BY Zenon DEF Register, cgVars, ebVars, objVars, mapVars, CurrentFile
<1> QED
  BY ZenonT(30), <1>2, <1>3, <1>4 DEF MarkInv

(* terminate_sandbox takes the mark back before the inode is free.         *)
LEMMA ReleaseMarks ==
  ASSUME ManagerInv, EnforceInv, MarkInv, NEW t \in Threads, ReleaseSandbox(t),
         ~swept' => ~swept /\ CurFrame'.op # "terminate_all"
  PROVE  MarkInv'
<1> DEFINE f == frame[t]
<1>1. pc[t] = "release" /\ "release" \in TeardownSteps
  BY Zenon DEF ReleaseSandbox, TeardownSteps
<1>2. /\ CurStep = "release" /\ CurFrame = f /\ f.op \in {"terminate", "terminate_all"}
      /\ f.todo \subseteq m_sandboxes
  BY Zenon, <1>1, TeardownFacts
<1>3. f.id \in Ids /\ \A s \in m_sandboxes : s.id \in Ids
  BY Zenon, <1>2 DEF ManagerInv, TypeOK, Instances, FrameInv
<1>4. \A i \in Ids : i # f.id => m_cgroups'[i] = m_cgroups[i]
  BY Zenon, <1>3, DestroyedCgroup DEF ReleaseSandbox
<1>5. UNCHANGED <<m_bpf_obj, CurrentFile>> /\ monitored' = MonitoredAfterTeardown(t)
  BY Zenon DEF ReleaseSandbox, objVars, CurrentFile
<1> SUFFICES ASSUME ~swept', NEW o \in Loads, NEW d \in CgroupIds, monitored'[o][d] = "on"
             PROVE  /\ o = m_bpf_obj' /\ HasLoader /\ CurrentFile' \in MonitoredMapFiles
                    /\ \E s \in m_sandboxes' : m_cgroups'[s.id] = d
  BY Zenon DEF MarkInv
<1>6. ~swept /\ f.op = "terminate" /\ m_cgroups[f.id] # 0
  <2>1. ~swept /\ f.op = "terminate"
    BY Zenon, <1>2 DEF MarkInv
  <2>2. f.id \in Owned(CgroupSteps)
    BY Zenon, <1>1, <1>2, <2>1, TeardownFacts DEF ManagerInv, FrameInv, Owned
  <2> QED
    BY Zenon, <2>1, <2>2 DEF ManagerInv, Accounting, Held
<1>7. monitored[o][d] = "on"
      /\ (HasLoader /\ o = m_bpf_obj /\ CurrentFile \in MonitoredMapFiles => d # m_cgroups[f.id])
  <2>1. CASE HasLoader
    <3>1. PICK c \in CgroupIds : c = m_cgroups[f.id]
      BY Zenon, <1>3, <1>6 DEF ManagerInv, TypeOK, CgTypeOK
    <3>2. monitored' = MonitoredAfter(c, FALSE)
      BY Zenon, <1>5, <1>6, <2>1, <3>1 DEF MonitoredAfterTeardown, get_cgroup_id
    <3> QED
      BY Zenon, <3>1, <3>2, MarksWritten DEF ManagerInv, TypeOK
  <2>2. CASE ~HasLoader
    BY Zenon, <1>5, <2>2 DEF MonitoredAfterTeardown
  <2> QED
    BY Zenon, <2>1, <2>2
<1>8. PICK s \in m_sandboxes :
        /\ m_cgroups[s.id] = d
        /\ o = m_bpf_obj /\ HasLoader /\ CurrentFile \in MonitoredMapFiles
  BY Zenon, <1>2, <1>6, <1>7 DEF MarkInv
<1>9. s.id # f.id
  BY Zenon, <1>7, <1>8
<1>10. s \in m_sandboxes'
  BY Zenon, <1>6, <1>9 DEF ReleaseSandbox, MapAfterTeardown, Goto
<1> QED
  BY Zenon, <1>3, <1>4, <1>5, <1>8, <1>9, <1>10

(* The other steps of a thread that holds m_mutex. *)
LEMMA OtherStepsMarks ==
  ASSUME ManagerInv, Spared, MarkInv, NEW t \in Threads,
         \/ LookupForCreate(t) \/ CreateCgroup(t) \/ setup_tap_interface(t)
         \/ spawn_firecracker_process(t) \/ PollSocket(t) \/ AttachPid(t) \/ SendPut(t)
         \/ LookupForExecute(t) \/ SendToAgent(t) \/ AgentReply(t) \/ LookupForMetadata(t)
         \/ LookupForTeardown(t) \/ KillProcess(t) \/ ReapProcess(t),
         ~swept' => ~swept /\ CurFrame'.op # "terminate_all"
  PROVE  MarkInv'
<1>1. UNCHANGED ebVars /\ UNCHANGED m_sandboxes
  BY ZenonT(60) DEF LookupForCreate, CreateCgroup, setup_tap_interface, spawn_firecracker_process,
     PollSocket, AttachPid, SendPut, LookupForExecute, SendToAgent, AgentReply, LookupForMetadata,
     LookupForTeardown, KillProcess, ReapProcess, Unwind, Throw, Goto
<1>2. pc[t] # "register" /\ pc[t] # "idle"
  BY Zenon DEF LookupForCreate, CreateCgroup, setup_tap_interface, spawn_firecracker_process,
     PollSocket, AttachPid, SendPut, LookupForExecute, SendToAgent, AgentReply, LookupForMetadata,
     LookupForTeardown, KillProcess, ReapProcess, PutSteps
<1>3. m_mutex = t /\ CurStep = pc[t]
  BY Zenon, <1>2, HolderFacts DEF ManagerInv
<1>4. UNCHANGED m_cgroups \/ pc[t] \notin TeardownSteps
  BY Zenon DEF LookupForCreate, CreateCgroup, setup_tap_interface, spawn_firecracker_process,
     PollSocket, AttachPid, SendPut, LookupForExecute, SendToAgent, AgentReply, LookupForMetadata,
     LookupForTeardown, KillProcess, ReapProcess, PutSteps, TeardownSteps, cgVars
<1>5. pc[t] \notin TeardownSteps => \A s \in m_sandboxes : ~Targeted(s)
  BY Zenon, <1>3 DEF Targeted, TeardownSteps, ManagerInv, LockInv
<1>6. \A s \in m_sandboxes : m_cgroups'[s.id] = m_cgroups[s.id]
  BY Zenon, <1>4, <1>5 DEF Spared
<1> QED
  BY Zenon, <1>1, <1>2, <1>3, <1>6, MarksKept DEF ebVars, mapVars

LEMMA NewCallMarks ==
  ASSUME ManagerInv, MarkInv, NEW t \in Threads, NewCall(t),
         ~swept' => ~swept /\ CurFrame'.op # "terminate_all"
  PROVE  MarkInv'
<1>1. m_mutex = None /\ UNCHANGED <<m_sandboxes, cgVars, ebVars>>
  BY Zenon DEF NewCall, create_sandbox, execute_code, terminate_sandbox, get_metadata,
               terminate_all, Call, Lock
<1>2. CurStep # "register"
  BY Zenon, <1>1 DEF CurStep
<1> QED
  BY Zenon, <1>1, <1>2, MarksKept DEF cgVars, ebVars, mapVars

LEMMA ProcessStepsMarks ==
  ASSUME MarkInv, UNCHANGED vars \/ \E p \in Pids : ProcessBinds(p) \/ ProcessExits(p),
         ~swept' => ~swept /\ CurFrame'.op # "terminate_all"
  PROVE  MarkInv'
<1>1. UNCHANGED <<m_sandboxes, m_mutex, pc, frame, m_cgroups, objVars, monitored>>
  BY Zenon DEF vars, ProcessBinds, ProcessExits, LeaveCgroup, mgrVars, ebVars, mapVars, cgVars
<1>2. UNCHANGED <<CurStep, CurFrame, m_cgroups>>
  BY Zenon, <1>1 DEF CurStep, CurFrame
<1> QED
  BY Zenon, <1>1, <1>2, MarksKept

(* Until terminate_all is called, no mark of the monitored map survives    *)
(* the sandbox it was set for, for any number of threads, sandboxes,       *)
(* cgroups and policies, any size of the map and whatever object, if any,  *)
(* the loader was given.                                                   *)
THEOREM MarksBelongToEntries == Spec => []MarksFollowMap
<1>1. Init => MarkInv
  <2> SUFFICES ASSUME Init PROVE MarkInv
    OBVIOUS
  <2>1. CurFrame.op = "none"
    BY Zenon DEF Init, CurFrame, NoFrame
  <2>2. \A o \in Loads, c \in CgroupIds : monitored[o][c] # "on"
    BY DEF Init, LoaderInit, EmptyMaps
  <2> QED
    BY Zenon, <2>1, <2>2 DEF MarkInv
<1>2. ManagerInv /\ ManagerInv' /\ SocketOwn /\ EnforceInv /\ MarkInv /\ [Next]_vars => MarkInv'
  <2> SUFFICES ASSUME ManagerInv, ManagerInv', SocketOwn, EnforceInv, MarkInv, [Next]_vars
               PROVE  MarkInv'
    OBVIOUS
  <2>1. Spared /\ (~swept' => ~swept /\ CurFrame'.op # "terminate_all")
    BY Zenon, NextSpared, SweepFacts
  <2>2. ASSUME NEW t \in Threads, NewCall(t) \/ ManagerStep(t) \/ SendPut(t) \/ AgentReply(t)
        PROVE  MarkInv'
    BY Zenon, <2>1, <2>2, NewCallMarks, ApplyMarks, RegisterMarks, ReleaseMarks, OtherStepsMarks
       DEF ManagerStep
  <2> QED
    BY Zenon, <2>1, <2>2, ProcessStepsMarks DEF Next
<1>3. MarkInv => MarksFollowMap
  BY Zenon DEF MarkInv, MarksFollowMap, CurStep
<1> QED
  BY <1>1, <1>2, <1>3, ManagerInvariant, SocketInvariant, EnforceInvariant, PTL DEF Spec
=============================================================================
