------------------------ MODULE SandboxManagerProofs ------------------------
(***************************************************************************)
(* Proofs about the sandbox manager, for any number of threads, sandboxes, *)
(* processes and cgroups, with TAP names that may collide and with or      *)
(* without a loader: ManagerInv is inductive, and it implies the manager's *)
(* safety properties.                                                      *)
(***************************************************************************)
EXTENDS SandboxManagerInvariant, CgroupManagerProofs, EbpfLoaderProofs

-----------------------------------------------------------------------------
(* m_mutex and the control state. *)

(* The thread that is inside a call is the one that holds m_mutex. *)
LEMMA HolderFacts ==
  ASSUME TypeOK, LockInv, NEW t \in Threads, pc[t] # "idle"
  PROVE  m_mutex = t /\ CurStep = pc[t] /\ CurFrame = frame[t]
BY Zenon, ManagerAssumption DEF TypeOK, LockInv, CurStep, CurFrame

(* A call that goes on keeps the lock. *)
LEMMA GotoFacts ==
  ASSUME TypeOK, LockInv, NEW t \in Threads, pc[t] # "idle",
         NEW step \in Steps \ {"idle"}, Goto(t, step),
         frame' \in [Threads -> Frames]
  PROVE  /\ LockInv' /\ CurStep' = step /\ CurFrame' = frame'[t]
         /\ m_sandboxes' = m_sandboxes
         /\ m_mutex' \in Threads \cup {None} /\ pc' \in [Threads -> Steps]
         /\ thrown' = thrown /\ swept' = swept
<1>1. m_mutex = t /\ m_mutex' = t /\ t # None
  BY Zenon, HolderFacts, ManagerAssumption DEF Goto
<1> QED
  BY Zenon, <1>1 DEF TypeOK, LockInv, CurStep, CurFrame, Goto

LEMMA NoFrameType == NoFrame \in Frames
BY Zenon DEF NoFrame, Frames

(* A call that returns, or is left by an exception, releases it. *)
LEMMA LeaveFacts ==
  ASSUME TypeOK, LockInv, NEW t \in Threads, pc[t] # "idle", Leave(t)
  PROVE  /\ LockInv' /\ CurStep' = "idle" /\ CurFrame' = NoFrame
         /\ frame' \in [Threads -> Frames]
         /\ m_mutex' \in Threads \cup {None} /\ pc' \in [Threads -> Steps]
         /\ swept' = swept
<1>1. m_mutex = t
  BY Zenon, HolderFacts
<1>2. frame' \in [Threads -> Frames]
  BY Zenon, NoFrameType DEF TypeOK, Leave
<1>3. pc' \in [Threads -> Steps]
  BY Zenon DEF TypeOK, Leave, Steps
<1> QED
  BY Zenon, <1>1, <1>2, <1>3, ManagerAssumption DEF TypeOK, LockInv, CurStep, CurFrame, Leave

LEMMA ReturnFacts ==
  ASSUME TypeOK, LockInv, NEW t \in Threads, pc[t] # "idle", Return(t)
  PROVE  /\ LockInv' /\ CurStep' = "idle" /\ CurFrame' = NoFrame
         /\ frame' \in [Threads -> Frames]
         /\ m_mutex' \in Threads \cup {None} /\ pc' \in [Threads -> Steps]
         /\ thrown' = thrown /\ swept' = swept
BY Zenon, LeaveFacts DEF Return

(* Nothing changes hands when the sandboxes that own something are the     *)
(* same after the step.                                                    *)
LEMMA AccountingKept ==
  ASSUME Accounting, \A S \in {CgroupSteps, TapSteps, BoundSteps} : Owned(S)' = Owned(S),
         UNCHANGED <<thrown, sbx_dirs, m_cgroups, tap_fds>>
  PROVE  Accounting'
BY Zenon DEF Accounting, Held

-----------------------------------------------------------------------------
(* Steps in which the call in progress holds no resource. *)

(* Such a step, by which no resource, process or entry changes, keeps the  *)
(* invariant whatever it does to the locals.                               *)
LEMMA QuietStep ==
  ASSUME ManagerInv,
         CurStep \in {"idle", "lookup", "agent", "reply"},
         CurStep' \in {"idle", "lookup", "agent", "reply"},
         UNCHANGED <<m_sandboxes, thrown, fcVars, cgVars>>
  PROVE  Accounting' /\ EntryInv' /\ ProcessInv' /\ RunningInv' /\ SocketInv'
<1> USE DEF ManagerInv
<1>1. /\ CurStep \notin DirSteps /\ CurStep' \notin DirSteps
      /\ CurStep \notin TeardownSteps /\ CurStep' \notin TeardownSteps
  BY Zenon DEF DirSteps, CreateSteps, PutSteps, TeardownSteps
<1>2. Kept' = Kept /\ Kept = m_sandboxes
  BY Zenon, <1>1 DEF Kept
<1>3. \A S \in {DirSteps, CgroupSteps, TapSteps, BoundSteps} : Owned(S)' = Owned(S)
  BY Zenon, <1>1, <1>2 DEF Owned, CgroupSteps, TapSteps, PidSteps, BoundSteps
<1>4. Accounting'
  BY Zenon, <1>3, AccountingKept DEF fcVars, cgVars
<1>5. EntryInv' /\ SocketInv'
  BY Zenon, <1>1, <1>2 DEF EntryInv, SocketInv, fcVars, TeardownSteps
<1>6. ProcessInv'
  BY Zenon, <1>1 DEF ProcessInv, Alive, fcVars, PidSteps, TapSteps, CgroupSteps, DirSteps, CreateSteps
<1>7. RunningInv'
  BY Zenon, <1>1, <1>2 DEF RunningInv, fcVars, StartedSteps, DirSteps, CreateSteps
<1> QED
  BY Zenon, <1>4, <1>5, <1>6, <1>7

(* The other components' types when a step leaves them alone. *)
LEMMA UnchangedTypes ==
  ASSUME TypeOK
  PROVE  /\ UNCHANGED fcVars => FcTypeOK'
         /\ UNCHANGED cgVars => CgTypeOK'
         /\ UNCHANGED ebVars => EbTypeOK'
BY Zenon DEF TypeOK, FcTypeOK, CgTypeOK, EbTypeOK, fcVars, cgVars, ebVars, objVars, mapVars

(* A call begins. *)
LEMMA CallInv ==
  ASSUME ManagerInv, NEW t \in Threads, NEW op \in Ops,
         NEW id \in Ids \cup {None}, NEW policy \in PolicyNames \cup {None},
         op # "terminate_all" => id \in Ids, op = "create" => policy \in PolicyNames,
         Call(t, op, id, policy)
  PROVE  ManagerInv'
<1> DEFINE new == [NoFrame EXCEPT !.op = op, !.id = id, !.policy = policy]
<1>1. /\ new \in Frames
      /\ new.op = op /\ new.id = id /\ new.policy = policy
  BY Zenon DEF NoFrame, Frames
<1>2. /\ m_mutex = None /\ m_mutex' = t /\ t # None
      /\ pc' = [pc EXCEPT ![t] = "lookup"] /\ frame' = [frame EXCEPT ![t] = new]
      /\ UNCHANGED <<m_sandboxes, thrown, fcVars, cgVars, ebVars>>
      /\ swept' \in BOOLEAN
  BY Zenon, ManagerAssumption DEF Call, Lock, ManagerInv, TypeOK
<1> HIDE DEF new
<1>3. CurStep = "idle" /\ CurStep' = "lookup" /\ CurFrame' = new
  BY Zenon, <1>2 DEF CurStep, CurFrame, ManagerInv, TypeOK
<1>4. TypeOK'
  <2>1. pc' \in [Threads -> Steps] /\ frame' \in [Threads -> Frames]
    BY Zenon, <1>1, <1>2 DEF ManagerInv, TypeOK, Steps
  <2> QED
    BY Zenon, <1>2, <2>1, UnchangedTypes DEF ManagerInv, TypeOK
<1>5. LockInv'
  BY Zenon, <1>2, ManagerAssumption DEF ManagerInv, TypeOK, LockInv
<1>6. FrameInv'
  BY Zenon, <1>1, <1>3 DEF FrameInv, DirSteps, CreateSteps, PutSteps, PidSteps, TapSteps,
                    CgroupSteps, TeardownSteps
<1> QED
  BY Zenon, <1>2, <1>3, <1>4, <1>5, <1>6, QuietStep DEF ManagerInv

LEMMA NewCallInv ==
  ASSUME ManagerInv, NEW t \in Threads, NewCall(t)
  PROVE  ManagerInv'
BY Zenon, CallInv DEF NewCall, create_sandbox, execute_code, terminate_sandbox, get_metadata,
               terminate_all, Ops

(* A call that holds nothing returns without changing anything. *)
LEMMA QuietReturn ==
  ASSUME ManagerInv, NEW t \in Threads, pc[t] \in {"lookup", "agent", "reply"}, Return(t),
         UNCHANGED <<m_sandboxes, fcVars, cgVars, ebVars>>
  PROVE  ManagerInv'
<1>1. /\ LockInv' /\ CurStep' = "idle" /\ CurFrame' = NoFrame
      /\ frame' \in [Threads -> Frames]
      /\ m_mutex' \in Threads \cup {None} /\ pc' \in [Threads -> Steps]
      /\ thrown' = thrown /\ swept' = swept
      /\ CurStep = pc[t]
  BY Zenon, ReturnFacts, HolderFacts DEF ManagerInv
<1>2. TypeOK'
  BY Zenon, <1>1, UnchangedTypes DEF ManagerInv, TypeOK
<1>3. FrameInv'
  BY Zenon, <1>1 DEF FrameInv, DirSteps, CreateSteps, PutSteps, PidSteps, TapSteps,
              CgroupSteps, TeardownSteps
<1> QED
  BY Zenon, <1>1, <1>2, <1>3, QuietStep DEF ManagerInv

(* execute_code goes on to the guest agent, and to waiting for its answer. *)
LEMMA ExecuteInv ==
  ASSUME ManagerInv, NEW t \in Threads,
         \/ LookupForExecute(t) \/ SendToAgent(t) \/ AgentReply(t) \/ LookupForMetadata(t)
  PROVE  ManagerInv'
<1>1. CASE Return(t)
  BY Zenon, <1>1, QuietReturn DEF LookupForExecute, SendToAgent, AgentReply, LookupForMetadata,
                           Goto
<1>2. ASSUME NEW step \in {"agent", "reply"}, Goto(t, step), UNCHANGED frame,
             pc[t] \in {"lookup", "agent"}, UNCHANGED <<fcVars, cgVars, ebVars>>
      PROVE  ManagerInv'
  <2>1. /\ LockInv' /\ CurStep' = step /\ m_sandboxes' = m_sandboxes
        /\ m_mutex' \in Threads \cup {None} /\ pc' \in [Threads -> Steps]
        /\ thrown' = thrown /\ swept' = swept
        /\ CurStep = pc[t]
    BY Zenon, <1>2, GotoFacts, HolderFacts DEF ManagerInv, TypeOK, Steps
  <2>2. TypeOK'
    BY Zenon, <1>2, <2>1, UnchangedTypes DEF ManagerInv, TypeOK
  <2>3. FrameInv'
    BY Zenon, <1>2, <2>1 DEF FrameInv, DirSteps, CreateSteps, PutSteps, PidSteps, TapSteps,
                CgroupSteps, TeardownSteps
  <2> QED
    BY Zenon, <1>2, <2>1, <2>2, <2>3, QuietStep DEF ManagerInv
<1> QED
  BY Zenon, <1>1, <1>2 DEF LookupForExecute, SendToAgent, AgentReply, LookupForMetadata

-----------------------------------------------------------------------------
(* create_sandbox. *)

(* While a sandbox is being created it is not in the map, and every entry  *)
(* of the map keeps its resources.                                         *)
LEMMA CreatingFacts ==
  ASSUME ManagerInv, NEW t \in Threads, pc[t] \in DirSteps
  PROVE  /\ m_mutex = t /\ CurStep = pc[t] /\ CurFrame = frame[t]
         /\ frame[t].id \in Ids /\ frame[t].policy \in PolicyNames
         /\ Kept = m_sandboxes
         /\ \A s \in m_sandboxes : s.id # frame[t].id
         /\ TapName[frame[t].id] \in Taps
<1>1. pc[t] # "idle" /\ pc[t] \notin TeardownSteps
  BY Zenon DEF DirSteps, CreateSteps, PutSteps, TeardownSteps
<1>2. m_mutex = t /\ CurStep = pc[t] /\ CurFrame = frame[t]
  BY Zenon, <1>1, HolderFacts DEF ManagerInv
<1>3. frame[t].id \in Ids /\ frame[t].policy \in PolicyNames /\ ~Registered(frame[t].id)
  BY Zenon, <1>2 DEF ManagerInv, FrameInv
<1> QED
  BY Zenon, <1>1, <1>2, <1>3, TapAssumption DEF Kept, Registered

(* The directory is made. *)
LEMMA LookupForCreateInv ==
  ASSUME ManagerInv, NEW t \in Threads, LookupForCreate(t)
  PROVE  ManagerInv'
<1> DEFINE id == frame[t].id
<1>1. CASE Return(t) /\ UNCHANGED <<m_sandboxes, fcVars, cgVars, ebVars>>
  BY Zenon, <1>1, QuietReturn DEF LookupForCreate
<1>2. ASSUME ~Registered(id), sbx_dirs' \in {sbx_dirs, sbx_dirs \cup {id}}, Goto(t, "cgroup"),
             UNCHANGED <<frame, fc_state, fc_sbx, fc_taps, tap_fds, api_socket>>,
             UNCHANGED <<cgVars, ebVars>>,
             pc[t] = "lookup", frame[t].op = "create"
      PROVE  ManagerInv'
  <2>1. /\ LockInv' /\ CurStep' = "cgroup" /\ m_sandboxes' = m_sandboxes
        /\ m_mutex' \in Threads \cup {None} /\ pc' \in [Threads -> Steps]
        /\ thrown' = thrown /\ swept' = swept
        /\ CurStep = "lookup" /\ CurFrame = frame[t] /\ CurFrame' = frame[t]
    BY Zenon, <1>2, GotoFacts, HolderFacts DEF ManagerInv, TypeOK, Steps, CreateSteps
  <2>2. id \in Ids /\ frame[t].policy \in PolicyNames
    BY Zenon, <1>2, <2>1 DEF ManagerInv, FrameInv
  <2>3. TypeOK'
    BY Zenon, <1>2, <2>1, <2>2, UnchangedTypes DEF ManagerInv, TypeOK, FcTypeOK
  <2>4. /\ "lookup" \notin DirSteps \cup TeardownSteps
        /\ "cgroup" \notin CgroupSteps \cup TeardownSteps /\ "cgroup" \in DirSteps
    BY Zenon DEF DirSteps, CreateSteps, PutSteps, TeardownSteps, CgroupSteps
  <2>5. FrameInv'
    BY Zenon, <1>2, <2>1, <2>2, <2>4 DEF FrameInv, Registered, PidSteps, TapSteps
  <2>6. Kept = m_sandboxes /\ Kept' = m_sandboxes
    BY Zenon, <2>1, <2>4 DEF Kept
  <2>7. /\ Owned(DirSteps)' = Owned(DirSteps) \cup {id}
        /\ Owned(CgroupSteps)' = Owned(CgroupSteps)
        /\ Owned(TapSteps)' = Owned(TapSteps)
        /\ Owned(BoundSteps)' = Owned(BoundSteps)
    BY Zenon, <2>1, <2>4, <2>6 DEF Owned, CgroupSteps, TapSteps, PidSteps, BoundSteps
  <2>8. Accounting'
    BY Zenon, <1>2, <2>1, <2>7 DEF ManagerInv, Accounting, Held, cgVars
  <2>9. EntryInv' /\ SocketInv'
    BY Zenon, <1>2, <2>1, <2>6 DEF ManagerInv, EntryInv, SocketInv
  <2>10. ProcessInv'
    BY Zenon, <1>2, <2>1, <2>4 DEF ManagerInv, ProcessInv, Alive, PidSteps, TapSteps
  <2>11. RunningInv'
    BY Zenon, <1>2, <2>1, <2>6 DEF ManagerInv, RunningInv, StartedSteps
  <2> QED
    BY Zenon, <2>1, <2>3, <2>5, <2>8, <2>9, <2>10, <2>11 DEF ManagerInv
<1> QED
  BY Zenon, <1>1, <1>2 DEF LookupForCreate

(* Every error exit up to the poll loop gives back exactly what the call   *)
(* has acquired.  The child it may leave behind is not running.            *)
LEMMA GiveBackInv ==
  ASSUME ManagerInv, NEW t \in Threads, pc[t] \in {"cgroup", "tap", "spawn", "poll"},
         CgTypeOK', UNCHANGED <<m_sandboxes, ebVars>>, Return(t),
         ReleaseFiles(frame[t].id,
                      IF pc[t] \in TapSteps THEN {TapName[frame[t].id]} ELSE {}),
         \A i \in Ids : m_cgroups'[i] # 0 <=>
                          m_cgroups[i] # 0 /\ (i # frame[t].id \/ i \in thrown)
  PROVE  ManagerInv'
<1> DEFINE id == frame[t].id
<1> DEFINE taps == IF pc[t] \in TapSteps THEN {TapName[id]} ELSE {}
<1>0. pc[t] \in DirSteps /\ pc[t] # "idle" /\ pc[t] \notin StartedSteps
  BY Zenon DEF DirSteps, CreateSteps, StartedSteps
<1>1. /\ CurStep = pc[t] /\ CurFrame = frame[t] /\ id \in Ids
      /\ Kept = m_sandboxes
      /\ \A s \in m_sandboxes : s.id # id
  BY Zenon, <1>0, CreatingFacts
<1>2. /\ LockInv' /\ CurStep' = "idle" /\ CurFrame' = NoFrame
      /\ frame' \in [Threads -> Frames]
      /\ m_mutex' \in Threads \cup {None} /\ pc' \in [Threads -> Steps]
      /\ thrown' = thrown /\ swept' = swept
  BY Zenon, <1>0, ReturnFacts DEF ManagerInv
<1>3. TypeOK'
  <2>1. FcTypeOK'
    BY Zenon, <1>1 DEF ManagerInv, TypeOK, FcTypeOK, ReleaseFiles
  <2> QED
    BY Zenon, <1>2, <2>1, UnchangedTypes DEF ManagerInv, TypeOK
<1>4. "idle" \notin DirSteps \cup TeardownSteps \cup StartedSteps
  BY Zenon DEF DirSteps, CreateSteps, PutSteps, TeardownSteps, StartedSteps
<1>5. FrameInv'
  BY Zenon, <1>2, <1>4 DEF FrameInv, PidSteps, TapSteps, CgroupSteps, TeardownSteps
<1>6. Kept' = m_sandboxes
  BY Zenon, <1>2, <1>4 DEF Kept
<1>7. \A S \in {DirSteps, CgroupSteps, TapSteps, BoundSteps} :
        /\ Owned(S)' = {s.id : s \in m_sandboxes}
        /\ Owned(S) = {s.id : s \in m_sandboxes} \cup (IF pc[t] \in S THEN {id} ELSE {})
  BY Zenon, <1>1, <1>2, <1>4, <1>6 DEF Owned, CgroupSteps, TapSteps, PidSteps, BoundSteps
<1>8. Accounting'
  <2>1. Owned(BoundSteps)' \subseteq sbx_dirs'
    BY <1>0, <1>1, <1>7 DEF ManagerInv, Accounting, ReleaseFiles
  <2>2. /\ {i \in Ids : m_cgroups'[i] # 0} = Held(CgroupSteps)'
        /\ Owned(CgroupSteps)' \cap thrown' = {}
    BY <1>1, <1>2, <1>7 DEF ManagerInv, Accounting, Held
  <2>3. tap_fds' = {TapName[i] : i \in Held(TapSteps)'}
    <3>1. pc[t] \in TapSteps => id \in Owned(CgroupSteps)
      BY Zenon, <1>7 DEF TapSteps
    <3> QED
      BY <1>1, <1>2, <1>7, <3>1 DEF ManagerInv, Accounting, Held, ReleaseFiles
  <2>4. Held(TapSteps)' \subseteq Held(TapSteps)
    BY Zenon, <1>2, <1>7 DEF Held
  <2> QED
    BY Zenon, <2>1, <2>2, <2>3, <2>4 DEF ManagerInv, Accounting
<1>9. EntryInv'
  BY Zenon, <1>0, <1>1, <1>2, <1>6 DEF ManagerInv, EntryInv, ReleaseFiles, StartedSteps, DirSteps,
                                CreateSteps, PutSteps
<1>10. ProcessInv'
  BY Zenon, <1>2, <1>4 DEF ManagerInv, ProcessInv, Alive, ReleaseFiles, PidSteps, TapSteps, CgroupSteps
<1>11. RunningInv'
  BY Zenon, <1>0, <1>1, <1>2, <1>6 DEF ManagerInv, RunningInv, ReleaseFiles
<1>12. SocketInv'
  BY Zenon, <1>1, <1>2 DEF ManagerInv, SocketInv, ReleaseFiles, TypeOK, FcTypeOK
<1> QED
  BY Zenon, <1>2, <1>3, <1>5, <1>8, <1>9, <1>10, <1>11, <1>12 DEF ManagerInv

LEMMA UnwindInv ==
  ASSUME ManagerInv, NEW t \in Threads, pc[t] \in {"tap", "spawn", "poll"},
         Unwind(t, IF pc[t] \in TapSteps THEN {TapName[frame[t].id]} ELSE {}),
         UNCHANGED ebVars
  PROVE  ManagerInv'
<1>1. frame[t].id \in Ids
  BY Zenon, CreatingFacts DEF DirSteps, CreateSteps
<1>2. CgTypeOK' /\ \A i \in Ids : m_cgroups'[i] # 0 <=> m_cgroups[i] # 0 /\ i # frame[t].id
  BY Zenon, <1>1, DestroyCgroupType, DestroyCgroupEntries DEF ManagerInv, TypeOK, Unwind
<1>3. frame[t].id \notin thrown
  <2>1. pc[t] \in DirSteps /\ pc[t] \in CgroupSteps
    BY Zenon DEF DirSteps, CgroupSteps, CreateSteps
  <2> QED
    BY Zenon, <2>1, CreatingFacts DEF ManagerInv, Accounting, Owned
<1>4. \A i \in Ids : m_cgroups'[i] # 0 <=>
                        m_cgroups[i] # 0 /\ (i # frame[t].id \/ i \in thrown)
  BY Zenon, <1>2, <1>3
<1> QED
  BY Zenon, <1>2, <1>4, GiveBackInv DEF Unwind

(* An exception leaves the cgroup, the TAP descriptor and the child where  *)
(* they are; the sandbox is accounted for among those thrown.              *)
LEMMA ThrowInv ==
  ASSUME ManagerInv, NEW t \in Threads, pc[t] \in {"spawn", "poll", "attach"}, Throw(t),
         UNCHANGED <<fcVars, m_cgroups, ebVars>>, CgTypeOK'
  PROVE  ManagerInv'
<1> DEFINE id == frame[t].id
<1> DEFINE ids == {s.id : s \in m_sandboxes}
<1>0. /\ pc[t] \in DirSteps /\ pc[t] \in CgroupSteps /\ pc[t] \in TapSteps
      /\ pc[t] # "idle" /\ pc[t] \notin StartedSteps
      /\ pc[t] \notin TeardownSteps /\ pc[t] # "release"
  BY Zenon DEF DirSteps, CreateSteps, CgroupSteps, TapSteps, StartedSteps, TeardownSteps
<1>1. /\ CurStep = pc[t] /\ CurFrame = frame[t] /\ id \in Ids
      /\ Kept = m_sandboxes
      /\ \A s \in m_sandboxes : s.id # id
  BY Zenon, <1>0, CreatingFacts
<1>2. /\ LockInv' /\ CurStep' = "idle" /\ CurFrame' = NoFrame
      /\ frame' \in [Threads -> Frames]
      /\ m_mutex' \in Threads \cup {None} /\ pc' \in [Threads -> Steps]
      /\ thrown' = thrown \cup {id} /\ swept' = swept /\ m_sandboxes' = m_sandboxes
  BY Zenon, <1>0, LeaveFacts DEF ManagerInv, Throw
<1>3. TypeOK'
  <2>1. thrown' \subseteq Ids
    BY Zenon, <1>1, <1>2 DEF ManagerInv, TypeOK
  <2> QED
    BY Zenon, <1>2, <2>1, UnchangedTypes DEF ManagerInv, TypeOK
<1>4. "idle" \notin DirSteps \cup TeardownSteps \cup StartedSteps
  BY Zenon DEF DirSteps, CreateSteps, PutSteps, TeardownSteps, StartedSteps
<1>5. FrameInv'
  BY Zenon, <1>2, <1>4 DEF FrameInv, PidSteps, TapSteps, CgroupSteps, TeardownSteps
<1>6. Kept' = m_sandboxes
  BY Zenon, <1>2, <1>4 DEF Kept
<1>7. Accounting'
  <2>1. \A S \in {CgroupSteps, TapSteps, BoundSteps} : Owned(S)' = ids
    BY Zenon, <1>2, <1>4, <1>6 DEF Owned, CgroupSteps, TapSteps, PidSteps, BoundSteps
  <2>2. \A S \in {CgroupSteps, TapSteps} : Owned(S) = ids \cup {id}
    BY Zenon, <1>0, <1>1 DEF Owned
  <2>3. ids \subseteq Owned(BoundSteps)
    BY Zenon, <1>1 DEF Owned
  <2>4. \A S \in {CgroupSteps, TapSteps} : Held(S)' = Held(S)
    BY Zenon, <1>2, <2>1, <2>2 DEF Held
  <2>5. Owned(CgroupSteps)' \cap thrown' = {}
    BY Zenon, <1>1, <1>2, <2>1, <2>2 DEF ManagerInv, Accounting
  <2> QED
    BY Zenon, <2>1, <2>3, <2>4, <2>5 DEF ManagerInv, Accounting, fcVars
<1>8. EntryInv'
  BY Zenon, <1>0, <1>1, <1>2, <1>6 DEF ManagerInv, EntryInv, fcVars
<1>9. ProcessInv'
  BY Zenon, <1>2, <1>4 DEF ManagerInv, ProcessInv, Alive, fcVars, PidSteps, TapSteps, CgroupSteps
<1>10. RunningInv'
  BY Zenon, <1>0, <1>1, <1>2, <1>6 DEF ManagerInv, RunningInv, fcVars
<1>11. SocketInv'
  BY Zenon, <1>0, <1>1, <1>2 DEF ManagerInv, SocketInv, fcVars
<1> QED
  BY Zenon, <1>2, <1>3, <1>5, <1>7, <1>8, <1>9, <1>10, <1>11 DEF ManagerInv

(* A step of create_sandbox from one set of held resources to the next:    *)
(* what does not depend on the resource acquired.                          *)
LEMMA CreateStepFacts ==
  ASSUME ManagerInv, NEW t \in Threads, pc[t] \in DirSteps,
         NEW step \in DirSteps, Goto(t, step),
         frame' \in [Threads -> Frames], frame'[t].id = frame[t].id,
         frame'[t].policy = frame[t].policy
  PROVE  /\ LockInv' /\ CurStep' = step /\ CurFrame' = frame'[t]
         /\ m_sandboxes' = m_sandboxes /\ Kept' = m_sandboxes
         /\ m_mutex' \in Threads \cup {None} /\ pc' \in [Threads -> Steps]
         /\ thrown' = thrown /\ swept' = swept
         /\ \A S \in {DirSteps, CgroupSteps, TapSteps, BoundSteps} :
              /\ Owned(S)' = {s.id : s \in m_sandboxes}
                               \cup (IF step \in S THEN {frame[t].id} ELSE {})
              /\ Owned(S) = {s.id : s \in m_sandboxes}
                              \cup (IF pc[t] \in S THEN {frame[t].id} ELSE {})
         /\ step \notin PidSteps => FrameInv'
<1>1. /\ pc[t] # "idle" /\ step \in Steps \ {"idle"} /\ step \notin TeardownSteps
      /\ step \notin {"lookup", "reap", "release"}
  BY Zenon DEF DirSteps, CreateSteps, PutSteps, TeardownSteps, Steps
<1>2. /\ CurStep = pc[t] /\ CurFrame = frame[t] /\ frame[t].id \in Ids
      /\ frame[t].policy \in PolicyNames /\ Kept = m_sandboxes
      /\ \A s \in m_sandboxes : s.id # frame[t].id
  BY Zenon, CreatingFacts
<1>3. /\ LockInv' /\ CurStep' = step /\ CurFrame' = frame'[t] /\ m_sandboxes' = m_sandboxes
      /\ m_mutex' \in Threads \cup {None} /\ pc' \in [Threads -> Steps]
      /\ thrown' = thrown /\ swept' = swept
  BY Zenon, <1>1, GotoFacts DEF ManagerInv
<1>4. Kept' = m_sandboxes
  BY Zenon, <1>1, <1>3 DEF Kept
<1>5. \A S \in {DirSteps, CgroupSteps, TapSteps, BoundSteps} :
         /\ Owned(S)' = {s.id : s \in m_sandboxes}
                          \cup (IF step \in S THEN {frame[t].id} ELSE {})
         /\ Owned(S) = {s.id : s \in m_sandboxes}
                         \cup (IF pc[t] \in S THEN {frame[t].id} ELSE {})
  BY Zenon, <1>2, <1>3, <1>4 DEF Owned
<1>6. ASSUME step \notin PidSteps PROVE FrameInv'
  BY Zenon, <1>1, <1>2, <1>3, <1>6 DEF FrameInv, Registered
<1> QED
  BY Zenon, <1>3, <1>4, <1>5, <1>6

LEMMA CreateCgroupStepInv ==
  ASSUME ManagerInv, NEW t \in Threads, CreateCgroup(t)
  PROVE  ManagerInv'
<1> DEFINE id == frame[t].id
<1>1. /\ pc[t] = "cgroup" /\ "cgroup" \in DirSteps /\ "cgroup" \notin CgroupSteps
      /\ "tap" \in CgroupSteps /\ "tap" \in DirSteps /\ "tap" \notin TapSteps
      /\ "cgroup" \notin TapSteps /\ "tap" \notin PidSteps /\ "cgroup" \notin PidSteps
      /\ "tap" \notin BoundSteps /\ "cgroup" \notin BoundSteps
  BY Zenon DEF CreateCgroup, DirSteps, CreateSteps, CgroupSteps, TapSteps, PidSteps, BoundSteps
<1>2. /\ CurStep = "cgroup" /\ CurFrame = frame[t] /\ id \in Ids /\ Kept = m_sandboxes
      /\ \A s \in m_sandboxes : s.id # id
  BY Zenon, <1>1, CreatingFacts
<1>3. CASE create_cgroup(id, "Success") /\ Goto(t, "tap") /\ UNCHANGED <<frame, fcVars, ebVars>>
  <2>1. CgTypeOK' /\ \A i \in Ids : m_cgroups'[i] # 0 <=> m_cgroups[i] # 0 \/ i = id
    BY Zenon, <1>2, <1>3, CreateCgroupType, CreateCgroupEntries DEF ManagerInv, TypeOK
  <2>2. /\ LockInv' /\ CurStep' = "tap" /\ CurFrame' = frame[t]
        /\ m_sandboxes' = m_sandboxes /\ Kept' = m_sandboxes /\ FrameInv'
        /\ m_mutex' \in Threads \cup {None} /\ pc' \in [Threads -> Steps]
        /\ thrown' = thrown /\ swept' = swept
        /\ Owned(DirSteps)' = Owned(DirSteps)
        /\ Owned(CgroupSteps)' = Owned(CgroupSteps) \cup {id}
        /\ Owned(TapSteps)' = Owned(TapSteps)
        /\ Owned(BoundSteps)' = Owned(BoundSteps)
    <3>1. /\ Goto(t, "tap") /\ pc[t] \in DirSteps /\ "tap" \in DirSteps
          /\ frame' \in [Threads -> Frames] /\ frame'[t] = frame[t]
      BY Zenon, <1>1, <1>3 DEF ManagerInv, TypeOK
    <3>2. \A S \in {DirSteps, CgroupSteps, TapSteps, BoundSteps} :
            /\ Owned(S)' = {s.id : s \in m_sandboxes}
                             \cup (IF "tap" \in S THEN {id} ELSE {})
            /\ Owned(S) = {s.id : s \in m_sandboxes}
                            \cup (IF pc[t] \in S THEN {id} ELSE {})
      BY Zenon, <3>1, CreateStepFacts
    <3>3. /\ Owned(DirSteps)' = Owned(DirSteps)
          /\ Owned(CgroupSteps)' = Owned(CgroupSteps) \cup {id}
          /\ Owned(TapSteps)' = Owned(TapSteps)
          /\ Owned(BoundSteps)' = Owned(BoundSteps)
      BY Zenon, <1>1, <3>2
    <3> QED
      BY Zenon, <1>1, <3>1, <3>3, CreateStepFacts
  <2>3. TypeOK'
    BY Zenon, <1>3, <2>1, <2>2, UnchangedTypes DEF ManagerInv, TypeOK
  <2>4. Accounting'
    <3>1. {i \in Ids : m_cgroups'[i] # 0} = {i \in Ids : m_cgroups[i] # 0} \cup {id}
      BY Zenon, <1>2, <2>1
    <3>2. id \notin thrown
      BY Zenon, <1>2, <1>3 DEF create_cgroup, ManagerInv, Accounting, Held
    <3> QED
      BY <1>3, <2>2, <3>1, <3>2 DEF ManagerInv, Accounting, Held, fcVars
  <2>5. EntryInv' /\ SocketInv'
    BY Zenon, <1>2, <1>3, <2>2 DEF ManagerInv, EntryInv, SocketInv, fcVars
  <2>6. ProcessInv'
    BY Zenon, <1>1, <1>2, <1>3, <2>2 DEF ManagerInv, ProcessInv, Alive, fcVars
  <2>7. RunningInv'
    BY Zenon, <1>2, <1>3, <2>2 DEF ManagerInv, RunningInv, fcVars, StartedSteps
  <2> QED
    BY Zenon, <2>2, <2>3, <2>4, <2>5, <2>6, <2>7 DEF ManagerInv
<1>4. ASSUME NEW status \in {"ErrInvalidSandboxID", "ErrCgroupQuotaExceeded"},
             create_cgroup(id, status), ReleaseFiles(id, {}), Return(t),
             UNCHANGED <<m_sandboxes, ebVars>>
      PROVE  ManagerInv'
  <2>1. CgTypeOK' /\ m_cgroups' = m_cgroups
    BY Zenon, <1>2, <1>4, CreateCgroupType, CreateCgroupEntries DEF ManagerInv, TypeOK
  <2>2. id \notin Owned(CgroupSteps)
    BY Zenon, <1>1, <1>2 DEF Owned
  <2>3. m_cgroups[id] = 0 \/ id \in thrown
    BY Zenon, <1>2, <2>2 DEF ManagerInv, Accounting, Held
  <2> QED
    BY Zenon, <1>1, <1>4, <2>1, <2>3, GiveBackInv
<1> QED
  BY Zenon, <1>3, <1>4 DEF CreateCgroup

(* setup_tap_interface: the kernel refuses an interface that any process   *)
(* has open, so no process of an earlier attempt is alive from here on.    *)
LEMMA SetupTapInv ==
  ASSUME ManagerInv, NEW t \in Threads, setup_tap_interface(t)
  PROVE  ManagerInv'
<1> DEFINE id == frame[t].id
<1> DEFINE tap == TapName[id]
<1>1. /\ pc[t] = "tap" /\ "tap" \in DirSteps /\ "tap" \in CgroupSteps /\ "tap" \notin TapSteps
      /\ "tap" \notin PidSteps /\ "spawn" \in DirSteps /\ "spawn" \in CgroupSteps
      /\ "spawn" \in TapSteps /\ "spawn" \notin PidSteps
  BY Zenon DEF setup_tap_interface, DirSteps, CreateSteps, CgroupSteps, TapSteps, PidSteps
<1>2. /\ CurStep = "tap" /\ CurFrame = frame[t] /\ id \in Ids /\ Kept = m_sandboxes
      /\ \A s \in m_sandboxes : s.id # id
      /\ tap \in Taps
  BY Zenon, <1>1, CreatingFacts
<1>3. CASE /\ ~TapBusy(tap) /\ tap_fds' = tap_fds \cup {tap} /\ Goto(t, "spawn")
           /\ UNCHANGED <<frame, fc_state, fc_sbx, fc_taps, sbx_dirs, api_socket, cgVars, ebVars>>
  <2>1. /\ LockInv' /\ CurStep' = "spawn" /\ CurFrame' = frame[t]
        /\ m_sandboxes' = m_sandboxes /\ Kept' = m_sandboxes /\ FrameInv'
        /\ m_mutex' \in Threads \cup {None} /\ pc' \in [Threads -> Steps]
        /\ thrown' = thrown /\ swept' = swept
        /\ Owned(DirSteps)' = Owned(DirSteps)
        /\ Owned(CgroupSteps)' = Owned(CgroupSteps)
        /\ Owned(TapSteps)' = Owned(TapSteps) \cup {id}
        /\ Owned(BoundSteps)' = Owned(BoundSteps)
    BY ZenonT(30), <1>1, <1>3, CreateStepFacts DEF ManagerInv, TypeOK, BoundSteps
  <2>2. TypeOK'
    BY Zenon, <1>2, <1>3, <2>1, UnchangedTypes DEF ManagerInv, TypeOK, FcTypeOK
  <2>3. Accounting'
    <3>1. tap_fds' = {TapName[i] : i \in Held(TapSteps)'}
      BY <1>3, <2>1 DEF ManagerInv, Accounting, Held
    <3>2. \A i \in Held(TapSteps) : TapName[i] # tap
      BY Zenon, <1>3 DEF ManagerInv, Accounting, TapBusy
    <3>3. /\ Owned(BoundSteps)' \subseteq sbx_dirs' /\ Owned(CgroupSteps)' \cap thrown' = {}
          /\ {i \in Ids : m_cgroups'[i] # 0} = Held(CgroupSteps)'
      BY Zenon, <1>3, <2>1 DEF ManagerInv, Accounting, Held, cgVars
    <3>4. \A i, j \in Held(TapSteps)' : TapName[i] = TapName[j] => i = j
      BY Zenon, <2>1, <3>2 DEF ManagerInv, Accounting, Held
    <3> QED
      BY Zenon, <3>1, <3>3, <3>4 DEF Accounting
  <2>4. EntryInv' /\ SocketInv'
    BY Zenon, <1>2, <1>3, <2>1 DEF ManagerInv, EntryInv, SocketInv
  <2>5. ProcessInv'
    BY Zenon, <1>1, <1>2, <1>3, <2>1 DEF ManagerInv, ProcessInv, Alive, TapBusy
  <2>6. RunningInv'
    BY Zenon, <1>2, <1>3, <2>1 DEF ManagerInv, RunningInv, StartedSteps
  <2> QED
    BY Zenon, <2>1, <2>2, <2>3, <2>4, <2>5, <2>6 DEF ManagerInv
<1>4. CASE Unwind(t, {}) /\ UNCHANGED ebVars
  BY Zenon, <1>1, <1>4, UnwindInv
<1> QED
  BY Zenon, <1>3, <1>4 DEF setup_tap_interface

(* fork: the child inherits the descriptor of the interface. *)
LEMMA SpawnInv ==
  ASSUME ManagerInv, NEW t \in Threads, spawn_firecracker_process(t)
  PROVE  ManagerInv'
<1> DEFINE id == frame[t].id
<1>1. /\ pc[t] = "spawn" /\ "spawn" \in DirSteps /\ "spawn" \in CgroupSteps
      /\ "spawn" \in TapSteps /\ "spawn" \notin PidSteps
      /\ "poll" \in DirSteps /\ "poll" \in CgroupSteps /\ "poll" \in TapSteps
      /\ "poll" \notin StartedSteps /\ "spawn" \notin StartedSteps
  BY Zenon DEF spawn_firecracker_process, DirSteps, CreateSteps, CgroupSteps, TapSteps, PidSteps,
         StartedSteps
<1>2. /\ CurStep = "spawn" /\ CurFrame = frame[t] /\ id \in Ids /\ Kept = m_sandboxes
      /\ \A s \in m_sandboxes : s.id # id
      /\ frame[t].policy \in PolicyNames
  BY Zenon, <1>1, CreatingFacts
<1>3. ASSUME NEW p \in Pids, Fork(id, p), frame' = [frame EXCEPT ![t].pid = p],
             Goto(t, "poll"), UNCHANGED <<cgVars, ebVars>>
      PROVE  ManagerInv'
  <2>1. /\ frame' \in [Threads -> Frames]
        /\ frame'[t].id = id /\ frame'[t].policy = frame[t].policy /\ frame'[t].pid = p
    BY ZenonT(30), <1>3 DEF ManagerInv, TypeOK, Frames
  <2>2. /\ LockInv' /\ CurStep' = "poll" /\ CurFrame' = frame'[t]
        /\ m_sandboxes' = m_sandboxes /\ Kept' = m_sandboxes
        /\ m_mutex' \in Threads \cup {None} /\ pc' \in [Threads -> Steps]
        /\ thrown' = thrown /\ swept' = swept
        /\ Owned(DirSteps)' = Owned(DirSteps)
        /\ Owned(CgroupSteps)' = Owned(CgroupSteps)
        /\ Owned(TapSteps)' = Owned(TapSteps)
        /\ Owned(BoundSteps)' = Owned(BoundSteps)
    <3>1. /\ Goto(t, "poll") /\ pc[t] \in DirSteps /\ "poll" \in DirSteps
          /\ pc[t] \notin BoundSteps /\ "poll" \notin BoundSteps
      BY Zenon, <1>1, <1>3 DEF BoundSteps
    <3>2. \A S \in {DirSteps, CgroupSteps, TapSteps, BoundSteps} :
            /\ Owned(S)' = {s.id : s \in m_sandboxes}
                             \cup (IF "poll" \in S THEN {id} ELSE {})
            /\ Owned(S) = {s.id : s \in m_sandboxes}
                            \cup (IF pc[t] \in S THEN {id} ELSE {})
      BY Zenon, <2>1, <3>1, CreateStepFacts
    <3>3. \A S \in {DirSteps, CgroupSteps, TapSteps, BoundSteps} : Owned(S)' = Owned(S)
      BY Zenon, <1>1, <3>1, <3>2
    <3> QED
      BY Zenon, <2>1, <3>1, <3>3, CreateStepFacts
  <2>3. /\ fc_state' = [fc_state EXCEPT ![p] = "starting"] /\ fc_state[p] = "free"
        /\ fc_sbx' = [fc_sbx EXCEPT ![p] = id]
        /\ fc_taps' = [fc_taps EXCEPT ![p] = tap_fds]
        /\ api_socket' = [api_socket EXCEPT ![id] = None]
        /\ UNCHANGED <<tap_fds, sbx_dirs>>
        /\ FcTypeOK
    BY Zenon, <1>3 DEF Fork, InheritedTaps, ManagerInv, TypeOK
  <2>4. FcTypeOK'
    BY Zenon, <1>2, <2>3 DEF FcTypeOK, FcStates
  <2>5. TypeOK'
    BY Zenon, <1>3, <2>1, <2>2, <2>4, UnchangedTypes DEF ManagerInv, TypeOK
  <2>6. /\ fc_state'[p] = "starting" /\ fc_sbx'[p] = id /\ fc_taps'[p] = tap_fds
        /\ \A q \in Pids \ {p} :
             fc_state'[q] = fc_state[q] /\ fc_sbx'[q] = fc_sbx[q] /\ fc_taps'[q] = fc_taps[q]
        /\ api_socket'[id] = None
        /\ \A i \in Ids \ {id} : api_socket'[i] = api_socket[i]
    BY Zenon, <1>2, <2>3 DEF FcTypeOK
  <2>7. FrameInv'
    BY Zenon, <1>2, <2>1, <2>2, <2>6 DEF FrameInv, Registered, TeardownSteps
  <2>8. Accounting'
    BY Zenon, <1>3, <2>2, <2>3, AccountingKept DEF ManagerInv, cgVars
  <2>9. EntryInv'
    <3>1. \A s \in m_sandboxes : s.pid \in Pids /\ s.pid # p
      BY Zenon, <1>2, <2>3 DEF ManagerInv, EntryInv, TypeOK, Instances
    <3> QED
      BY <1>2, <2>2, <2>6, <3>1 DEF ManagerInv, EntryInv
  <2>10. SocketInv'
    <3>1. \A i \in Ids : api_socket[i] \in Pids \cup {None}
      BY Zenon, <2>3 DEF FcTypeOK
    <3> QED
      BY <1>2, <2>2, <2>3, <2>6, <3>1 DEF ManagerInv, SocketInv
  <2>11. ProcessInv'
    <3>1. TapName[id] \in tap_fds
      BY Zenon, <1>1, <1>2 DEF ManagerInv, Accounting, Owned, Held
    <3> QED
      BY <1>2, <2>1, <2>2, <2>6, <3>1 DEF ManagerInv, ProcessInv, Alive
  <2>12. RunningInv'
    BY ZenonT(30), <1>1, <1>2, <2>2, <2>6 DEF ManagerInv, RunningInv
  <2> QED
    BY Zenon, <2>2, <2>5, <2>7, <2>8, <2>9, <2>10, <2>11, <2>12 DEF ManagerInv
<1>4. CASE Unwind(t, {TapName[id]}) /\ UNCHANGED ebVars
  BY Zenon, <1>1, <1>4, UnwindInv
<1>5. CASE Throw(t) /\ UNCHANGED <<fcVars, cgVars, ebVars>>
  BY Zenon, <1>1, <1>5, ThrowInv, UnchangedTypes DEF ManagerInv, cgVars
<1> QED
  BY Zenon, <1>3, <1>4, <1>5 DEF spawn_firecracker_process

LEMMA PidStepsFact ==
  /\ PidSteps \subseteq DirSteps /\ PidSteps \subseteq CgroupSteps /\ PidSteps \subseteq TapSteps
  /\ "release" \notin PidSteps /\ "lookup" \notin PidSteps /\ "spawn" \notin PidSteps
  /\ PidSteps \cap TeardownSteps = {} /\ StartedSteps \subseteq PidSteps
  /\ PidSteps = {"poll", "attach", "apply", "register", "relock"} \cup PutSteps
  /\ BoundSteps = {"attach", "apply", "register", "relock"} \cup PutSteps
BY Zenon DEF BoundSteps, PidSteps, TapSteps, CgroupSteps, DirSteps, CreateSteps, PutSteps, TeardownSteps,
       StartedSteps

(* With a socket file the sandbox has its directory. *)
LEMMA BoundFacts ==
  ASSUME ManagerInv, NEW t \in Threads, pc[t] \in BoundSteps
  PROVE  frame[t].id \in sbx_dirs
BY Zenon, CreatingFacts, PidStepsFact DEF ManagerInv, Accounting, Owned

(* From the poll loop on, a step that changes no process, socket or        *)
(* resource.                                                               *)
LEMMA ProgressStep ==
  ASSUME ManagerInv, NEW t \in Threads, pc[t] \in PidSteps, NEW step \in BoundSteps,
         frame[t].id \in sbx_dirs, Goto(t, step), UNCHANGED <<frame, fcVars, m_cgroups>>, CgTypeOK', EbTypeOK',
         pc[t] \in StartedSteps => step \in StartedSteps
  PROVE  ManagerInv'
<1>1. /\ CurStep = pc[t] /\ CurFrame = frame[t] /\ Kept = m_sandboxes
      /\ pc[t] \in DirSteps /\ step \in DirSteps /\ step \in PidSteps
      /\ \A S \in {DirSteps, CgroupSteps, TapSteps} : pc[t] \in S /\ step \in S
  BY Zenon, PidStepsFact, CreatingFacts
<1>2. /\ LockInv' /\ CurStep' = step /\ CurFrame' = frame[t]
      /\ m_sandboxes' = m_sandboxes /\ Kept' = m_sandboxes
      /\ m_mutex' \in Threads \cup {None} /\ pc' \in [Threads -> Steps]
      /\ thrown' = thrown /\ swept' = swept
      /\ \A S \in {DirSteps, CgroupSteps, TapSteps} : Owned(S)' = Owned(S)
      /\ Owned(BoundSteps)' \subseteq Owned(BoundSteps) \cup {frame[t].id}
  BY Zenon, <1>1, CreateStepFacts DEF ManagerInv, TypeOK
<1>3. TypeOK'
  BY Zenon, <1>2, UnchangedTypes DEF ManagerInv, TypeOK
<1>4. FrameInv'
  BY Zenon, <1>1, <1>2, PidStepsFact DEF ManagerInv, FrameInv, Registered, fcVars, TeardownSteps
<1>5. Accounting'
  BY Zenon, <1>2 DEF ManagerInv, Accounting, Held, fcVars
<1>6. EntryInv' /\ SocketInv'
  BY Zenon, <1>1, <1>2, PidStepsFact DEF ManagerInv, EntryInv, SocketInv, fcVars
<1>7. ProcessInv'
  BY Zenon, <1>1, <1>2, PidStepsFact DEF ManagerInv, ProcessInv, Alive, fcVars
<1>8. RunningInv'
  BY Zenon, <1>1, <1>2 DEF ManagerInv, RunningInv, fcVars
<1> QED
  BY Zenon, <1>2, <1>3, <1>4, <1>5, <1>6, <1>7, <1>8 DEF ManagerInv

LEMMA PollInv ==
  ASSUME ManagerInv, NEW t \in Threads, PollSocket(t)
  PROVE  ManagerInv'
<1>1. /\ pc[t] = "poll" /\ "poll" \in PidSteps /\ "attach" \in BoundSteps
      /\ "poll" \notin StartedSteps /\ "poll" \in TapSteps /\ "poll" \in DirSteps
  BY Zenon, PidStepsFact DEF PollSocket, StartedSteps
<1>2. CASE /\ api_socket[frame[t].id] # None /\ Goto(t, "attach")
           /\ UNCHANGED <<frame, fcVars, cgVars, ebVars>>
  <2>1. frame[t].id \in sbx_dirs
    BY Zenon, <1>1, <1>2, CreatingFacts DEF ManagerInv, SocketInv
  <2> QED
    BY Zenon, <1>1, <1>2, <2>1, ProgressStep, UnchangedTypes DEF ManagerInv, cgVars
<1>3. CASE Unwind(t, {TapName[frame[t].id]}) /\ UNCHANGED ebVars
  BY Zenon, <1>1, <1>3, UnwindInv
<1>4. CASE Throw(t) /\ UNCHANGED <<fcVars, cgVars, ebVars>>
  BY Zenon, <1>1, <1>4, ThrowInv, UnchangedTypes DEF ManagerInv, cgVars
<1> QED
  BY Zenon, <1>2, <1>3, <1>4 DEF PollSocket

LEMMA AttachInvStep ==
  ASSUME ManagerInv, NEW t \in Threads, AttachPid(t)
  PROVE  ManagerInv'
<1> DEFINE f == frame[t]
<1>1. /\ pc[t] = "attach" /\ "attach" \in PidSteps
      /\ "boot-source" \in BoundSteps /\ "snapshot" \in BoundSteps
      /\ "attach" \in BoundSteps /\ "attach" \notin StartedSteps /\ "attach" \in DirSteps
  BY Zenon, PidStepsFact DEF AttachPid, StartedSteps, PutSteps
<1>2. f.id \in Ids /\ f.pid \in Pids
  BY Zenon, <1>1, CreatingFacts DEF ManagerInv, FrameInv
<1>3. PICK status \in {"Success", "ErrInvalidSandboxID", "ErrCgroupQuotaExceeded"} :
        attach_pid(f.id, f.pid, status)
  BY Zenon DEF AttachPid
<1>4. CgTypeOK' /\ UNCHANGED m_cgroups
  BY Zenon, <1>2, <1>3, AttachPidType DEF ManagerInv, TypeOK, attach_pid, cgVars
<1>5. EbTypeOK' /\ UNCHANGED <<fcVars, ebVars>>
  BY Zenon, UnchangedTypes DEF ManagerInv, AttachPid
<1>6. ASSUME NEW step \in {"boot-source", "snapshot"}, Goto(t, step), UNCHANGED frame
      PROVE  ManagerInv'
  BY Zenon, <1>1, <1>4, <1>5, <1>6, ProgressStep, BoundFacts
<1>7. CASE Throw(t)
  BY Zenon, <1>1, <1>4, <1>5, <1>7, ThrowInv
<1> QED
  BY Zenon, <1>6, <1>7 DEF AttachPid

(* A PUT that starts the guest starts it in the child of this call: the    *)
(* socket was bound by a process of this sandbox, and the only one alive   *)
(* is this child.                                                          *)
LEMMA SendPutInv ==
  ASSUME ManagerInv, NEW t \in Threads, SendPut(t)
  PROVE  ManagerInv'
<1> DEFINE id == frame[t].id
<1> DEFINE q == api_socket[id]
<1>1. /\ pc[t] \in PidSteps /\ pc[t] \in DirSteps /\ pc[t] \notin StartedSteps
      /\ AfterPut(pc[t]) \in BoundSteps /\ "relock" \in BoundSteps /\ pc[t] \in BoundSteps
      /\ pc[t] \in {"actions", "snapshot"} => AfterPut(pc[t]) = "apply"
  BY Zenon, PidStepsFact DEF SendPut, PutSteps, StartedSteps, AfterPut
<1>2. CgTypeOK' /\ EbTypeOK' /\ UNCHANGED <<frame, cgVars, m_cgroups>>
  BY Zenon, UnchangedTypes DEF ManagerInv, SendPut, cgVars
<1>3. CASE Goto(t, "relock") /\ UNCHANGED fcVars
  BY Zenon, <1>1, <1>2, <1>3, ProgressStep, BoundFacts
<1>4. CASE PutAccepted(id, FALSE) /\ Goto(t, AfterPut(pc[t]))
  <2>1. UNCHANGED fcVars
    BY Zenon, <1>4 DEF PutAccepted, fcVars
  <2> QED
    BY Zenon, <1>1, <1>2, <1>4, <2>1, ProgressStep, BoundFacts
<1>5. CASE PutAccepted(id, TRUE) /\ Goto(t, "apply")
  <2>1. /\ CurStep = pc[t] /\ CurFrame = frame[t] /\ Kept = m_sandboxes /\ id \in Ids
        /\ "apply" \in PidSteps /\ "apply" \in DirSteps
        /\ \A S \in {DirSteps, CgroupSteps, TapSteps, BoundSteps} : pc[t] \in S /\ "apply" \in S
    BY Zenon, <1>1, PidStepsFact, CreatingFacts
  <2>2. /\ LockInv' /\ CurStep' = "apply" /\ CurFrame' = frame[t]
        /\ m_sandboxes' = m_sandboxes /\ Kept' = m_sandboxes
        /\ m_mutex' \in Threads \cup {None} /\ pc' \in [Threads -> Steps]
        /\ thrown' = thrown /\ swept' = swept
        /\ \A S \in {DirSteps, CgroupSteps, TapSteps, BoundSteps} : Owned(S)' = Owned(S)
    BY Zenon, <1>1, <1>2, <1>5, <2>1, CreateStepFacts DEF ManagerInv, TypeOK
  <2>3. /\ q \in Pids /\ fc_state[q] = "listening"
        /\ fc_state' = [fc_state EXCEPT ![q] = "running"]
        /\ UNCHANGED <<fc_sbx, fc_taps, tap_fds, sbx_dirs, api_socket>>
    BY Zenon, <1>5, <2>1 DEF PutAccepted, ManagerInv, TypeOK, FcTypeOK
  <2>4. q = frame[t].pid
    <3>1. fc_sbx[q] = id
      BY Zenon, <2>1, <2>3, <1>1, PidStepsFact, HostAssumption DEF ManagerInv, SocketInv
    <3> QED
      BY Zenon, <1>1, <2>1, <2>3, <3>1 DEF ManagerInv, ProcessInv, Alive
  <2>5. /\ fc_state'[q] = "running" /\ \A p \in Pids \ {q} : fc_state'[p] = fc_state[p]
        /\ FcTypeOK'
    BY Zenon, <2>3 DEF ManagerInv, TypeOK, FcTypeOK, FcStates
  <2>6. TypeOK'
    BY Zenon, <1>2, <2>2, <2>5 DEF ManagerInv, TypeOK
  <2>7. FrameInv'
    BY Zenon, <1>1, <2>1, <2>2, <2>3, <2>4, <2>5, PidStepsFact
       DEF ManagerInv, FrameInv, Registered, TeardownSteps
  <2>8. Accounting'
    BY Zenon, <1>2, <2>2, <2>3, AccountingKept DEF ManagerInv, cgVars
  <2>9. EntryInv' /\ SocketInv'
    <3>1. \A p \in Pids : fc_state[p] # "free" => fc_state'[p] # "free"
      BY Zenon, <2>5
    <3>2. /\ \A s \in m_sandboxes : s.pid \in Pids
          /\ \A i \in Ids : api_socket[i] \in Pids \cup {None}
      BY Zenon DEF ManagerInv, TypeOK, FcTypeOK, Instances
    <3> QED
      BY Zenon, <1>1, <2>1, <2>2, <2>3, <3>1, <3>2, PidStepsFact DEF ManagerInv, EntryInv, SocketInv
  <2>10. ProcessInv'
    <3>1. \A p \in Pids : Alive(p)' => Alive(p)
      BY Zenon, <2>3, <2>5 DEF Alive
    <3> QED
      BY Zenon, <1>1, <2>1, <2>2, <2>3, <2>5, <3>1, PidStepsFact DEF ManagerInv, ProcessInv
  <2>11. RunningInv'
    BY Zenon, <1>1, <2>1, <2>2, <2>4, <2>5 DEF ManagerInv, RunningInv, StartedSteps
  <2> QED
    BY Zenon, <2>2, <2>6, <2>7, <2>8, <2>9, <2>10, <2>11 DEF ManagerInv
<1>6. PutAccepted(id, pc[t] \in {"actions", "snapshot"}) =>
        IF pc[t] \in {"actions", "snapshot"} THEN PutAccepted(id, TRUE) ELSE PutAccepted(id, FALSE)
  BY Zenon DEF PutAccepted
<1> QED
  BY Zenon, <1>1, <1>3, <1>4, <1>5, <1>6 DEF SendPut

LEMMA ApplyInv ==
  ASSUME ManagerInv, NEW t \in Threads, apply_ebpf_policies(t)
  PROVE  ManagerInv'
<1> DEFINE c == get_cgroup_id(frame[t].id)
<1> DEFINE name == frame[t].policy
<1> DEFINE step == IF HasLoader /\ HasEngine /\ c = 0 THEN "relock" ELSE "register"
<1>1. /\ pc[t] = "apply" /\ "apply" \in PidSteps /\ "apply" \in DirSteps
      /\ "apply" \in BoundSteps /\ step \in StartedSteps /\ step \in BoundSteps
  BY Zenon, PidStepsFact DEF apply_ebpf_policies, StartedSteps
<1>2. c \in CgroupIds \cup {0}
  BY Zenon, <1>1, CreatingFacts DEF get_cgroup_id, ManagerInv, TypeOK, CgTypeOK
<1>3. name \in DOMAIN PolicyTable => PolicyTable[name].blocked_syscalls \subseteq Syscalls
  BY Zenon, ManagerAssumption
<1>4. monitored' \in [Loads -> [CgroupIds -> {"none", "off", "on"}]]
  <2>1. monitored' \in {monitored, MonitoredAfter(c, TRUE)} /\ (c = 0 => monitored' = monitored)
    BY Zenon DEF apply_ebpf_policies
  <2> QED
    BY Zenon, <1>2, <2>1, MonitoredAfterType DEF ManagerInv, TypeOK, EbTypeOK
<1>5. syscall_policy' \in [Loads -> SUBSET Syscalls]
  BY Zenon, <1>3, SyscallPolicyAfterType DEF apply_ebpf_policies, ManagerInv, TypeOK, EbTypeOK
<1>6. blocked_ips' \in [Loads -> SUBSET Ips]
  BY Zenon, BlockedIpsAfterType, HostAssumption
     DEF apply_ebpf_policies, ManagerInv, TypeOK, EbTypeOK
<1>7. EbTypeOK'
  BY Zenon, <1>4, <1>5, <1>6 DEF apply_ebpf_policies, objVars, ManagerInv, TypeOK, EbTypeOK
<1>8. Goto(t, step) /\ UNCHANGED <<frame, fcVars, cgVars, m_cgroups>> /\ CgTypeOK'
  BY Zenon, UnchangedTypes DEF apply_ebpf_policies, ManagerInv, cgVars
<1> QED
  BY Zenon, <1>1, <1>7, <1>8, ProgressStep, BoundFacts

(* The sandbox enters the map with everything the call has acquired.       *)
LEMMA RegisterInv ==
  ASSUME ManagerInv, NEW t \in Threads, Register(t)
  PROVE  ManagerInv'
<1> DEFINE f == frame[t]
<1> DEFINE new == NewInstance(f)
<1>1. /\ pc[t] = "register" /\ "register" \in PidSteps /\ "register" \in DirSteps
      /\ "register" \in StartedSteps /\ "register" \in CgroupSteps /\ "register" \in TapSteps
      /\ "register" \in BoundSteps
  BY Zenon, PidStepsFact DEF Register, StartedSteps
<1>2. /\ CurStep = "register" /\ CurFrame = f /\ f.id \in Ids /\ f.policy \in PolicyNames
      /\ Kept = m_sandboxes /\ \A s \in m_sandboxes : s.id # f.id
  BY Zenon, <1>1, CreatingFacts
<1>3. f.pid \in Pids /\ fc_state[f.pid] # "free" /\ fc_sbx[f.pid] = f.id
  BY Zenon, <1>1, <1>2 DEF ManagerInv, FrameInv
<1>4. new \in Instances /\ new.id = f.id /\ new.pid = f.pid
  BY Zenon, <1>2, <1>3 DEF NewInstance, Instances
<1>5. m_sandboxes' = m_sandboxes \cup {new}
  BY Zenon, <1>2 DEF Register
<1> HIDE DEF new
<1>6. /\ LockInv' /\ CurStep' = "idle" /\ CurFrame' = NoFrame
      /\ frame' \in [Threads -> Frames]
      /\ m_mutex' \in Threads \cup {None} /\ pc' \in [Threads -> Steps]
      /\ thrown' = thrown /\ swept' = swept
  BY Zenon, <1>1, ReturnFacts DEF ManagerInv, Register
<1>7. UNCHANGED <<fcVars, cgVars, ebVars>>
  BY Zenon DEF Register
<1>8. TypeOK'
  BY Zenon, <1>4, <1>5, <1>6, <1>7, UnchangedTypes DEF ManagerInv, TypeOK
<1>9. "idle" \notin DirSteps \cup TeardownSteps \cup StartedSteps
  BY Zenon DEF DirSteps, CreateSteps, PutSteps, TeardownSteps, StartedSteps
<1>10. FrameInv'
  BY Zenon, <1>6, <1>9 DEF FrameInv, PidSteps, TapSteps, CgroupSteps, TeardownSteps
<1>11. Kept' = m_sandboxes \cup {new}
  BY Zenon, <1>5, <1>6, <1>9 DEF Kept
<1>12. \A S \in {DirSteps, CgroupSteps, TapSteps, BoundSteps} : Owned(S)' = Owned(S)
  BY <1>1, <1>2, <1>4, <1>6, <1>9, <1>11 DEF Owned, CgroupSteps, TapSteps, PidSteps, BoundSteps
<1>13. Accounting'
  BY Zenon, <1>6, <1>7, <1>12, AccountingKept DEF ManagerInv, fcVars, cgVars
<1>14. EntryInv'
  BY <1>2, <1>3, <1>4, <1>5, <1>6, <1>7, <1>11 DEF ManagerInv, EntryInv, fcVars
<1>15. SocketInv'
  BY Zenon, <1>2, <1>6, <1>7 DEF ManagerInv, SocketInv, fcVars
<1>16. ProcessInv'
  BY Zenon, <1>1, <1>2, <1>4, <1>5, <1>6, <1>7, <1>9
     DEF ManagerInv, ProcessInv, Alive, fcVars, PidSteps, TapSteps, CgroupSteps
<1>17. RunningInv'
  BY Zenon, <1>2, <1>4, <1>7, <1>11 DEF ManagerInv, RunningInv, fcVars
<1> QED
  BY Zenon, <1>6, <1>8, <1>10, <1>13, <1>14, <1>15, <1>16, <1>17 DEF ManagerInv

-----------------------------------------------------------------------------
(* terminate_sandbox and terminate_all. *)

LEMMA TeardownFacts ==
  ASSUME ManagerInv, NEW t \in Threads, pc[t] \in TeardownSteps
  PROVE  /\ m_mutex = t /\ CurStep = pc[t] /\ CurFrame = frame[t]
         /\ pc[t] \notin DirSteps /\ pc[t] # "idle" /\ pc[t] # "lookup"
         /\ frame[t].op \in {"terminate", "terminate_all"}
         /\ frame[t].todo # {} /\ frame[t].todo \subseteq m_sandboxes
         /\ frame[t].op = "terminate" =>
              frame[t].todo = {s \in m_sandboxes : s.id = frame[t].id} /\ Kept = m_sandboxes
         /\ frame[t].op = "terminate_all" => Kept = frame[t].todo
         /\ frame[t].todo \subseteq Kept /\ Kept \subseteq m_sandboxes
         /\ \A S \in {DirSteps, CgroupSteps, TapSteps, BoundSteps} : Owned(S) = {s.id : s \in Kept}
<1>1. pc[t] \notin DirSteps /\ pc[t] # "idle" /\ pc[t] # "lookup"
  BY Zenon DEF DirSteps, CreateSteps, PutSteps, TeardownSteps
<1>2. m_mutex = t /\ CurStep = pc[t] /\ CurFrame = frame[t]
  BY Zenon, <1>1, HolderFacts DEF ManagerInv
<1>3. /\ frame[t].op \in {"terminate", "terminate_all"}
      /\ frame[t].todo # {} /\ frame[t].todo \subseteq m_sandboxes
      /\ frame[t].op = "terminate" => frame[t].todo = {s \in m_sandboxes : s.id = frame[t].id}
  BY Zenon, <1>2 DEF ManagerInv, FrameInv
<1>4. /\ frame[t].op = "terminate" => Kept = m_sandboxes
      /\ frame[t].op = "terminate_all" => Kept = frame[t].todo
  BY Zenon, <1>2, <1>3 DEF Kept
<1>5. \A S \in {DirSteps, CgroupSteps, TapSteps, BoundSteps} : Owned(S) = {s.id : s \in Kept}
  BY Zenon, <1>1, <1>2 DEF Owned, CgroupSteps, TapSteps, PidSteps, BoundSteps
<1> QED
  BY Zenon, <1>1, <1>2, <1>3, <1>4, <1>5

LEMMA LookupForTeardownInv ==
  ASSUME ManagerInv, NEW t \in Threads, LookupForTeardown(t)
  PROVE  ManagerInv'
<1> DEFINE f == frame[t]
<1> DEFINE found == {s \in m_sandboxes : f.op = "terminate_all" \/ s.id = f.id}
<1>1. CASE Return(t) /\ UNCHANGED <<m_sandboxes, fcVars, cgVars, ebVars>>
  BY Zenon, <1>1, QuietReturn DEF LookupForTeardown
<1>2. ASSUME found # {}, Goto(t, "kill"), frame' = [frame EXCEPT ![t].todo = found],
             UNCHANGED <<fcVars, cgVars, ebVars>>
      PROVE  ManagerInv'
  <2>1. /\ pc[t] = "lookup" /\ f.op \in {"terminate", "terminate_all"}
        /\ CurStep = "lookup" /\ CurFrame = f
    BY Zenon, HolderFacts DEF LookupForTeardown, ManagerInv
  <2>2. /\ frame' \in [Threads -> Frames]
        /\ frame'[t].op = f.op /\ frame'[t].id = f.id /\ frame'[t].todo = found
    BY Zenon, <1>2 DEF ManagerInv, TypeOK, Frames
  <2>3. /\ LockInv' /\ CurStep' = "kill" /\ CurFrame' = frame'[t]
        /\ m_sandboxes' = m_sandboxes
        /\ m_mutex' \in Threads \cup {None} /\ pc' \in [Threads -> Steps]
        /\ thrown' = thrown /\ swept' = swept
    <3>1. Goto(t, "kill") /\ "kill" \in Steps \ {"idle"} /\ TypeOK /\ LockInv
      BY Zenon, <1>2 DEF Steps, TeardownSteps, ManagerInv
    <3> QED
      BY Zenon, <2>1, <2>2, <3>1, GotoFacts
  <2>4. TypeOK'
    BY Zenon, <1>2, <2>2, <2>3, UnchangedTypes DEF ManagerInv, TypeOK
  <2>5. /\ "kill" \notin DirSteps /\ "lookup" \notin DirSteps /\ "lookup" \notin TeardownSteps
        /\ "kill" \in TeardownSteps
    BY Zenon DEF DirSteps, CreateSteps, PutSteps, TeardownSteps
  <2>6. FrameInv'
    BY Zenon, <1>2, <2>1, <2>2, <2>3, <2>5 DEF FrameInv, PidSteps, TapSteps, CgroupSteps
  <2>7. Kept = m_sandboxes /\ Kept' = m_sandboxes
    BY Zenon, <2>1, <2>2, <2>3, <2>5 DEF Kept
  <2>8. \A S \in {DirSteps, CgroupSteps, TapSteps, BoundSteps} : Owned(S)' = Owned(S)
    BY Zenon, <2>1, <2>3, <2>5, <2>7 DEF Owned, CgroupSteps, TapSteps, PidSteps, BoundSteps
  <2>9. Accounting'
    BY Zenon, <1>2, <2>3, <2>8, AccountingKept DEF ManagerInv, fcVars, cgVars
  <2>10. EntryInv' /\ SocketInv'
    BY Zenon, <1>2, <2>1, <2>3, <2>7 DEF ManagerInv, EntryInv, SocketInv, fcVars
  <2>11. ProcessInv'
    BY Zenon, <1>2, <2>3, <2>5 DEF ManagerInv, ProcessInv, Alive, fcVars, PidSteps, TapSteps, CgroupSteps
  <2>12. RunningInv'
    BY Zenon, <1>2, <2>1, <2>3, <2>7 DEF ManagerInv, RunningInv, fcVars, StartedSteps
  <2> QED
    BY Zenon, <2>3, <2>4, <2>6, <2>9, <2>10, <2>11, <2>12 DEF ManagerInv
<1> QED
  BY Zenon, <1>1, <1>2 DEF LookupForTeardown

(* SIGKILL ends the guest of the entry chosen. *)
LEMMA KillInv ==
  ASSUME ManagerInv, NEW t \in Threads, KillProcess(t)
  PROVE  ManagerInv'
<1> DEFINE f == frame[t]
<1>1. PICK s \in f.todo : /\ Kill(s.pid)
                          /\ frame' = [frame EXCEPT ![t].id = s.id, ![t].pid = s.pid]
  BY Zenon DEF KillProcess
<1>2. pc[t] = "kill" /\ "kill" \in TeardownSteps
  BY Zenon DEF KillProcess, TeardownSteps
<1>3. /\ CurStep = "kill" /\ CurFrame = f /\ f.op \in {"terminate", "terminate_all"}
      /\ f.todo # {} /\ f.todo \subseteq m_sandboxes
      /\ f.op = "terminate" => f.todo = {r \in m_sandboxes : r.id = f.id} /\ Kept = m_sandboxes
      /\ f.op = "terminate_all" => Kept = f.todo
      /\ \A S \in {DirSteps, CgroupSteps, TapSteps, BoundSteps} : Owned(S) = {r.id : r \in Kept}
  BY Zenon, <1>2, TeardownFacts
<1>4. s \in m_sandboxes /\ s.id \in Ids /\ s.pid \in Pids
  BY Zenon, <1>3 DEF ManagerInv, TypeOK, Instances
<1>5. /\ frame' \in [Threads -> Frames]
      /\ frame'[t].op = f.op /\ frame'[t].id = s.id /\ frame'[t].pid = s.pid
      /\ frame'[t].todo = f.todo
  BY ZenonT(30), <1>1, <1>4 DEF ManagerInv, TypeOK, Frames
<1>6. /\ LockInv' /\ CurStep' = "reap" /\ CurFrame' = frame'[t]
      /\ m_sandboxes' = m_sandboxes
      /\ m_mutex' \in Threads \cup {None} /\ pc' \in [Threads -> Steps]
      /\ thrown' = thrown /\ swept' = swept
  <2>1. Goto(t, "reap") /\ "reap" \in Steps \ {"idle"} /\ TypeOK /\ LockInv
    BY Zenon DEF KillProcess, Steps, TeardownSteps, ManagerInv
  <2> QED
    BY Zenon, <1>2, <1>5, <2>1, GotoFacts
<1>7. /\ UNCHANGED <<fc_sbx, fc_taps, tap_fds, sbx_dirs, api_socket>>
      /\ UNCHANGED <<cgVars, ebVars>>
      /\ fc_state' \in [Pids -> FcStates]
      /\ fc_state'[s.pid] # "running"
      /\ \A p \in Pids : /\ fc_state'[p] = "free" <=> fc_state[p] = "free"
                         /\ fc_state'[p] = "running" => fc_state[p] = "running"
                         /\ Alive(p)' <=> Alive(p)
  <2>1. fc_state' = IF Alive(s.pid) THEN [fc_state EXCEPT ![s.pid] = "dying"] ELSE fc_state
    BY Zenon, <1>1 DEF Kill
  <2>2. fc_state \in [Pids -> FcStates]
    BY Zenon DEF ManagerInv, TypeOK, FcTypeOK
  <2>3. fc_state' \in [Pids -> FcStates]
    BY Zenon, <2>1, <2>2 DEF FcStates
  <2>4. fc_state'[s.pid] # "running"
    BY Zenon, <1>4, <2>1, <2>2 DEF Alive
  <2>5. \A p \in Pids : /\ fc_state'[p] = "free" <=> fc_state[p] = "free"
                        /\ fc_state'[p] = "running" => fc_state[p] = "running"
                        /\ Alive(p)' <=> Alive(p)
    BY Zenon, <1>4, <2>1, <2>2 DEF Alive
  <2> QED
    BY Zenon, <1>1, <2>3, <2>4, <2>5 DEF Kill, KillProcess
<1>8. TypeOK'
  BY Zenon, <1>5, <1>6, <1>7, UnchangedTypes DEF ManagerInv, TypeOK, FcTypeOK
<1>9. "reap" \notin DirSteps /\ "kill" \notin DirSteps /\ "reap" \in TeardownSteps
  BY Zenon DEF DirSteps, CreateSteps, PutSteps, TeardownSteps
<1>10. FrameInv'
  BY <1>3, <1>5, <1>6, <1>7, <1>9 DEF FrameInv, PidSteps, TapSteps, CgroupSteps
<1>11. Kept' = Kept
  BY Zenon, <1>2, <1>3, <1>5, <1>6, <1>9 DEF Kept
<1>12. \A S \in {DirSteps, CgroupSteps, TapSteps, BoundSteps} : Owned(S)' = Owned(S)
  BY Zenon, <1>3, <1>6, <1>9, <1>11 DEF Owned, CgroupSteps, TapSteps, PidSteps, BoundSteps
<1>13. Accounting'
  BY Zenon, <1>6, <1>7, <1>12, AccountingKept DEF ManagerInv, cgVars
<1>14. EntryInv' /\ SocketInv'
  <2>1. /\ \A r \in Kept : r.pid \in Pids
        /\ \A i \in Ids : api_socket[i] \in Pids \cup {None}
    BY Zenon, <1>3 DEF ManagerInv, TypeOK, FcTypeOK, Instances
  <2> QED
    BY Zenon, <1>3, <1>6, <1>7, <1>11, <2>1 DEF ManagerInv, EntryInv, SocketInv
<1>15. ProcessInv'
  BY Zenon, <1>6, <1>7, <1>9 DEF ManagerInv, ProcessInv, PidSteps, TapSteps, CgroupSteps
<1>16. RunningInv'
  BY Zenon, <1>3, <1>7, <1>11 DEF ManagerInv, RunningInv, StartedSteps
<1> QED
  BY Zenon, <1>6, <1>8, <1>10, <1>13, <1>14, <1>15, <1>16 DEF ManagerInv

(* waitpid on the entry's own child: no other entry and no socket file has *)
(* this pid.                                                               *)
LEMMA ReapInv ==
  ASSUME ManagerInv, NEW t \in Threads, ReapProcess(t)
  PROVE  ManagerInv'
<1> DEFINE f == frame[t]
<1>1. /\ pc[t] = "reap" /\ "reap" \in TeardownSteps /\ "release" \in TeardownSteps
      /\ "reap" \notin DirSteps /\ "release" \notin DirSteps
  BY Zenon DEF ReapProcess, TeardownSteps, DirSteps, CreateSteps, PutSteps
<1>2. /\ CurStep = "reap" /\ CurFrame = f /\ f.op \in {"terminate", "terminate_all"}
      /\ f.todo # {} /\ f.todo \subseteq m_sandboxes
      /\ f.todo \subseteq Kept /\ Kept \subseteq m_sandboxes
      /\ f.op = "terminate" => f.todo = {r \in m_sandboxes : r.id = f.id}
  BY Zenon, <1>1, TeardownFacts
<1>3. PICK e \in f.todo : e.id = f.id /\ e.pid = f.pid
  BY Zenon, <1>2 DEF ManagerInv, FrameInv
<1>4. /\ f.id \in Ids /\ f.pid \in Pids /\ fc_state[f.pid] # "running"
      /\ fc_sbx[f.pid] = f.id
  BY <1>2, <1>3 DEF ManagerInv, TypeOK, Instances, FrameInv, EntryInv
<1>5. /\ LockInv' /\ CurStep' = "release" /\ CurFrame' = f
      /\ m_sandboxes' = m_sandboxes
      /\ m_mutex' \in Threads \cup {None} /\ pc' \in [Threads -> Steps]
      /\ thrown' = thrown /\ swept' = swept
      /\ frame' = frame
  BY Zenon, <1>1, GotoFacts DEF ReapProcess, Steps, ManagerInv, TypeOK
<1>6. /\ UNCHANGED <<fc_taps, tap_fds, sbx_dirs, api_socket>> /\ UNCHANGED <<cgVars, ebVars>>
      /\ fc_state' \in [Pids -> FcStates] /\ fc_sbx' \in [Pids -> Ids \cup {None}]
      /\ \A p \in Pids \ {f.pid} : fc_state'[p] = fc_state[p] /\ fc_sbx'[p] = fc_sbx[p]
      /\ \/ fc_state'[f.pid] = "free"
         \/ fc_state'[f.pid] = fc_state[f.pid] /\ fc_sbx'[f.pid] = fc_sbx[f.pid]
  BY Zenon, <1>4 DEF ReapProcess, Reap, ManagerInv, TypeOK, FcTypeOK, FcStates
<1>7. TypeOK'
  BY Zenon, <1>5, <1>6, UnchangedTypes DEF ManagerInv, TypeOK, FcTypeOK
<1>8. FrameInv'
  BY Zenon, <1>1, <1>2, <1>3, <1>4, <1>5, <1>6 DEF FrameInv, PidSteps, TapSteps, CgroupSteps
<1>9. Kept' = Kept
  BY Zenon, <1>1, <1>2, <1>5 DEF Kept
<1>10. \A S \in {DirSteps, CgroupSteps, TapSteps, BoundSteps} : Owned(S)' = Owned(S)
  BY Zenon, <1>1, <1>2, <1>5, <1>9 DEF Owned, CgroupSteps, TapSteps, PidSteps, BoundSteps
<1>11. Accounting'
  BY Zenon, <1>5, <1>6, <1>10, AccountingKept DEF ManagerInv, cgVars
<1>12. EntryInv'
  <2>1. \A s \in Kept : s.id # f.id => s.pid \in Pids \ {f.pid}
    BY Zenon, <1>2, <1>4 DEF ManagerInv, EntryInv, TypeOK, Instances
  <2> QED
    BY ZenonT(30), <1>2, <1>5, <1>6, <1>9, <2>1 DEF ManagerInv, EntryInv
<1>13. SocketInv'
  <2>1. \A i \in Ids \ {f.id} : api_socket[i] = None \/ api_socket[i] \in Pids \ {f.pid}
    BY ZenonT(30), <1>2, <1>4 DEF ManagerInv, SocketInv, TypeOK, FcTypeOK
  <2> QED
    BY <1>2, <1>5, <1>6, <2>1 DEF ManagerInv, SocketInv
<1>14. ProcessInv'
  BY <1>1, <1>5, <1>6 DEF ManagerInv, ProcessInv, Alive, PidSteps, TapSteps, CgroupSteps
<1>15. RunningInv'
  BY <1>2, <1>6, <1>9 DEF ManagerInv, RunningInv, StartedSteps
<1> QED
  BY Zenon, <1>5, <1>7, <1>8, <1>11, <1>12, <1>13, <1>14, <1>15 DEF ManagerInv

(* The rest of a teardown gives back what the entry owned, and what no     *)
(* other entry owns.                                                       *)
LEMMA ReleaseInv ==
  ASSUME ManagerInv, NEW t \in Threads, ReleaseSandbox(t)
  PROVE  ManagerInv'
<1> DEFINE f == frame[t]
<1> DEFINE left == {s \in f.todo : s.id # f.id}
<1>1. /\ pc[t] = "release" /\ "release" \in TeardownSteps /\ "kill" \in TeardownSteps
      /\ "release" \notin DirSteps /\ "kill" \notin DirSteps
      /\ "idle" \notin DirSteps \cup TeardownSteps
  BY Zenon DEF ReleaseSandbox, TeardownSteps, DirSteps, CreateSteps, PutSteps
<1>2. /\ CurStep = "release" /\ CurFrame = f /\ f.op \in {"terminate", "terminate_all"}
      /\ f.todo # {} /\ f.todo \subseteq m_sandboxes
      /\ f.todo \subseteq Kept /\ Kept \subseteq m_sandboxes
      /\ f.op = "terminate" =>
           f.todo = {r \in m_sandboxes : r.id = f.id} /\ Kept = m_sandboxes
      /\ f.op = "terminate_all" => Kept = f.todo
  BY Zenon, <1>1, TeardownFacts
<1>2a. \A S \in {DirSteps, CgroupSteps, TapSteps, BoundSteps} : Owned(S) = {s.id : s \in Kept}
  BY Zenon, <1>1, TeardownFacts
<1>3. PICK e \in f.todo : e.id = f.id /\ e.pid = f.pid
  BY Zenon, <1>2 DEF ManagerInv, FrameInv
<1>4. /\ f.id \in Ids /\ f.pid \in Pids /\ fc_state[f.pid] # "running"
      /\ \A s \in m_sandboxes : s.id = f.id => s.pid = f.pid
  BY <1>2, <1>3 DEF ManagerInv, TypeOK, Instances, FrameInv, EntryInv
<1>5. /\ LockInv' /\ frame' \in [Threads -> Frames]
      /\ m_mutex' \in Threads \cup {None} /\ pc' \in [Threads -> Steps]
      /\ thrown' = thrown /\ swept' = swept
      /\ CurStep' \in {"idle", "kill"} /\ FrameInv'
      /\ m_sandboxes' \subseteq m_sandboxes
      /\ Kept' = {s \in Kept : s.id # f.id} /\ Kept' \subseteq m_sandboxes'
  <2>1. CASE left = {} /\ m_sandboxes' = MapAfterTeardown(f) /\ Return(t)
    <3>1. /\ LockInv' /\ frame' \in [Threads -> Frames]
          /\ m_mutex' \in Threads \cup {None} /\ pc' \in [Threads -> Steps]
          /\ thrown' = thrown /\ swept' = swept
          /\ CurStep' = "idle" /\ CurFrame' = NoFrame
      BY Zenon, <1>1, <2>1, ReturnFacts DEF ManagerInv
    <3>2. Kept' = m_sandboxes'
      BY Zenon, <1>1, <3>1 DEF Kept
    <3>3. m_sandboxes' = {s \in Kept : s.id # f.id}
      BY Zenon, <1>2, <2>1 DEF MapAfterTeardown
    <3>4. FrameInv'
      BY Zenon, <1>1, <3>1 DEF FrameInv, PidSteps, TapSteps, CgroupSteps, TeardownSteps
    <3> QED
      BY Zenon, <1>2, <3>1, <3>2, <3>3, <3>4
  <2>2. CASE left # {} /\ Goto(t, "kill") /\ frame' = [frame EXCEPT ![t].todo = left]
    <3>1. /\ frame' \in [Threads -> Frames]
          /\ frame'[t].op = f.op /\ frame'[t].id = f.id /\ frame'[t].todo = left
      BY ZenonT(30), <2>2 DEF ManagerInv, TypeOK, Frames
    <3>2. /\ LockInv' /\ CurStep' = "kill" /\ CurFrame' = frame'[t]
          /\ m_sandboxes' = m_sandboxes
          /\ m_mutex' \in Threads \cup {None} /\ pc' \in [Threads -> Steps]
          /\ thrown' = thrown /\ swept' = swept
      <4>1. Goto(t, "kill") /\ "kill" \in Steps \ {"idle"} /\ TypeOK /\ LockInv
        BY Zenon, <2>2 DEF Steps, TeardownSteps, ManagerInv
      <4> QED
        BY Zenon, <1>1, <3>1, <4>1, GotoFacts
    <3>3. f.op = "terminate_all"
      BY Zenon, <1>2, <2>2
    <3>4. Kept' = left /\ left = {s \in Kept : s.id # f.id}
      BY Zenon, <1>1, <1>2, <3>1, <3>2, <3>3 DEF Kept
    <3>5. FrameInv'
      BY Zenon, <1>1, <1>2, <2>2, <3>1, <3>2, <3>3 DEF FrameInv, PidSteps, TapSteps, CgroupSteps
    <3> QED
      BY Zenon, <1>2, <3>1, <3>2, <3>4, <3>5
  <2> QED
    BY Zenon, <2>1, <2>2 DEF ReleaseSandbox
<1>6. /\ tap_fds' = tap_fds \ {TapName[f.id]} /\ sbx_dirs' \in {sbx_dirs, sbx_dirs \ {f.id}}
      /\ api_socket' = [api_socket EXCEPT ![f.id] = None]
      /\ UNCHANGED <<fc_state, fc_sbx, fc_taps>>
  BY Zenon DEF ReleaseSandbox, ReleaseFiles
<1>7. CgTypeOK' /\ \A i \in Ids : m_cgroups'[i] # 0 <=> m_cgroups[i] # 0 /\ i # f.id
  BY Zenon, <1>4, DestroyCgroupType, DestroyCgroupEntries DEF ReleaseSandbox, ManagerInv, TypeOK
<1>8. EbTypeOK'
  <2>1. m_cgroups[f.id] \in CgroupIds \cup {0}
    BY Zenon, <1>4 DEF ManagerInv, TypeOK, CgTypeOK
  <2>2. monitored' \in [Loads -> [CgroupIds -> {"none", "off", "on"}]]
    BY Zenon, <2>1, MonitoredAfterType
       DEF ReleaseSandbox, MonitoredAfterTeardown, get_cgroup_id, ManagerInv, TypeOK, EbTypeOK
  <2> QED
    BY Zenon, <2>2 DEF ReleaseSandbox, objVars, ManagerInv, TypeOK, EbTypeOK
<1>9. TypeOK'
  <2>1. FcTypeOK'
    BY Zenon, <1>4, <1>6 DEF ManagerInv, TypeOK, FcTypeOK
  <2> QED
    BY Zenon, <1>5, <1>7, <1>8, <2>1 DEF ManagerInv, TypeOK
<1>10. \A S \in {DirSteps, CgroupSteps, TapSteps, BoundSteps} : Owned(S)' = Owned(S) \ {f.id}
  <2>1. \A S \in {DirSteps, CgroupSteps, TapSteps, BoundSteps} : CurStep' \notin S
    BY Zenon, <1>1, <1>5 DEF CgroupSteps, TapSteps, PidSteps, BoundSteps
  <2>2. \A S \in {DirSteps, CgroupSteps, TapSteps, BoundSteps} : Owned(S)' = {s.id : s \in Kept'}
    BY Zenon, <2>1 DEF Owned
  <2>3. {s.id : s \in Kept'} = {s.id : s \in Kept} \ {f.id}
    BY Zenon, <1>5
  <2> QED
    BY Zenon, <1>2a, <2>2, <2>3
<1>11. Accounting'
  <2>1. f.id \in Owned(TapSteps)
    BY <1>2, <1>2a, <1>3
  <2>1a. f.id \notin thrown
    BY Zenon, <1>2a, <2>1 DEF ManagerInv, Accounting
  <2>2. tap_fds' = {TapName[i] : i \in Held(TapSteps)'}
    BY <1>5, <1>6, <1>10, <2>1, <2>1a DEF ManagerInv, Accounting, Held
  <2>3. /\ Owned(BoundSteps)' \subseteq sbx_dirs' /\ Owned(CgroupSteps)' \cap thrown' = {}
        /\ {i \in Ids : m_cgroups'[i] # 0} = Held(CgroupSteps)'
    <3>1. Held(CgroupSteps)' = Held(CgroupSteps) \ {f.id}
      BY Zenon, <1>5, <1>10, <2>1a DEF Held
    <3>2. Owned(BoundSteps)' \subseteq sbx_dirs' /\ Owned(CgroupSteps)' \cap thrown' = {}
      BY Zenon, <1>5, <1>6, <1>10 DEF ManagerInv, Accounting
    <3> QED
      BY Zenon, <1>7, <3>1, <3>2 DEF ManagerInv, Accounting
  <2>4. \A i, j \in Held(TapSteps)' : TapName[i] = TapName[j] => i = j
    BY Zenon, <1>5, <1>6, <1>10 DEF ManagerInv, Accounting, Held
  <2> QED
    BY Zenon, <2>2, <2>3, <2>4 DEF Accounting
<1>12. EntryInv'
  BY Zenon, <1>2, <1>5, <1>6 DEF ManagerInv, EntryInv
<1>13. SocketInv'
  BY Zenon, <1>2, <1>4, <1>5, <1>6 DEF ManagerInv, SocketInv, TypeOK, FcTypeOK
<1>14. ProcessInv'
  BY Zenon, <1>1, <1>5, <1>6 DEF ManagerInv, ProcessInv, Alive, PidSteps, TapSteps, CgroupSteps
<1>15. RunningInv'
  BY Zenon, <1>2, <1>4, <1>5, <1>6 DEF ManagerInv, RunningInv, StartedSteps
<1> QED
  BY Zenon, <1>5, <1>9, <1>11, <1>12, <1>13, <1>14, <1>15 DEF ManagerInv

-----------------------------------------------------------------------------
(* The processes' own steps. *)

(* The step and the locals of the call in progress do not change.          *)
LEMMA ProcessStepFacts ==
  ASSUME UNCHANGED mgrVars
  PROVE  /\ CurStep' = CurStep /\ CurFrame' = CurFrame /\ Kept' = Kept
         /\ \A S : Owned(S)' = Owned(S)
         /\ UNCHANGED <<m_sandboxes, m_mutex, pc, frame, thrown, swept>>
BY Zenon DEF mgrVars, CurStep, CurFrame, Kept, Owned

LEMMA BindInv ==
  ASSUME ManagerInv, NEW p \in Pids, ProcessBinds(p)
  PROVE  ManagerInv'
<1> DEFINE id == fc_sbx[p]
<1>1. /\ CurStep' = CurStep /\ CurFrame' = CurFrame /\ Kept' = Kept
      /\ \A S : Owned(S)' = Owned(S)
      /\ UNCHANGED <<m_sandboxes, m_mutex, pc, frame, thrown, swept>>
  BY Zenon, ProcessStepFacts DEF ProcessBinds
<1>2. /\ UNCHANGED <<fc_sbx, fc_taps, tap_fds, sbx_dirs, cgVars, ebVars>>
      /\ fc_state[p] = "starting" /\ fc_state' = [fc_state EXCEPT ![p] = "listening"]
      /\ api_socket' = [api_socket EXCEPT ![id] = p]
      /\ id \in Ids /\ id \in sbx_dirs
  BY Zenon DEF ProcessBinds, BindSocket, ManagerInv, ProcessInv
<1>3. /\ fc_state'[p] = "listening" /\ \A q \in Pids \ {p} : fc_state'[q] = fc_state[q]
      /\ api_socket'[id] = p /\ \A i \in Ids \ {id} : api_socket'[i] = api_socket[i]
      /\ FcTypeOK'
  BY Zenon, <1>2 DEF ManagerInv, TypeOK, FcTypeOK, FcStates
<1>4. TypeOK' /\ LockInv'
  BY Zenon, <1>1, <1>2, <1>3, UnchangedTypes DEF ManagerInv, TypeOK, LockInv
<1>5. /\ \A q \in Pids : /\ fc_state'[q] = "free" <=> fc_state[q] = "free"
                         /\ fc_state'[q] = "running" <=> fc_state[q] = "running"
                         /\ Alive(q)' <=> Alive(q)
      /\ \A s \in m_sandboxes : s.pid \in Pids
      /\ \A i \in Ids : api_socket[i] \in Pids \cup {None}
  BY Zenon, <1>2, <1>3 DEF Alive, ManagerInv, TypeOK, FcTypeOK, Instances
<1>6. FrameInv'
  <2>1. CurStep \in {"reap", "release"} => CurFrame.pid \in Pids
    BY Zenon, <1>5 DEF ManagerInv, FrameInv, TeardownSteps
  <2> QED
    BY Zenon, <1>1, <1>2, <1>5, <2>1 DEF ManagerInv, FrameInv, Registered
<1>7. Accounting'
  BY Zenon, <1>1, <1>2, AccountingKept DEF ManagerInv, cgVars, mgrVars
<1>8. EntryInv'
  <2>1. Kept \subseteq m_sandboxes
    BY Zenon DEF Kept, ManagerInv, FrameInv
  <2> QED
    BY Zenon, <1>1, <1>2, <1>5, <2>1 DEF ManagerInv, EntryInv
<1>9. SocketInv'
  BY <1>1, <1>2, <1>3, <1>5 DEF ManagerInv, SocketInv
<1>10. ProcessInv' /\ RunningInv'
  BY Zenon, <1>1, <1>2, <1>5 DEF ManagerInv, ProcessInv, RunningInv
<1> QED
  BY Zenon, <1>4, <1>6, <1>7, <1>8, <1>9, <1>10 DEF ManagerInv

LEMMA ExitInv ==
  ASSUME ManagerInv, NEW p \in Pids, ProcessExits(p)
  PROVE  ManagerInv'
<1>1. /\ CurStep' = CurStep /\ CurFrame' = CurFrame /\ Kept' = Kept
      /\ \A S : Owned(S)' = Owned(S)
      /\ UNCHANGED <<m_sandboxes, m_mutex, pc, frame, thrown, swept>>
  BY Zenon, ProcessStepFacts DEF ProcessExits
<1>2. /\ UNCHANGED <<fc_sbx, tap_fds, sbx_dirs, api_socket, m_cgroups, ebVars>>
      /\ Alive(p) /\ fc_state' = [fc_state EXCEPT ![p] = "zombie"]
      /\ fc_taps' = [fc_taps EXCEPT ![p] = {}]
  BY Zenon DEF ProcessExits, Exit, LeaveCgroup
<1>3. /\ fc_state'[p] = "zombie"
      /\ \A q \in Pids \ {p} : fc_state'[q] = fc_state[q] /\ fc_taps'[q] = fc_taps[q]
      /\ FcTypeOK'
  BY Zenon, <1>2 DEF ManagerInv, TypeOK, FcTypeOK, FcStates
<1>4. TypeOK' /\ LockInv'
  <2>1. CgTypeOK'
    BY Zenon, OtherStepsType DEF ManagerInv, TypeOK, ProcessExits
  <2> QED
    BY Zenon, <1>1, <1>2, <1>3, <2>1, UnchangedTypes DEF ManagerInv, TypeOK, LockInv
<1>5. /\ \A q \in Pids : /\ fc_state'[q] = "free" <=> fc_state[q] = "free"
                         /\ fc_state'[q] = "running" => fc_state[q] = "running"
                         /\ Alive(q)' => Alive(q) /\ fc_taps'[q] = fc_taps[q]
      /\ \A s \in m_sandboxes : s.pid \in Pids
      /\ \A i \in Ids : api_socket[i] \in Pids \cup {None}
  BY Zenon, <1>2, <1>3 DEF Alive, ManagerInv, TypeOK, FcTypeOK, Instances
<1>6. FrameInv'
  <2>1. CurStep \in {"reap", "release"} => CurFrame.pid \in Pids
    BY Zenon, <1>5 DEF ManagerInv, FrameInv, TeardownSteps
  <2> QED
    BY Zenon, <1>1, <1>2, <1>5, <2>1 DEF ManagerInv, FrameInv, Registered
<1>7. Accounting'
  BY Zenon, <1>1, <1>2, AccountingKept DEF ManagerInv, mgrVars
<1>8. EntryInv' /\ SocketInv'
  <2>1. Kept \subseteq m_sandboxes
    BY Zenon DEF Kept, ManagerInv, FrameInv
  <2> QED
    BY <1>1, <1>2, <1>5, <2>1 DEF ManagerInv, EntryInv, SocketInv
<1>9. ProcessInv' /\ RunningInv'
  BY ZenonT(30), <1>1, <1>2, <1>5 DEF ManagerInv, ProcessInv, RunningInv
<1> QED
  BY Zenon, <1>4, <1>6, <1>7, <1>8, <1>9 DEF ManagerInv

-----------------------------------------------------------------------------
LEMMA InitInv == Init => ManagerInv
<1> SUFFICES ASSUME Init PROVE ManagerInv
  OBVIOUS
<1>1. FcTypeOK /\ CgTypeOK
  BY Zenon DEF Init, FcInit, FcTypeOK, FcStates, CgInit, CgTypeOK
<1>2. EbTypeOK
  <2>1. /\ LoadedFile # "none" => 1 \in Loads
        /\ LoadedFile \in ObjectFiles \cup {"none"}
    BY LoaderAssumption, ManagerAssumption DEF Loads
  <2>2. /\ m_bpf_obj \in Loads \cup {0} /\ loads \in Loads \cup {0}
        /\ m_is_loaded \in BOOLEAN /\ m_bpf_links \subseteq Loads \X Programs
    BY Zenon, <2>1 DEF Init, LoaderInit
  <2>3. resident \in [Loads -> ObjectFiles \cup {"none"}]
    BY Zenon, <2>1 DEF Init, LoaderInit
  <2>4. m_programs \in [Programs -> Metadata]
    BY Zenon DEF Init, LoaderInit, Metadata
  <2>5. /\ monitored \in [Loads -> [CgroupIds -> {"none", "off", "on"}]]
        /\ syscall_policy \in [Loads -> SUBSET Syscalls] /\ blocked_ips \in [Loads -> SUBSET Ips]
    BY Zenon DEF Init, LoaderInit, EmptyMaps
  <2> QED
    BY Zenon, <2>2, <2>3, <2>4, <2>5 DEF EbTypeOK
<1>3. TypeOK /\ LockInv
  BY Zenon, <1>1, <1>2, NoFrameType, ManagerAssumption DEF Init, TypeOK, LockInv, Steps
<1>4. CurStep = "idle" /\ CurFrame = NoFrame /\ "idle" \notin DirSteps \cup TeardownSteps
      /\ m_sandboxes = {}
  BY Zenon DEF Init, CurStep, CurFrame, DirSteps, CreateSteps, PutSteps, TeardownSteps
<1>5. FrameInv
  BY Zenon, <1>4 DEF FrameInv, PidSteps, TapSteps, CgroupSteps, TeardownSteps
<1>6. Kept = {} /\ \A S \in {DirSteps, CgroupSteps, TapSteps, BoundSteps} : Owned(S) = {}
  BY Zenon, <1>4 DEF Kept, Owned, CgroupSteps, TapSteps, PidSteps, BoundSteps
<1>7. Accounting
  BY Zenon, <1>6 DEF Init, FcInit, CgInit, Accounting, Held
<1>8. EntryInv /\ ProcessInv /\ RunningInv /\ SocketInv
  BY Zenon, <1>4, <1>6 DEF Init, FcInit, EntryInv, ProcessInv, Alive, RunningInv, SocketInv
<1> QED
  BY Zenon, <1>3, <1>5, <1>7, <1>8 DEF ManagerInv

(* Every step of every thread and process keeps the invariant. *)
LEMMA NextInv == ManagerInv /\ [Next]_vars => ManagerInv'
<1> SUFFICES ASSUME ManagerInv, [Next]_vars PROVE ManagerInv'
  OBVIOUS
<1>1. CASE UNCHANGED vars
  <2>1. /\ UNCHANGED <<fcVars, cgVars, ebVars>> /\ UNCHANGED mgrVars
        /\ \A p \in Pids : Alive(p)' <=> Alive(p)
    BY Zenon, <1>1 DEF vars, Alive, fcVars
  <2>2. /\ CurStep' = CurStep /\ CurFrame' = CurFrame /\ Kept' = Kept
        /\ \A S : Owned(S)' = Owned(S)
        /\ UNCHANGED <<m_sandboxes, m_mutex, pc, frame, thrown, swept>>
    BY Zenon, <2>1, ProcessStepFacts
  <2>3. TypeOK' /\ LockInv'
    BY Zenon, <2>1, <2>2, UnchangedTypes DEF ManagerInv, TypeOK, LockInv
  <2>4. FrameInv' /\ Accounting'
    BY Zenon, <2>1, <2>2 DEF ManagerInv, FrameInv, Registered, Accounting, Held, mgrVars, fcVars, cgVars
  <2>5. EntryInv' /\ ProcessInv' /\ RunningInv' /\ SocketInv'
    BY ZenonT(30), <2>1, <2>2 DEF ManagerInv, EntryInv, ProcessInv, RunningInv, SocketInv, fcVars
  <2> QED
    BY Zenon, <2>3, <2>4, <2>5 DEF ManagerInv
<1>2. ASSUME NEW t \in Threads, ManagerStep(t) PROVE ManagerInv'
  BY Zenon, <1>2, LookupForCreateInv, CreateCgroupStepInv, SetupTapInv, SpawnInv, PollInv,
     AttachInvStep, ApplyInv, RegisterInv, ExecuteInv, LookupForTeardownInv,
     KillInv, ReapInv, ReleaseInv DEF ManagerStep
<1> QED
  BY Zenon, <1>1, <1>2, NewCallInv, SendPutInv, ExecuteInv, BindInv, ExitInv DEF Next

(* The exact account of a call in progress holds in every reachable state. *)
THEOREM ManagerInvariant == Spec => []ManagerInv
BY InitInv, NextInv, PTL DEF Spec

(* Whatever the threads call and whatever fails, the variables of the      *)
(* manager and of its three components stay well typed.                    *)
THEOREM TypeCorrect == Spec => []TypeOK
<1>1. ManagerInv => TypeOK
  BY Zenon DEF ManagerInv
<1> QED
  BY <1>1, ManagerInvariant, PTL

(* SIGKILL and waitpid only ever go to a child of the sandbox torn down,   *)
(* never to a pid that was reaped and given to another process.            *)
THEOREM OnlyOwnChildrenKilled == Spec => []RecordedPidIsOwnChild
<1>1. ManagerInv => RecordedPidIsOwnChild
  <2> SUFFICES ASSUME ManagerInv, NEW s \in m_sandboxes
               PROVE  /\ \A r \in m_sandboxes \ {s} : r.id # s.id
                      /\ TornDown(s) \/ (fc_state[s.pid] # "free" /\ fc_sbx[s.pid] = s.id)
    BY Zenon DEF RecordedPidIsOwnChild
  <2>1. \A r \in m_sandboxes \ {s} : r.id # s.id
    BY Zenon DEF ManagerInv, EntryInv
  <2>2. CASE s \in Kept /\ CurStep = "release" /\ CurFrame.id = s.id
    BY Zenon, <2>1, <2>2 DEF TornDown, CurStep, CurFrame, ManagerInv, TypeOK
  <2>3. CASE s \notin Kept
    BY Zenon, <2>1, <2>3 DEF TornDown, Kept, CurStep, CurFrame, ManagerInv, TypeOK, TeardownSteps
  <2> QED
    BY Zenon, <2>1, <2>2, <2>3 DEF ManagerInv, EntryInv
<1> QED
  BY <1>1, ManagerInvariant, PTL

(* No error path of create_sandbox, no retry and no teardown leaks a       *)
(* cgroup entry or a TAP descriptor, or takes one from a sandbox that is   *)
(* still in the map; what an exception leaves is held for ever, and only   *)
(* for the sandboxes it left.                                              *)
THEOREM NoResourceLeaks == Spec => []ResourcesMatchMap
<1>1. ManagerInv => ResourcesMatchMap
  <2> DEFINE ids == {s.id : s \in m_sandboxes}
  <2> SUFFICES ASSUME ManagerInv, m_mutex = None
               PROVE  /\ ids \cap thrown = {}
                      /\ {id \in Ids : m_cgroups[id] # 0} = ids \cup thrown
                      /\ tap_fds = {TapName[id] : id \in ids \cup thrown}
                      /\ ids \subseteq sbx_dirs
    BY Zenon DEF ResourcesMatchMap
  <2>1. CurStep = "idle" /\ "idle" \notin DirSteps \cup TeardownSteps
    BY Zenon DEF CurStep, DirSteps, CreateSteps, PutSteps, TeardownSteps
  <2>2. \A S \in {CgroupSteps, TapSteps, BoundSteps} : Owned(S) = ids
    BY Zenon, <2>1 DEF Owned, Kept, CgroupSteps, TapSteps, PidSteps, BoundSteps
  <2> QED
    BY Zenon, <2>2 DEF ManagerInv, Accounting, Held
<1> QED
  BY <1>1, ManagerInvariant, PTL

(* A guest never runs in a process the manager has lost track of, not even *)
(* in the child of a create_sandbox that timed out and was retried.        *)
THEOREM NoUntrackedGuest == Spec => []RunningGuestIsTracked
<1>1. ManagerInv => RunningGuestIsTracked
  <2> SUFFICES ASSUME ManagerInv, NEW p \in Pids, fc_state[p] = "running"
               PROVE  \/ \E s \in m_sandboxes : s.pid = p
                      \/ \E t \in Threads : frame[t].pid = p /\ pc[t] \in StartedSteps
    BY Zenon DEF RunningGuestIsTracked, StartedSteps
  <2>1. CASE \E s \in Kept : s.pid = p
    BY Zenon, <2>1 DEF Kept, ManagerInv, FrameInv
  <2>2. CASE CurStep \in StartedSteps /\ CurFrame.pid = p
    BY Zenon, <2>2 DEF CurStep, CurFrame, StartedSteps, ManagerInv, TypeOK
  <2> QED
    BY Zenon, <2>1, <2>2 DEF ManagerInv, RunningInv
<1> QED
  BY <1>1, ManagerInvariant, PTL
=============================================================================
