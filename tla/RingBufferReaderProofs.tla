----------------------- MODULE RingBufferReaderProofs -----------------------
(***************************************************************************)
(* Proofs about the ring buffer reader, for any number of calling threads, *)
(* polling threads, maps and events.                                       *)
(***************************************************************************)
EXTENDS RingBufferReader, TLAPS

DtorSteps == {"dtor_stop", "dtor_join", "free", "members"}
Stoppers == StopSteps \cup {"dtor_stop", "dtor_join"}
Separate == "start/stop" \notin overlaps /\ "stop" \notin callbacks
Alone == "poll/poll" \notin overlaps /\ "throw" \notin callbacks
Quiet == overlaps \cap {"start/stop", "init/poll"} = {} /\ callbacks = {}

(* Who may be where: m_mutex orders init and start_polling, a destructor   *)
(* is alone, and a manager is freed by the destructor only.                *)
CallsInv ==
  /\ \A t \in Threads : pc[t] \in CallSteps
  /\ \A p \in Pollers : pc[p] \in PollerSteps
  /\ \A t \in Threads : pc[t] \in {"init"} \cup StartSteps => m_mutex = t
  /\ made # NoThread => \E t \in Threads : pc[t] = "assign"
  /\ \A t \in Threads : pc[t] \in DtorSteps =>
       destroyed /\ \A u \in Threads \ {t} : pc[u] = "idle"
  /\ destroyed => ~m_is_polling /\ \A t \in Threads : pc[t] \in DtorSteps \cup {"idle"}
  /\ freed # {} => destroyed /\ \A t \in Threads : pc[t] \in {"members", "idle"}

(* As long as no start_polling met a stop_polling and no callback called   *)
(* the latter: a handle without the flag is about to be joined, by one     *)
(* call; start_polling finds no handle; and every polling thread has its   *)
(* handle stored or about to be.                                           *)
HandlesInv ==
  Separate =>
    /\ m_polling_thread # NoThread /\ ~m_is_polling => \E t \in Threads : pc[t] \in Stoppers
    /\ \A t \in Threads : pc[t] \in StartSteps => m_polling_thread = NoThread /\ m_is_polling
    /\ \A t \in Threads : pc[t] \in Stoppers =>
         ~m_is_polling /\ \A u \in Threads \ {t} : pc[u] \notin Stoppers
    /\ \A t \in Threads : pc[t] \in {"join", "dtor_join"} => m_polling_thread # NoThread
    /\ \A t \in Threads : pc[t] \in {"free", "members"} => m_polling_thread = NoThread
    /\ \A p \in Pollers : pc[p] # "none" => p = m_polling_thread \/ p = made

(* A poll in progress works on a manager that was made for a map, and its  *)
(* copy of the consumer position is at most one event ahead, as long as it *)
(* is the only one.                                                        *)
PositionsInv ==
  /\ m_ring_buf # 0 => map_of[m_ring_buf] \in Maps
  /\ \A x \in Consumers : Polling(x) => buf[x] \in Managers /\ map_of[buf[x]] \in Maps
  /\ Alone =>
       \A x \in Consumers :
         /\ pc[x] = "take" => pos[x] = consumed[map_of[buf[x]]]
         /\ pc[x] \in CallbackSteps => pos[x] = consumed[map_of[buf[x]]] + 1

(* A stop_polling inside a callback is on record, and as long as nothing   *)
(* happened that can end the process, no poll meets a nullptr.             *)
NestedInv == \A x \in Consumers : pc[x] \in NestedSteps => "stop" \in callbacks
BufferInv == Quiet => \A x \in Consumers : Polling(x) => m_ring_buf # 0

RbInv ==
  /\ RbTypeOK /\ CallsInv /\ HandlesInv /\ PositionsInv /\ EachEventOnce /\ AbortNeedsCause
  /\ NestedInv /\ BufferInv
  /\ Overlapping \subseteq overlaps
-----------------------------------------------------------------------------
(* The steps without the record of what overlapped, and the record. *)
PollStep(x) ==
  \/ ConsumerStep(x) \/ PollReturns(x)
  \/ CallbackThrows(x) /\ "throw" \in callbacks'
  \/ CallbackStops(x) /\ "stop" \in callbacks'
Step ==
  \/ \E t \in Threads : NewCall(t) \/ CallStep(t)
  \/ \E x \in Consumers : JoinStep(x) \/ PollStep(x)
  \/ \E p \in Pollers : LoopTest(p)
  \/ \E r \in Maps : Submit(r)
Records == overlaps' = overlaps \cup Overlapping' /\ callbacks \subseteq callbacks'

LEMMA NextIsStep ==
  RbNext => /\ Step /\ ~aborted /\ Records
            /\ callbacks' \subseteq callbacks \cup {"throw", "stop"}
<1> SUFFICES ASSUME RbNext
             PROVE  /\ Step /\ ~aborted /\ Records
                    /\ callbacks' \subseteq callbacks \cup {"throw", "stop"}
  OBVIOUS
<1>1. ~aborted /\ Records /\ callbacks' \subseteq callbacks \cup {"throw", "stop"}
  BY Zenon DEF RbNext, Recorded, Records
<1>2. Step
  BY Zenon DEF RbNext, Recorded, Step, PollStep
<1> QED
  BY Zenon, <1>1, <1>2

LEMMA Disjoint ==
  ASSUME NEW t \in Threads, NEW p \in Pollers
  PROVE  t # p /\ t # NoThread /\ p # NoThread /\ t \in Consumers /\ p \in Consumers
BY Zenon, ReaderAssumption DEF Consumers

LEMMA MapsAreKinds == Maps \subseteq DOMAIN Layout /\ "none" \notin Maps
BY Zenon, ReaderAssumption DEF Layout

(* A sample of a map is never dropped: its size is one of the three.       *)
LEMMA SampleIsKnown ==
  ASSUME NEW r \in Maps
  PROVE  /\ dispatch_event(SampleSize[r]) \in DOMAIN Layout
         /\ dispatch_event(SampleSize[r]) # "dropped"
<1>1. r \in {"syscall", "network", "process"}
  BY Zenon, ReaderAssumption
<1>2. dispatch_event(SampleSize[r]) \in {"syscall", "network", "process"}
  BY Zenon, <1>1 DEF dispatch_event
<1> QED
  BY Zenon, <1>2 DEF Layout

-----------------------------------------------------------------------------
(* Types.  The bounds on positions and managers come from the guards.      *)
LEMMA PcType ==
  ASSUME RbTypeOK, NEW x \in Consumers, NEW s \in CallSteps \cup PollerSteps, Goto(x, s)
  PROVE  /\ pc' \in [Consumers -> CallSteps \cup PollerSteps]
         /\ \A y \in Consumers : pc'[y] = IF y = x THEN s ELSE pc[y]
BY Zenon DEF RbTypeOK, Goto

LEMMA InitRbInv == RbInit => RbInv
<1> SUFFICES ASSUME RbInit PROVE RbInv
  OBVIOUS
<1>1. /\ \A t \in Threads : pc[t] = "idle"
      /\ \A p \in Pollers : pc[p] = "none"
      /\ \A x \in Consumers : pc[x] \in {"idle", "none"}
  BY Zenon, Disjoint DEF RbInit, Consumers
<1>2. RbTypeOK
  <2>1. pc \in [Consumers -> CallSteps \cup PollerSteps]
    BY Zenon DEF RbInit, CallSteps, PollerSteps
  <2> QED
    BY Zenon, <2>1 DEF RbInit, RbTypeOK
<1>3. CallsInv
  BY Zenon, <1>1 DEF CallsInv, RbInit, CallSteps, PollerSteps, StartSteps, DtorSteps
<1>4. HandlesInv
  BY Zenon, <1>1 DEF HandlesInv, RbInit, StartSteps, Stoppers, StopSteps
<1>5. PositionsInv
  BY Zenon, <1>1 DEF PositionsInv, RbInit, Polling, PollSteps, CallbackSteps, NestedSteps
<1>6. EachEventOnce
  BY <1>1 DEF EachEventOnce, RbInit, Events, CallbackSteps, NestedSteps
<1>7. Overlapping = {}
  BY Zenon, <1>1 DEF Overlapping, Polling, PollSteps, CallbackSteps, NestedSteps, StartSteps,
     StopSteps
<1>8. NestedInv /\ BufferInv
  BY Zenon, <1>1 DEF NestedInv, BufferInv, Polling, PollSteps, CallbackSteps, NestedSteps
<1> QED
  BY Zenon, <1>2, <1>3, <1>4, <1>5, <1>6, <1>7, <1>8 DEF RbInv, AbortNeedsCause, RbInit
(* The calls. *)
LEMMA CallType ==
  ASSUME RbInv, NEW t \in Threads, NewCall(t) \/ CallStep(t), t \in Consumers,
         overlaps' \subseteq {"start/stop", "init/poll", "poll/poll"},
         callbacks' \subseteq {"throw", "stop"}
  PROVE  RbTypeOK'
<1> USE DEF objVars, libVars, ringVars
<1>1. RbTypeOK
  BY Zenon DEF RbInv
<1>2. ASSUME NEW s \in CallSteps \cup PollerSteps, Goto(t, s)
      PROVE  pc' \in [Consumers -> CallSteps \cup PollerSteps]
  BY Zenon, <1>1, <1>2, PcType
<1>3. {"idle", "init", "start", "assign", "stop", "join", "dtor_stop", "dtor_join", "free",
       "members", "enter", "loop", "none"} \subseteq CallSteps \cup PollerSteps
  BY Zenon DEF CallSteps, PollerSteps, StartSteps, StopSteps, PollSteps
<1>4. CASE init(t)
  <2>1. pc' \in [Consumers -> CallSteps \cup PollerSteps]
    BY Zenon, <1>2, <1>3, <1>4 DEF init
  <2> QED
    BY Zenon, <1>1, <1>4, <2>1 DEF init, RbTypeOK
<1>5. CASE InitRingBuf(t)
  <2>1. pc' \in [Consumers -> CallSteps \cup PollerSteps]
    BY Zenon, <1>2, <1>3, <1>5 DEF InitRingBuf
  <2>2. /\ map_of' \in [Managers -> Maps \cup {"none"}] /\ m_ring_buf' \in Managers \cup {0}
        /\ freed' \subseteq Managers
    BY Zenon, <1>1, <1>5 DEF InitRingBuf, RbTypeOK, Replaced
  <2> QED
    BY Zenon, <1>1, <1>5, <2>1, <2>2 DEF InitRingBuf, RbTypeOK
<1>6. CASE start_polling(t)
  <2>1. pc' \in [Consumers -> CallSteps \cup PollerSteps]
    BY Zenon, <1>2, <1>3, <1>6 DEF start_polling
  <2> QED
    BY Zenon, <1>1, <1>6, <2>1 DEF start_polling, RbTypeOK
<1>7. CASE MakeThread(t)
  <2>1. pc' \in [Consumers -> CallSteps \cup PollerSteps]
    <3>1. CASE Goto(t, "idle")
      BY Zenon, <1>2, <1>3, <3>1
    <3>2. ASSUME NEW p \in Pollers, pc' = [pc EXCEPT ![t] = "assign", ![p] = "loop"]
          PROVE  pc' \in [Consumers -> CallSteps \cup PollerSteps]
      BY Zenon, <1>1, <1>3, <3>2 DEF RbTypeOK
    <3> QED
      BY Zenon, <1>7, <3>1, <3>2 DEF MakeThread
  <2> QED
    BY Zenon, <1>1, <1>7, <2>1 DEF MakeThread, RbTypeOK
<1>8. CASE AssignThread(t)
  <2>1. pc' \in [Consumers -> CallSteps \cup PollerSteps]
    BY Zenon, <1>2, <1>3, <1>8 DEF AssignThread
  <2> QED
    BY Zenon, <1>1, <1>8, <2>1 DEF AssignThread, RbTypeOK
<1>9. CASE stop_polling(t)
  <2>1. pc' \in [Consumers -> CallSteps \cup PollerSteps]
    BY Zenon, <1>2, <1>3, <1>9 DEF stop_polling
  <2> QED
    BY Zenon, <1>1, <1>9, <2>1 DEF stop_polling, RbTypeOK
<1>10. CASE Destroy(t)
  <2>1. pc' \in [Consumers -> CallSteps \cup PollerSteps]
    BY Zenon, <1>2, <1>3, <1>10 DEF Destroy
  <2> QED
    BY Zenon, <1>1, <1>10, <2>1 DEF Destroy, RbTypeOK
<1>11. CASE FreeRingBuf(t)
  <2>1. pc' \in [Consumers -> CallSteps \cup PollerSteps]
    BY Zenon, <1>2, <1>3, <1>11 DEF FreeRingBuf
  <2>2. freed' \subseteq Managers
    BY Zenon, <1>1, <1>11 DEF FreeRingBuf, RbTypeOK
  <2> QED
    BY Zenon, <1>1, <1>11, <2>1, <2>2 DEF FreeRingBuf, RbTypeOK
<1>12. CASE DestroyMembers(t)
  <2>1. pc' \in [Consumers -> CallSteps \cup PollerSteps]
    BY Zenon, <1>2, <1>3, <1>12 DEF DestroyMembers
  <2> QED
    BY Zenon, <1>1, <1>12, <2>1 DEF DestroyMembers, RbTypeOK
<1>13. CASE poll(t)
  <2>1. pc' \in [Consumers -> CallSteps \cup PollerSteps]
    BY Zenon, <1>2, <1>3, <1>13 DEF poll, Enter
  <2>2. m_ring_buf \in Managers /\ map_of[m_ring_buf] \in Maps
    BY Zenon, <1>1, <1>13 DEF poll, Enter, RbTypeOK, RbInv, PositionsInv
  <2> QED
    BY Zenon, <1>1, <1>13, <2>1, <2>2 DEF poll, Enter, RbTypeOK
<1> QED
  BY Zenon, <1>4, <1>5, <1>6, <1>7, <1>8, <1>9, <1>10, <1>11, <1>12, <1>13 DEF NewCall, CallStep

(* The consumers and the kernel. *)
LEMMA ConsumerType ==
  ASSUME RbInv,
         \/ \E x \in Consumers : JoinStep(x) \/ PollStep(x)
         \/ \E p \in Pollers : LoopTest(p)
         \/ \E r \in Maps : Submit(r),
         overlaps' \subseteq {"start/stop", "init/poll", "poll/poll"},
         callbacks' \subseteq {"throw", "stop"}
  PROVE  RbTypeOK'
<1> USE DEF objVars, libVars, ringVars
<1>1. RbTypeOK
  BY Zenon DEF RbInv
<1>2. {"idle", "enter", "take", "callback", "nested_stop", "nested_join", "loop", "done", "none",
       "join", "dtor_join", "free"} \subseteq CallSteps \cup PollerSteps
  BY Zenon DEF CallSteps, PollerSteps, PollSteps, CallbackSteps, NestedSteps, StopSteps
<1>3. ASSUME NEW x \in Consumers, Leave(x)
      PROVE  /\ pc' \in [Consumers -> CallSteps \cup PollerSteps]
             /\ buf' \in [Consumers -> Managers \cup {0}] /\ pos' \in [Consumers -> Events \cup {0}]
  BY Zenon, <1>1, <1>2, <1>3, PcType DEF Leave, RbTypeOK
<1>4. ASSUME NEW x \in Consumers, TakeSample(x) PROVE RbTypeOK'
  <2>1. PICK r \in Maps : r = map_of[buf[x]]
    BY Zenon, <1>4 DEF TakeSample, RbInv, PositionsInv, Polling, PollSteps
  <2> DEFINE type == dispatch_event(SampleSize[r])
  <2>2. type \in DOMAIN Layout /\ type # "dropped"
    BY Zenon, SampleIsKnown
  <2>3. /\ delivered' = Delivered(r, pos[x] + 1) /\ pos[x] < produced[r]
        /\ decoded' = [decoded EXCEPT ![r] = @ \cup {type}]
        /\ pos' = [pos EXCEPT ![x] = @ + 1] /\ Goto(x, "callback") /\ aborted' \in BOOLEAN
        /\ UNCHANGED <<objVars, buf, map_of, freed, destroyed, produced, consumed>>
    BY Zenon, <1>4, <2>1, <2>2 DEF TakeSample
  <2> HIDE DEF type
  <2>4. pos[x] + 1 \in Events
    BY <1>1, <2>3, ReaderAssumption DEF RbTypeOK, Events
  <2>5. delivered' \in [Maps -> [Events -> {0, 1, 2}]]
    <3> DEFINE row == [delivered[r] EXCEPT ![pos[x] + 1] = IF @ = 0 THEN 1 ELSE 2]
    <3>1. delivered \in [Maps -> [Events -> {0, 1, 2}]]
      BY Zenon, <1>1 DEF RbTypeOK
    <3>2. row \in [Events -> {0, 1, 2}]
      BY Zenon, <2>4, <3>1
    <3>3. delivered' = [delivered EXCEPT ![r] = row]
      BY Zenon, <2>3 DEF Delivered
    <3> HIDE DEF row
    <3> QED
      BY Zenon, <3>1, <3>2, <3>3
  <2>6. decoded' \in [Maps -> SUBSET DOMAIN Layout]
    BY Zenon, <1>1, <2>2, <2>3 DEF RbTypeOK
  <2>7. pos' \in [Consumers -> Events \cup {0}]
    BY Zenon, <1>1, <2>3, <2>4 DEF RbTypeOK
  <2>8. pc' \in [Consumers -> CallSteps \cup PollerSteps]
    BY Zenon, <1>1, <1>2, <2>3, PcType
  <2> QED
    BY Zenon, <1>1, <2>3, <2>5, <2>6, <2>7, <2>8 DEF RbTypeOK
<1>5. ASSUME NEW x \in Consumers, StorePosition(x) PROVE RbTypeOK'
  <2>1. pc' \in [Consumers -> CallSteps \cup PollerSteps]
    BY Zenon, <1>1, <1>2, <1>5, PcType DEF StorePosition
  <2>2. consumed' \in [Maps -> Events \cup {0}]
    BY Zenon, <1>1, <1>5 DEF StorePosition, RbTypeOK
  <2> QED
    BY Zenon, <1>1, <1>5, <2>1, <2>2 DEF StorePosition, RbTypeOK
<1>6. ASSUME NEW x \in Consumers, PollReturns(x) PROVE RbTypeOK'
  BY Zenon, <1>1, <1>3, <1>6 DEF PollReturns, RbTypeOK
<1>7. ASSUME NEW p \in Pollers, LoopTest(p) PROVE RbTypeOK'
  <2>1. p \in Consumers
    BY Zenon DEF Consumers
  <2>2. CASE Enter(p)
    <3>1. m_ring_buf \in Managers /\ map_of[m_ring_buf] \in Maps
      BY Zenon, <1>1, <2>2 DEF Enter, RbTypeOK, RbInv, PositionsInv
    <3>2. pc' \in [Consumers -> CallSteps \cup PollerSteps]
      BY Zenon, <1>1, <1>2, <2>1, <2>2, PcType DEF Enter
    <3> QED
      BY Zenon, <1>1, <2>1, <2>2, <3>1, <3>2 DEF Enter, RbTypeOK
  <2>3. CASE Goto(p, "done") /\ UNCHANGED <<objVars, libVars, destroyed, aborted, ringVars>>
    <3>1. pc' \in [Consumers -> CallSteps \cup PollerSteps]
      BY Zenon, <1>1, <1>2, <2>1, <2>3, PcType
    <3> QED
      BY Zenon, <1>1, <2>3, <3>1 DEF RbTypeOK
  <2> QED
    BY Zenon, <1>7, <2>2, <2>3 DEF LoopTest
<1>8. ASSUME NEW r \in Maps, Submit(r) PROVE RbTypeOK'
  <2>1. produced[r] + 1 \in Events
    BY <1>1, <1>8, ReaderAssumption DEF Submit, RbTypeOK, Events
  <2>2. produced' \in [Maps -> Events \cup {0}]
    BY Zenon, <1>1, <1>8, <2>1 DEF Submit, RbTypeOK
  <2> QED
    BY Zenon, <1>1, <1>8, <2>2 DEF Submit, RbTypeOK
<1>9. ASSUME NEW x \in Consumers, ring_buffer__poll(x) PROVE RbTypeOK'
  <2>1. PICK m \in {buf[x], m_ring_buf} :
          IF m = 0
          THEN aborted' = TRUE /\ UNCHANGED <<buf, pos, pc>>
          ELSE /\ buf' = [buf EXCEPT ![x] = m]
               /\ pos' = [pos EXCEPT ![x] = consumed[map_of[m]]]
               /\ Goto(x, "take")
               /\ UNCHANGED aborted
    BY Zenon, <1>9 DEF ring_buffer__poll
  <2>2. UNCHANGED <<objVars, map_of, freed, destroyed, ringVars>> /\ pc[x] = "enter"
    BY Zenon, <1>9 DEF ring_buffer__poll
  <2>3. CASE m = 0
    BY Zenon, <1>1, <2>1, <2>2, <2>3 DEF RbTypeOK
  <2>4. CASE m # 0
    <3>1. buf[x] \in Managers /\ map_of[buf[x]] \in Maps
      BY Zenon, <2>2 DEF RbInv, PositionsInv, Polling, PollSteps
    <3>2. m_ring_buf # 0 => m_ring_buf \in Managers /\ map_of[m_ring_buf] \in Maps
      BY Zenon, <1>1 DEF RbTypeOK, RbInv, PositionsInv
    <3>3. m \in Managers /\ map_of[m] \in Maps
      BY Zenon, <2>1, <2>4, <3>1, <3>2
    <3>4. /\ buf' = [buf EXCEPT ![x] = m] /\ pos' = [pos EXCEPT ![x] = consumed[map_of[m]]]
          /\ Goto(x, "take") /\ UNCHANGED aborted
      BY Zenon, <2>1, <2>4
    <3>5. pc' \in [Consumers -> CallSteps \cup PollerSteps]
      BY Zenon, <1>1, <1>2, <3>4, PcType
    <3> QED
      BY Zenon, <1>1, <2>2, <3>3, <3>4, <3>5 DEF RbTypeOK
  <2> QED
    BY Zenon, <2>3, <2>4
<1>10. ASSUME NEW x \in Consumers, CallbackThrows(x) PROVE RbTypeOK'
  BY Zenon, <1>1, <1>3, <1>10 DEF CallbackThrows, RbTypeOK
<1>11. ASSUME NEW x \in Consumers, CallbackStops(x) PROVE RbTypeOK'
  <2>1. pc' \in [Consumers -> CallSteps \cup PollerSteps]
    BY Zenon, <1>1, <1>2, <1>11, PcType DEF CallbackStops
  <2> QED
    BY Zenon, <1>1, <1>11, <2>1 DEF CallbackStops, RbTypeOK
<1>12. ASSUME NEW x \in Consumers, JoinStep(x) PROVE RbTypeOK'
  <2>1. CASE TestJoinable(x)
    <3>1. pc' \in [Consumers -> CallSteps \cup PollerSteps]
      BY Zenon, <1>1, <1>2, <2>1, PcType DEF TestJoinable, AfterJoinable, AfterStop
    <3> QED
      BY Zenon, <1>1, <2>1, <3>1 DEF TestJoinable, RbTypeOK
  <2>2. CASE Join(x)
    <3>1. AfterStop(pc[x]) \in CallSteps \cup PollerSteps
      BY Zenon, <1>2 DEF AfterStop
    <3>2. pc' \in [Consumers -> CallSteps \cup PollerSteps]
      BY Zenon, <1>1, <1>2, <2>2, <3>1 DEF Join, RbTypeOK
    <3> QED
      BY Zenon, <1>1, <2>2, <3>2 DEF Join, RbTypeOK
  <2> QED
    BY Zenon, <1>12, <2>1, <2>2 DEF JoinStep
<1> QED
  BY Zenon, <1>4, <1>5, <1>6, <1>7, <1>8, <1>9, <1>10, <1>11, <1>12 DEF ConsumerStep, PollStep
-----------------------------------------------------------------------------
(* What the record of overlaps says about the state after a step.          *)
LEMMA SeparateStep ==
  ASSUME Records, Separate'
  PROVE  Separate /\ \A t, u \in Threads : ~(pc'[t] \in StartSteps /\ pc'[u] \in StopSteps)
<1>1. "start/stop" \notin overlaps /\ "start/stop" \notin Overlapping'
  BY Zenon DEF Separate, Records
<1>2. "stop" \notin callbacks
  BY Zenon DEF Separate, Records
<1> QED
  BY Zenon, <1>1, <1>2 DEF Separate, Overlapping

(* A thread entering, working in or leaving a poll disturbs no call, and   *)
(* neither does a polling thread on its way.                               *)
LEMMA ConsumerMoveSteps ==
  ASSUME RbInv, NEW x \in Consumers, NEW s, Goto(x, s),
         x \in Threads => pc[x] \in {"idle"} \cup PollSteps /\ s \in {"idle"} \cup PollSteps,
         x \in Pollers => pc[x] # "none"
  PROVE  /\ \A y \in Consumers : pc'[y] = IF y = x THEN s ELSE pc[y]
         /\ \A t \in Threads : t = x \/ pc'[t] = pc[t]
         /\ \A p \in Pollers : pc'[p] # "none" => pc[p] # "none"
         /\ \A t \in Threads, step \in {"init", "members", "free"} \cup StartSteps \cup Stoppers :
              pc'[t] = step <=> pc[t] = step
<1>1. \A y \in Consumers : pc'[y] = IF y = x THEN s ELSE pc[y]
  BY Zenon DEF Goto, RbInv, RbTypeOK
<1>2. Threads \subseteq Consumers /\ Pollers \subseteq Consumers
  BY Zenon DEF Consumers
<1>3. \A t \in Threads : t = x \/ pc'[t] = pc[t]
  BY Zenon, <1>1, <1>2
<1>4. \A p \in Pollers : pc'[p] # "none" => pc[p] # "none"
  BY Zenon, <1>1, <1>2
<1>5. \A t \in Threads, step \in {"init", "members", "free"} \cup StartSteps \cup Stoppers :
        pc'[t] = step <=> pc[t] = step
  <2>1. \A step \in {"init", "members", "free"} \cup StartSteps \cup Stoppers :
          step \notin {"idle"} \cup PollSteps
    BY Zenon DEF PollSteps, CallbackSteps, NestedSteps, StartSteps, Stoppers, StopSteps
  <2> QED
    BY Zenon, <1>1, <1>2, <1>3, <2>1
<1> QED
  BY Zenon, <1>1, <1>3, <1>4, <1>5

LEMMA ConsumerMoveCalls ==
  ASSUME RbInv, NEW x \in Consumers, NEW s, Goto(x, s), m_is_polling' => m_is_polling,
         UNCHANGED <<m_mutex, made, destroyed, freed>>,
         x \in Threads => pc[x] \in {"idle"} \cup PollSteps /\ s \in {"idle"} \cup PollSteps
                          /\ ~destroyed,
         x \in Pollers => pc[x] # "none" /\ s \in PollerSteps
  PROVE  CallsInv'
<1>1. /\ \A y \in Consumers : pc'[y] = IF y = x THEN s ELSE pc[y]
      /\ \A t \in Threads : t = x \/ pc'[t] = pc[t]
  BY Zenon, ConsumerMoveSteps
<1>2. Threads \subseteq Consumers /\ Pollers \subseteq Consumers
  BY Zenon DEF Consumers
<1>3. \A t \in Threads, step \in {"init", "members", "free"} \cup StartSteps \cup Stoppers :
        pc'[t] = step <=> pc[t] = step
  BY Zenon, ConsumerMoveSteps
<1>4. \A t \in Threads : pc'[t] \in CallSteps
  BY Zenon, <1>1, <1>2 DEF RbInv, CallsInv, CallSteps
<1>5. \A p \in Pollers : pc'[p] \in PollerSteps
  BY Zenon, <1>1, <1>2 DEF RbInv, CallsInv
<1>6. \A t \in Threads : pc'[t] \in {"init"} \cup StartSteps => m_mutex' = t
  BY Zenon, <1>3 DEF RbInv, CallsInv
<1>7. made' # NoThread => \E t \in Threads : pc'[t] = "assign"
  BY Zenon, <1>3 DEF RbInv, CallsInv, StartSteps
<1>8. \A t \in Threads : pc'[t] \in DtorSteps =>
        destroyed' /\ \A u \in Threads \ {t} : pc'[u] = "idle"
  BY Zenon, <1>1, <1>3 DEF RbInv, CallsInv, DtorSteps, Stoppers
<1>9. destroyed' => ~m_is_polling' /\ \A t \in Threads : pc'[t] \in DtorSteps \cup {"idle"}
  BY Zenon, <1>1 DEF RbInv, CallsInv
<1>10. freed' # {} => destroyed' /\ \A t \in Threads : pc'[t] \in {"members", "idle"}
  BY Zenon, <1>1 DEF RbInv, CallsInv
<1> QED
  BY Zenon, <1>4, <1>5, <1>6, <1>7, <1>8, <1>9, <1>10 DEF CallsInv

LEMMA ConsumerMove ==
  ASSUME RbInv, NEW x \in Consumers, NEW s, Goto(x, s),
         UNCHANGED <<m_is_polling, m_polling_thread, m_mutex, made, destroyed, freed>>,
         x \in Threads => pc[x] \in {"idle"} \cup PollSteps /\ s \in {"idle"} \cup PollSteps
                          /\ ~destroyed,
         x \in Pollers => pc[x] # "none" /\ s \in PollerSteps,
         Records
  PROVE  CallsInv' /\ HandlesInv'
<1>1. CallsInv'
  BY Zenon, ConsumerMoveCalls
<1>2. /\ \A p \in Pollers : pc'[p] # "none" => pc[p] # "none"
      /\ \A t \in Threads, step \in {"init", "members", "free"} \cup StartSteps \cup Stoppers :
           pc'[t] = step <=> pc[t] = step
  BY Zenon, ConsumerMoveSteps
<1>3. HandlesInv'
  <2> SUFFICES ASSUME Separate' PROVE HandlesInv'
    BY Zenon DEF HandlesInv
  <2>1. Separate /\ HandlesInv
    BY Zenon, SeparateStep DEF RbInv
  <2>2. m_polling_thread' # NoThread /\ ~m_is_polling' => \E t \in Threads : pc'[t] \in Stoppers
    BY Zenon, <1>2, <2>1 DEF HandlesInv
  <2>3. \A t \in Threads : pc'[t] \in StartSteps => m_polling_thread' = NoThread /\ m_is_polling'
    BY Zenon, <1>2, <2>1 DEF HandlesInv
  <2>4. \A t \in Threads : pc'[t] \in Stoppers =>
          ~m_is_polling' /\ \A u \in Threads \ {t} : pc'[u] \notin Stoppers
    BY Zenon, <1>2, <2>1 DEF HandlesInv
  <2>5. \A t \in Threads : pc'[t] \in {"join", "dtor_join"} => m_polling_thread' # NoThread
    BY Zenon, <1>2, <2>1 DEF HandlesInv, Stoppers, StopSteps
  <2>6. \A t \in Threads : pc'[t] \in {"free", "members"} => m_polling_thread' = NoThread
    BY Zenon, <1>2, <2>1 DEF HandlesInv
  <2>7. \A p \in Pollers : pc'[p] # "none" => p = m_polling_thread' \/ p = made'
    BY Zenon, <1>2, <2>1 DEF HandlesInv
  <2> QED
    BY Zenon, <2>2, <2>3, <2>4, <2>5, <2>6, <2>7 DEF HandlesInv
<1> QED
  BY <1>1, <1>3

(* A step that leaves every thread where it is. *)
LEMMA StillCalls ==
  ASSUME RbInv, Records,
         UNCHANGED <<m_is_polling, m_polling_thread, m_mutex, made, destroyed, freed, pc>>
  PROVE  CallsInv' /\ HandlesInv'
<1>1. Separate' => Separate
  BY Zenon, SeparateStep
<1> QED
  BY Zenon, <1>1 DEF RbInv, CallsInv, HandlesInv

(* Where a poll is and where it goes. *)
LEMMA PollMoves ==
  ASSUME NEW x \in Consumers, PollStep(x)
  PROVE  /\ pc[x] \in PollSteps
         /\ \/ UNCHANGED pc
            \/ \E s \in PollSteps : Goto(x, s)
            \/ Goto(x, IF x \in Pollers THEN "loop" ELSE "idle")
BY Zenon DEF PollStep, ConsumerStep, ring_buffer__poll, TakeSample, StorePosition, PollReturns,
   CallbackThrows, CallbackStops, Leave, PollSteps, CallbackSteps, NestedSteps

LEMMA ConsumerCalls ==
  ASSUME RbInv, Records,
         \/ \E x \in Consumers : PollStep(x)
         \/ \E p \in Pollers : LoopTest(p)
         \/ \E t \in Threads : poll(t)
  PROVE  CallsInv' /\ HandlesInv'
<1> USE DEF objVars, libVars
<1>1. \A t \in Threads : t \in Consumers /\ t \notin Pollers
  BY Zenon, Disjoint DEF Consumers
<1>2. \A t \in Threads : pc[t] \in PollSteps => ~destroyed
  BY Zenon DEF RbInv, CallsInv, DtorSteps, PollSteps, CallbackSteps, NestedSteps
<1>3. ASSUME NEW x \in Consumers, PollStep(x) PROVE CallsInv' /\ HandlesInv'
  <2>1. pc[x] \in PollSteps /\ pc[x] # "none"
    BY Zenon, <1>3, PollMoves DEF PollSteps, CallbackSteps, NestedSteps
  <2>2. \/ UNCHANGED pc
        \/ \E s : /\ Goto(x, s) /\ (x \in Threads => s \in {"idle"} \cup PollSteps)
                  /\ (x \in Pollers => s \in PollerSteps)
    BY Zenon, <1>1, <1>3, PollMoves DEF PollerSteps
  <2>3. CASE ConsumerStep(x) \/ PollReturns(x) \/ CallbackThrows(x)
    <3>1. UNCHANGED <<m_is_polling, m_polling_thread, m_mutex, made, destroyed, freed>>
      BY Zenon, <2>3 DEF ConsumerStep, ring_buffer__poll, TakeSample, StorePosition, PollReturns,
         CallbackThrows
    <3>2. CASE UNCHANGED pc
      BY Zenon, <3>1, <3>2, StillCalls
    <3> QED
      BY Zenon, <1>2, <2>1, <2>2, <3>1, <3>2, ConsumerMove
  <2>4. CASE CallbackStops(x) /\ "stop" \in callbacks'
    <3>1. /\ UNCHANGED <<m_polling_thread, m_mutex, made, destroyed, freed>>
          /\ m_is_polling' = FALSE /\ Goto(x, "nested_stop")
          /\ "nested_stop" \in PollSteps /\ "nested_stop" \in PollerSteps
      BY Zenon, <2>4 DEF CallbackStops, PollSteps, CallbackSteps, NestedSteps, PollerSteps
    <3>2. CallsInv'
      BY Zenon, <1>1, <1>2, <2>1, <3>1, ConsumerMoveCalls
    <3> QED
      BY Zenon, <2>4, <3>2 DEF HandlesInv, Separate
  <2> QED
    BY Zenon, <1>3, <2>3, <2>4 DEF PollStep
<1>4. ASSUME NEW p \in Pollers, LoopTest(p) PROVE CallsInv' /\ HandlesInv'
  <2>1. p \in Consumers /\ p \notin Threads /\ pc[p] # "none"
    BY Zenon, <1>1, <1>4 DEF LoopTest, Consumers
  <2>2. PICK s \in PollerSteps : Goto(p, s)
    BY Zenon, <1>4 DEF LoopTest, Enter, PollerSteps, PollSteps
  <2>3. UNCHANGED <<m_is_polling, m_polling_thread, m_mutex, made, destroyed, freed>>
    BY Zenon, <1>4 DEF LoopTest, Enter
  <2> QED
    BY Zenon, <2>1, <2>2, <2>3, ConsumerMove
<1>5. ASSUME NEW t \in Threads, poll(t) PROVE CallsInv' /\ HandlesInv'
  <2>1. t \in Consumers /\ t \notin Pollers /\ pc[t] = "idle" /\ ~destroyed /\ Goto(t, "enter")
    BY Zenon, <1>1, <1>5 DEF poll, Calls, Enter
  <2>2. UNCHANGED <<m_is_polling, m_polling_thread, m_mutex, made, destroyed, freed>>
    BY Zenon, <1>5 DEF poll, Enter
  <2>3. "enter" \in PollSteps
    BY Zenon DEF PollSteps
  <2> QED
    BY Zenon, <2>1, <2>2, <2>3, ConsumerMove
<1> QED
  BY Zenon, <1>3, <1>4, <1>5

LEMMA ThreadMove ==
  ASSUME RbTypeOK, NEW t \in Threads, NEW s, Goto(t, s)
  PROVE  /\ \A u \in Threads : pc'[u] = IF u = t THEN s ELSE pc[u]
         /\ \A p \in Pollers : pc'[p] = pc[p]
BY Zenon, Disjoint DEF RbTypeOK, Goto, Consumers

-----------------------------------------------------------------------------
(* init. *)
LEMMA InitCalls ==
  ASSUME RbInv, NEW t \in Threads, init(t) \/ InitRingBuf(t),
         Records
  PROVE  CallsInv' /\ HandlesInv'
<1>1. PICK s \in {"idle", "init"} : Goto(t, s) /\ (s = "init" => m_mutex' = t)
  BY Zenon DEF init, InitRingBuf
<1>2. /\ \A u \in Threads : pc'[u] = IF u = t THEN s ELSE pc[u]
      /\ \A p \in Pollers : pc'[p] = pc[p]
  BY Zenon, <1>1, ThreadMove DEF RbInv
<1>3. /\ UNCHANGED <<m_is_polling, m_polling_thread, made, destroyed, freed>>
      /\ pc[t] \in {"idle", "init"} /\ ~destroyed
  BY Zenon DEF init, InitRingBuf, Calls, libVars, Replaced, RbInv, CallsInv, DtorSteps
<1>4. \A u \in Threads \ {t} : pc[u] \notin {"init"} \cup StartSteps
  <2>1. m_mutex = NoThread \/ m_mutex = t
    BY Zenon DEF init, InitRingBuf, RbInv, CallsInv
  <2> QED
    BY Zenon, <2>1, ReaderAssumption DEF RbInv, CallsInv
<1>5. CallsInv'
  BY <1>1, <1>2, <1>3, <1>4 DEF RbInv, CallsInv, CallSteps, DtorSteps, StartSteps
<1>6. HandlesInv'
  <2> SUFFICES ASSUME Separate' PROVE HandlesInv'
    BY Zenon DEF HandlesInv
  <2>1. Separate /\ HandlesInv
    BY Zenon, SeparateStep DEF RbInv
  <2> QED
    BY <1>2, <1>3, <2>1 DEF HandlesInv, StartSteps, Stoppers, StopSteps
<1> QED
  BY <1>5, <1>6
(* start_polling: with the flag down and no stop_polling in progress there *)
(* is no handle left, so none is assigned over.                            *)
LEMMA StartCalls ==
  ASSUME RbInv, NEW t \in Threads, start_polling(t), Records
  PROVE  CallsInv' /\ HandlesInv'
<1>1. /\ \A u \in Threads : pc'[u] = IF u = t THEN "start" ELSE pc[u]
      /\ \A p \in Pollers : pc'[p] = pc[p]
  BY Zenon, ThreadMove DEF RbInv, start_polling
<1>2. /\ UNCHANGED <<m_polling_thread, made, destroyed, freed>>
      /\ pc[t] = "idle" /\ ~destroyed /\ m_mutex = NoThread /\ m_mutex' = t
      /\ m_is_polling' = TRUE /\ ~m_is_polling
  BY Zenon DEF start_polling, Calls, libVars
<1>3. \A u \in Threads : pc[u] \notin {"init"} \cup StartSteps
  BY Zenon, <1>2, ReaderAssumption DEF RbInv, CallsInv
<1>4. CallsInv'
  BY <1>1, <1>2, <1>3 DEF RbInv, CallsInv, CallSteps, DtorSteps, StartSteps
<1>5. HandlesInv'
  <2> SUFFICES ASSUME Separate' PROVE HandlesInv'
    BY Zenon DEF HandlesInv
  <2>1. Separate /\ HandlesInv /\ \A u \in Threads : pc'[u] \notin StopSteps
    BY Zenon, <1>1, SeparateStep DEF RbInv, StartSteps
  <2>2. \A u \in Threads : pc[u] \notin Stoppers
    BY <1>1, <1>2, <2>1 DEF RbInv, CallsInv, Stoppers, StopSteps, DtorSteps
  <2>3. m_polling_thread = NoThread
    BY Zenon, <1>2, <2>1, <2>2 DEF HandlesInv
  <2> QED
    BY <1>1, <1>2, <2>1, <2>2, <2>3 DEF HandlesInv, StartSteps, Stoppers, StopSteps
<1> QED
  BY <1>4, <1>5

LEMMA MakeThreadCalls ==
  ASSUME RbInv, NEW t \in Threads, MakeThread(t), Records
  PROVE  CallsInv' /\ HandlesInv'
<1>1. /\ UNCHANGED <<m_is_polling, m_polling_thread, destroyed, freed>>
      /\ pc[t] = "start" /\ m_mutex = t /\ ~destroyed
  BY Zenon DEF MakeThread, libVars, RbInv, CallsInv, StartSteps, DtorSteps
<1>2. \A u \in Threads \ {t} : pc[u] \notin {"init"} \cup StartSteps
  BY Zenon, <1>1 DEF RbInv, CallsInv
<1>3. made = NoThread
  BY Zenon, <1>1, <1>2 DEF RbInv, CallsInv, StartSteps
<1>4. CASE Goto(t, "idle") /\ m_mutex' = NoThread /\ UNCHANGED made
  <2>1. /\ \A u \in Threads : pc'[u] = IF u = t THEN "idle" ELSE pc[u]
        /\ \A p \in Pollers : pc'[p] = pc[p]
    BY Zenon, <1>4, ThreadMove DEF RbInv
  <2>2. CallsInv'
    BY <1>1, <1>2, <1>3, <1>4, <2>1 DEF RbInv, CallsInv, CallSteps, DtorSteps, StartSteps
  <2>3. HandlesInv'
    <3> SUFFICES ASSUME Separate' PROVE HandlesInv'
      BY Zenon DEF HandlesInv
    <3>1. Separate /\ HandlesInv
      BY Zenon, SeparateStep DEF RbInv
    <3> QED
      BY <1>1, <1>3, <1>4, <2>1, <3>1 DEF HandlesInv, StartSteps, Stoppers, StopSteps
  <2> QED
    BY <2>2, <2>3
<1>5. ASSUME NEW p \in Pollers, pc[p] = "none", made' = p, UNCHANGED m_mutex,
             pc' = [pc EXCEPT ![t] = "assign", ![p] = "loop"]
      PROVE  CallsInv' /\ HandlesInv'
  <2>1. /\ \A u \in Threads : pc'[u] = IF u = t THEN "assign" ELSE pc[u]
        /\ \A q \in Pollers : pc'[q] = IF q = p THEN "loop" ELSE pc[q]
    BY <1>5, Disjoint DEF RbInv, RbTypeOK, Consumers
  <2>2. made' = p /\ p # NoThread /\ m_mutex' = t
    BY Zenon, <1>1, <1>5, Disjoint
  <2>3. CallsInv'
    <3>1. /\ \A u \in Threads : pc'[u] \in CallSteps
          /\ \A q \in Pollers : pc'[q] \in PollerSteps
      BY Zenon, <2>1 DEF RbInv, CallsInv, CallSteps, StartSteps, PollerSteps
    <3> QED
      BY <1>1, <1>2, <2>1, <2>2, <3>1 DEF RbInv, CallsInv, DtorSteps, StartSteps
  <2>4. HandlesInv'
    <3> SUFFICES ASSUME Separate' PROVE HandlesInv'
      BY Zenon DEF HandlesInv
    <3>1. Separate /\ HandlesInv
      BY Zenon, SeparateStep DEF RbInv
    <3> QED
      BY <1>1, <1>3, <2>1, <2>2, <3>1 DEF HandlesInv, StartSteps, Stoppers, StopSteps
  <2> QED
    BY <2>3, <2>4
<1> QED
  BY Zenon, <1>4, <1>5 DEF MakeThread

(* No handle is assigned over, so the process is not terminated here. *)
LEMMA AssignCalls ==
  ASSUME RbInv, NEW t \in Threads, AssignThread(t), Records
  PROVE  CallsInv' /\ HandlesInv' /\ (Separate' => ~aborted')
<1>1. /\ UNCHANGED <<m_is_polling, destroyed, freed>> /\ pc[t] = "assign" /\ m_mutex = t
      /\ ~destroyed /\ m_polling_thread' = made /\ made' = NoThread /\ m_mutex' = NoThread
      /\ aborted' = (m_polling_thread # NoThread)
  BY Zenon DEF AssignThread, libVars, RbInv, CallsInv, StartSteps, DtorSteps
<1>2. \A u \in Threads \ {t} : pc[u] \notin {"init"} \cup StartSteps
  BY Zenon, <1>1 DEF RbInv, CallsInv
<1>3. /\ \A u \in Threads : pc'[u] = IF u = t THEN "idle" ELSE pc[u]
      /\ \A p \in Pollers : pc'[p] = pc[p]
  BY Zenon, ThreadMove DEF RbInv, AssignThread
<1>4. CallsInv'
  BY <1>1, <1>2, <1>3 DEF RbInv, CallsInv, CallSteps, DtorSteps, StartSteps
<1>5. ASSUME Separate' PROVE HandlesInv' /\ ~aborted'
  <2>1. Separate /\ HandlesInv
    BY Zenon, <1>5, SeparateStep DEF RbInv
  <2>2. m_polling_thread = NoThread /\ m_is_polling
    BY Zenon, <1>1, <2>1 DEF HandlesInv, StartSteps
  <2>3. \A u \in Threads : pc[u] \notin Stoppers
    BY Zenon, <2>1, <2>2 DEF HandlesInv
  <2>4. \A u \in Threads : pc'[u] \notin {"free", "members"}
    BY <1>1, <1>3 DEF RbInv, CallsInv, DtorSteps
  <2> QED
    BY <1>1, <1>2, <1>3, <2>1, <2>2, <2>3, <2>4, Disjoint
       DEF HandlesInv, StartSteps, Stoppers, StopSteps
<1> QED
  BY Zenon, <1>4, <1>5 DEF HandlesInv

LEMMA StopCalls ==
  ASSUME RbInv, NEW t \in Threads, stop_polling(t), Records
  PROVE  CallsInv' /\ HandlesInv'
<1>1. /\ \A u \in Threads : pc'[u] = IF u = t THEN "stop" ELSE pc[u]
      /\ \A p \in Pollers : pc'[p] = pc[p]
  BY Zenon, ThreadMove DEF RbInv, stop_polling
<1>2. /\ UNCHANGED <<m_polling_thread, m_mutex, made, destroyed, freed>>
      /\ pc[t] = "idle" /\ ~destroyed /\ m_is_polling /\ ~m_is_polling'
  BY Zenon DEF stop_polling, Calls, libVars
<1>3. CallsInv'
  BY <1>1, <1>2 DEF RbInv, CallsInv, CallSteps, StopSteps, DtorSteps, StartSteps
<1>4. HandlesInv'
  <2> SUFFICES ASSUME Separate' PROVE HandlesInv'
    BY Zenon DEF HandlesInv
  <2>1. Separate /\ HandlesInv /\ \A u \in Threads : pc'[u] \notin StartSteps
    BY Zenon, <1>1, SeparateStep DEF RbInv, StopSteps
  <2>2. \A u \in Threads : pc[u] \notin Stoppers
    BY Zenon, <1>2, <2>1 DEF HandlesInv
  <2> QED
    BY <1>1, <1>2, <2>1, <2>2 DEF HandlesInv, Stoppers, StopSteps
<1> QED
  BY <1>3, <1>4

LEMMA TestJoinableCalls ==
  ASSUME RbInv, NEW t \in Threads, TestJoinable(t), pc[t] \notin NestedSteps, Records
  PROVE  CallsInv' /\ HandlesInv'
<1> DEFINE s == IF m_polling_thread # NoThread THEN AfterJoinable(pc[t]) ELSE AfterStop(pc[t])
<1>1. /\ \A u \in Threads : pc'[u] = IF u = t THEN s ELSE pc[u]
      /\ \A p \in Pollers : pc'[p] = pc[p]
  BY Zenon, ThreadMove DEF RbInv, TestJoinable
<1>2. UNCHANGED <<m_is_polling, m_polling_thread, m_mutex, made, destroyed, freed>>
  BY Zenon DEF TestJoinable, objVars, libVars
<1>3. \/ pc[t] = "stop" /\ m_polling_thread # NoThread /\ s = "join"
      \/ pc[t] = "stop" /\ m_polling_thread = NoThread /\ s = "idle"
      \/ pc[t] = "dtor_stop" /\ m_polling_thread # NoThread /\ s = "dtor_join"
      \/ pc[t] = "dtor_stop" /\ m_polling_thread = NoThread /\ s = "free"
  BY DEF TestJoinable, AfterJoinable, AfterStop, StopSteps, NestedSteps
<1> HIDE DEF s
<1>4. CallsInv'
  BY <1>1, <1>2, <1>3 DEF RbInv, CallsInv, CallSteps, StopSteps, DtorSteps, StartSteps
<1>5. HandlesInv'
  <2> SUFFICES ASSUME Separate' PROVE HandlesInv'
    BY Zenon DEF HandlesInv
  <2>1. Separate /\ HandlesInv
    BY Zenon, SeparateStep DEF RbInv
  <2> QED
    BY <1>1, <1>2, <1>3, <2>1 DEF HandlesInv, Stoppers, StopSteps, StartSteps
<1> QED
  BY <1>4, <1>5
(* The handle that is joined is there, so join does not throw. *)
LEMMA JoinCalls ==
  ASSUME RbInv, NEW t \in Threads, Join(t), pc[t] \notin NestedSteps, Records
  PROVE  CallsInv' /\ HandlesInv' /\ (Separate' => aborted' = aborted)
<1>1. /\ UNCHANGED <<m_is_polling, m_mutex, made, destroyed, freed>>
      /\ pc[t] \in {"join", "dtor_join"}
  BY Zenon DEF Join, libVars, NestedSteps
<1>2. CASE m_polling_thread \in {NoThread, t} /\ UNCHANGED <<m_polling_thread, pc>>
  <2>1. CallsInv'
    BY Zenon, <1>1, <1>2 DEF RbInv, CallsInv
  <2>2. ~Separate'
    BY Zenon, <1>1, <1>2, SeparateStep, Disjoint DEF RbInv, HandlesInv, RbTypeOK
  <2> QED
    BY Zenon, <2>1, <2>2 DEF HandlesInv
<1>3. CASE /\ m_polling_thread # NoThread /\ m_polling_thread' = NoThread /\ UNCHANGED aborted
           /\ pc' = [pc EXCEPT ![m_polling_thread] = "none", ![t] = AfterStop(pc[t])]
  <2>1. PICK p \in Pollers : p = m_polling_thread
    BY Zenon, <1>3 DEF RbInv, RbTypeOK
  <2> DEFINE s == AfterStop(pc[t])
  <2>2. /\ \A u \in Threads : pc'[u] = IF u = t THEN s ELSE pc[u]
        /\ \A q \in Pollers : pc'[q] = IF q = p THEN "none" ELSE pc[q]
    BY <1>3, <2>1, Disjoint DEF RbInv, RbTypeOK, Consumers
  <2>3. (pc[t] = "join" /\ s = "idle") \/ (pc[t] = "dtor_join" /\ s = "free")
    BY <1>1 DEF AfterStop, StopSteps
  <2> HIDE DEF s
  <2>4. CallsInv'
    <3>1. /\ \A u \in Threads : pc'[u] \in CallSteps
          /\ \A q \in Pollers : pc'[q] \in PollerSteps
      BY Zenon, <2>2, <2>3 DEF RbInv, CallsInv, CallSteps, PollerSteps
    <3> QED
      BY <1>1, <2>2, <2>3, <3>1 DEF RbInv, CallsInv, DtorSteps, StartSteps
  <2>5. HandlesInv'
    <3> SUFFICES ASSUME Separate' PROVE HandlesInv'
      BY Zenon DEF HandlesInv
    <3>1. Separate /\ HandlesInv
      BY Zenon, SeparateStep DEF RbInv
    <3>2. m_polling_thread' = NoThread
      BY Zenon, <1>3
    <3> QED
      BY <1>1, <2>1, <2>2, <2>3, <3>1, <3>2 DEF HandlesInv, Stoppers, StopSteps, StartSteps
  <2> QED
    BY Zenon, <1>3, <2>4, <2>5
<1> QED
  BY Zenon, <1>2, <1>3 DEF Join

(* join() inside a callback. *)
LEMMA NestedCalls ==
  ASSUME RbInv, NEW x \in Consumers, JoinStep(x), pc[x] \in NestedSteps, Records
  PROVE  CallsInv' /\ HandlesInv' /\ "stop" \in callbacks'
<1>1. "stop" \in callbacks' /\ pc[x] \in PollSteps /\ pc[x] # "none"
  BY Zenon DEF RbInv, NestedInv, Records, PollSteps, CallbackSteps, NestedSteps
<1>2. HandlesInv'
  BY Zenon, <1>1 DEF HandlesInv, Separate
<1>3. x \in Threads => ~destroyed
  BY Zenon, <1>1 DEF RbInv, CallsInv, DtorSteps, PollSteps, CallbackSteps, NestedSteps
<1>4. CASE TestJoinable(x)
  <2>1. PICK s \in {"nested_join", "callback"} : Goto(x, s)
    BY Zenon, <1>4 DEF TestJoinable, AfterJoinable, AfterStop, NestedSteps, StopSteps
  <2>2. s \in PollSteps /\ s \in PollerSteps
    BY Zenon, <2>1 DEF PollSteps, CallbackSteps, NestedSteps, PollerSteps
  <2>3. UNCHANGED <<m_is_polling, m_mutex, made, destroyed, freed>>
    BY Zenon, <1>4 DEF TestJoinable, objVars, libVars
  <2>4. CallsInv'
    BY Zenon, <1>1, <1>3, <2>1, <2>2, <2>3, ConsumerMoveCalls
  <2> QED
    BY Zenon, <1>1, <1>2, <2>4
<1>5. CASE Join(x)
  <2>1. UNCHANGED <<m_is_polling, m_mutex, made, destroyed, freed>>
    BY Zenon, <1>5 DEF Join, libVars
  <2>2. CASE UNCHANGED pc
    BY Zenon, <1>1, <1>2, <2>1, <2>2 DEF RbInv, CallsInv
  <2>3. CASE /\ m_polling_thread # NoThread
             /\ pc' = [pc EXCEPT ![m_polling_thread] = "none", ![x] = AfterStop(pc[x])]
    <3>1. AfterStop(pc[x]) = "callback"
      BY Zenon DEF AfterStop, NestedSteps, StopSteps
    <3>2. PICK p \in Pollers : p = m_polling_thread
      BY Zenon, <2>3 DEF RbInv, RbTypeOK
    <3>3. \A y \in Consumers : pc'[y] = IF y = x THEN "callback" ELSE IF y = p THEN "none" ELSE pc[y]
      BY Zenon, <2>3, <3>1, <3>2 DEF RbInv, RbTypeOK
    <3>4. /\ \A u \in Threads : pc'[u] = IF u = x THEN "callback" ELSE pc[u]
          /\ \A q \in Pollers : pc'[q] \in {"callback", "none", pc[q]}
      BY Zenon, <3>3, Disjoint DEF Consumers
    <3>5. /\ \A u \in Threads : pc'[u] \in CallSteps
          /\ \A q \in Pollers : pc'[q] \in PollerSteps
      BY Zenon, <3>4 DEF RbInv, CallsInv, CallSteps, PollerSteps, PollSteps, CallbackSteps
    <3>6. /\ \A u \in Threads : u # x => pc'[u] = pc[u]
          /\ \A u \in Threads : u = x => pc'[u] = "callback" /\ ~destroyed
                                /\ pc[u] \in {"nested_stop", "nested_join"}
      BY Zenon, <1>3, <3>4 DEF NestedSteps
    <3>7. CallsInv'
      BY <2>1, <3>5, <3>6 DEF RbInv, CallsInv, DtorSteps, StartSteps
    <3> QED
      BY Zenon, <1>1, <1>2, <3>7
  <2> QED
    BY Zenon, <1>5, <2>2, <2>3 DEF Join
<1> QED
  BY Zenon, <1>4, <1>5 DEF JoinStep

(* A thread in join() that is not inside a callback is a caller. *)
LEMMA JoinIsCall ==
  ASSUME RbInv, NEW x \in Consumers, JoinStep(x), pc[x] \notin NestedSteps
  PROVE  x \in Threads
BY Zenon DEF RbInv, CallsInv, Consumers, PollerSteps, PollSteps, CallbackSteps, NestedSteps,
   JoinStep,
   TestJoinable, Join

LEMMA DestroyCalls ==
  ASSUME RbInv, NEW t \in Threads, Destroy(t), Records
  PROVE  CallsInv' /\ HandlesInv'
<1> DEFINE s == IF m_is_polling THEN "dtor_stop" ELSE "free"
<1>1. /\ \A u \in Threads : pc'[u] = IF u = t THEN s ELSE pc[u]
      /\ \A p \in Pollers : pc'[p] = pc[p]
  BY Zenon, ThreadMove DEF RbInv, Destroy
<1>2. /\ UNCHANGED <<m_polling_thread, m_mutex, made, freed>> /\ ~destroyed /\ destroyed'
      /\ ~m_is_polling' /\ \A u \in Threads : pc[u] = "idle"
  BY Zenon DEF Destroy, libVars
<1>3. freed = {} /\ made = NoThread
  BY Zenon, <1>2 DEF RbInv, CallsInv
<1>4. (s = "dtor_stop" /\ m_is_polling) \/ (s = "free" /\ ~m_is_polling)
  BY Zenon
<1> HIDE DEF s
<1>5. CallsInv'
  BY <1>1, <1>2, <1>3, <1>4 DEF RbInv, CallsInv, CallSteps, DtorSteps, StartSteps
<1>6. HandlesInv'
  <2> SUFFICES ASSUME Separate' PROVE HandlesInv'
    BY Zenon DEF HandlesInv
  <2>1. Separate /\ HandlesInv
    BY Zenon, SeparateStep DEF RbInv
  <2> QED
    BY <1>1, <1>2, <1>4, <2>1 DEF HandlesInv, Stoppers, StopSteps, StartSteps
<1> QED
  BY <1>5, <1>6

(* The end of the destructor: no handle is left when the members go. *)
LEMMA FreeCalls ==
  ASSUME RbInv, NEW t \in Threads, FreeRingBuf(t) \/ DestroyMembers(t), ~aborted,
         Records
  PROVE  CallsInv' /\ HandlesInv' /\ (Separate' => ~aborted')
<1>1. PICK s \in {"members", "idle"} : Goto(t, s)
  BY Zenon DEF FreeRingBuf, DestroyMembers
<1>2. /\ \A u \in Threads : pc'[u] = IF u = t THEN s ELSE pc[u]
      /\ \A p \in Pollers : pc'[p] = pc[p]
  BY Zenon, <1>1, ThreadMove DEF RbInv
<1>3. /\ UNCHANGED <<m_is_polling, m_polling_thread, m_mutex, made, destroyed>>
      /\ pc[t] \in {"free", "members"} /\ (m_polling_thread = NoThread => ~aborted')
  <2>1. CASE FreeRingBuf(t)
    BY <2>1 DEF FreeRingBuf
  <2>2. CASE DestroyMembers(t)
    BY <2>2 DEF DestroyMembers, objVars
  <2> QED
    BY <2>1, <2>2
<1>4. destroyed /\ \A u \in Threads \ {t} : pc[u] = "idle"
  BY Zenon, <1>3 DEF RbInv, CallsInv, DtorSteps
<1>5. CallsInv'
  BY <1>2, <1>3, <1>4 DEF RbInv, CallsInv, CallSteps, DtorSteps, StartSteps
<1>6. ASSUME Separate' PROVE HandlesInv' /\ ~aborted'
  <2>1. Separate /\ HandlesInv
    BY Zenon, <1>6, SeparateStep DEF RbInv
  <2>2. m_polling_thread = NoThread
    BY Zenon, <1>3, <2>1 DEF HandlesInv
  <2> QED
    BY <1>2, <1>3, <1>4, <2>1, <2>2 DEF HandlesInv, Stoppers, StopSteps, StartSteps
<1> QED
  BY Zenon, <1>5, <1>6 DEF HandlesInv

LEMMA StepCalls ==
  ASSUME RbInv, Step, ~aborted, Records
  PROVE  CallsInv' /\ HandlesInv'
<1>1. ASSUME NEW t \in Threads, NewCall(t) \/ CallStep(t) PROVE CallsInv' /\ HandlesInv'
  BY Zenon, <1>1, ConsumerCalls, InitCalls, StartCalls, MakeThreadCalls, AssignCalls, StopCalls,
     DestroyCalls, FreeCalls DEF NewCall, CallStep
<1>2. ASSUME NEW x \in Consumers, JoinStep(x) PROVE CallsInv' /\ HandlesInv'
  BY Zenon, <1>2, NestedCalls, JoinIsCall, TestJoinableCalls, JoinCalls DEF JoinStep
<1>3. ASSUME NEW r \in Maps, Submit(r) PROVE CallsInv' /\ HandlesInv'
  BY Zenon, <1>3, StillCalls DEF Submit, objVars, libVars
<1> QED
  BY Zenon, <1>1, <1>2, <1>3, ConsumerCalls DEF Step

(* The process ends only where two calls met or a callback misbehaved. *)
LEMMA AbortStep ==
  ASSUME RbInv, Step, ~aborted, Records
  PROVE  AbortNeedsCause'
<1>1. ASSUME NEW t \in Threads, AssignThread(t) \/ DestroyMembers(t)
      PROVE  AbortNeedsCause'
  <2>1. Separate' => ~aborted'
    BY Zenon, <1>1, AssignCalls, FreeCalls
  <2> QED
    BY Zenon, <2>1 DEF AbortNeedsCause, Separate
<1>2. ASSUME NEW x \in Consumers, JoinStep(x) PROVE AbortNeedsCause'
  <2>1. CASE pc[x] \in NestedSteps
    BY Zenon, <1>2, <2>1, NestedCalls DEF AbortNeedsCause
  <2>2. CASE TestJoinable(x)
    BY Zenon, <2>2 DEF TestJoinable, AbortNeedsCause
  <2>3. CASE Join(x) /\ pc[x] \notin NestedSteps
    <3>1. Separate' => ~aborted'
      BY Zenon, <1>2, <2>3, JoinIsCall, JoinCalls
    <3> QED
      BY Zenon, <3>1 DEF AbortNeedsCause, Separate
  <2> QED
    BY Zenon, <1>2, <2>1, <2>2, <2>3 DEF JoinStep
<1>3. ASSUME NEW x \in Consumers, TakeSample(x) PROVE AbortNeedsCause'
  <2>1. CASE \A t \in Threads : pc[t] # "init"
    BY Zenon, <1>3, <2>1 DEF TakeSample, AbortNeedsCause
  <2>2. ASSUME NEW t \in Threads, pc[t] = "init" PROVE AbortNeedsCause'
    <3>1. pc[x] = "take" /\ Polling(x)
      BY Zenon, <1>3 DEF TakeSample, Polling, PollSteps
    <3>2. "init/poll" \in Overlapping
      BY Zenon, <2>2, <3>1 DEF Overlapping
    <3>3. "init/poll" \in overlaps'
      BY Zenon, <3>2 DEF RbInv, Records
    <3> QED
      BY Zenon, <3>3 DEF AbortNeedsCause
  <2> QED
    BY Zenon, <2>1, <2>2
<1>4. ASSUME NEW x \in Consumers, ring_buffer__poll(x) PROVE AbortNeedsCause'
  <2>1. pc[x] = "enter" /\ Polling(x)
    BY Zenon, <1>4 DEF ring_buffer__poll, Polling, PollSteps
  <2>2. buf[x] # 0
    BY <2>1 DEF RbInv, PositionsInv, Managers
  <2>3. CASE m_ring_buf # 0
    BY Zenon, <1>4, <2>2, <2>3 DEF ring_buffer__poll, AbortNeedsCause
  <2>4. CASE m_ring_buf = 0
    <3>1. ~Quiet
      BY Zenon, <2>1, <2>4 DEF RbInv, BufferInv
    <3>2. overlaps' \cap {"start/stop", "init/poll"} # {} \/ callbacks' # {}
      BY Zenon, <3>1 DEF Quiet, Records
    <3> QED
      BY Zenon, <3>2 DEF AbortNeedsCause
  <2> QED
    BY Zenon, <2>3, <2>4
<1>5. ASSUME NEW x \in Consumers, CallbackThrows(x), "throw" \in callbacks' PROVE AbortNeedsCause'
  BY Zenon, <1>5 DEF AbortNeedsCause
<1>6. ASSUME ~aborted' PROVE AbortNeedsCause'
  BY Zenon, <1>6 DEF AbortNeedsCause
<1>7. ASSUME aborted' PROVE AbortNeedsCause'
  <2>1. \/ \E t \in Threads : AssignThread(t) \/ DestroyMembers(t)
        \/ \E x \in Consumers : \/ JoinStep(x) \/ TakeSample(x) \/ ring_buffer__poll(x)
                               \/ (CallbackThrows(x) /\ "throw" \in callbacks')
    BY Zenon, <1>7 DEF Step, NewCall, CallStep, ConsumerStep, PollStep, init, InitRingBuf,
       start_polling, MakeThread, stop_polling, Destroy, FreeRingBuf, poll, LoopTest, Enter,
       StorePosition, PollReturns, CallbackStops, Submit
  <2> QED
    BY Zenon, <1>1, <1>2, <1>3, <1>4, <1>5, <2>1
<1> QED
  BY Zenon, <1>6, <1>7
-----------------------------------------------------------------------------
(* Event e of map r was handed to the callback. *)
Started(r, e) ==
  e <= consumed[r] \/ \E x \in Consumers :
                        pc[x] \in CallbackSteps /\ map_of[buf[x]] = r /\ e <= pos[x]

LEMMA EventsDef ==
  EachEventOnce <=>
    (Alone => \A r \in Maps, e \in Events : delivered[r][e] = IF Started(r, e) THEN 1 ELSE 0)
BY Zenon DEF EachEventOnce, Started, Alone

LEMMA AloneStep ==
  ASSUME Records, Alone'
  PROVE  Alone /\ \A x, y \in Consumers : pc'[x] \in PollSteps /\ pc'[y] \in PollSteps => x = y
<1>1. "poll/poll" \notin overlaps /\ "poll/poll" \notin Overlapping'
  BY Zenon DEF Alone, Records
<1>2. "throw" \notin callbacks
  BY Zenon DEF Alone, Records
<1> QED
  BY Zenon, <1>1, <1>2 DEF Alone, Overlapping, Polling

(* Steps that start nothing new for any event. *)
LEMMA EventsKept ==
  ASSUME EachEventOnce, Records, UNCHANGED delivered,
         Alone' => \A r \in Maps, e \in Events : Started(r, e)' <=> Started(r, e)
  PROVE  EachEventOnce'
<1> SUFFICES ASSUME Alone', NEW r \in Maps, NEW e \in Events
             PROVE  delivered'[r][e] = IF Started(r, e)' THEN 1 ELSE 0
  BY Zenon DEF EachEventOnce, Started, Alone
<1>1. delivered[r][e] = IF Started(r, e) THEN 1 ELSE 0
  BY Zenon, AloneStep, EventsDef
<1>2. Started(r, e)' <=> Started(r, e)
  BY Zenon
<1> QED
  BY <1>1, <1>2

(* Calls that leave the polls in progress alone. *)
KeepsPolls ==
  \A x \in Consumers : /\ pc'[x] \in PollSteps <=> pc[x] \in PollSteps
                       /\ pc'[x] = "take" <=> pc[x] = "take"
                       /\ pc'[x] \in CallbackSteps <=> pc[x] \in CallbackSteps

LEMMA QuietEvents ==
  ASSUME RbInv, Records,
         UNCHANGED <<buf, pos, map_of, consumed, delivered>>, m_ring_buf' \in {0, m_ring_buf},
         KeepsPolls
  PROVE  PositionsInv' /\ EachEventOnce'
<1>1. \A x \in Consumers : Polling(x)' <=> Polling(x)
  BY Zenon DEF Polling, KeepsPolls
<1>2. PositionsInv'
  <2>1. PositionsInv /\ (Alone' => Alone)
    BY Zenon, AloneStep DEF RbInv
  <2> QED
    BY Zenon, <1>1, <2>1 DEF PositionsInv, KeepsPolls
<1>3. EachEventOnce'
  <2>1. \A r \in Maps, e \in Events : Started(r, e)' <=> Started(r, e)
    BY Zenon DEF Started, KeepsPolls
  <2> QED
    BY Zenon, <2>1, EventsKept DEF RbInv
<1> QED
  BY <1>2, <1>3

(* A thread outside of every poll stays outside; one in a callback stays   *)
(* in it.                                                                  *)
LEMMA OutsideKeeps ==
  ASSUME RbInv, NEW y \in Consumers, NEW s, Goto(y, s),
         \/ pc[y] \notin PollSteps /\ s \notin PollSteps
         \/ pc[y] \in CallbackSteps /\ s \in CallbackSteps
  PROVE  KeepsPolls
<1>1. \A x \in Consumers : pc'[x] = IF x = y THEN s ELSE pc[x]
  BY Zenon DEF Goto, RbInv, RbTypeOK
<1>2. "take" \in PollSteps /\ "take" \notin CallbackSteps /\ CallbackSteps \subseteq PollSteps
  BY Zenon DEF PollSteps, CallbackSteps, NestedSteps
<1> QED
  BY Zenon, <1>1, <1>2 DEF KeepsPolls

QuietStep ==
  \/ \E t \in Threads :
       \/ init(t) \/ start_polling(t) \/ stop_polling(t) \/ Destroy(t) \/ MakeThread(t)
       \/ AssignThread(t) \/ FreeRingBuf(t) \/ DestroyMembers(t)
  \/ \E x \in Consumers : JoinStep(x) \/ CallbackStops(x)
  \/ \E r \in Maps : Submit(r)
  \/ \E p \in Pollers : LoopTest(p) /\ ~Enter(p)

LEMMA QuietKeeps ==
  ASSUME RbInv, QuietStep
  PROVE  KeepsPolls
<1>1. Threads \subseteq Consumers /\ Pollers \subseteq Consumers /\ RbTypeOK
  BY Zenon DEF Consumers, RbInv
<1>2. \A s \in {"idle", "init", "start", "assign", "stop", "join", "dtor_stop", "dtor_join", "free",
               "members", "none", "loop", "done"} : s \notin PollSteps /\ s \notin CallbackSteps
  BY Zenon DEF PollSteps, CallbackSteps, NestedSteps
<1>3. ASSUME UNCHANGED pc PROVE KeepsPolls
  BY Zenon, <1>3 DEF KeepsPolls
<1>4. ASSUME NEW t \in Threads,
             \/ init(t) \/ start_polling(t) \/ stop_polling(t) \/ Destroy(t)
             \/ AssignThread(t) \/ FreeRingBuf(t) \/ DestroyMembers(t)
      PROVE  KeepsPolls
  <2>1. pc[t] \notin PollSteps /\ \E s : s \notin PollSteps /\ Goto(t, s)
    BY Zenon, <1>2, <1>4 DEF init, start_polling, stop_polling, Destroy, AssignThread,
       FreeRingBuf, DestroyMembers, Calls
  <2> QED
    BY Zenon, <1>1, <2>1, OutsideKeeps
<1>5. ASSUME NEW t \in Threads, MakeThread(t) PROVE KeepsPolls
  <2>1. pc[t] = "start"
    BY Zenon, <1>5 DEF MakeThread
  <2>2. CASE Goto(t, "idle")
    BY Zenon, <1>1, <1>2, <2>1, <2>2, OutsideKeeps
  <2>3. ASSUME NEW p \in Pollers, pc[p] = "none", pc' = [pc EXCEPT ![t] = "assign", ![p] = "loop"]
        PROVE  KeepsPolls
    <3>1. \A x \in Consumers : pc'[x] = IF x = p THEN "loop" ELSE IF x = t THEN "assign"
                                        ELSE pc[x]
      BY Zenon, <1>1, <2>3 DEF RbTypeOK
    <3>2. "loop" # "take" /\ "assign" # "take" /\ "none" # "take" /\ "start" # "take"
      OBVIOUS
    <3> QED
      BY Zenon, <1>2, <2>1, <2>3, <3>1, <3>2 DEF KeepsPolls
  <2> QED
    BY Zenon, <1>5, <2>2, <2>3 DEF MakeThread
<1>6. ASSUME NEW x \in Consumers, JoinStep(x) PROVE KeepsPolls
  <2> DEFINE after == AfterStop(pc[x])
  <2>1. \/ pc[x] \in CallbackSteps /\ after \in CallbackSteps /\ AfterJoinable(pc[x]) \in NestedSteps
        \/ pc[x] \notin PollSteps /\ after \notin PollSteps /\ AfterJoinable(pc[x]) \notin PollSteps
        \/ pc[x] = "nested_join" /\ after \in CallbackSteps
    <3>1. pc[x] \in {"stop", "nested_stop", "dtor_stop", "join", "nested_join", "dtor_join"}
      BY Zenon, <1>6 DEF JoinStep, TestJoinable, Join
    <3> QED
      BY <3>1 DEF AfterStop, AfterJoinable, StopSteps, NestedSteps, CallbackSteps, PollSteps
  <2>2. CallbackSteps \subseteq PollSteps /\ NestedSteps \subseteq CallbackSteps
    BY Zenon DEF PollSteps, CallbackSteps
  <2> HIDE DEF after
  <2>3. CASE TestJoinable(x)
    <3>1. Goto(x, after) \/ (Goto(x, AfterJoinable(pc[x])) /\ pc[x] # "nested_join")
      BY Zenon, <2>3 DEF TestJoinable, after
    <3>2. "nested_join" \in CallbackSteps
      BY Zenon DEF CallbackSteps, NestedSteps
    <3> QED
      BY Zenon, <2>1, <2>2, <3>1, <3>2, OutsideKeeps
  <2>4. CASE Join(x)
    <3>1. CASE /\ m_polling_thread # NoThread /\ pc[m_polling_thread] = "done"
               /\ pc' = [pc EXCEPT ![m_polling_thread] = "none", ![x] = AfterStop(pc[x])]
      <4>1. \A y \in Consumers : pc'[y] = IF y = x THEN after
                                          ELSE IF y = m_polling_thread THEN "none" ELSE pc[y]
        BY Zenon, <1>1, <3>1 DEF RbTypeOK, after
      <4>2. "take" \notin CallbackSteps /\ "take" \in PollSteps
        BY Zenon DEF PollSteps, CallbackSteps, NestedSteps
      <4>3. \/ pc[x] \in CallbackSteps /\ after \in CallbackSteps
            \/ pc[x] \notin PollSteps /\ after \notin PollSteps
        BY Zenon, <2>1 DEF CallbackSteps, NestedSteps
      <4>4. "none" # "take" /\ "done" # "take"
        OBVIOUS
      <4> QED
        BY Zenon, <1>2, <2>2, <3>1, <4>1, <4>2, <4>3, <4>4 DEF KeepsPolls
    <3> QED
      BY Zenon, <1>3, <2>4, <3>1 DEF Join
  <2> QED
    BY Zenon, <1>6, <2>3, <2>4 DEF JoinStep
<1>7. ASSUME NEW x \in Consumers, CallbackStops(x) PROVE KeepsPolls
  BY Zenon, <1>7, OutsideKeeps DEF CallbackStops, CallbackSteps, NestedSteps
<1>8. ASSUME NEW p \in Pollers, LoopTest(p), ~Enter(p) PROVE KeepsPolls
  BY Zenon, <1>1, <1>2, <1>8, OutsideKeeps DEF LoopTest
<1> QED
  BY Zenon, <1>3, <1>4, <1>5, <1>6, <1>7, <1>8 DEF QuietStep, Submit

LEMMA QuietCalls ==
  ASSUME RbInv, Records, QuietStep
  PROVE  PositionsInv' /\ EachEventOnce'
<1>1. UNCHANGED <<buf, pos, map_of, consumed, delivered>> /\ m_ring_buf' \in {0, m_ring_buf}
  BY Zenon DEF QuietStep, init, start_polling, stop_polling, Destroy, MakeThread, AssignThread,
     JoinStep, TestJoinable, Join, CallbackStops, FreeRingBuf, DestroyMembers, Submit, LoopTest,
     objVars, libVars, ringVars
<1> QED
  BY Zenon, <1>1, QuietKeeps, QuietEvents
-----------------------------------------------------------------------------
(* A new manager takes an index no poll in progress uses. *)
LEMMA InitEvents ==
  ASSUME RbInv, Records, NEW t \in Threads, InitRingBuf(t)
  PROVE  PositionsInv' /\ EachEventOnce'
<1>1. /\ RbTypeOK /\ PositionsInv /\ EachEventOnce /\ (Alone' => Alone)
      /\ UNCHANGED <<buf, pos, consumed, delivered>>
  BY Zenon, AloneStep DEF RbInv, InitRingBuf, ringVars
<1>2. \A x \in Consumers : pc'[x] = IF x = t THEN "idle" ELSE pc[x]
  BY Zenon, <1>1, PcType, Disjoint DEF InitRingBuf, CallSteps, Consumers
<1>3. \A x \in Consumers : pc'[x] \in PollSteps => pc[x] = pc'[x]
  BY Zenon, <1>2 DEF PollSteps, CallbackSteps, NestedSteps
<1>4. \A x \in Consumers : pc[x] \in PollSteps => pc[x] = pc'[x]
  <2>1. pc[t] \notin PollSteps
    BY Zenon DEF InitRingBuf, PollSteps, CallbackSteps, NestedSteps
  <2> QED
    BY Zenon, <1>2, <2>1
<1>5. \A m \in Managers : map_of[m] \in Maps => map_of'[m] = map_of[m]
  BY Zenon, <1>1, MapsAreKinds DEF InitRingBuf, RbTypeOK
<1>6. m_ring_buf' # 0 => map_of'[m_ring_buf'] \in Maps
  BY Zenon, <1>1 DEF InitRingBuf, RbTypeOK
<1>7. \A x \in Consumers : pc[x] \in PollSteps =>
        map_of'[buf[x]] = map_of[buf[x]] /\ buf[x] \in Managers /\ map_of[buf[x]] \in Maps
  BY Zenon, <1>1, <1>5 DEF PositionsInv, Polling
<1>8. PositionsInv'
  BY <1>1, <1>3, <1>6, <1>7 DEF PositionsInv, Polling, PollSteps, CallbackSteps, NestedSteps
<1>9. EachEventOnce'
  <2>1. \A r \in Maps, e \in Events : Started(r, e)' <=> Started(r, e)
    BY <1>1, <1>3, <1>4, <1>7 DEF Started, PollSteps, CallbackSteps, NestedSteps
  <2> QED
    BY Zenon, <1>1, <2>1, EventsKept
<1> QED
  BY Zenon, <1>8, <1>9

(* poll tests the manager it finds. *)
LEMMA EnterEvents ==
  ASSUME RbInv, Records, NEW x \in Consumers, pc[x] \notin PollSteps, Enter(x)
  PROVE  PositionsInv' /\ EachEventOnce'
<1>1. /\ RbTypeOK /\ PositionsInv /\ EachEventOnce /\ (Alone' => Alone)
      /\ UNCHANGED <<m_ring_buf, pos, map_of, consumed, delivered>>
      /\ m_ring_buf \in Managers /\ map_of[m_ring_buf] \in Maps
  BY Zenon, AloneStep DEF RbInv, Enter, objVars, ringVars, PositionsInv, RbTypeOK
<1>2. \A y \in Consumers : /\ pc'[y] = IF y = x THEN "enter" ELSE pc[y]
                           /\ buf'[y] = IF y = x THEN m_ring_buf ELSE buf[y]
  BY Zenon, <1>1, PcType DEF Enter, CallSteps, PollSteps, RbTypeOK
<1>3. "enter" # "take" /\ "enter" \notin CallbackSteps /\ CallbackSteps \subseteq PollSteps
  BY Zenon DEF PollSteps, CallbackSteps, NestedSteps
<1>4. PositionsInv'
  <2>1. \A y \in Consumers : Polling(y)' => buf'[y] \in Managers /\ map_of[buf'[y]] \in Maps
    BY Zenon, <1>1, <1>2 DEF PositionsInv, Polling
  <2>2. ASSUME Alone', NEW y \in Consumers
        PROVE  /\ pc'[y] = "take" => pos[y] = consumed[map_of[buf'[y]]]
               /\ pc'[y] \in CallbackSteps => pos[y] = consumed[map_of[buf'[y]]] + 1
    BY Zenon, <1>1, <1>2, <1>3, <2>2 DEF PositionsInv
  <2> QED
    BY Zenon, <1>1, <2>1, <2>2 DEF PositionsInv
<1>5. EachEventOnce'
  <2>1. \A y \in Consumers : pc'[y] \in CallbackSteps <=> pc[y] \in CallbackSteps
    BY Zenon, <1>2, <1>3
  <2>2. \A y \in Consumers : pc[y] \in CallbackSteps => buf'[y] = buf[y]
    BY Zenon, <1>2, <1>3
  <2>3. \A r \in Maps, e \in Events : Started(r, e)' <=> Started(r, e)
    BY Zenon, <1>1, <2>1, <2>2 DEF Started
  <2> QED
    BY Zenon, <1>1, <2>3, EventsKept
<1> QED
  BY Zenon, <1>4, <1>5

(* A poll starts at the consumer position. *)
LEMMA PollEvents ==
  ASSUME RbInv, Records, NEW x \in Consumers, ring_buffer__poll(x)
  PROVE  PositionsInv' /\ EachEventOnce'
<1>1. /\ RbTypeOK /\ PositionsInv /\ EachEventOnce /\ (Alone' => Alone)
      /\ UNCHANGED <<m_ring_buf, map_of, consumed, delivered>> /\ pc[x] = "enter"
  BY Zenon, AloneStep DEF RbInv, ring_buffer__poll, objVars, ringVars
<1>2. PICK m \in {buf[x], m_ring_buf} :
        IF m = 0
        THEN aborted' = TRUE /\ UNCHANGED <<buf, pos, pc>>
        ELSE /\ buf' = [buf EXCEPT ![x] = m]
             /\ pos' = [pos EXCEPT ![x] = consumed[map_of[m]]]
             /\ Goto(x, "take")
             /\ UNCHANGED aborted
  BY Zenon DEF ring_buffer__poll
<1>3. CASE m = 0
  <2>1. UNCHANGED <<buf, pos, pc>>
    BY Zenon, <1>2, <1>3
  <2>2. KeepsPolls
    BY Zenon, <2>1 DEF KeepsPolls
  <2> QED
    BY Zenon, <1>1, <2>1, <2>2, QuietEvents
<1>4. CASE m # 0
  <2>1. m \in Managers /\ map_of[m] \in Maps
    BY Zenon, <1>1, <1>2, <1>4 DEF RbTypeOK, PositionsInv, Polling, PollSteps
  <2>2. \A y \in Consumers : pc'[y] = IF y = x THEN "take" ELSE pc[y]
    BY Zenon, <1>1, <1>2, <1>4, PcType DEF CallSteps, PollSteps
  <2>3. \A y \in Consumers : /\ buf'[y] = IF y = x THEN m ELSE buf[y]
                             /\ pos'[y] = IF y = x THEN consumed[map_of[m]] ELSE pos[y]
    BY Zenon, <1>1, <1>2, <1>4 DEF RbTypeOK
  <2>4. "take" \notin CallbackSteps /\ "enter" \notin CallbackSteps
    BY Zenon DEF CallbackSteps, NestedSteps
  <2>5. PositionsInv'
    <3>1. \A y \in Consumers : Polling(y)' => buf'[y] \in Managers /\ map_of[buf'[y]] \in Maps
      BY Zenon, <1>1, <2>1, <2>2, <2>3 DEF PositionsInv, Polling
    <3>2. ASSUME Alone', NEW y \in Consumers
          PROVE  /\ pc'[y] = "take" => pos'[y] = consumed[map_of[buf'[y]]]
                 /\ pc'[y] \in CallbackSteps => pos'[y] = consumed[map_of[buf'[y]]] + 1
      BY Zenon, <1>1, <2>2, <2>3, <2>4, <3>2 DEF PositionsInv
    <3> QED
      BY Zenon, <1>1, <3>1, <3>2 DEF PositionsInv
  <2>6. EachEventOnce'
    <3>1. \A y \in Consumers : pc'[y] \in CallbackSteps <=> pc[y] \in CallbackSteps
      BY Zenon, <1>1, <2>2, <2>4
    <3>2. \A y \in Consumers : pc[y] \in CallbackSteps => buf'[y] = buf[y] /\ pos'[y] = pos[y]
      BY Zenon, <1>1, <2>3, <2>4
    <3>3. \A r \in Maps, e \in Events : Started(r, e)' <=> Started(r, e)
      BY Zenon, <1>1, <3>1, <3>2 DEF Started
    <3> QED
      BY Zenon, <1>1, <3>3, EventsKept
  <2> QED
    BY Zenon, <2>5, <2>6
<1> QED
  BY Zenon, <1>3, <1>4

(* After an exception nothing is said of the events. *)
LEMMA ThrowEvents ==
  ASSUME RbInv, Records, NEW x \in Consumers, CallbackThrows(x), "throw" \in callbacks'
  PROVE  PositionsInv' /\ EachEventOnce'
<1>1. ~Alone' /\ RbTypeOK /\ PositionsInv /\ UNCHANGED <<m_ring_buf, map_of>>
  BY Zenon DEF Alone, RbInv, CallbackThrows, objVars
<1>2. \A y \in Consumers : Polling(y)' => Polling(y) /\ buf'[y] = buf[y]
  <2>1. CASE UNCHANGED <<pc, buf, pos>>
    BY Zenon, <2>1 DEF Polling
  <2>2. CASE Leave(x)
    <3>1. \A y \in Consumers : /\ y # x => pc'[y] = pc[y] /\ buf'[y] = buf[y]
                               /\ y = x => pc'[y] \in {"loop", "idle"}
      BY Zenon, <1>1, <2>2 DEF Leave, Goto, RbTypeOK
    <3> QED
      BY Zenon, <3>1 DEF Polling, PollSteps, CallbackSteps, NestedSteps
  <2> QED
    BY Zenon, <2>1, <2>2 DEF CallbackThrows
<1>3. PositionsInv'
  BY Zenon, <1>1, <1>2 DEF PositionsInv
<1>4. EachEventOnce'
  BY Zenon, <1>1 DEF EachEventOnce, Alone
<1> QED
  BY Zenon, <1>3, <1>4

LEMMA ReturnEvents ==
  ASSUME RbInv, Records, NEW x \in Consumers, PollReturns(x)
  PROVE  PositionsInv' /\ EachEventOnce'
<1>1. /\ RbTypeOK /\ PositionsInv /\ EachEventOnce /\ (Alone' => Alone)
      /\ UNCHANGED <<m_ring_buf, map_of, consumed, delivered>>
  BY Zenon, AloneStep DEF RbInv, PollReturns, objVars, ringVars
<1>2. /\ pc[x] = "take" /\ pc'[x] \notin PollSteps
      /\ \A y \in Consumers : y # x => pc'[y] = pc[y] /\ buf'[y] = buf[y] /\ pos'[y] = pos[y]
  BY Zenon, <1>1 DEF PollReturns, Leave, Goto, RbTypeOK, PollSteps, CallbackSteps, NestedSteps
<1>3. PositionsInv'
  BY <1>1, <1>2 DEF PositionsInv, Polling, PollSteps, CallbackSteps, NestedSteps
<1>4. EachEventOnce'
  <2>1. \A r \in Maps, e \in Events : Started(r, e)' <=> Started(r, e)
    BY <1>1, <1>2 DEF Started, PollSteps, CallbackSteps, NestedSteps
  <2> QED
    BY Zenon, <1>1, <2>1, EventsKept
<1> QED
  BY Zenon, <1>3, <1>4

(* The position is stored: what the callback was given is now consumed. *)
LEMMA StoreEvents ==
  ASSUME RbInv, Records, NEW x \in Consumers, StorePosition(x)
  PROVE  PositionsInv' /\ EachEventOnce'
<1> DEFINE r0 == map_of[buf[x]]
<1>1. /\ RbTypeOK /\ PositionsInv /\ EachEventOnce /\ pc[x] = "callback"
      /\ UNCHANGED <<m_ring_buf, buf, pos, map_of, delivered>>
      /\ buf[x] \in Managers /\ r0 \in Maps
  BY Zenon DEF RbInv, StorePosition, objVars, libVars, PositionsInv, Polling, PollSteps,
     CallbackSteps, NestedSteps
<1>2. \A y \in Consumers : pc'[y] = IF y = x THEN "take" ELSE pc[y]
  BY Zenon, <1>1, PcType DEF StorePosition, CallSteps, PollSteps, CallbackSteps, NestedSteps
<1>3. \A r \in Maps : consumed'[r] = IF r = r0 THEN pos[x] ELSE consumed[r]
  BY Zenon, <1>1 DEF StorePosition, RbTypeOK
<1>4. ASSUME Alone'
      PROVE  /\ Alone /\ pos[x] = consumed[r0] + 1
             /\ \A y \in Consumers : y # x => pc[y] \notin PollSteps
  <2>1. Alone /\ \A y \in Consumers : pc'[y] \in PollSteps => y = x
    <3>1. pc'[x] \in PollSteps
      BY Zenon, <1>2 DEF PollSteps
    <3> QED
      BY Zenon, <1>4, <3>1, AloneStep
  <2>2. pos[x] = consumed[r0] + 1
    BY Zenon, <1>1, <2>1 DEF PositionsInv, CallbackSteps
  <2> QED
    BY Zenon, <1>2, <2>1, <2>2
<1>5. PositionsInv'
  <2>1. /\ m_ring_buf # 0 => map_of[m_ring_buf] \in Maps
        /\ \A y \in Consumers : Polling(y) => buf[y] \in Managers /\ map_of[buf[y]] \in Maps
    BY Zenon, <1>1 DEF PositionsInv
  <2>2. \A y \in Consumers : Polling(y)' => Polling(y)
    BY Zenon, <1>1, <1>2 DEF Polling, PollSteps, CallbackSteps, NestedSteps
  <2>3. ASSUME Alone', NEW y \in Consumers
        PROVE  /\ pc'[y] = "take" => pos[y] = consumed'[map_of[buf[y]]]
               /\ pc'[y] \notin CallbackSteps
    <3>1. CASE y = x
      BY Zenon, <1>1, <1>2, <1>3, <3>1 DEF CallbackSteps, NestedSteps
    <3>2. CASE y # x
      BY Zenon, <1>2, <1>4, <2>3, <3>2 DEF PollSteps, CallbackSteps, NestedSteps
    <3> QED
      BY Zenon, <3>1, <3>2
  <2> QED
    BY Zenon, <1>1, <2>1, <2>2, <2>3 DEF PositionsInv
<1>6. EachEventOnce'
  <2>1. ASSUME Alone', NEW r \in Maps, NEW e \in Events
        PROVE  Started(r, e)' <=> Started(r, e)
    <3>1. Started(r, e)' <=> e <= consumed'[r]
      BY <1>2, <1>4, <2>1 DEF Started, PollSteps, CallbackSteps, NestedSteps
    <3>2. Started(r, e) <=> e <= consumed[r] \/ (r0 = r /\ e <= pos[x])
      BY <1>1, <1>4, <2>1 DEF Started, PollSteps, CallbackSteps, NestedSteps
    <3>3. e \in Nat /\ consumed[r] \in Nat /\ pos[x] \in Nat
      BY <1>1 DEF RbTypeOK, Events
    <3> QED
      BY <1>3, <1>4, <2>1, <3>1, <3>2, <3>3
  <2> QED
    BY Zenon, <1>1, <2>1, EventsKept
<1> QED
  BY Zenon, <1>5, <1>6
(* The next event goes to the callback, which had not seen it. *)
LEMMA TakeEvents ==
  ASSUME RbInv, Records, NEW x \in Consumers, TakeSample(x)
  PROVE  PositionsInv' /\ EachEventOnce'
<1> DEFINE r0 == map_of[buf[x]]
           e0 == pos[x] + 1
<1>1. /\ RbTypeOK /\ PositionsInv /\ EachEventOnce /\ pc[x] = "take"
      /\ UNCHANGED <<m_ring_buf, buf, map_of, consumed>>
      /\ buf[x] \in Managers /\ r0 \in Maps
  BY Zenon DEF RbInv, TakeSample, objVars, PositionsInv, Polling, PollSteps, CallbackSteps,
     NestedSteps
<1>2. \A y \in Consumers : pc'[y] = IF y = x THEN "callback" ELSE pc[y]
  BY Zenon, <1>1, PcType DEF TakeSample, CallSteps, PollSteps, CallbackSteps, NestedSteps
<1>3. \A y \in Consumers : pos'[y] = IF y = x THEN e0 ELSE pos[y]
  BY Zenon, <1>1 DEF TakeSample, RbTypeOK
<1>4. delivered' = Delivered(r0, e0)
  BY Zenon, <1>1, SampleIsKnown DEF TakeSample
<1>5. ASSUME Alone'
      PROVE  /\ Alone /\ pos[x] = consumed[r0]
             /\ \A y \in Consumers : y # x => pc[y] \notin PollSteps
  <2>1. Alone /\ \A y \in Consumers : pc'[y] \in PollSteps => y = x
    BY Zenon, <1>2, <1>5, AloneStep DEF PollSteps, CallbackSteps, NestedSteps
  <2>2. pos[x] = consumed[r0]
    BY Zenon, <1>1, <2>1 DEF PositionsInv
  <2> QED
    BY Zenon, <1>2, <2>1, <2>2
<1>6. PositionsInv'
  <2>1. /\ m_ring_buf # 0 => map_of[m_ring_buf] \in Maps
        /\ \A y \in Consumers : Polling(y) => buf[y] \in Managers /\ map_of[buf[y]] \in Maps
    BY Zenon, <1>1 DEF PositionsInv
  <2>2. \A y \in Consumers : Polling(y)' => Polling(y)
    BY Zenon, <1>1, <1>2 DEF Polling, PollSteps, CallbackSteps, NestedSteps
  <2>3. ASSUME Alone', NEW y \in Consumers
        PROVE  /\ pc'[y] # "take"
               /\ pc'[y] \in CallbackSteps => pos'[y] = consumed[map_of[buf[y]]] + 1
    <3>1. CASE y = x
      BY Zenon, <1>2, <1>3, <1>5, <2>3, <3>1
    <3>2. CASE y # x
      BY Zenon, <1>2, <1>5, <2>3, <3>2 DEF PollSteps, CallbackSteps, NestedSteps
    <3> QED
      BY Zenon, <3>1, <3>2
  <2> QED
    BY Zenon, <1>1, <2>1, <2>2, <2>3 DEF PositionsInv
<1>7. EachEventOnce'
  <2> SUFFICES ASSUME Alone', NEW r \in Maps, NEW e \in Events
               PROVE  delivered'[r][e] = IF Started(r, e)' THEN 1 ELSE 0
    BY Zenon DEF EachEventOnce, Started, Alone
  <2>1. delivered[r][e] = IF Started(r, e) THEN 1 ELSE 0
    BY Zenon, <1>1, <1>5, EventsDef
  <2>2. Started(r, e)' <=> e <= consumed[r] \/ (r0 = r /\ e <= e0)
    BY <1>1, <1>2, <1>3, <1>5 DEF Started, PollSteps, CallbackSteps, NestedSteps
  <2>3. Started(r, e) <=> e <= consumed[r]
    BY <1>1, <1>5 DEF Started, PollSteps, CallbackSteps, NestedSteps
  <2>4. e \in Nat /\ consumed[r] \in Nat /\ pos[x] \in Nat
    BY <1>1 DEF RbTypeOK, Events
  <2>5. delivered'[r][e] = IF r = r0 /\ e = e0 THEN IF delivered[r][e] = 0 THEN 1 ELSE 2
                           ELSE delivered[r][e]
    BY <1>1, <1>4 DEF Delivered, RbTypeOK
  <2> QED
    BY <1>5, <2>1, <2>2, <2>3, <2>4, <2>5
<1> QED
  BY Zenon, <1>6, <1>7

LEMMA StepEvents ==
  ASSUME RbInv, Records, Step
  PROVE  PositionsInv' /\ EachEventOnce'
<1>1. ASSUME NEW t \in Threads, NewCall(t) \/ CallStep(t)
      PROVE  PositionsInv' /\ EachEventOnce'
  <2>1. CASE poll(t)
    BY Zenon, <2>1, EnterEvents
       DEF poll, Calls, PollSteps, CallbackSteps, NestedSteps, Consumers
  <2>2. CASE InitRingBuf(t)
    BY Zenon, <2>2, InitEvents
  <2> QED
    BY Zenon, <1>1, <2>1, <2>2, QuietCalls DEF NewCall, CallStep, QuietStep
<1>2. ASSUME NEW x \in Consumers, JoinStep(x) \/ PollStep(x)
      PROVE  PositionsInv' /\ EachEventOnce'
  BY Zenon, <1>2, PollEvents, TakeEvents, StoreEvents, ReturnEvents, ThrowEvents, QuietCalls
     DEF ConsumerStep, PollStep, QuietStep
<1>3. ASSUME NEW p \in Pollers, LoopTest(p)
      PROVE  PositionsInv' /\ EachEventOnce'
  <2>1. CASE Enter(p)
    BY Zenon, <1>3, <2>1, EnterEvents
       DEF LoopTest, PollSteps, CallbackSteps, NestedSteps, Consumers
  <2>2. CASE ~Enter(p)
    BY Zenon, <1>3, <2>2, QuietCalls DEF QuietStep
  <2> QED
    BY Zenon, <2>1, <2>2
<1>4. ASSUME NEW r \in Maps, Submit(r)
      PROVE  PositionsInv' /\ EachEventOnce'
  BY Zenon, <1>4, QuietCalls DEF QuietStep
<1> QED
  BY Zenon, <1>1, <1>2, <1>3, <1>4 DEF Step
-----------------------------------------------------------------------------
(* While no start_polling met a stop_polling, the destructor frees the     *)
(* manager after the last poll.                                            *)
LEMMA FreeIsLast ==
  ASSUME RbInv, Separate, NEW t \in Threads, pc[t] \in {"free", "members"}, NEW x \in Consumers
  PROVE  ~Polling(x)
<1>1. /\ CallsInv /\ HandlesInv /\ pc[t] \in DtorSteps
  BY Zenon DEF RbInv, DtorSteps
<1>2. \A u \in Threads \ {t} : pc[u] = "idle"
  BY Zenon, <1>1 DEF CallsInv
<1>3. made = NoThread /\ m_polling_thread = NoThread
  BY Zenon, <1>1, <1>2 DEF CallsInv, HandlesInv
<1>4. \A p \in Pollers : pc[p] = "none"
  BY Zenon, <1>1, <1>3, Disjoint DEF HandlesInv
<1>5. pc[x] \in {"free", "members", "idle", "none"}
  BY Zenon, <1>2, <1>4 DEF Consumers
<1> QED
  BY Zenon, <1>5 DEF Polling, PollSteps, CallbackSteps, NestedSteps

(* The pointer is cleared only while no poll is in progress, or by an init *)
(* that is on record.                                                      *)
LEMMA StepBuffer ==
  ASSUME RbInv, Records, Step
  PROVE  BufferInv'
<1> SUFFICES ASSUME Quiet', NEW x \in Consumers, Polling(x)'
             PROVE  m_ring_buf' # 0
  BY Zenon DEF BufferInv
<1>1. Quiet /\ Separate /\ "init/poll" \notin overlaps
  BY Zenon DEF Quiet, Records, Separate
<1>2. Polling(x) => m_ring_buf # 0
  BY Zenon, <1>1 DEF RbInv, BufferInv
<1>3. ASSUME NEW t \in Threads, FreeRingBuf(t) PROVE FALSE
  <2>1. QuietStep /\ pc[t] = "free"
    BY Zenon, <1>3 DEF QuietStep, FreeRingBuf
  <2>2. Polling(x)
    BY Zenon, <2>1, QuietKeeps DEF KeepsPolls, Polling
  <2> QED
    BY Zenon, <1>1, <2>1, <2>2, FreeIsLast
<1>4. ASSUME QuietStep, UNCHANGED m_ring_buf PROVE m_ring_buf' # 0
  BY Zenon, <1>2, <1>4, QuietKeeps DEF KeepsPolls, Polling
<1>5. ASSUME NEW t \in Threads, InitRingBuf(t) PROVE m_ring_buf' # 0
  <2>1. pc[t] = "init" /\ Goto(t, "idle") /\ t \in Consumers
    BY Zenon, <1>5 DEF InitRingBuf, Consumers
  <2>2. "init" \notin PollSteps /\ "idle" \notin PollSteps
    BY Zenon DEF PollSteps, CallbackSteps, NestedSteps
  <2>3. Polling(x)
    BY Zenon, <2>1, <2>2, OutsideKeeps DEF KeepsPolls, Polling
  <2>4. "init/poll" \in Overlapping
    BY Zenon, <2>1, <2>3 DEF Overlapping
  <2> QED
    BY Zenon, <1>1, <2>4 DEF RbInv
<1>6. ASSUME NEW y \in Consumers, Enter(y) PROVE m_ring_buf' # 0
  BY Zenon, <1>6 DEF Enter, objVars
<1>7. ASSUME NEW y \in Consumers, PollStep(y) PROVE m_ring_buf' # 0
  <2>1. UNCHANGED m_ring_buf
    BY Zenon, <1>7 DEF PollStep, ConsumerStep, ring_buffer__poll, TakeSample, StorePosition,
       PollReturns, CallbackThrows, CallbackStops, objVars
  <2>2. x # y => pc'[x] = pc[x]
    BY Zenon, <1>7, PollMoves DEF Goto, RbInv, RbTypeOK
  <2>3. Polling(x)
    BY Zenon, <1>7, <2>2, PollMoves DEF Polling
  <2> QED
    BY Zenon, <1>2, <2>1, <2>3
<1>8. ASSUME NEW t \in Threads, NewCall(t) \/ CallStep(t) PROVE m_ring_buf' # 0
  <2>1. CASE poll(t)
    BY Zenon, <1>6, <2>1 DEF poll, Consumers
  <2>2. CASE InitRingBuf(t) \/ FreeRingBuf(t)
    BY Zenon, <1>3, <1>5, <2>2
  <2>3. CASE \/ init(t) \/ start_polling(t) \/ stop_polling(t) \/ Destroy(t) \/ MakeThread(t)
             \/ AssignThread(t) \/ DestroyMembers(t)
    <3>1. QuietStep /\ UNCHANGED m_ring_buf
      BY Zenon, <2>3 DEF QuietStep, init, start_polling, stop_polling, Destroy, MakeThread,
         AssignThread, DestroyMembers, objVars
    <3> QED
      BY Zenon, <1>4, <3>1
  <2> QED
    BY Zenon, <1>8, <2>1, <2>2, <2>3 DEF NewCall, CallStep
<1>9. ASSUME NEW y \in Consumers, JoinStep(y) PROVE m_ring_buf' # 0
  BY Zenon, <1>4, <1>9 DEF QuietStep, JoinStep, TestJoinable, Join, objVars
<1>10. ASSUME NEW p \in Pollers, LoopTest(p) PROVE m_ring_buf' # 0
  <2>1. CASE Enter(p)
    BY Zenon, <1>6, <2>1 DEF Consumers
  <2>2. CASE ~Enter(p)
    BY Zenon, <1>4, <1>10, <2>2 DEF QuietStep, LoopTest, objVars
  <2> QED
    BY Zenon, <2>1, <2>2
<1>11. ASSUME NEW r \in Maps, Submit(r) PROVE m_ring_buf' # 0
  BY Zenon, <1>4, <1>11 DEF QuietStep, Submit, objVars
<1> QED
  BY Zenon, <1>7, <1>8, <1>9, <1>10, <1>11 DEF Step

(* Only a callback that calls stop_polling gets into the steps inside it. *)
LEMMA StepNested ==
  ASSUME RbInv, Records, Step
  PROVE  NestedInv'
<1> SUFFICES ASSUME NEW x \in Consumers, pc'[x] \in NestedSteps
             PROVE  "stop" \in callbacks'
  BY Zenon DEF NestedInv
<1>1. pc[x] \in NestedSteps => "stop" \in callbacks'
  BY Zenon DEF RbInv, NestedInv, Records
<1>2. /\ \A s \in {"idle", "init", "start", "assign", "stop", "dtor_stop", "free", "members",
                   "none", "loop", "done", "enter", "take", "callback"} : s \notin NestedSteps
      /\ Threads \subseteq Consumers /\ Pollers \subseteq Consumers /\ RbTypeOK
  BY Zenon DEF NestedSteps, Consumers, RbInv
<1>3. ASSUME NEW y \in Consumers, NEW s, Goto(y, s), s \notin NestedSteps
      PROVE  pc[x] \in NestedSteps
  BY Zenon, <1>2, <1>3 DEF Goto, RbTypeOK
<1>4. ASSUME NEW t \in Threads, NewCall(t) \/ CallStep(t) PROVE pc[x] \in NestedSteps
  <2>1. CASE \E p \in Pollers : pc' = [pc EXCEPT ![t] = "assign", ![p] = "loop"]
    BY Zenon, <1>2, <2>1 DEF RbTypeOK
  <2>2. CASE ~\E p \in Pollers : pc' = [pc EXCEPT ![t] = "assign", ![p] = "loop"]
    <3>1. \E s : s \notin NestedSteps /\ Goto(t, s)
      BY Zenon, <1>2, <1>4, <2>2 DEF NewCall, CallStep, init, start_polling, stop_polling, poll,
         Enter, Destroy, InitRingBuf, MakeThread, AssignThread, FreeRingBuf, DestroyMembers
    <3> QED
      BY Zenon, <1>2, <1>3, <3>1
  <2> QED
    BY Zenon, <2>1, <2>2
<1>5. ASSUME NEW y \in Consumers, JoinStep(y) PROVE "stop" \in callbacks'
  <2>1. CASE pc[y] \in NestedSteps
    BY Zenon, <1>5, <2>1, NestedCalls
  <2>2. CASE pc[y] \notin NestedSteps
    <3>1. AfterStop(pc[y]) \notin NestedSteps /\ AfterJoinable(pc[y]) \notin NestedSteps
      BY Zenon, <2>2 DEF AfterStop, AfterJoinable, NestedSteps
    <3>2. CASE TestJoinable(y)
      BY Zenon, <1>1, <1>3, <3>1, <3>2 DEF TestJoinable
    <3>3. CASE UNCHANGED pc
      BY Zenon, <1>1, <3>3
    <3>4. CASE /\ m_polling_thread # NoThread
               /\ pc' = [pc EXCEPT ![m_polling_thread] = "none", ![y] = AfterStop(pc[y])]
      <4>1. pc'[x] = IF x = y THEN AfterStop(pc[y]) ELSE IF x = m_polling_thread THEN "none"
                     ELSE pc[x]
        BY Zenon, <1>2, <3>4 DEF RbTypeOK
      <4> QED
        BY Zenon, <1>1, <1>2, <3>1, <4>1
    <3> QED
      BY Zenon, <1>5, <3>2, <3>3, <3>4 DEF JoinStep, Join
  <2> QED
    BY Zenon, <2>1, <2>2
<1>6. ASSUME NEW y \in Consumers, PollStep(y) PROVE "stop" \in callbacks'
  <2>1. CASE ConsumerStep(y) \/ PollReturns(y) \/ CallbackThrows(y)
    <3>1. UNCHANGED pc \/ \E s : s \notin NestedSteps /\ Goto(y, s)
      BY Zenon, <1>2, <2>1 DEF ConsumerStep, ring_buffer__poll, TakeSample, StorePosition,
         PollReturns, CallbackThrows, Leave
    <3> QED
      BY Zenon, <1>1, <1>3, <3>1
  <2> QED
    BY Zenon, <1>6, <2>1 DEF PollStep
<1>7. ASSUME NEW p \in Pollers, LoopTest(p) PROVE pc[x] \in NestedSteps
  BY Zenon, <1>2, <1>3, <1>7 DEF LoopTest, Enter
<1> QED
  BY Zenon, <1>1, <1>4, <1>5, <1>6, <1>7 DEF Step, Submit
-----------------------------------------------------------------------------
LEMMA RbNextInv ==
  ASSUME RbInv, [RbNext]_rbVars
  PROVE  RbInv'
<1>1. CASE UNCHANGED rbVars
  BY <1>1 DEF RbInv, rbVars, codeVars, objVars, libVars, ringVars, RbTypeOK, CallsInv, HandlesInv,
     Separate, PositionsInv, Alone, Polling, EachEventOnce, AbortNeedsCause, NestedInv, BufferInv,
     Quiet, Overlapping
<1>2. CASE RbNext
  <2>1. /\ Step /\ ~aborted /\ Records
        /\ callbacks' \subseteq callbacks \cup {"throw", "stop"}
    BY Zenon, <1>2, NextIsStep
  <2>2. /\ overlaps' \subseteq {"start/stop", "init/poll", "poll/poll"}
        /\ callbacks' \subseteq {"throw", "stop"}
        /\ Overlapping' \subseteq overlaps'
    BY Zenon, <2>1 DEF RbInv, RbTypeOK, Overlapping, Records
  <2>3. RbTypeOK'
    BY Zenon, <2>1, <2>2, CallType, ConsumerType DEF Step, Consumers
  <2> QED
    BY Zenon, <2>1, <2>2, <2>3, StepCalls, AbortStep, StepEvents, StepNested, StepBuffer DEF RbInv
<1> QED
  BY Zenon, <1>1, <1>2

LEMMA RbInvariant == RbSpec => []RbInv
BY InitRbInv, RbNextInv, PTL DEF RbSpec

(* The reader's state is well typed with any number of threads, polling    *)
(* threads, maps and events: no sample is decoded as an unknown event and  *)
(* no position leaves the range of the events that can be submitted.       *)
THEOREM ReaderTypeCorrect == RbSpec => []RbTypeOK
<1>1. RbInv => RbTypeOK
  BY Zenon DEF RbInv
<1> QED
  BY <1>1, RbInvariant, PTL

(* stop_polling, the destructor, the assignment in start_polling and a     *)
(* poll end the process only after start_polling met stop_polling, init    *)
(* met a poll, or a callback threw or called stop_polling, with any number *)
(* of threads and in any order of calls.                                   *)
THEOREM AbortsHaveCauses == RbSpec => []AbortNeedsCause
<1>1. RbInv => AbortNeedsCause
  BY Zenon DEF RbInv
<1> QED
  BY <1>1, RbInvariant, PTL

(* Without a start_polling that met a stop_polling or a callback that      *)
(* called it, the destructor frees the ring buffer after the last          *)
(* ring_buffer__poll has ended, whoever made that call.                    *)
THEOREM NoPollAfterFree == RbSpec => []PolledBufferIsOpen
<1>1. ASSUME RbInv PROVE PolledBufferIsOpen
  <2> SUFFICES ASSUME Separate PROVE PolledBufferIsOpen
    BY Zenon DEF PolledBufferIsOpen, Separate
  <2>1. CallsInv /\ HandlesInv
    BY Zenon, <1>1 DEF RbInv
  <2>2. ASSUME NEW p \in Pollers, pc[p] # "none", destroyed
        PROVE  \E t \in Threads : pc[t] \in {"dtor_stop", "dtor_join"}
    <3>1. /\ ~m_is_polling
          /\ \A t \in Threads : pc[t] \in DtorSteps \cup {"idle"}
      BY Zenon, <2>1, <2>2 DEF CallsInv
    <3>2. made = NoThread
      BY Zenon, <2>1, <3>1 DEF CallsInv, DtorSteps
    <3>3. m_polling_thread = p /\ p # NoThread
      BY Zenon, <2>1, <2>2, <3>2, ReaderAssumption DEF HandlesInv
    <3>4. PICK t \in Threads : pc[t] \in Stoppers
      BY Zenon, <2>1, <3>1, <3>3 DEF HandlesInv
    <3> QED
      BY Zenon, <3>1, <3>4 DEF Stoppers, StopSteps, DtorSteps
  <2>3. ASSUME NEW x \in Consumers, Polling(x), buf[x] \in freed
        PROVE  FALSE
    <3>1. destroyed /\ \A t \in Threads : pc[t] \in {"members", "idle"}
      BY Zenon, <2>1, <2>3 DEF CallsInv
    <3>2. x \in Pollers /\ pc[x] # "none"
      BY Zenon, <2>3, <3>1 DEF Consumers, Polling, PollSteps, CallbackSteps, NestedSteps
    <3> QED
      BY Zenon, <2>2, <3>1, <3>2
  <2>4. ASSUME NEW p \in Pollers, destroyed, pc[p] \in {"loop"} \cup PollSteps
        PROVE  \E t \in Threads : pc[t] \in {"dtor_stop", "dtor_join"}
    BY Zenon, <2>2, <2>4 DEF PollSteps, CallbackSteps, NestedSteps
  <2> QED
    BY Zenon, <2>3, <2>4 DEF PolledBufferIsOpen
<1> QED
  BY <1>1, RbInvariant, PTL

(* Restarted polling threads and new managers for the same map lose no     *)
(* event and repeat none, as long as no two polls run at the same time and *)
(* no callback throws.                                                     *)
THEOREM EventsDeliveredOnce == RbSpec => []EachEventOnce
<1>1. RbInv => EachEventOnce
  BY Zenon DEF RbInv
<1> QED
  BY <1>1, RbInvariant, PTL

-----------------------------------------------------------------------------
(* A thread whose handle is stored, or about to be, runs or has run. *)
HandleLive ==
  Separate => \A p \in {m_polling_thread, made} : p # NoThread => pc[p] # "none"

LEMMA InitHandleLive == RbInit => HandleLive
BY Zenon DEF RbInit, HandleLive

(* Only join() gives a thread back, and it drops the handle in the same    *)
(* step, when no other thread is about to be stored.                       *)
LEMMA HandleLiveStep ==
  ASSUME RbInv, HandleLive, [RbNext]_rbVars
  PROVE  HandleLive'
<1>1. CASE UNCHANGED rbVars
  BY Zenon, <1>1 DEF HandleLive, Separate, rbVars, codeVars, objVars
<1>2. CASE RbNext
  <2>1. Step /\ Records
    BY Zenon, <1>2, NextIsStep
  <2> SUFFICES ASSUME Separate', NEW p \in {m_polling_thread', made'}, p # NoThread
               PROVE  pc'[p] # "none"
    BY Zenon DEF HandleLive
  <2>2. /\ RbTypeOK /\ CallsInv /\ HandlesInv /\ Separate
    BY Zenon, <2>1, SeparateStep DEF RbInv
  <2>3. \A q \in {m_polling_thread, made} : q # NoThread => q \in Pollers /\ pc[q] # "none"
    BY Zenon, <2>2 DEF HandleLive, RbTypeOK
  <2>4. ASSUME NEW t \in Consumers, Join(t) PROVE pc'[p] # "none"
    <3>0. pc[t] \notin NestedSteps /\ t \in Threads
      BY Zenon, <2>2, <2>4, JoinIsCall DEF RbInv, NestedInv, Separate, JoinStep
    <3>1. pc[t] \in {"join", "dtor_join"} /\ UNCHANGED made
      BY Zenon, <2>4, <3>0 DEF Join, NestedSteps
    <3>2. m_polling_thread # NoThread
      BY Zenon, <2>2, <3>0, <3>1 DEF HandlesInv
    <3>3. made = NoThread
      <4> SUFFICES ASSUME made # NoThread PROVE FALSE
        OBVIOUS
      <4>1. PICK u \in Threads : pc[u] = "assign"
        BY Zenon, <2>2 DEF CallsInv
      <4> QED
        BY Zenon, <4>1, <3>2, <2>2 DEF HandlesInv, StartSteps
    <3>4. m_polling_thread' = NoThread
      BY Zenon, <2>2, <2>4, <3>0, <3>2, Disjoint DEF Join, RbTypeOK
    <3> QED
      BY Zenon, <3>1, <3>3, <3>4
  <2>5. ASSUME NEW t \in Threads, MakeThread(t) PROVE pc'[p] # "none"
    <3>1. pc[t] = "start" /\ UNCHANGED m_polling_thread
      BY Zenon, <2>5 DEF MakeThread
    <3>2. m_polling_thread = NoThread
      BY Zenon, <2>2, <3>1 DEF HandlesInv, StartSteps
    <3>3. p = made'
      BY Zenon, <3>1, <3>2
    <3>4. CASE \E q \in Pollers : pc' = [pc EXCEPT ![t] = "assign", ![q] = "loop"] /\ made' = q
      BY Zenon, <3>3, <3>4, Disjoint, <2>2 DEF RbTypeOK
    <3>5. CASE Goto(t, "idle") /\ UNCHANGED made
      BY Zenon, <3>3, <3>5, <2>2, <2>3, Disjoint DEF Goto, RbTypeOK
    <3> QED
      BY Zenon, <3>4, <3>5, <2>5 DEF MakeThread
  <2>6. ASSUME NEW x \in Consumers, NEW s, Goto(x, s), x \in Threads \/ s # "none",
               p \in {m_polling_thread, made}
        PROVE  pc'[p] # "none"
    <3>1. p \in Consumers /\ pc[p] # "none" /\ (p = x => s # "none")
      BY Zenon, <2>3, <2>6, Disjoint DEF Consumers
    <3>2. pc'[p] = IF p = x THEN s ELSE pc[p]
      BY Zenon, <3>1, <2>2, <2>6 DEF Goto, RbTypeOK
    <3> QED
      BY Zenon, <3>1, <3>2
  <2>7. ASSUME NEW t \in Threads, NewCall(t) \/ CallStep(t), ~MakeThread(t)
        PROVE  pc'[p] # "none"
    <3>1. p \in {m_polling_thread, made}
      BY Zenon, <2>7 DEF NewCall, CallStep, init, start_polling, stop_polling, poll, Enter,
         Destroy, InitRingBuf, AssignThread, FreeRingBuf, DestroyMembers, objVars
    <3>2. \E s : Goto(t, s)
      BY Zenon, <2>7 DEF NewCall, CallStep, init, start_polling, stop_polling, poll, Enter,
         Destroy, InitRingBuf, AssignThread, FreeRingBuf, DestroyMembers
    <3> QED
      BY Zenon, <3>1, <3>2, <2>6, Disjoint DEF Consumers
  <2>8. ASSUME NEW x \in Consumers, TestJoinable(x) \/ PollStep(x) \/ (x \in Pollers /\ LoopTest(x))
        PROVE  pc'[p] # "none"
    <3>1. p \in {m_polling_thread, made}
      BY Zenon, <2>8 DEF PollStep, ConsumerStep, ring_buffer__poll, TakeSample, StorePosition,
         PollReturns, CallbackThrows, CallbackStops, TestJoinable, LoopTest, Enter, objVars
    <3>2. \A s \in PollSteps \cup {"done", "loop", "idle", "join", "dtor_join", "free"} : s # "none"
      BY Zenon DEF PollSteps, CallbackSteps, NestedSteps
    <3>3. CASE UNCHANGED pc
      BY Zenon, <2>3, <3>1, <3>3
    <3>4. CASE PollStep(x)
      BY Zenon, <2>6, <3>1, <3>2, <3>3, <3>4, PollMoves
    <3>5. CASE TestJoinable(x)
      BY Zenon, <2>6, <3>1, <3>2, <3>5
         DEF TestJoinable, AfterJoinable, AfterStop, PollSteps, CallbackSteps, NestedSteps
    <3>6. CASE LoopTest(x)
      BY Zenon, <2>6, <3>1, <3>2, <3>6 DEF LoopTest, Enter, PollSteps
    <3> QED
      BY Zenon, <2>8, <3>4, <3>5, <3>6
  <2>9. ASSUME NEW r \in Maps, Submit(r) PROVE pc'[p] # "none"
    BY Zenon, <2>3, <2>9 DEF Submit, objVars
  <2> QED
    BY Zenon, <2>1, <2>4, <2>5, <2>7, <2>8, <2>9 DEF Step, JoinStep, Consumers
<1> QED
  BY Zenon, <1>1, <1>2

(* Neither stop_polling nor the destructor waits in join() for a thread    *)
(* that would not stop or that another call has joined.                    *)
THEOREM JoinsEnd == RbSpec => []JoinedThreadStops
<1>1. RbInv /\ HandleLive => JoinedThreadStops
  BY Zenon DEF RbInv, HandleLive, HandlesInv, JoinedThreadStops, Separate, Stoppers, StopSteps
<1>2. RbInv /\ HandleLive /\ [RbNext]_rbVars => HandleLive'
  BY Zenon, HandleLiveStep
<1> QED
  BY <1>1, <1>2, InitHandleLive, RbInvariant, PTL DEF RbSpec
=============================================================================
