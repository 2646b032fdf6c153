-------------------------- MODULE RingBufferReader --------------------------
(***************************************************************************)
(* The ring buffer reader (src/ebpf/ring_buffer_reader.cpp) with its       *)
(* polling thread and libbpf's consumer of a BPF ring buffer.  Threads     *)
(* call init, poll, start_polling, stop_polling and the destructor; only   *)
(* init and start_polling take m_mutex, so a method is split wherever      *)
(* another thread can act.                                                 *)
(***************************************************************************)
EXTENDS Naturals, FiniteSets, Sequences

CONSTANTS Threads,    \* callers of the reader
          Pollers,    \* polling threads that can exist at the same time
          NoThread,   \* m_mutex is free, the std::thread is not joinable
          Maps,       \* ring buffer maps a descriptor can name
          MaxInits,   \* bound: successful ring_buffer__new calls
          MaxEvents,  \* bound: events the kernel submits to one map
          Capacity    \* events a map holds that were not consumed

ASSUME ReaderAssumption ==
  /\ Threads \cap Pollers = {} /\ NoThread \notin Threads \cup Pollers
  /\ Maps \subseteq {"syscall", "network", "process"}
  /\ MaxInits \in Nat /\ MaxEvents \in Nat /\ Capacity \in Nat

(* The structures, field by field as <<alignment, length>>; the raw ones   *)
(* of the reader have the fields of the kernel's.  sizeof pads every field *)
(* to its alignment and the end to eight bytes.                            *)
Layout ==
  [kind \in {"syscall", "network", "process"} |->
     CASE kind = "syscall" -> <<<<8, 8>>, <<4, 16>>, <<1, 16>>, <<1, 1>>>>
       [] kind = "network" -> <<<<8, 8>>, <<4, 16>>, <<2, 2>>, <<1, 2>>, <<1, 16>>>>
       [] kind = "process" -> <<<<8, 8>>, <<4, 24>>, <<1, 2>>, <<1, 16>>, <<1, 256>>>>]
Padded(n, align) == ((n + align - 1) \div align) * align
SizeOf(fields) ==
  LET end[i \in 0..Len(fields)] ==
        IF i = 0 THEN 0 ELSE Padded(end[i - 1], fields[i][1]) + fields[i][2]
  IN  Padded(end[Len(fields)], 8)
SampleSize == [kind \in DOMAIN Layout |-> SizeOf(Layout[kind])]

(* dispatch_event compares the size of the sample with the structures one  *)
(* after the other; a size it does not know is dropped.  Mutant: an event  *)
(* of no type is delivered.                                                *)
DeliversUnknown(size) == IF size = 41 THEN "syscall" ELSE "unknown"
dispatch_event(size) ==
  IF size = SampleSize["syscall"] THEN "syscall"
  ELSE IF size = SampleSize["network"] THEN "network"
  ELSE IF size = SampleSize["process"] THEN "process"
  ELSE "dropped"

Consumers == Threads \cup Pollers
Managers == 1..MaxInits
Events == 1..MaxEvents

VARIABLES m_ring_buf,      \* ring_buffer manager in use; 0: nullptr
          m_is_polling,
          m_polling_thread,\* thread whose handle is stored and not joined
          m_mutex,
          made,            \* the thread start_polling made and not stored yet
          pc,              \* consumer -> its next step
          buf,             \* consumer -> manager its ring_buffer__poll works on
          pos,             \* consumer -> its copy of the consumer position
          map_of,          \* manager -> map it was made for; "none": not made
          freed,           \* managers passed to ring_buffer__free
          destroyed,       \* the destructor was called
          aborted,         \* std::terminate was called, or the process crashed
          produced,        \* kernel: map -> events submitted
          consumed,        \* kernel: map -> consumer position
          delivered,       \* map -> event -> times handed to the callback, up to 2
          decoded,         \* map -> event types its events were delivered as
          overlaps,        \* pairs of calls that ran at the same time so far
          callbacks        \* what callbacks did so far other than return

objVars == <<m_ring_buf, m_is_polling, m_polling_thread, m_mutex, made>>
libVars == <<buf, pos, map_of, freed>>
ringVars == <<produced, consumed, delivered, decoded>>
codeVars == <<objVars, pc, libVars, destroyed, aborted, ringVars>>
rbVars == <<codeVars, overlaps, callbacks>>

(* start: the flag is set, no thread yet; assign: the thread runs, its     *)
(* handle is not stored yet; stop: the flag was true and is taken; init:   *)
(* the callback is being replaced; enter: poll has tested m_ring_buf;      *)
(* take, callback: in ring_buffer__poll; nested: in a stop_polling that    *)
(* the callback called.                                                    *)
StartSteps == {"start", "assign"}
StopSteps == {"stop", "join"}
NestedSteps == {"nested_stop", "nested_join"}
CallbackSteps == {"callback"} \cup NestedSteps
PollSteps == {"enter", "take"} \cup CallbackSteps
CallSteps == {"idle", "init"} \cup StartSteps \cup StopSteps \cup PollSteps
               \cup {"dtor_stop", "dtor_join", "free", "members"}
PollerSteps == {"none", "loop", "done"} \cup PollSteps

RbTypeOK ==
  /\ m_ring_buf \in Managers \cup {0}
  /\ m_is_polling \in BOOLEAN
  /\ m_polling_thread \in Pollers \cup {NoThread} /\ made \in Pollers \cup {NoThread}
  /\ m_mutex \in Threads \cup {NoThread}
  /\ pc \in [Consumers -> CallSteps \cup PollerSteps]
  /\ buf \in [Consumers -> Managers \cup {0}]
  /\ pos \in [Consumers -> Events \cup {0}]
  /\ map_of \in [Managers -> Maps \cup {"none"}]
  /\ freed \subseteq Managers
  /\ destroyed \in BOOLEAN /\ aborted \in BOOLEAN
  /\ produced \in [Maps -> Events \cup {0}]
  /\ consumed \in [Maps -> Events \cup {0}]
  /\ delivered \in [Maps -> [Events -> {0, 1, 2}]]
  /\ decoded \in [Maps -> SUBSET DOMAIN Layout]
  /\ overlaps \subseteq {"start/stop", "init/poll", "poll/poll"}
  /\ callbacks \subseteq {"throw", "stop"}

RbInit ==
  /\ m_ring_buf = 0 /\ m_is_polling = FALSE /\ m_polling_thread = NoThread
  /\ m_mutex = NoThread /\ made = NoThread
  /\ pc = [x \in Consumers |-> IF x \in Pollers THEN "none" ELSE "idle"]
  /\ buf = [x \in Consumers |-> 0]
  /\ pos = [x \in Consumers |-> 0]
  /\ map_of = [m \in Managers |-> "none"]
  /\ freed = {}
  /\ destroyed = FALSE /\ aborted = FALSE
  /\ produced = [r \in Maps |-> 0]
  /\ consumed = [r \in Maps |-> 0]
  /\ delivered = [r \in Maps |-> [e \in Events |-> 0]]
  /\ decoded = [r \in Maps |-> {}]
  /\ overlaps = {} /\ callbacks = {}

Goto(x, step) == pc' = [pc EXCEPT ![x] = step]

(* A method is called on an object that exists. *)
Calls(t) == pc[t] = "idle" /\ ~destroyed

-----------------------------------------------------------------------------
(* init.  A refused argument changes nothing.  The callback is replaced    *)
(* first; the pointer to the previous manager is overwritten, with nullptr *)
(* when ring_buffer__new fails, and the previous manager is not freed.     *)
init(t) ==
  /\ Calls(t) /\ m_mutex = NoThread
  /\ m_mutex' = t
  /\ Goto(t, "init")
  /\ UNCHANGED <<m_ring_buf, m_is_polling, m_polling_thread, made, libVars, destroyed,
                 aborted, ringVars>>

(* Mutant of Replaced: the previous manager is freed. *)
FreesPrevious == freed \cup ({m_ring_buf} \ {0})
Replaced == freed

InitRingBuf(t) ==
  /\ pc[t] = "init"
  /\ \/ /\ m_ring_buf' = 0
        /\ UNCHANGED map_of
     \/ \E m \in Managers, r \in Maps :
          /\ map_of[m] = "none" /\ \A n \in Managers : n < m => map_of[n] # "none"
          /\ map_of' = [map_of EXCEPT ![m] = r]
          /\ m_ring_buf' = m
  /\ freed' = Replaced
  /\ m_mutex' = NoThread
  /\ Goto(t, "idle")
  /\ UNCHANGED <<m_is_polling, m_polling_thread, made, buf, pos, destroyed, aborted,
                 ringVars>>

-----------------------------------------------------------------------------
(* start_polling returns early while the flag is set or without a manager. *)
start_polling(t) ==
  /\ Calls(t) /\ m_mutex = NoThread
  /\ ~m_is_polling /\ m_ring_buf # 0
  /\ m_mutex' = t
  /\ m_is_polling' = TRUE
  /\ Goto(t, "start")
  /\ UNCHANGED <<m_ring_buf, m_polling_thread, made, libVars, destroyed, aborted, ringVars>>

(* The constructor of std::thread throws when no thread can be made; the   *)
(* exception leaves start_polling with the flag set.                       *)
MakeThread(t) ==
  /\ pc[t] = "start"
  /\ \/ \E p \in Pollers :
          /\ pc[p] = "none"
          /\ pc' = [pc EXCEPT ![t] = "assign", ![p] = "loop"]
          /\ made' = p
          /\ UNCHANGED m_mutex
     \/ /\ Goto(t, "idle")
        /\ m_mutex' = NoThread
        /\ UNCHANGED made
  /\ UNCHANGED <<m_ring_buf, m_is_polling, m_polling_thread, libVars, destroyed, aborted,
                 ringVars>>

(* The move assignment terminates when the old handle was not joined. *)
AssignThread(t) ==
  /\ pc[t] = "assign"
  /\ aborted' = (m_polling_thread # NoThread)
  /\ m_polling_thread' = made
  /\ made' = NoThread
  /\ m_mutex' = NoThread
  /\ Goto(t, "idle")
  /\ UNCHANGED <<m_ring_buf, m_is_polling, libVars, destroyed, ringVars>>

-----------------------------------------------------------------------------
(* stop_polling, also the first step of the destructor.  It takes no lock. *)
(* A call that finds the flag false returns at once.  Mutant: the flag is  *)
(* read and not cleared.                                                   *)
FlagKept(t) ==
  /\ Calls(t) /\ m_is_polling
  /\ Goto(t, "stop")
  /\ UNCHANGED <<objVars, libVars, destroyed, aborted, ringVars>>
stop_polling(t) ==
  /\ Calls(t) /\ m_is_polling
  /\ m_is_polling' = FALSE
  /\ Goto(t, "stop")
  /\ UNCHANGED <<m_ring_buf, m_polling_thread, m_mutex, made, libVars, destroyed, aborted,
                 ringVars>>

(* The callback calls stop_polling, on whichever thread it runs. *)
CallbackStops(x) ==
  /\ pc[x] = "callback" /\ m_is_polling
  /\ m_is_polling' = FALSE
  /\ Goto(x, "nested_stop")
  /\ UNCHANGED <<m_ring_buf, m_polling_thread, m_mutex, made, libVars, destroyed, aborted,
                 ringVars>>

AfterStop(step) ==
  IF step \in StopSteps THEN "idle" ELSE IF step \in NestedSteps THEN "callback" ELSE "free"
AfterJoinable(step) ==
  IF step = "stop" THEN "join" ELSE IF step = "nested_stop" THEN "nested_join" ELSE "dtor_join"

(* joinable(): the handle is stored and was not joined.  Mutant: the       *)
(* thread is never joined.                                                 *)
NeverJoined(x) ==
  /\ pc[x] \in {"stop", "nested_stop", "dtor_stop"}
  /\ Goto(x, AfterStop(pc[x]))
  /\ UNCHANGED <<objVars, libVars, destroyed, aborted, ringVars>>
TestJoinable(x) ==
  /\ pc[x] \in {"stop", "nested_stop", "dtor_stop"}
  /\ Goto(x, IF m_polling_thread # NoThread THEN AfterJoinable(pc[x]) ELSE AfterStop(pc[x]))
  /\ UNCHANGED <<objVars, libVars, destroyed, aborted, ringVars>>

(* join() waits for the thread.  It throws, in a noexcept function, when   *)
(* another call has joined the handle meanwhile or when the polling thread *)
(* would wait for itself.                                                  *)
Join(x) ==
  /\ pc[x] \in {"join", "nested_join", "dtor_join"}
  /\ \/ /\ m_polling_thread # NoThread /\ pc[m_polling_thread] = "done"
        /\ m_polling_thread' = NoThread
        /\ pc' = [pc EXCEPT ![m_polling_thread] = "none", ![x] = AfterStop(pc[x])]
        /\ UNCHANGED aborted
     \/ /\ m_polling_thread \in {NoThread, x}
        /\ aborted' = TRUE
        /\ UNCHANGED <<m_polling_thread, pc>>
  /\ UNCHANGED <<m_ring_buf, m_is_polling, m_mutex, made, libVars, destroyed, ringVars>>

(* The destructor, when no other call is running: stop_polling, free, and  *)
(* the destructors of the members, which terminate on a joinable thread.   *)
Destroy(t) ==
  /\ \A u \in Threads : pc[u] = "idle"
  /\ ~destroyed
  /\ destroyed' = TRUE
  /\ m_is_polling' = FALSE
  /\ Goto(t, IF m_is_polling THEN "dtor_stop" ELSE "free")
  /\ UNCHANGED <<m_ring_buf, m_polling_thread, m_mutex, made, libVars, aborted, ringVars>>

FreeRingBuf(t) ==
  /\ pc[t] = "free"
  /\ freed' = freed \cup ({m_ring_buf} \ {0})
  /\ m_ring_buf' = 0
  /\ Goto(t, "members")
  /\ UNCHANGED <<m_is_polling, m_polling_thread, m_mutex, made, buf, pos, map_of, destroyed,
                 aborted, ringVars>>

DestroyMembers(t) ==
  /\ pc[t] = "members"
  /\ Goto(t, "idle")
  /\ aborted' = (m_polling_thread # NoThread)
  /\ UNCHANGED <<objVars, libVars, destroyed, ringVars>>

-----------------------------------------------------------------------------
(* poll, called by a thread or by the loop of the polling thread.  Without *)
(* a manager, or when epoll_wait fails, it returns -1 and the loop sleeps  *)
(* and tries again.  m_ring_buf is read twice without a lock, or once if   *)
(* the compiler keeps the first value; libbpf crashes on a nullptr.        *)
Enter(x) ==
  /\ m_ring_buf # 0
  /\ buf' = [buf EXCEPT ![x] = m_ring_buf]
  /\ Goto(x, "enter")
  /\ UNCHANGED <<objVars, pos, map_of, freed, destroyed, aborted, ringVars>>

ring_buffer__poll(x) ==
  /\ pc[x] = "enter"
  /\ \E m \in {buf[x], m_ring_buf} :
       IF m = 0
       THEN aborted' = TRUE /\ UNCHANGED <<buf, pos, pc>>
       ELSE /\ buf' = [buf EXCEPT ![x] = m]
            /\ pos' = [pos EXCEPT ![x] = consumed[map_of[m]]]
            /\ Goto(x, "take")
            /\ UNCHANGED aborted
  /\ UNCHANGED <<objVars, map_of, freed, destroyed, ringVars>>

poll(t) == Calls(t) /\ Enter(t)

(* Mutant of LoopTest: the flag is tested only after an error. *)
LoopAlways(p) == pc[p] = "loop" /\ Enter(p)
LoopTest(p) ==
  /\ pc[p] = "loop"
  /\ \/ m_is_polling /\ Enter(p)
     \/ /\ ~m_is_polling
        /\ Goto(p, "done")
        /\ UNCHANGED <<objVars, libVars, destroyed, aborted, ringVars>>

Leave(x) ==
  /\ Goto(x, IF x \in Pollers THEN "loop" ELSE "idle")
  /\ buf' = [buf EXCEPT ![x] = 0]
  /\ pos' = [pos EXCEPT ![x] = 0]

(* libbpf: the next sample after the local copy of the consumer position   *)
(* goes to raw_sample_callback and dispatch_event.  A callback that is     *)
(* being replaced at that moment may crash.                                *)
Delivered(r, e) == [delivered EXCEPT ![r][e] = IF @ = 0 THEN 1 ELSE 2]

TakeSample(x) ==
  LET r == map_of[buf[x]]
      type == dispatch_event(SampleSize[r])
  IN
  /\ pc[x] = "take" /\ pos[x] < produced[r]
  /\ IF type = "dropped"
     THEN UNCHANGED <<delivered, decoded>>
     ELSE /\ delivered' = Delivered(r, pos[x] + 1)
          /\ decoded' = [decoded EXCEPT ![r] = @ \cup {type}]
  /\ pos' = [pos EXCEPT ![x] = @ + 1]
  /\ Goto(x, "callback")
  /\ aborted' \in IF \E t \in Threads : pc[t] = "init" THEN BOOLEAN ELSE {FALSE}
  /\ UNCHANGED <<objVars, buf, map_of, freed, destroyed, produced, consumed>>

(* The callback, or the allocation of a string in dispatch_event, throws.  *)
(* The exception ends the polling thread and with it the process.  A       *)
(* caller of poll gets it, with the position not stored, if the frames of  *)
(* libbpf can be unwound.                                                  *)
CallbackThrows(x) ==
  /\ pc[x] = "callback"
  /\ \/ aborted' = TRUE /\ UNCHANGED <<pc, buf, pos>>
     \/ x \in Threads /\ Leave(x) /\ UNCHANGED aborted
  /\ UNCHANGED <<objVars, map_of, freed, destroyed, ringVars>>

(* The callback returned 0; the consumer position is stored.  Mutant: it   *)
(* is stored when ring_buffer__poll returns only.                          *)
StoreLater(x) ==
  /\ pc[x] = "callback"
  /\ Leave(x)
  /\ UNCHANGED <<objVars, map_of, freed, destroyed, aborted, ringVars>>
StorePosition(x) ==
  /\ pc[x] = "callback"
  /\ consumed' = [consumed EXCEPT ![map_of[buf[x]]] = pos[x]]
  /\ Goto(x, "take")
  /\ UNCHANGED <<objVars, libVars, destroyed, aborted, produced, delivered, decoded>>

(* Nothing more to take.  ring_buffer__poll looks again as long as it got  *)
(* something.                                                              *)
PollReturns(x) ==
  /\ pc[x] = "take" /\ pos[x] >= produced[map_of[buf[x]]]
  /\ Leave(x)
  /\ UNCHANGED <<objVars, map_of, freed, destroyed, aborted, ringVars>>

(* A kernel program reserves and submits an event; without room it drops   *)
(* the event.  MaxEvents bounds the events that are told apart.            *)
Submit(r) ==
  /\ produced[r] < MaxEvents
  /\ produced[r] - consumed[r] < Capacity
  /\ produced' = [produced EXCEPT ![r] = @ + 1]
  /\ UNCHANGED <<objVars, pc, libVars, destroyed, aborted, consumed, delivered, decoded>>

-----------------------------------------------------------------------------
(* The pairs of calls in progress that nothing excludes from each other.   *)
Polling(x) == pc[x] \in PollSteps
Overlapping ==
  {o \in {"start/stop", "init/poll", "poll/poll"} :
     \/ /\ o = "start/stop"
        /\ \E t, u \in Threads : pc[t] \in StartSteps /\ pc[u] \in StopSteps
     \/ /\ o = "init/poll"
        /\ \E t \in Threads, x \in Consumers : pc[t] = "init" /\ Polling(x)
     \/ /\ o = "poll/poll"
        /\ \E x, y \in Consumers : x # y /\ Polling(x) /\ Polling(y)}

CallStep(t) ==
  \/ InitRingBuf(t) \/ MakeThread(t) \/ AssignThread(t) \/ FreeRingBuf(t) \/ DestroyMembers(t)
JoinStep(x) == TestJoinable(x) \/ Join(x)
ConsumerStep(x) == ring_buffer__poll(x) \/ TakeSample(x) \/ StorePosition(x)
NewCall(t) == init(t) \/ start_polling(t) \/ stop_polling(t) \/ poll(t) \/ Destroy(t)

Recorded(A, did) ==
  /\ ~aborted /\ A
  /\ overlaps' = overlaps \cup Overlapping' /\ callbacks' = callbacks \cup did

RbNext ==
  \/ \E t \in Threads : Recorded(NewCall(t), {}) \/ Recorded(CallStep(t), {})
  \/ \E x \in Consumers : \/ Recorded(JoinStep(x), {}) \/ Recorded(ConsumerStep(x), {})
                         \/ Recorded(PollReturns(x), {})
                         \/ Recorded(CallbackThrows(x), {"throw"})
                         \/ Recorded(CallbackStops(x), {"stop"})
  \/ \E p \in Pollers : Recorded(LoopTest(p), {})
  \/ \E r \in Maps : Recorded(Submit(r), {})

RbSpec == RbInit /\ [][RbNext]_rbVars

(* The scheduler runs every thread that is not waiting, and the user's     *)
(* callback returns.  A poll need not: more than MaxEvents events may      *)
(* arrive, so that there is always one more to take.                       *)
Continues(x) ==
  ~aborted /\ (CallStep(x) \/ JoinStep(x) \/ ConsumerStep(x) \/ LoopTest(x))

RbFairSpec == RbSpec /\ \A x \in Consumers : WF_codeVars(Continues(x))

-----------------------------------------------------------------------------
(* The process is terminated or crashes only if start_polling and          *)
(* stop_polling, or init and a poll, ran at the same time, or a callback   *)
(* threw or called stop_polling: whatever the order of the calls, failed   *)
(* thread creation, re-initialisation and destruction while polling        *)
(* included, no joinable std::thread is assigned over or destroyed, and    *)
(* nothing is joined twice.                                                *)
AbortNeedsCause ==
  aborted => overlaps \cap {"start/stop", "init/poll"} # {} \/ callbacks # {}

(* "Thread-safe C++20 Ring Buffer Reader": however the calls of several    *)
(* threads meet, they neither end the process nor hand an event over       *)
(* twice, as long as callbacks only return.                                *)
ThreadSafe ==
  callbacks = {} => ~aborted /\ \A r \in Maps, e \in Events : delivered[r][e] < 2

(* A ring_buffer__poll in progress works on a manager that was not freed,  *)
(* and no polling thread reads the object after its destructor, unless     *)
(* start_polling and stop_polling ran at the same time or a callback       *)
(* called stop_polling.                                                    *)
PolledBufferIsOpen ==
  "start/stop" \notin overlaps /\ "stop" \notin callbacks =>
    /\ \A x \in Consumers : Polling(x) => buf[x] \notin freed
    /\ \A p \in Pollers : destroyed /\ pc[p] \in {"loop"} \cup PollSteps =>
         \E t \in Threads : pc[t] \in {"dtor_stop", "dtor_join"}

(* As long as no two polls ran at the same time and no callback threw,     *)
(* every event the kernel submitted is handed to the callback once, in     *)
(* order, across restarts of the polling thread and re-initialisations:    *)
(* the events delivered are those up to the consumer position and the one  *)
(* whose callback runs.                                                    *)
EachEventOnce ==
  "poll/poll" \notin overlaps /\ "throw" \notin callbacks =>
    \A r \in Maps, e \in Events :
      LET started == e <= consumed[r] \/ \E x \in Consumers :
                       pc[x] \in CallbackSteps /\ map_of[buf[x]] = r /\ e <= pos[x]
      IN  delivered[r][e] = IF started THEN 1 ELSE 0

(* "Decode event variant based on binary payload size matching kernel      *)
(* structs": an event reaches the callback as the type its program sent.   *)
DecodedAsSent == \A r \in Maps : decoded[r] \subseteq {r}

(* The safety side of StopReturns, for the destructor as well: a call that *)
(* waits in join() is the only one that does, it waits for a thread that   *)
(* exists and has not been joined, and the flag that thread tests is       *)
(* cleared, unless start_polling and stop_polling ran at the same time or  *)
(* a callback called stop_polling.                                         *)
JoinedThreadStops ==
  "start/stop" \notin overlaps /\ "stop" \notin callbacks =>
    \A t \in Threads :
      pc[t] \in {"join", "dtor_join"} =>
        /\ ~m_is_polling
        /\ m_polling_thread # NoThread /\ pc[m_polling_thread] # "none"
        /\ \A u \in Threads \ {t} : pc[u] \notin {"join", "dtor_join"}

(* stop_polling returns if every poll of the polling thread ends: the      *)
(* thread notices the flag after its current poll and the join ends,       *)
(* unless start_polling ran meanwhile.  Events that arrive faster than     *)
(* they are handed over keep the poll, and with it stop_polling, going.    *)
StopReturns ==
  (\A p \in Pollers : []<>~Polling(p)) =>
    \A t \in Threads :
      pc[t] \in StopSteps ~> (pc[t] = "idle" \/ aborted \/ "start/stop" \in overlaps)
=============================================================================
