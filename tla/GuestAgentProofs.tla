--------------------------- MODULE GuestAgentProofs -------------------------
(***************************************************************************)
(* Proofs about the guest agent, for any number of connections served at   *)
(* the same time and any clock.                                            *)
(***************************************************************************)
EXTENDS GuestAgent, TLAPS

(* What a goroutine's own steps keep true of it. *)
Early == {"idle", "decode", "name", "write", "fill", "start"}
TellsOutcome(h) ==
  /\ h.exit_code = "0" => h.outcome = "ok"
  /\ h.outcome = "ok" /\ ~h.expired => h.exit_code = "0"
  /\ h.exit_code = "124" => h.expired
  /\ h.outcome = "killed" => h.exit_code = "124"
Sound(h) ==
  /\ h.pc \in {"idle", "decode", "name"} => h.stamp = 0
  /\ h.pc \in {"write", "fill", "start", "run"} => h.stamp \in Times
  /\ h.pc \in Early => h.outcome = "none"
  /\ h.outcome = "killed" => h.expired
  /\ h.pc \in {"respond", "remove"} => TellsOutcome(h)
  /\ h.pc = "closed" => h.outcome \in {"none", "unwritten"}

(* Another goroutine read the same nanosecond.  A stamp is never taken     *)
(* back, so this stays true.                                               *)
Collides(c) == \E d \in Conns \ {c} : handler[d].stamp = handler[c].stamp

(* The file of a goroutine between opening it and starting python3. *)
Owns(c, h) ==
  /\ h.pc = "fill" => h.stamp \in exists
  /\ h.pc = "start" => h.stamp \in exists /\ script[h.stamp] = c
  /\ h.pc = "run" => h.read = c \/ h.outcome = "not_started"

(* A goroutine that opened its file and has not removed it. *)
Uses(h) ==
  \/ h.pc \in {"fill", "start", "run"}
  \/ h.pc \in {"respond", "remove", "closed"} /\ h.outcome # "none"

AllSound == \A c \in Conns : Sound(handler[c])
AllOwn == \A c \in Conns : Collides(c) \/ Owns(c, handler[c])
AllUsed == \A i \in exists : \E c \in Conns : handler[c].stamp = i /\ Uses(handler[c])

GaInv == GaTypeOK /\ AllSound /\ AllOwn /\ AllUsed

-----------------------------------------------------------------------------
LEMMA GaInitInv == GaInit => GaInv
<1> SUFFICES ASSUME GaInit PROVE GaInv
  OBVIOUS
<1>1. NewHandler \in Handlers /\ NoCall \in Hosts
  BY Zenon DEF NewHandler, NoCall, Handlers, Hosts, Steps, Payloads, Outcomes, ExitCodes
<1>2. 1 \in Times => GaTypeOK
  BY Zenon, <1>1 DEF GaInit, GaTypeOK
<1>3. 1 \in Times
  BY GuestAssumption DEF Times
<1>4. Sound(NewHandler) /\ \A c : Owns(c, NewHandler)
  BY Zenon DEF NewHandler, Sound, Owns
<1> QED
  BY Zenon, <1>2, <1>3, <1>4 DEF GaInv, GaInit, AllSound, AllOwn, AllUsed
LEMMA HandlerType ==
  ASSUME GaTypeOK, NEW c \in Conns
  PROVE  /\ handler \in [Conns -> Handlers] /\ handler[c] \in Handlers
         /\ handler[c].stamp \in Times \cup {0} /\ handler[c].expired \in BOOLEAN
BY Zenon DEF GaTypeOK, Handlers

LEMMA ZeroIsNoTime == 0 \notin Times
BY GuestAssumption DEF Times

(* A goroutine that keeps its stamp makes no collision disappear. *)
LEMMA CollisionStays ==
  ASSUME GaTypeOK, NEW c \in Conns, NEW h, handler' = [handler EXCEPT ![c] = h],
         h.stamp = handler[c].stamp
  PROVE  \A d \in Conns : Collides(d) => Collides(d)'
<1>1. \A d \in Conns : handler'[d].stamp = handler[d].stamp
  BY Zenon DEF GaTypeOK
<1> QED
  BY Zenon, <1>1 DEF Collides

(* Steps of one goroutine that leave the files and its stamp alone. *)
LEMMA HandlerStepInv ==
  ASSUME GaInv, NEW c \in Conns, NEW h \in Handlers, handler' = [handler EXCEPT ![c] = h],
         UNCHANGED <<script, exists, now>>, host' \in Hosts, vm_up' \in BOOLEAN,
         h.stamp = handler[c].stamp, Sound(h),
         Owns(c, handler[c]) => Owns(c, h), Uses(handler[c]) => Uses(h)
  PROVE  GaInv'
<1>1. handler \in [Conns -> Handlers]
  BY Zenon DEF GaInv, GaTypeOK
<1>2. \A d \in Conns : handler'[d] = IF d = c THEN h ELSE handler[d]
  BY Zenon, <1>1
<1>3. GaTypeOK'
  BY Zenon, <1>1 DEF GaInv, GaTypeOK
<1>4. AllSound'
  BY Zenon, <1>2 DEF GaInv, AllSound
<1>5. AllOwn'
  <2>1. ASSUME NEW d \in Conns, Owns(d, handler[d]) PROVE Owns(d, handler'[d])
    <3>1. CASE d = c
      BY Zenon, <1>2, <2>1, <3>1
    <3>2. CASE d # c
      BY Zenon, <1>2, <2>1, <3>2
    <3> QED
      BY <3>1, <3>2
  <2>2. \A d \in Conns : Owns(d, handler[d]) => Owns(d, handler[d])'
    BY Zenon, <2>1 DEF Owns
  <2> QED
    BY Zenon, <2>2, CollisionStays DEF GaInv, AllOwn
<1>6. AllUsed'
  <2>1. \A d \in Conns : /\ handler'[d].stamp = handler[d].stamp
                         /\ Uses(handler[d]) => Uses(handler'[d])
    BY <1>2
  <2>2. \A i \in exists : \E d \in Conns : handler[d].stamp = i /\ Uses(handler[d])
    BY Zenon DEF GaInv, AllUsed
  <2>3. \A i \in exists : \E d \in Conns : handler'[d].stamp = i /\ Uses(handler'[d])
    BY <2>1, <2>2
  <2> QED
    BY <2>3 DEF AllUsed
<1> QED
  BY Zenon, <1>3, <1>4, <1>5, <1>6 DEF GaInv

(* The same for steps of the host, the clock and the virtual machine. *)
LEMMA NoHandlerStepInv ==
  ASSUME GaInv, UNCHANGED <<handler, script, exists>>,
         now' \in Times, host' \in Hosts, vm_up' \in BOOLEAN
  PROVE  GaInv'
<1>1. GaTypeOK'
  BY Zenon DEF GaInv, GaTypeOK
<1>2. AllSound' /\ AllUsed'
  BY Zenon DEF GaInv, AllSound, AllUsed
<1>3. AllOwn'
  BY Zenon DEF GaInv, AllOwn, Collides, Owns
<1> QED
  BY Zenon, <1>1, <1>2, <1>3 DEF GaInv

-----------------------------------------------------------------------------
LEMMA AcceptInv ==
  ASSUME GaInv, NEW c \in Conns, NEW sent \in Payloads, Accept(c, sent),
         UNCHANGED <<script, exists, now>>, host' \in Hosts, vm_up' \in BOOLEAN
  PROVE  GaInv'
<1> DEFINE h == [handler[c] EXCEPT !.pc = "decode", !.sent = sent]
<1>1. handler[c].pc = "idle" /\ handler[c] \in Handlers /\ Sound(handler[c])
  BY Zenon, HandlerType DEF GaInv, AllSound, Accept, At
<1>2. h \in Handlers /\ h.pc = "decode" /\ h.stamp = handler[c].stamp /\ h.outcome = handler[c].outcome
  BY Zenon, <1>1 DEF Handlers, Steps
<1>3. handler' = [handler EXCEPT ![c] = h]
  BY HandlerType DEF GaInv, Accept, Handlers
<1> HIDE DEF h
<1>4. Sound(h) /\ Owns(c, h) /\ ~Uses(handler[c])
  BY Zenon, <1>1, <1>2 DEF Sound, Owns, Uses, Early
<1> QED
  BY Zenon, <1>2, <1>3, <1>4, HandlerStepInv

(* An error response of a goroutine that did not start python3. *)
LEMMA RespondInv ==
  ASSUME GaInv, NEW c \in Conns, handler[c].pc \in {"decode", "write"}, Respond(c, "-1"),
         UNCHANGED <<script, exists, now, host, vm_up>>
  PROVE  GaInv'
<1> DEFINE h == [handler[c] EXCEPT !.pc = "respond", !.exit_code = "-1"]
<1>1. handler[c] \in Handlers /\ Sound(handler[c]) /\ handler[c].outcome = "none"
  BY Zenon, HandlerType DEF GaInv, AllSound, Sound, Early
<1>2. /\ h \in Handlers /\ h.pc = "respond" /\ h.stamp = handler[c].stamp
      /\ h.outcome = "none" /\ h.exit_code = "-1"
  BY Zenon, <1>1 DEF Handlers, Steps, ExitCodes
<1>3. handler' = [handler EXCEPT ![c] = h]
  BY HandlerType DEF GaInv, Respond, Handlers
<1> HIDE DEF h
<1>4. Sound(h) /\ Owns(c, h) /\ ~Uses(handler[c])
  BY Zenon, <1>1, <1>2 DEF Sound, Owns, Uses, Early, TellsOutcome
<1>5. host' \in Hosts /\ vm_up' \in BOOLEAN
  BY Zenon DEF GaInv, GaTypeOK
<1> QED
  BY Zenon, <1>2, <1>3, <1>4, <1>5, HandlerStepInv

LEMMA DecodeInv ==
  ASSUME GaInv, NEW c \in Conns, Decode(c)
  PROVE  GaInv'
<1>1. CASE Respond(c, "-1")
  BY Zenon, <1>1, RespondInv DEF Decode, At
<1>2. CASE Goto(c, "name")
  <2> DEFINE h == [handler[c] EXCEPT !.pc = "name"]
  <2>1. handler[c].pc = "decode" /\ handler[c] \in Handlers /\ Sound(handler[c])
    BY Zenon, HandlerType DEF GaInv, AllSound, Decode, At
  <2>2. /\ h \in Handlers /\ h.pc = "name" /\ h.stamp = handler[c].stamp
        /\ h.outcome = handler[c].outcome
    BY Zenon, <2>1 DEF Handlers, Steps
  <2>3. handler' = [handler EXCEPT ![c] = h]
    BY Zenon, <1>2, HandlerType DEF GaInv, Goto
  <2> HIDE DEF h
  <2>4. Sound(h) /\ Owns(c, h) /\ ~Uses(handler[c])
    BY Zenon, <2>1, <2>2 DEF Sound, Owns, Uses, Early
  <2>5. host' \in Hosts /\ vm_up' \in BOOLEAN /\ UNCHANGED <<script, exists, now>>
    BY Zenon DEF GaInv, GaTypeOK, Decode
  <2> QED
    BY Zenon, <2>2, <2>3, <2>4, <2>5, HandlerStepInv
<1> QED
  BY Zenon, <1>1, <1>2 DEF Decode
(* Steps that change the goroutine's own file and no other. *)
LEMMA FileStepInv ==
  ASSUME GaInv, NEW c \in Conns, NEW h \in Handlers, handler' = [handler EXCEPT ![c] = h],
         UNCHANGED <<now, host, vm_up>>, h.stamp = handler[c].stamp, Sound(h),
         exists' \subseteq Times, script' \in [Times -> Conns \cup {None}],
         \A i \in Times \ {h.stamp} : (i \in exists' <=> i \in exists) /\ script'[i] = script[i],
         /\ h.pc = "fill" => h.stamp \in exists'
         /\ h.pc = "start" => h.stamp \in exists' /\ script'[h.stamp] = c
         /\ h.pc # "run",
         h.stamp \in exists' => Uses(h)
  PROVE  GaInv'
<1>1. handler \in [Conns -> Handlers]
  BY Zenon DEF GaInv, GaTypeOK
<1>2. \A d \in Conns : handler'[d] = IF d = c THEN h ELSE handler[d]
  BY Zenon, <1>1
<1>3. GaTypeOK'
  BY Zenon, <1>1 DEF GaInv, GaTypeOK
<1>4. AllSound'
  BY Zenon, <1>2 DEF GaInv, AllSound
<1>5. AllOwn'
  <2> SUFFICES ASSUME NEW d \in Conns PROVE Collides(d)' \/ Owns(d, handler[d])'
    BY Zenon DEF AllOwn
  <2>1. CASE d = c
    BY Zenon, <1>2, <2>1 DEF Owns
  <2>2. CASE d # c /\ handler[d].stamp = h.stamp
    BY Zenon, <1>2, <2>2 DEF Collides
  <2>3. CASE d # c /\ handler[d].stamp # h.stamp
    <3>1. CASE Collides(d)
      BY Zenon, <3>1, CollisionStays DEF GaInv
    <3>2. CASE Owns(d, handler[d])
      <4>1. Sound(handler[d]) /\ handler'[d] = handler[d]
        BY Zenon, <1>2, <2>3 DEF GaInv, AllSound
      <4> QED
        BY Zenon, <2>3, <3>2, <4>1 DEF Owns, Sound
    <3> QED
      BY Zenon, <3>1, <3>2 DEF GaInv, AllOwn
  <2> QED
    BY Zenon, <2>1, <2>2, <2>3
<1>6. AllUsed'
  <2> SUFFICES ASSUME NEW i \in exists'
               PROVE  \E d \in Conns : handler'[d].stamp = i /\ Uses(handler'[d])
    BY DEF AllUsed
  <2>1. CASE i = h.stamp
    BY <1>2, <2>1
  <2>2. CASE i # h.stamp
    <3>1. i \in exists
      BY Zenon, <2>2
    <3>2. PICK d \in Conns : handler[d].stamp = i /\ Uses(handler[d])
      BY Zenon, <3>1 DEF GaInv, AllUsed
    <3>3. handler'[d] = handler[d]
      BY Zenon, <1>2, <2>2, <3>2
    <3> QED
      BY <3>2, <3>3
  <2> QED
    BY <2>1, <2>2
<1> QED
  BY Zenon, <1>3, <1>4, <1>5, <1>6 DEF GaInv

(* Reading the clock: the stamp was 0, so no collision was with it and no  *)
(* file had it for a name.                                                 *)
LEMMA NameScriptInv ==
  ASSUME GaInv, NEW c \in Conns, NameScript(c)
  PROVE  GaInv'
<1> DEFINE h == [handler[c] EXCEPT !.pc = "write", !.stamp = now]
<1>1. /\ handler[c].pc = "name" /\ handler[c] \in Handlers /\ Sound(handler[c])
      /\ handler[c].stamp = 0 /\ now \in Times
  BY Zenon, HandlerType DEF GaInv, GaTypeOK, AllSound, NameScript, At, Sound
<1>2. /\ h \in Handlers /\ h.pc = "write" /\ h.stamp = now /\ h.outcome = handler[c].outcome
  BY Zenon, <1>1 DEF Handlers, Steps
<1>3. handler \in [Conns -> Handlers] /\ handler' = [handler EXCEPT ![c] = h]
  BY HandlerType DEF GaInv, NameScript, Handlers
<1> HIDE DEF h
<1>4. \A d \in Conns : handler'[d] = IF d = c THEN h ELSE handler[d]
  BY Zenon, <1>3
<1>5. UNCHANGED <<script, exists, now, host, vm_up>>
  BY Zenon DEF NameScript
<1>6. GaTypeOK'
  BY Zenon, <1>2, <1>3, <1>5 DEF GaInv, GaTypeOK
<1>7. AllSound'
  <2>1. Sound(h)
    BY Zenon, <1>1, <1>2 DEF Sound, Early
  <2> QED
    BY Zenon, <1>4, <2>1 DEF GaInv, AllSound
<1>8. AllOwn'
  <2> SUFFICES ASSUME NEW d \in Conns PROVE Collides(d)' \/ Owns(d, handler[d])'
    BY Zenon DEF AllOwn
  <2>1. CASE d = c \/ handler[d].pc \notin {"fill", "start", "run"}
    BY Zenon, <1>2, <1>4, <2>1 DEF Owns
  <2>2. CASE d # c /\ handler[d].pc \in {"fill", "start", "run"}
    <3>1. handler[d].stamp # 0 /\ handler'[d] = handler[d]
      BY Zenon, <1>4, <2>2, ZeroIsNoTime DEF GaInv, AllSound, Sound
    <3>2. CASE Owns(d, handler[d])
      BY Zenon, <1>5, <3>1, <3>2 DEF Owns
    <3>3. CASE Collides(d)
      <4>1. PICK e \in Conns \ {d} : handler[e].stamp = handler[d].stamp
        BY Zenon, <3>3 DEF Collides
      <4>2. handler'[e] = handler[e]
        BY Zenon, <1>1, <1>4, <3>1, <4>1
      <4> QED
        BY Zenon, <3>1, <4>1, <4>2 DEF Collides
    <3> QED
      BY Zenon, <3>2, <3>3 DEF GaInv, AllOwn
  <2> QED
    BY Zenon, <2>1, <2>2
<1>9. AllUsed'
  <2>1. \A d \in Conns : Uses(handler[d]) => handler'[d] = handler[d]
    BY Zenon, <1>1, <1>4 DEF Uses
  <2>2. \A i \in exists : \E d \in Conns : handler[d].stamp = i /\ Uses(handler[d])
    BY Zenon DEF GaInv, AllUsed
  <2>3. \A i \in exists' : \E d \in Conns : handler'[d].stamp = i /\ Uses(handler'[d])
    BY <1>5, <2>1, <2>2
  <2> QED
    BY <2>3 DEF AllUsed
<1> QED
  BY Zenon, <1>6, <1>7, <1>8, <1>9 DEF GaInv

LEMMA OpenScriptInv ==
  ASSUME GaInv, NEW c \in Conns, OpenScript(c)
  PROVE  GaInv'
<1>1. handler[c].pc = "write" /\ handler[c] \in Handlers /\ Sound(handler[c])
  BY Zenon, HandlerType DEF GaInv, AllSound, OpenScript, At
<1>2. UNCHANGED <<now, host, vm_up>>
  BY Zenon DEF OpenScript
<1>3. CASE Respond(c, "-1") /\ UNCHANGED <<exists, script>>
  BY Zenon, <1>1, <1>2, <1>3, RespondInv
<1>4. CASE /\ Goto(c, "fill")
           /\ exists' = exists \cup {handler[c].stamp}
           /\ script' = [script EXCEPT ![handler[c].stamp] = None]
  <2> DEFINE h == [handler[c] EXCEPT !.pc = "fill"]
  <2>1. /\ h \in Handlers /\ h.pc = "fill" /\ h.stamp = handler[c].stamp
        /\ h.outcome = handler[c].outcome
    BY Zenon, <1>1 DEF Handlers, Steps
  <2>2. handler' = [handler EXCEPT ![c] = h]
    BY Zenon, <1>4, HandlerType DEF GaInv, Goto
  <2> HIDE DEF h
  <2>3. h.stamp \in Times
    BY Zenon, <1>1, <2>1 DEF Sound
  <2>4. Sound(h) /\ Uses(h)
    BY Zenon, <1>1, <2>1, <2>3 DEF Sound, Early, Uses
  <2>5. /\ exists' \subseteq Times /\ script' \in [Times -> Conns \cup {None}]
        /\ \A i \in Times \ {h.stamp} : (i \in exists' <=> i \in exists) /\ script'[i] = script[i]
        /\ h.stamp \in exists'
    BY Zenon, <1>4, <2>1, <2>3 DEF GaInv, GaTypeOK
  <2> QED
    BY Zenon, <1>2, <2>1, <2>2, <2>4, <2>5, FileStepInv
<1> QED
  BY Zenon, <1>3, <1>4 DEF OpenScript, ScriptName
LEMMA FillScriptInv ==
  ASSUME GaInv, NEW c \in Conns, FillScript(c)
  PROVE  GaInv'
<1>1. handler[c].pc = "fill" /\ handler[c] \in Handlers /\ Sound(handler[c])
  BY Zenon, HandlerType DEF GaInv, AllSound, FillScript, At
<1>2. UNCHANGED <<exists, now, host, vm_up>> /\ host' \in Hosts /\ vm_up' \in BOOLEAN
  BY Zenon DEF FillScript, GaInv, GaTypeOK
<1>3. CASE /\ Goto(c, "start")
           /\ script' = IF ScriptName(c) \in exists
                        THEN [script EXCEPT ![ScriptName(c)] = c] ELSE script
  <2> DEFINE h == [handler[c] EXCEPT !.pc = "start"]
  <2>1. /\ h \in Handlers /\ h.pc = "start" /\ h.stamp = handler[c].stamp
        /\ h.outcome = handler[c].outcome
    BY Zenon, <1>1 DEF Handlers, Steps
  <2>2. handler' = [handler EXCEPT ![c] = h]
    BY Zenon, <1>3, HandlerType DEF GaInv, Goto
  <2> HIDE DEF h
  <2>3. h.stamp \in Times
    BY Zenon, <1>1, <2>1 DEF Sound
  <2>4. Sound(h) /\ Uses(h)
    BY Zenon, <1>1, <2>1, <2>3 DEF Sound, Early, Uses
  <2>5. CASE h.stamp \in exists
    <3>1. /\ exists' \subseteq Times /\ script' \in [Times -> Conns \cup {None}]
          /\ \A i \in Times \ {h.stamp} : (i \in exists' <=> i \in exists) /\ script'[i] = script[i]
          /\ h.stamp \in exists' /\ script'[h.stamp] = c
      BY Zenon, <1>2, <1>3, <2>1, <2>3, <2>5 DEF GaInv, GaTypeOK, ScriptName
    <3> QED
      BY Zenon, <1>2, <2>1, <2>2, <2>4, <3>1, FileStepInv
  <2>6. CASE h.stamp \notin exists
    <3>1. ~Owns(c, handler[c]) /\ UNCHANGED script
      BY Zenon, <1>1, <1>3, <2>1, <2>6 DEF Owns, ScriptName
    <3> QED
      BY Zenon, <1>2, <2>1, <2>2, <2>4, <3>1, HandlerStepInv
  <2> QED
    BY <2>5, <2>6
<1>4. CASE /\ handler' = [handler EXCEPT ![c].pc = "respond", ![c].exit_code = "-1",
                                         ![c].outcome = "unwritten"]
           /\ UNCHANGED script
  <2> DEFINE h == [handler[c] EXCEPT !.pc = "respond", !.exit_code = "-1", !.outcome = "unwritten"]
  <2>1. /\ h \in Handlers /\ h.pc = "respond" /\ h.stamp = handler[c].stamp
        /\ h.outcome = "unwritten" /\ h.exit_code = "-1"
    BY Zenon, <1>1 DEF Handlers, Steps, ExitCodes, Outcomes
  <2>2. handler' = [handler EXCEPT ![c] = h]
    BY <1>4, HandlerType DEF GaInv, Handlers
  <2> HIDE DEF h
  <2>3. Sound(h) /\ Uses(h) /\ Owns(c, h)
    BY Zenon, <2>1 DEF Sound, Early, Uses, Owns, TellsOutcome
  <2> QED
    BY Zenon, <1>2, <1>4, <2>1, <2>2, <2>3, HandlerStepInv
<1> QED
  BY Zenon, <1>3, <1>4 DEF FillScript

(* python3 opens the file its goroutine wrote. *)
LEMMA StartPythonInv ==
  ASSUME GaInv, NEW c \in Conns, StartPython(c)
  PROVE  GaInv'
<1>1. handler[c].pc = "start" /\ handler[c] \in Handlers /\ Sound(handler[c])
  BY Zenon, HandlerType DEF GaInv, AllSound, StartPython, At
<1>2. UNCHANGED <<script, exists, now, host, vm_up>> /\ host' \in Hosts /\ vm_up' \in BOOLEAN
  BY Zenon DEF StartPython, GaInv, GaTypeOK
<1>3. CASE handler' = [handler EXCEPT ![c].pc = "run",
             ![c].read = IF ScriptName(c) \in exists THEN script[ScriptName(c)] ELSE None]
  <2> DEFINE code == IF handler[c].stamp \in exists THEN script[handler[c].stamp] ELSE None
             h == [handler[c] EXCEPT !.pc = "run", !.read = code]
  <2>1. code \in Conns \cup {None}
    BY Zenon DEF GaInv, GaTypeOK
  <2>2. Owns(c, handler[c]) => code = c
    BY Zenon, <1>1 DEF Owns
  <2>3. handler' = [handler EXCEPT ![c] = h]
    BY <1>3, HandlerType DEF GaInv, Handlers, ScriptName
  <2> HIDE DEF code
  <2>4. /\ h \in Handlers /\ h.pc = "run" /\ h.stamp = handler[c].stamp
        /\ h.outcome = handler[c].outcome /\ h.read = code
    BY Zenon, <1>1, <2>1 DEF Handlers, Steps
  <2> HIDE DEF h
  <2>5. Sound(h) /\ Uses(h) /\ (Owns(c, handler[c]) => Owns(c, h))
    BY Zenon, <1>1, <2>2, <2>4 DEF Sound, Early, Uses, Owns
  <2> QED
    BY Zenon, <1>2, <2>3, <2>4, <2>5, HandlerStepInv
<1>4. CASE handler' = [handler EXCEPT ![c].pc = "run", ![c].outcome = "not_started"]
  <2> DEFINE h == [handler[c] EXCEPT !.pc = "run", !.outcome = "not_started"]
  <2>1. /\ h \in Handlers /\ h.pc = "run" /\ h.stamp = handler[c].stamp
        /\ h.outcome = "not_started"
    BY Zenon, <1>1 DEF Handlers, Steps, Outcomes
  <2>2. handler' = [handler EXCEPT ![c] = h]
    BY <1>4, HandlerType DEF GaInv, Handlers
  <2> HIDE DEF h
  <2>3. Sound(h) /\ Uses(h) /\ Owns(c, h)
    BY Zenon, <1>1, <2>1 DEF Sound, Early, Uses, Owns
  <2> QED
    BY Zenon, <1>2, <2>1, <2>2, <2>3, HandlerStepInv
<1> QED
  BY Zenon, <1>3, <1>4 DEF StartPython

(* While cmd.Run waits: python3 ends, the deadline passes, pipes close. *)
LEMMA WaitingInv ==
  ASSUME GaInv, NEW c \in Conns, PythonEnds(c) \/ Deadline(c) \/ PipesClose(c)
  PROVE  GaInv'
<1>1. handler[c].pc = "run" /\ handler[c] \in Handlers /\ Sound(handler[c])
  BY Zenon, HandlerType DEF GaInv, AllSound, PythonEnds, Deadline, PipesClose, At
<1>2. UNCHANGED <<script, exists, now, host, vm_up>> /\ host' \in Hosts /\ vm_up' \in BOOLEAN
  BY Zenon DEF PythonEnds, Deadline, PipesClose, GaInv, GaTypeOK
<1>3. PICK outcome \in Outcomes, expired \in BOOLEAN, pipes \in BOOLEAN :
        /\ handler' = [handler EXCEPT ![c] =
             [handler[c] EXCEPT !.outcome = outcome, !.expired = expired, !.pipes = pipes]]
        /\ outcome = "killed" => expired
        /\ handler[c].outcome = "not_started" => outcome = "not_started"
  <2>0. /\ handler \in [Conns -> Handlers] /\ handler[c].pipes \in BOOLEAN
        /\ handler[c].expired \in BOOLEAN /\ handler[c].outcome \in Outcomes
        /\ handler[c].outcome = "killed" => handler[c].expired
    BY Zenon, <1>1, HandlerType DEF GaInv, Handlers, Sound
  <2>1. CASE PythonEnds(c)
    <3>1. PICK outcome \in {"ok", "failed"}, pipes \in BOOLEAN :
            handler' = [handler EXCEPT ![c].outcome = outcome, ![c].pipes = pipes]
      BY Zenon, <2>1 DEF PythonEnds
    <3>2. handler' = [handler EXCEPT ![c] =
            [handler[c] EXCEPT !.outcome = outcome, !.expired = handler[c].expired, !.pipes = pipes]]
      BY <2>0, <3>1 DEF Handlers
    <3>3. outcome \in Outcomes /\ outcome # "killed" /\ handler[c].outcome = "none"
      BY Zenon, <2>1 DEF Outcomes, PythonEnds
    <3> QED
      BY Zenon, <2>0, <3>2, <3>3
  <2>2. CASE Deadline(c)
    <3>1. PICK pipes \in BOOLEAN :
            handler' = [handler EXCEPT ![c].expired = TRUE,
              ![c].outcome = IF @ = "none" THEN "killed" ELSE @,
              ![c].pipes = IF handler[c].outcome = "none" THEN pipes ELSE @]
      BY Zenon, <2>2 DEF Deadline
    <3> DEFINE after == IF handler[c].outcome = "none" THEN "killed" ELSE handler[c].outcome
               open == IF handler[c].outcome = "none" THEN pipes ELSE handler[c].pipes
    <3>2. handler' = [handler EXCEPT ![c] =
            [handler[c] EXCEPT !.outcome = after, !.expired = TRUE, !.pipes = open]]
      BY <2>0, <3>1 DEF Handlers
    <3>3. after \in Outcomes /\ open \in BOOLEAN /\ (handler[c].outcome = "not_started" => after = "not_started")
      BY Zenon, <2>0 DEF Outcomes
    <3> HIDE DEF after, open
    <3> QED
      BY Zenon, <3>2, <3>3
  <2>3. CASE PipesClose(c)
    <3>1. handler' = [handler EXCEPT ![c] =
            [handler[c] EXCEPT !.outcome = handler[c].outcome, !.expired = handler[c].expired,
                               !.pipes = FALSE]]
      BY <2>0, <2>3 DEF Handlers, PipesClose
    <3> QED
      BY Zenon, <2>0, <3>1
  <2> QED
    BY Zenon, <2>1, <2>2, <2>3
<1> DEFINE h == [handler[c] EXCEPT !.outcome = outcome, !.expired = expired, !.pipes = pipes]
<1>4. /\ h \in Handlers /\ h.pc = "run" /\ h.stamp = handler[c].stamp
      /\ h.outcome = outcome /\ h.expired = expired /\ h.read = handler[c].read
  BY Zenon, <1>1 DEF Handlers
<1>5. handler' = [handler EXCEPT ![c] = h]
  BY Zenon, <1>3
<1> HIDE DEF h
<1>6. Sound(h) /\ Uses(h) /\ (Owns(c, handler[c]) => Owns(c, h))
  BY Zenon, <1>1, <1>3, <1>4 DEF Sound, Early, Uses, Owns
<1> QED
  BY Zenon, <1>2, <1>4, <1>5, <1>6, HandlerStepInv
(* The exit code that is put in the response. *)
LEMMA RunReturnsInv ==
  ASSUME GaInv, NEW c \in Conns, RunReturns(c)
  PROVE  GaInv'
<1>0. PICK code \in ExitCode(c) : Respond(c, code)
  BY Zenon DEF RunReturns
<1> DEFINE h == [handler[c] EXCEPT !.pc = "respond", !.exit_code = code]
<1>1. /\ handler[c].pc = "run" /\ handler[c] \in Handlers /\ Sound(handler[c])
      /\ handler[c].outcome # "none"
  BY Zenon, HandlerType DEF GaInv, AllSound, RunReturns, At
<1>2. UNCHANGED <<script, exists, now, host, vm_up>> /\ host' \in Hosts /\ vm_up' \in BOOLEAN
  BY Zenon DEF RunReturns, GaInv, GaTypeOK
<1>3. /\ code \in ExitCodes
      /\ code = "0" => handler[c].outcome = "ok"
      /\ handler[c].outcome = "ok" /\ ~handler[c].expired => code = "0"
      /\ code = "124" => handler[c].expired
      /\ handler[c].outcome = "killed" => code = "124"
  <2>1. CASE handler[c].outcome = "ok"
    <3>1. code = "0" \/ (code = "124" /\ handler[c].expired)
      BY <1>0, <2>1 DEF ExitCode
    <3> QED
      BY Zenon, <2>1, <3>1 DEF ExitCodes
  <2>2. CASE handler[c].outcome # "ok" /\ handler[c].expired
    BY Zenon, <1>0, <2>2 DEF ExitCode, ExitCodes
  <2>3. CASE handler[c].outcome # "ok" /\ ~handler[c].expired
    <3>1. code \in {"1", "-1"} /\ handler[c].outcome # "killed"
      BY <1>0, <1>1, <2>3 DEF ExitCode, Sound
    <3> QED
      BY Zenon, <2>3, <3>1 DEF ExitCodes
  <2> QED
    BY Zenon, <2>1, <2>2, <2>3
<1>4. handler' = [handler EXCEPT ![c] = h]
  BY <1>0, HandlerType DEF GaInv, Handlers, Respond
<1>5. /\ h \in Handlers /\ h.pc = "respond" /\ h.stamp = handler[c].stamp
      /\ h.outcome = handler[c].outcome /\ h.expired = handler[c].expired
      /\ h.exit_code = code
  BY Zenon, <1>1, <1>3 DEF Handlers, Steps
<1> HIDE DEF h
<1>6. Sound(h) /\ Uses(h) /\ Owns(c, h)
  BY Zenon, <1>1, <1>3, <1>5 DEF Sound, Early, Uses, Owns, TellsOutcome
<1> QED
  BY Zenon, <1>2, <1>4, <1>5, <1>6, HandlerStepInv

LEMMA SendResponseInv ==
  ASSUME GaInv, NEW c \in Conns, SendResponse(c)
  PROVE  GaInv'
<1> DEFINE h == [handler[c] EXCEPT !.pc = "remove"]
<1>1. handler[c].pc = "respond" /\ handler[c] \in Handlers /\ Sound(handler[c])
  BY Zenon, HandlerType DEF GaInv, AllSound, SendResponse, At
<1>2. UNCHANGED <<script, exists, now, host, vm_up>> /\ host' \in Hosts /\ vm_up' \in BOOLEAN
  BY Zenon DEF SendResponse, GaInv, GaTypeOK
<1>3. handler' = [handler EXCEPT ![c] = h]
  BY Zenon, HandlerType DEF GaInv, SendResponse, Goto
<1>4. /\ h \in Handlers /\ h.pc = "remove" /\ h.stamp = handler[c].stamp
      /\ h.outcome = handler[c].outcome /\ h.expired = handler[c].expired
      /\ h.exit_code = handler[c].exit_code
  BY Zenon, <1>1 DEF Handlers, Steps
<1> HIDE DEF h
<1>5. Sound(h) /\ Owns(c, h) /\ (Uses(handler[c]) => Uses(h))
  BY Zenon, <1>1, <1>4 DEF Sound, Early, Uses, Owns, TellsOutcome
<1> QED
  BY Zenon, <1>2, <1>3, <1>4, <1>5, HandlerStepInv

(* The deferred removal leaves a file only if it could not be written. *)
LEMMA CloseConnInv ==
  ASSUME GaInv, NEW c \in Conns, CloseConn(c)
  PROVE  GaInv'
<1> DEFINE left == IF handler[c].outcome = "unwritten" THEN "unwritten" ELSE "none"
           code == IF host.conn = c THEN handler[c].exit_code ELSE "none"
           h == [NewHandler EXCEPT !.pc = "closed", !.stamp = handler[c].stamp,
                   !.outcome = left, !.exit_code = code]
<1>1. handler[c].pc = "remove" /\ handler[c] \in Handlers /\ Sound(handler[c])
  BY Zenon, HandlerType DEF GaInv, AllSound, CloseConn, At
<1>2. UNCHANGED <<now, host, vm_up>> /\ host' \in Hosts /\ vm_up' \in BOOLEAN
  BY Zenon DEF CloseConn, GaInv, GaTypeOK
<1>3. handler' = [handler EXCEPT ![c] = h]
  BY DEF CloseConn, NewHandler
<1>4. left \in {"none", "unwritten"} /\ code \in ExitCodes
  BY Zenon, <1>1 DEF Handlers, ExitCodes
<1>5. left = "unwritten" <=> handler[c].outcome = "unwritten"
  BY Zenon
<1> HIDE DEF left, code
<1>6. h \in Handlers /\ h.pc = "closed" /\ h.stamp = handler[c].stamp /\ h.outcome = left
  BY Zenon, <1>1, <1>4 DEF NewHandler, Handlers, Steps, Payloads, Outcomes
<1> HIDE DEF h
<1>7. Sound(h) /\ Owns(c, h)
  BY Zenon, <1>4, <1>6 DEF Sound, Early, Owns
<1>8. CASE Removes(handler[c])
  <2>1. /\ exists' = exists \ {handler[c].stamp}
        /\ script' = [script EXCEPT ![handler[c].stamp] = None]
    BY Zenon, <1>8 DEF CloseConn, ScriptName
  <2>2. /\ exists' \subseteq Times /\ script' \in [Times -> Conns \cup {None}]
        /\ \A i \in Times \ {h.stamp} : (i \in exists' <=> i \in exists) /\ script'[i] = script[i]
        /\ h.stamp \notin exists'
    BY Zenon, <1>6, <2>1 DEF GaInv, GaTypeOK
  <2> QED
    BY Zenon, <1>2, <1>3, <1>6, <1>7, <2>2, FileStepInv
<1>9. CASE ~Removes(handler[c])
  <2>1. UNCHANGED <<script, exists>>
    BY Zenon, <1>9 DEF CloseConn
  <2>2. Uses(handler[c]) => Uses(h)
    BY Zenon, <1>1, <1>5, <1>6, <1>9 DEF Removes, Uses
  <2> QED
    BY Zenon, <1>2, <1>3, <1>6, <1>7, <2>1, <2>2, HandlerStepInv
<1> QED
  BY <1>8, <1>9

-----------------------------------------------------------------------------
LEMMA HostCallsInv ==
  ASSUME GaInv, NEW c \in Conns, HostCalls(c)
  PROVE  GaInv'
<1>1. host' \in Hosts /\ vm_up' \in BOOLEAN /\ now' \in Times /\ UNCHANGED <<script, exists, now>>
  BY Zenon DEF HostCalls, NoCall, Hosts, ExitCodes, GaInv, GaTypeOK
<1> QED
  BY Zenon, <1>1, AcceptInv, NoHandlerStepInv DEF HostCalls

LEMMA EnvironmentInv ==
  ASSUME GaInv, HostReads \/ Tick \/ VmDies
  PROVE  GaInv'
<1>1. CASE HostReads
  <2>1. host.conn \in Conns
    BY Zenon, <1>1 DEF HostReads, GaInv, GaTypeOK, Hosts
  <2>2. handler[host.conn].exit_code \in ExitCodes
    BY Zenon, <2>1, HandlerType DEF GaInv, Handlers
  <2>3. host' \in Hosts
    <3>1. [conn |-> None, exit_code |-> "0", answer |-> handler[host.conn].exit_code] \in Hosts
      BY Zenon, <2>2 DEF Hosts
    <3>2. [NoCall EXCEPT !.exit_code = "-1"] \in Hosts
      BY Zenon DEF NoCall, Hosts, ExitCodes
    <3> QED
      BY Zenon, <1>1, <3>1, <3>2 DEF HostReads
  <2> QED
    BY Zenon, <1>1, <2>3, NoHandlerStepInv DEF HostReads, GaInv, GaTypeOK
<1>2. CASE Tick
  <2>1. now' \in Times
    BY <1>2, GuestAssumption DEF Tick, GaInv, GaTypeOK, Times
  <2> QED
    BY Zenon, <1>2, <2>1, NoHandlerStepInv DEF Tick, GaInv, GaTypeOK
<1>3. CASE VmDies
  BY Zenon, <1>3, NoHandlerStepInv DEF VmDies, GaInv, GaTypeOK
<1> QED
  BY <1>1, <1>2, <1>3

LEMMA GaNextInv == GaInv /\ [GaNext]_gaVars => GaInv'
<1> SUFFICES ASSUME GaInv, [GaNext]_gaVars PROVE GaInv'
  OBVIOUS
<1>1. ASSUME NEW c \in Conns, AcceptFromGuest(c) PROVE GaInv'
  BY Zenon, <1>1, AcceptInv DEF AcceptFromGuest, GaInv, GaTypeOK
<1>2. CASE UNCHANGED gaVars
  BY Zenon, <1>2, NoHandlerStepInv DEF gaVars, GaInv, GaTypeOK
<1> QED
  BY Zenon, <1>1, <1>2, DecodeInv, NameScriptInv, OpenScriptInv, FillScriptInv, StartPythonInv,
     WaitingInv, RunReturnsInv, SendResponseInv, CloseConnInv, HostCallsInv, EnvironmentInv
     DEF GaNext, HandlerStep

LEMMA GaInvariant == GaSpec => []GaInv
BY GaInitInv, GaNextInv, PTL DEF GaSpec

(* The agent's and the host's state stay well formed. *)
THEOREM GuestTypeCorrect == GaSpec => []GaTypeOK
<1> QED BY GaInvariant, PTL DEF GaInv

(* With any number of connections, python3 runs the code its own           *)
(* connection sent unless two of them read the same nanosecond.            *)
THEOREM OnlyOwnCodeRuns == GaSpec => []RunsOwnCode
<1>1. GaInv => RunsOwnCode
  BY Zenon DEF GaInv, AllOwn, Owns, Collides, RunsOwnCode
<1> QED
  BY <1>1, GaInvariant, PTL

(* No script is left in /tmp but one that could not be written. *)
THEOREM NoScriptLeft == GaSpec => []ScriptsAreWiped
<1>1. GaInv => ScriptsAreWiped
  <2> SUFFICES ASSUME GaInv, NEW i \in exists
               PROVE  \E c \in Conns :
                        /\ handler[c].stamp = i
                        /\ handler[c].pc # "closed" \/ handler[c].outcome = "unwritten"
    BY DEF ScriptsAreWiped, ScriptName
  <2>1. PICK c \in Conns : handler[c].stamp = i /\ Uses(handler[c])
    BY Zenon DEF GaInv, AllUsed
  <2>2. handler[c].pc = "closed" => handler[c].outcome = "unwritten"
    BY Zenon, <2>1 DEF GaInv, AllSound, Sound, Uses
  <2> QED
    BY Zenon, <2>1, <2>2
<1> QED
  BY <1>1, GaInvariant, PTL

(* The exit code in a response tells how python3 ended. *)
THEOREM ResponsesAreTrue == GaSpec => []ResponseTellsOutcome
<1>1. GaInv => ResponseTellsOutcome
  BY Zenon DEF GaInv, AllSound, Sound, TellsOutcome, ResponseTellsOutcome
<1> QED
  BY <1>1, GaInvariant, PTL

-----------------------------------------------------------------------------
(* What a goroutine may send or close: a response needs an exit code, and  *)
(* the host's connection keeps it until the host has read it.              *)
Answered(h, awaited) ==
  /\ h.pc \in {"respond", "remove"} => h.exit_code # "none"
  /\ awaited => h.pc # "idle" /\ (h.pc = "closed" => h.exit_code # "none")

AnswerInv == \A c \in Conns : Answered(handler[c], host.conn = c)

(* A step of one goroutine while the host waits, or not, as before. *)
LEMMA GoroutineAnswers ==
  ASSUME GaInv, AnswerInv, NEW c \in Conns, NEW h, handler' = [handler EXCEPT ![c] = h],
         UNCHANGED host, Answered(h, host.conn = c)
  PROVE  AnswerInv'
<1>1. \A d \in Conns : handler'[d] = IF d = c THEN h ELSE handler[d]
  BY Zenon DEF GaInv, GaTypeOK
<1>2. ASSUME NEW d \in Conns PROVE Answered(handler'[d], host'.conn = d)
  <2>1. CASE d = c
    BY Zenon, <1>1, <2>1
  <2>2. CASE d # c
    BY Zenon, <1>1, <2>2 DEF AnswerInv
  <2> QED
    BY <2>1, <2>2
<1> QED
  BY Zenon, <1>2 DEF AnswerInv, Answered

LEMMA GotoAnswers ==
  ASSUME GaInv, AnswerInv, NEW c \in Conns, NEW step \in Steps \ {"idle", "respond", "closed"},
         Goto(c, step), UNCHANGED host, step = "remove" => handler[c].pc = "respond"
  PROVE  AnswerInv'
<1> DEFINE h == [handler[c] EXCEPT !.pc = step]
<1>1. handler' = [handler EXCEPT ![c] = h]
  BY Zenon DEF Goto
<1>2. h.pc = step /\ h.exit_code = handler[c].exit_code
  BY Zenon, HandlerType DEF GaInv, Handlers
<1>3. Answered(h, host.conn = c)
  BY Zenon, <1>2 DEF Answered, AnswerInv
<1> QED
  BY Zenon, <1>1, <1>3, GoroutineAnswers

LEMMA RespondAnswers ==
  ASSUME GaInv, AnswerInv, NEW c \in Conns, NEW code, code # "none", Respond(c, code),
         UNCHANGED host
  PROVE  AnswerInv'
<1> DEFINE h == [handler[c] EXCEPT !.pc = "respond", !.exit_code = code]
<1>1. handler' = [handler EXCEPT ![c] = h]
  BY HandlerType DEF Respond, GaInv
<1>2. h.pc = "respond" /\ h.exit_code = code
  BY Zenon, HandlerType DEF GaInv, Handlers
<1>3. Answered(h, host.conn = c)
  BY Zenon, <1>2 DEF Answered
<1> QED
  BY Zenon, <1>1, <1>3, GoroutineAnswers

(* The steps between the request and the response. *)
LEMMA ServingAnswers ==
  ASSUME GaInv, AnswerInv, NEW c \in Conns,
         \/ NameScript(c) \/ StartPython(c) \/ PythonEnds(c) \/ Deadline(c) \/ PipesClose(c)
  PROVE  AnswerInv'
<1>1. /\ UNCHANGED host /\ handler \in [Conns -> Handlers] /\ handler[c] \in Handlers
  BY Zenon, HandlerType DEF NameScript, StartPython, PythonEnds, Deadline, PipesClose, GaInv
<1>2. PICK h : handler' = [handler EXCEPT ![c] = h] /\ h.pc \in {"write", "run"}
  <2>1. CASE NameScript(c)
    <3> DEFINE h == [handler[c] EXCEPT !.pc = "write", !.stamp = now]
    <3>1. handler' = [handler EXCEPT ![c] = h]
      BY <1>1, <2>1 DEF NameScript
    <3>2. h.pc = "write"
      BY Zenon, <1>1 DEF Handlers
    <3> QED
      BY Zenon, <3>1, <3>2
  <2>2. CASE StartPython(c)
    <3>1. ASSUME NEW r, handler' = [handler EXCEPT ![c].pc = "run", ![c].read = r]
          PROVE  \E h : handler' = [handler EXCEPT ![c] = h] /\ h.pc \in {"write", "run"}
      <4> DEFINE h == [handler[c] EXCEPT !.pc = "run", !.read = r]
      <4>1. handler' = [handler EXCEPT ![c] = h]
        BY <1>1, <3>1
      <4>2. h.pc = "run"
        BY Zenon, <1>1 DEF Handlers
      <4> QED
        BY Zenon, <4>1, <4>2
    <3>2. ASSUME handler' = [handler EXCEPT ![c].pc = "run", ![c].outcome = "not_started"]
          PROVE  \E h : handler' = [handler EXCEPT ![c] = h] /\ h.pc \in {"write", "run"}
      <4> DEFINE h == [handler[c] EXCEPT !.pc = "run", !.outcome = "not_started"]
      <4>1. handler' = [handler EXCEPT ![c] = h]
        BY <1>1, <3>2
      <4>2. h.pc = "run"
        BY Zenon, <1>1 DEF Handlers
      <4> QED
        BY Zenon, <4>1, <4>2
    <3> QED
      BY Zenon, <2>2, <3>1, <3>2 DEF StartPython
  <2>3. CASE PythonEnds(c)
    <3>1. PICK outcome, pipes :
            handler' = [handler EXCEPT ![c].outcome = outcome, ![c].pipes = pipes]
      BY Zenon, <2>3 DEF PythonEnds
    <3> DEFINE h == [handler[c] EXCEPT !.outcome = outcome, !.pipes = pipes]
    <3>2. handler' = [handler EXCEPT ![c] = h]
      BY <1>1, <3>1
    <3>3. h.pc = "run"
      BY Zenon, <1>1, <2>3 DEF Handlers, PythonEnds, At
    <3> QED
      BY Zenon, <3>2, <3>3
  <2>4. CASE Deadline(c)
    <3>1. PICK pipes \in BOOLEAN :
            handler' = [handler EXCEPT ![c].expired = TRUE,
              ![c].outcome = IF @ = "none" THEN "killed" ELSE @,
              ![c].pipes = IF handler[c].outcome = "none" THEN pipes ELSE @]
      BY Zenon, <2>4 DEF Deadline
    <3> DEFINE after == IF handler[c].outcome = "none" THEN "killed" ELSE handler[c].outcome
               open == IF handler[c].outcome = "none" THEN pipes ELSE handler[c].pipes
               h == [handler[c] EXCEPT !.expired = TRUE, !.outcome = after, !.pipes = open]
    <3>2. handler' = [handler EXCEPT ![c] = h]
      BY <1>1, <3>1 DEF Handlers
    <3> HIDE DEF after, open
    <3>3. h.pc = "run"
      BY Zenon, <1>1, <2>4 DEF Handlers, Deadline, At
    <3> QED
      BY Zenon, <3>2, <3>3
  <2>5. CASE PipesClose(c)
    <3> DEFINE h == [handler[c] EXCEPT !.pipes = FALSE]
    <3>1. handler' = [handler EXCEPT ![c] = h]
      BY <1>1, <2>5 DEF PipesClose
    <3>2. h.pc = "run"
      BY Zenon, <1>1, <2>5 DEF Handlers, PipesClose, At
    <3> QED
      BY Zenon, <3>1, <3>2
  <2> QED
    BY Zenon, <2>1, <2>2, <2>3, <2>4, <2>5
<1>3. Answered(h, host.conn = c)
  BY Zenon, <1>2 DEF Answered
<1> QED
  BY Zenon, <1>1, <1>2, <1>3, GoroutineAnswers

(* Every path to the end of handleConnection sends a response. *)
LEMMA RespondingAnswers ==
  ASSUME GaInv, AnswerInv, NEW c \in Conns,
         \/ Decode(c) \/ OpenScript(c) \/ RunReturns(c) \/ SendResponse(c)
  PROVE  AnswerInv'
<1>1. "none" \notin ExitCode(c)
  BY DEF ExitCode
<1>2. {"name", "fill", "remove"} \subseteq Steps \ {"idle", "respond", "closed"}
  BY Zenon DEF Steps
<1> QED
  BY Zenon, <1>1, <1>2, GotoAnswers, RespondAnswers
     DEF Decode, OpenScript, RunReturns, SendResponse, At

LEMMA FillScriptAnswers ==
  ASSUME GaInv, AnswerInv, NEW c \in Conns, FillScript(c)
  PROVE  AnswerInv'
<1>1. CASE Goto(c, "start")
  BY Zenon, <1>1, GotoAnswers DEF FillScript, Steps
<1>2. CASE handler' = [handler EXCEPT ![c].pc = "respond", ![c].exit_code = "-1",
                                      ![c].outcome = "unwritten"]
  <2> DEFINE h == [handler[c] EXCEPT !.pc = "respond", !.exit_code = "-1", !.outcome = "unwritten"]
  <2>1. handler' = [handler EXCEPT ![c] = h]
    BY <1>2, HandlerType DEF GaInv, Handlers
  <2>2. h.pc = "respond" /\ h.exit_code = "-1"
    BY Zenon, HandlerType DEF GaInv, Handlers
  <2>3. Answered(h, host.conn = c)
    BY Zenon, <2>2 DEF Answered
  <2> QED
    BY Zenon, <2>1, <2>3, GoroutineAnswers DEF FillScript
<1> QED
  BY Zenon, <1>1, <1>2 DEF FillScript

(* The deferred close follows the response. *)
LEMMA CloseConnAnswers ==
  ASSUME GaInv, AnswerInv, NEW c \in Conns, CloseConn(c)
  PROVE  AnswerInv'
<1> DEFINE left == IF handler[c].outcome = "unwritten" THEN "unwritten" ELSE "none"
           code == IF host.conn = c THEN handler[c].exit_code ELSE "none"
           h == [NewHandler EXCEPT !.pc = "closed", !.stamp = handler[c].stamp,
                   !.outcome = left, !.exit_code = code]
<1>1. handler' = [handler EXCEPT ![c] = h]
  BY DEF CloseConn, NewHandler
<1>2. handler[c].exit_code # "none"
  BY Zenon DEF CloseConn, At, AnswerInv, Answered
<1>3. host.conn = c => code # "none"
  BY Zenon, <1>2
<1> HIDE DEF left, code
<1>4. h.pc = "closed" /\ h.exit_code = code
  BY Zenon DEF NewHandler
<1>5. Answered(h, host.conn = c)
  BY Zenon, <1>3, <1>4 DEF Answered
<1> QED
  BY Zenon, <1>1, <1>5, GoroutineAnswers DEF CloseConn

(* A connection that is accepted has a goroutine that has not answered. *)
LEMMA AcceptAnswers ==
  ASSUME GaInv, AnswerInv, NEW c \in Conns, NEW sent \in Payloads, Accept(c, sent),
         \A d \in Conns \ {c} : host'.conn = d => host.conn = d
  PROVE  AnswerInv'
<1> DEFINE h == [handler[c] EXCEPT !.pc = "decode", !.sent = sent]
<1>1. handler' = [handler EXCEPT ![c] = h]
  BY HandlerType DEF Accept, GaInv
<1>2. h.pc = "decode"
  BY Zenon, HandlerType DEF GaInv, Handlers
<1>3. \A d \in Conns : handler'[d] = IF d = c THEN h ELSE handler[d]
  BY Zenon, <1>1 DEF GaInv, GaTypeOK
<1>4. ASSUME NEW d \in Conns PROVE Answered(handler'[d], host'.conn = d)
  <2>1. CASE d = c
    BY Zenon, <1>2, <1>3, <2>1 DEF Answered
  <2>2. CASE d # c
    BY Zenon, <1>3, <2>2 DEF AnswerInv, Answered
  <2> QED
    BY <2>1, <2>2
<1> QED
  BY Zenon, <1>4 DEF AnswerInv, Answered

LEMMA HostAnswers ==
  ASSUME GaInv, AnswerInv, UNCHANGED handler, host'.conn \in {None, host.conn}
  PROVE  AnswerInv'
BY Zenon, GuestAssumption DEF AnswerInv, Answered

LEMMA AnswerNext == GaInv /\ AnswerInv /\ [GaNext]_gaVars => AnswerInv'
<1> SUFFICES ASSUME GaInv, AnswerInv, [GaNext]_gaVars PROVE AnswerInv'
  OBVIOUS
<1>1. ASSUME NEW c \in Conns, AcceptFromGuest(c) PROVE AnswerInv'
  BY Zenon, <1>1, AcceptAnswers DEF AcceptFromGuest
<1>2. ASSUME NEW c \in Conns, HostCalls(c) PROVE AnswerInv'
  <2>1. [NoCall EXCEPT !.conn = c].conn = c /\ [NoCall EXCEPT !.exit_code = "-1"].conn = None
    BY Zenon DEF NoCall
  <2>2. CASE UNCHANGED handler /\ host' = [NoCall EXCEPT !.exit_code = "-1"]
    <3>1. host'.conn = None
      BY Zenon, <2>1, <2>2
    <3> QED
      BY Zenon, <2>2, <3>1, HostAnswers
  <2>3. CASE (\E sent \in Payloads : Accept(c, sent)) /\ host' = [NoCall EXCEPT !.conn = c]
    <3>1. host'.conn = c
      BY Zenon, <2>1, <2>3
    <3> QED
      BY Zenon, <2>3, <3>1, AcceptAnswers
  <2> QED
    BY <1>2, <2>2, <2>3 DEF HostCalls
<1>3. CASE HostReads
  <2>1. [NoCall EXCEPT !.exit_code = "-1"].conn = None
    BY Zenon DEF NoCall
  <2>2. host'.conn = None
    <3>1. CASE host' = [conn |-> None, exit_code |-> "0", answer |-> handler[host.conn].exit_code]
      BY Zenon, <3>1
    <3>2. CASE host' = [NoCall EXCEPT !.exit_code = "-1"]
      BY Zenon, <2>1, <3>2
    <3> QED
      BY Zenon, <1>3, <3>1, <3>2 DEF HostReads
  <2> QED
    BY Zenon, <1>3, <2>2, HostAnswers DEF HostReads
<1>4. CASE Tick \/ VmDies \/ UNCHANGED gaVars
  BY Zenon, <1>4, HostAnswers DEF Tick, VmDies, gaVars
<1> QED
  BY Zenon, <1>1, <1>2, <1>3, <1>4, ServingAnswers, RespondingAnswers, FillScriptAnswers,
     CloseConnAnswers DEF GaNext, HandlerStep

(* However many connections are served, the agent does not close the one   *)
(* execute_code reads from before it has sent a response.  It is what      *)
(* HostCallReturns needs besides fairness.                                 *)
THEOREM AgentNeverHangsUp == GaSpec => []EveryCallIsAnswered
<1>1. GaInit => AnswerInv
  <2> SUFFICES ASSUME GaInit, NEW c \in Conns PROVE Answered(handler[c], host.conn = c)
    BY Zenon DEF AnswerInv
  <2>1. handler[c].pc = "idle" /\ host.conn # c
    BY Zenon, GuestAssumption DEF GaInit, NewHandler, NoCall
  <2> QED
    BY Zenon, <2>1 DEF Answered
<1>2. GaInv /\ AnswerInv => EveryCallIsAnswered
  <2> SUFFICES ASSUME GaInv, AnswerInv, host.conn # None
               PROVE  /\ handler[host.conn].pc # "idle"
                      /\ handler[host.conn].pc \in {"respond", "remove", "closed"} =>
                           handler[host.conn].exit_code # "none"
    BY Zenon DEF EveryCallIsAnswered
  <2>1. host.conn \in Conns
    BY Zenon DEF GaInv, GaTypeOK, Hosts
  <2> QED
    BY Zenon, <2>1 DEF AnswerInv, Answered
<1> QED
  BY <1>1, <1>2, AnswerNext, GaInvariant, PTL DEF GaSpec
=============================================================================
