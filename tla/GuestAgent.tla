----------------------------- MODULE GuestAgent -----------------------------
(***************************************************************************)
(* The guest agent (guest/cmd/agent/main.go) and the host's side of the    *)
(* exchange, SandboxManager::execute_code.  Every connection is served by  *)
(* a goroutine of its own: decode one JSON request, write the code to a    *)
(* file named by the current nanosecond, run python3 on it under a         *)
(* deadline, encode the response, remove the file.  The host writes the    *)
(* code as it is and reads once; m_mutex allows one such call at a time.   *)
(* Other connections come from processes inside the guest: the socket has  *)
(* mode 0777.                                                              *)
(***************************************************************************)
EXTENDS Naturals, FiniteSets

CONSTANTS Conns,   \* connections in one run
          None,    \* no connection, no file
          MaxTime  \* bound: values of the nanosecond clock

ASSUME GuestAssumption == MaxTime \in Nat \ {0} /\ None \notin Conns

Times == 1..MaxTime

(* What the peer sent, as the JSON decoder sees it: an ExecutionRequest, a *)
(* text it rejects, or the beginning of a value that may still go on.      *)
Payloads == {"request", "text", "prefix"}

(* How python3 ended: by itself, with code 0 or another, killed at the     *)
(* deadline, or not started.  unwritten: its script was not written.       *)
Outcomes == {"none", "ok", "failed", "killed", "not_started", "unwritten"}

(* The exit code of the response; 1 stands for python3's own.              *)
ExitCodes == {"none", "0", "1", "124", "-1"}

VARIABLES handler,  \* connection -> its goroutine
          script,   \* /tmp: name -> connection whose code is in the file, or None
          exists,   \* /tmp: names of the files there are
          now,      \* the clock
          host,     \* the execute_code call
          vm_up     \* the Firecracker process is alive

gaVars == <<handler, script, exists, now, host, vm_up>>

Steps == {"idle", "decode", "name", "write", "fill", "start", "run", "respond", "remove", "closed"}
Handlers == [pc : Steps, sent : Payloads, stamp : Times \cup {0},
             read : Conns \cup {None}, outcome : Outcomes, expired : BOOLEAN,
             pipes : BOOLEAN, exit_code : ExitCodes]
NewHandler == [pc |-> "idle", sent |-> "text", stamp |-> 0, read |-> None,
               outcome |-> "none", expired |-> FALSE, pipes |-> FALSE, exit_code |-> "none"]

(* The host's result, and the exit code in the response it read. *)
Hosts == [conn : Conns \cup {None}, exit_code : {"none", "-1", "0"}, answer : ExitCodes]
NoCall == [conn |-> None, exit_code |-> "none", answer |-> "none"]

GaTypeOK ==
  /\ handler \in [Conns -> Handlers]
  /\ script \in [Times -> Conns \cup {None}]
  /\ exists \subseteq Times
  /\ now \in Times
  /\ host \in Hosts
  /\ vm_up \in BOOLEAN

GaInit ==
  /\ handler = [c \in Conns |-> NewHandler]
  /\ script = [i \in Times |-> None]
  /\ exists = {}
  /\ now = 1
  /\ host = NoCall
  /\ vm_up = TRUE

-----------------------------------------------------------------------------
At(c, step) == vm_up /\ handler[c].pc = step
Goto(c, step) == handler' = [handler EXCEPT ![c].pc = step]
Respond(c, code) ==
  handler' = [handler EXCEPT ![c].pc = "respond", ![c].exit_code = code]

Accept(c, sent) ==
  /\ At(c, "idle")
  /\ handler' = [handler EXCEPT ![c].pc = "decode", ![c].sent = sent]

AcceptFromGuest(c) ==
  /\ \E sent \in Payloads : Accept(c, sent)
  /\ UNCHANGED <<script, exists, now, host, vm_up>>

(* Mutant of Decode: the connection is closed without a response when the  *)
(* text is no request.                                                     *)
DecodeErrorSilent(c) ==
  /\ At(c, "decode")
  /\ \/ handler[c].sent = "request" /\ Goto(c, "name")
     \/ handler[c].sent = "text" /\ Goto(c, "remove")
     \/ handler[c].sent = "prefix" /\ host.conn # c /\ Goto(c, "remove")
  /\ UNCHANGED <<script, exists, now, host, vm_up>>

(* A value that is not complete keeps Decode waiting until the peer closes *)
(* the connection, which the host does not do before it has an answer.     *)
Decode(c) ==
  /\ At(c, "decode")
  /\ \/ handler[c].sent = "request" /\ Goto(c, "name")
     \/ handler[c].sent = "text" /\ Respond(c, "-1")
     \/ handler[c].sent = "prefix" /\ host.conn # c /\ Respond(c, "-1")
  /\ UNCHANGED <<script, exists, now, host, vm_up>>

(* The name of the script file.  Mutant: one name for all. *)
FixedName(c) == 1
ScriptName(c) == handler[c].stamp

(* os.WriteFile opens the file, truncating one that is there, and then     *)
(* writes to it.  Both can fail; a file whose write failed stays.          *)
NameScript(c) ==
  /\ At(c, "name")
  /\ handler' = [handler EXCEPT ![c].pc = "write", ![c].stamp = now]
  /\ UNCHANGED <<script, exists, now, host, vm_up>>

OpenScript(c) ==
  /\ At(c, "write")
  /\ \/ /\ Goto(c, "fill")
        /\ exists' = exists \cup {ScriptName(c)}
        /\ script' = [script EXCEPT ![ScriptName(c)] = None]
     \/ Respond(c, "-1") /\ UNCHANGED <<exists, script>>
  /\ UNCHANGED <<now, host, vm_up>>

FillScript(c) ==
  /\ At(c, "fill")
  /\ \/ /\ Goto(c, "start")
        /\ script' = IF ScriptName(c) \in exists
                     THEN [script EXCEPT ![ScriptName(c)] = c] ELSE script
     \/ /\ handler' = [handler EXCEPT ![c].pc = "respond", ![c].exit_code = "-1",
                                       ![c].outcome = "unwritten"]
        /\ UNCHANGED script
  /\ UNCHANGED <<exists, now, host, vm_up>>

(* cmd.Start; python3 then opens the script.  One that is gone or empty is *)
(* an error or a program that does nothing.                                *)
StartPython(c) ==
  /\ At(c, "start")
  /\ \/ handler' = [handler EXCEPT ![c].pc = "run",
          ![c].read = IF ScriptName(c) \in exists
                       THEN script[ScriptName(c)] ELSE None]
     \/ handler' = [handler EXCEPT ![c].pc = "run", ![c].outcome = "not_started"]
  /\ UNCHANGED <<script, exists, now, host, vm_up>>

(* python3 ends by itself, perhaps leaving a child with its output pipes.  *)
PythonEnds(c) ==
  /\ At(c, "run") /\ handler[c].outcome = "none"
  /\ \E outcome \in {"ok", "failed"}, pipes \in BOOLEAN :
       handler' = [handler EXCEPT ![c].outcome = outcome, ![c].pipes = pipes]
  /\ UNCHANGED <<script, exists, now, host, vm_up>>

(* The deadline passes; the context kills python3, and only python3.       *)
(* Mutant: the command was made without the context.                       *)
NothingKilled(c) ==
  /\ At(c, "run") /\ ~handler[c].expired
  /\ handler' = [handler EXCEPT ![c].expired = TRUE]
  /\ UNCHANGED <<script, exists, now, host, vm_up>>
Deadline(c) ==
  /\ At(c, "run") /\ ~handler[c].expired
  /\ \E pipes \in BOOLEAN :
       handler' = [handler EXCEPT ![c].expired = TRUE,
         ![c].outcome = IF @ = "none" THEN "killed" ELSE @,
         ![c].pipes = IF handler[c].outcome = "none" THEN pipes ELSE @]
  /\ UNCHANGED <<script, exists, now, host, vm_up>>

PipesClose(c) ==
  /\ At(c, "run") /\ handler[c].pipes
  /\ handler' = [handler EXCEPT ![c].pipes = FALSE]
  /\ UNCHANGED <<script, exists, now, host, vm_up>>

(* The codes the agent may report.  A deadline that passes before Wait has *)
(* collected python3 makes Wait report the deadline even for an exit with  *)
(* 0.  A python3 that died of another signal has exit code -1.             *)
(* Mutants: the exit error is looked at before the deadline; the code is   *)
(* the one a shell gives when there is no python3.                         *)
ExitErrorFirst(c) ==
  IF handler[c].outcome = "ok" THEN {"0"} \cup IF handler[c].expired THEN {"124"} ELSE {}
  ELSE IF handler[c].outcome \in {"failed", "killed"} THEN {"1", "-1"}
  ELSE IF handler[c].expired THEN {"124"} ELSE {"-1"}
NotFoundCode(c) ==
  IF handler[c].outcome = "ok" THEN {"0"} \cup IF handler[c].expired THEN {"124"} ELSE {}
  ELSE IF handler[c].expired THEN {"124"}
  ELSE IF handler[c].outcome = "not_started" THEN {"127"} ELSE {"1", "-1"}
ExitCode(c) ==
  IF handler[c].outcome = "ok" THEN {"0"} \cup IF handler[c].expired THEN {"124"} ELSE {}
  ELSE IF handler[c].expired THEN {"124"}
  ELSE IF handler[c].outcome = "not_started" THEN {"-1"} ELSE {"1", "-1"}

(* cmd.Run returns when python3 has ended and its pipes are closed.        *)
RunReturns(c) ==
  /\ At(c, "run") /\ handler[c].outcome # "none" /\ ~handler[c].pipes
  /\ \E code \in ExitCode(c) : Respond(c, code)
  /\ UNCHANGED <<script, exists, now, host, vm_up>>

(* The response is sent before the deferred calls run.  Only the path that *)
(* got as far as the command removes the file.                             *)
SendResponse(c) ==
  /\ At(c, "respond")
  /\ Goto(c, "remove")
  /\ UNCHANGED <<script, exists, now, host, vm_up>>

(* Mutant of Removes: the file of a script that timed out is kept. *)
RemovesUnlessTimeout(h) == h.outcome \in {"ok", "failed", "not_started"}
Removes(h) == h.outcome \notin {"none", "unwritten"}

(* The deferred calls.  Of the goroutine, its stamp and whether it left a  *)
(* file are remembered, and the response until the host has read it.       *)
CloseConn(c) ==
  LET h == handler[c] IN
  /\ At(c, "remove")
  /\ exists' = IF Removes(h) THEN exists \ {ScriptName(c)} ELSE exists
  /\ script' = IF Removes(h) THEN [script EXCEPT ![ScriptName(c)] = None] ELSE script
  /\ handler' = [handler EXCEPT ![c] = [NewHandler EXCEPT !.pc = "closed",
       !.stamp = h.stamp, !.outcome = IF h.outcome = "unwritten" THEN "unwritten" ELSE @,
       !.exit_code = IF host.conn = c THEN h.exit_code ELSE "none"]]
  /\ UNCHANGED <<now, host, vm_up>>

-----------------------------------------------------------------------------
(* execute_code.  A connect that fails leaves exit_code at -1.             *)
HostCalls(c) ==
  /\ host.conn = None
  /\ \/ /\ \E sent \in Payloads : Accept(c, sent)
        /\ host' = [NoCall EXCEPT !.conn = c]
     \/ host' = [NoCall EXCEPT !.exit_code = "-1"] /\ UNCHANGED handler
  /\ UNCHANGED <<script, exists, now, vm_up>>

(* read returned some bytes of the response, or the end of the stream.     *)
HostReads ==
  /\ host.conn # None
  /\ \/ /\ handler[host.conn].pc \in {"remove", "closed"}
        /\ host' = [conn |-> None, exit_code |-> "0",
                    answer |-> handler[host.conn].exit_code]
     \/ /\ ~vm_up
        /\ host' = [NoCall EXCEPT !.exit_code = "-1"]
  /\ UNCHANGED <<handler, script, exists, now, vm_up>>

Tick == now < MaxTime /\ now' = now + 1 /\ UNCHANGED <<handler, script, exists, host, vm_up>>

(* The process is killed by a filter, or by another user of the host. *)
VmDies == vm_up /\ vm_up' = FALSE /\ UNCHANGED <<handler, script, exists, now, host>>

HandlerStep(c) ==
  \/ Decode(c) \/ NameScript(c) \/ OpenScript(c) \/ FillScript(c) \/ StartPython(c)
  \/ RunReturns(c) \/ SendResponse(c) \/ CloseConn(c)

GaNext ==
  \/ \E c \in Conns : \/ AcceptFromGuest(c) \/ HandlerStep(c) \/ PythonEnds(c)
                      \/ Deadline(c) \/ PipesClose(c) \/ HostCalls(c)
  \/ HostReads \/ Tick \/ VmDies

(* Goroutines and the host are scheduled, and the deadline timer fires.    *)
(* Nothing makes python3 end by itself or a child close the pipes.         *)
GaSpec == GaInit /\ [][GaNext]_gaVars
GaFairSpec ==
  /\ GaSpec
  /\ WF_gaVars(HostReads)
  /\ \A c \in Conns : WF_gaVars(HandlerStep(c)) /\ WF_gaVars(Deadline(c))

-----------------------------------------------------------------------------
(* python3 runs the code of its own connection, although connections are   *)
(* served concurrently and a handler that ends removes its file: only two  *)
(* handlers that read the clock in the same nanosecond share a file.       *)
RunsOwnCode ==
  \A c \in Conns :
    handler[c].pc = "run" =>
      \/ handler[c].read = c
      \/ handler[c].outcome = "not_started"
      \/ \E d \in Conns \ {c} : handler[d].stamp = handler[c].stamp

(* "Wipe script immediately after execution": a script is in /tmp only     *)
(* while its connection is served, whether python3 ended, was killed or    *)
(* did not start, with one exception, a script that could not be written.  *)
ScriptsAreWiped ==
  \A i \in exists :
    \E c \in Conns :
      /\ ScriptName(c) = i
      /\ handler[c].pc # "closed" \/ handler[c].outcome = "unwritten"

(* The response tells how python3 ended: 0 only if it ended by itself with *)
(* 0, and always so if the deadline had not passed; 124 only if it had,    *)
(* and always so if it killed the script.  A script that beat its deadline *)
(* by too little to be collected in time may be reported either way.       *)
ResponseTellsOutcome ==
  \A c \in Conns :
    handler[c].pc \in {"respond", "remove"} =>
      /\ handler[c].exit_code = "0" => handler[c].outcome = "ok"
      /\ handler[c].outcome = "ok" /\ ~handler[c].expired => handler[c].exit_code = "0"
      /\ handler[c].exit_code = "124" => handler[c].expired
      /\ handler[c].outcome = "killed" => handler[c].exit_code = "124"

(* The agent never hangs up on execute_code: the connection the host waits *)
(* on has a goroutine, and when that one is about to close the connection, *)
(* or has closed it, a response with an exit code was sent, whether the    *)
(* request was rejected, the script was not written or python3 ran.        *)
EveryCallIsAnswered ==
  host.conn # None =>
    /\ handler[host.conn].pc # "idle"
    /\ handler[host.conn].pc \in {"respond", "remove", "closed"} =>
         handler[host.conn].exit_code # "none"

(* execute_code, which holds m_mutex, returns, with two exceptions: the    *)
(* code is the beginning of a JSON value, and host and agent each wait for *)
(* the other; or a child of python3 keeps the pipes, deadline or not.      *)
HostCallReturns ==
  \A c \in Conns :
    host.conn = c ~> \/ host.conn # c
                     \/ handler[c].pc = "decode" /\ handler[c].sent = "prefix"
                     \/ handler[c].pc = "run" /\ handler[c].pipes

(* sandbox_manager.hpp says that execute_code returns an ExecutionResult   *)
(* containing the exit code: when the agent has answered, the exit code is *)
(* the one in the answer.                                                  *)
ReportsGuestExitCode ==
  host.answer # "none" => host.exit_code = host.answer
=============================================================================
