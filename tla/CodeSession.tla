----------------------------- MODULE CodeSession -----------------------------
(***************************************************************************)
(* One session of a code interpreter: its record in the session manager,   *)
(* what runs its code, and the calls of execute and destroy, which may     *)
(* come at any time and in any number at once.  Three managers share the   *)
(* record and the calls.  The local one runs a process, the WASM one a     *)
(* context of QuickJS or Pyodide in the same process, and AgentCore's a    *)
(* session of a remote service.                                            *)
(*                                                                         *)
(* A process runs what is written to its stdin one piece of code after     *)
(* the other.  Code prints or not, ends or not, may end the process and    *)
(* may read from stdin itself.  The delimiter is printed when its          *)
(* synchronous part ends; nothing waits for the timers, threads and        *)
(* children that it leaves behind, and they print as long as there is a    *)
(* process.  Only stdout is modelled.  A delimiter names one execution: it *)
(* is made from the time.  When a session is too old or was idle for too   *)
(* long is left open.  Code in WASM runs synchronously and ends: QuickJS   *)
(* interrupts it at its deadline, while Pyodide's timer cannot fire as     *)
(* long as the code runs.  QuickJS never runs the jobs that code leaves    *)
(* behind; the tasks it leaves to Pyodide's event loop run and print while *)
(* later code is awaited.                                                  *)
(***************************************************************************)
EXTENDS Naturals, Sequences, FiniteSets

CONSTANTS
  Call,           \* calls of execute and destroy; also names what they pass:
                  \*   code, options, delimiter
  NoCall,
  Setup,          \* the code that initializes the interpreter
  Backend,        \* managers: subset of {"process", "wasm", "service"}
  Language,       \* languages of the session: subset of {"python", "javascript"}
  Large,          \* calls whose code neither stdin's buffer nor its pipe holds
  Plain,          \* calls in the form without options
  WithFiles,      \* calls whose options have inputFiles
  OtherLanguage,  \* calls whose options name another language
  MaxText         \* bound: texts that stdout holds at a time

ASSUME CallAssumption ==
  /\ NoCall \notin Call /\ Setup \notin Call /\ Setup # NoCall
  /\ Backend \subseteq {"process", "wasm", "service"}
  /\ Language \subseteq {"python", "javascript"}
  /\ Large \cup Plain \cup WithFiles \cup OtherLanguage \subseteq Call
  /\ MaxText \in Nat

VARIABLES
  session,     \* what never changes of it: a record [backend, language]
  init,        \* session.init: "workspace" (or what the backend starts with) and
               \*   "reading" while it is pending
  registered,  \* whether the session is in sessions
  isClosed, isExecuting,
  options,     \* session.pendingExecutionOptions
  process,     \* "none", "running", "terminating", "killed" or "exited": the
               \*   process, WASM context or remote session
  stdin,       \* the code the interpreter has not yet read
  current,     \* the code it runs
  stdout,      \* what it printed and nobody has read: records [by, kind]
  reader,      \* for whom readUntilDelimiter reads
  text,        \* whose output it has read
  pc,          \* what a call does
  waiting,     \* the calls that await session.init, in order
  result,      \* of a call: a record [how, text, whole]; whole (history) says
               \*   that nothing is missing that its code printed before its end
  ran,         \* history: the options a call ran with (at first its own), and
               \*   whether they were those of a call that had not returned
  started,     \* the code that was begun: it may have left something behind
  printed, ended \* history: the code that has printed before its end and whose
               \*   call has not returned, and the code that has ended

record == <<session, init, registered, isClosed, isExecuting, options>>
interpreter == <<process, stdin, current, stdout, started, printed, ended>>
reading == <<reader, text>>
callers == <<pc, waiting, result, ran>>
vars == <<record, interpreter, reading, callers>>

\* The options of call c.
Own(c) == IF c \in Plain THEN NoCall ELSE c

NoResult == [how |-> "none", text |-> {}, whole |-> TRUE]

Init ==
  /\ session \in [backend : Backend, language : Language] /\ init = "workspace"
  /\ registered = TRUE /\ isClosed = FALSE /\ isExecuting = FALSE
  /\ options = NoCall
  /\ process = "none" /\ stdin = <<>> /\ current = NoCall /\ stdout = <<>>
  /\ reader = NoCall /\ text = {}
  /\ started = {} /\ printed = {} /\ ended = {}
  /\ pc = [c \in Call |-> "new"] /\ waiting = <<>>
  /\ result = [c \in Call |-> NoResult]
  /\ ran = [c \in Call |-> [options |-> Own(c), live |-> FALSE]]

\* The call returns, or its promise is rejected.
Return(c, how, read) ==
  /\ pc' = [pc EXCEPT ![c] = "over"]
  /\ result' = [result EXCEPT ![c] = [how |-> how, text |-> read,
                                     whole |-> how = "delimiter" /\ c \in printed => c \in read]]
  /\ options' = IF options = c THEN NoCall ELSE options

\* readUntilDelimiter reads for x.
Attach(x) == reader' = x /\ text' = {}

-----------------------------------------------------------------------------
(* initializeSession.                                                      *)

WorkspaceCreated ==
  /\ session.backend = "process" /\ init = "workspace"
  /\ init' = "reading"
  /\ process' = "running" /\ stdin' = <<Setup>>
  /\ Attach(Setup)
  /\ UNCHANGED <<session, registered, isClosed, isExecuting, options, current,
                 stdout, started, printed, ended, callers>>

\* createContext has entered the context.
ContextCreated ==
  /\ session.backend = "wasm" /\ init = "workspace"
  /\ init' = "done" /\ process' = "running"
  /\ UNCHANGED <<session, registered, isClosed, isExecuting, options, stdin, current,
                 stdout, started, printed, ended, reading, callers>>

\* The service has started a session, with the longest duration of this one.
ServiceStarted ==
  /\ session.backend = "service" /\ init = "workspace"
  /\ init' = "done" /\ process' = "running"
  /\ UNCHANGED <<session, registered, isClosed, isExecuting, options, stdin, current,
                 stdout, started, printed, ended, reading, callers>>

InitFails ==
  /\ init = "workspace"
  /\ init' = "failed"
  /\ UNCHANGED <<session, registered, isClosed, isExecuting, options, interpreter,
                 reading, callers>>

-----------------------------------------------------------------------------
(* The interpreter.                                                        *)

Alive == process \in {"running", "terminating"}

Take ==
  /\ Alive /\ current = NoCall /\ stdin # <<>>
  /\ current' = Head(stdin) /\ stdin' = Tail(stdin)
  /\ started' = started \cup {current'}
  /\ UNCHANGED <<record, process, stdout, printed, ended, reading, callers>>

\* The code reads on in stdin, itself or because it leaves a string open: what
\* it takes there is not run.
ReadOn ==
  /\ Alive /\ current \in Call /\ stdin # <<>>
  /\ stdin' = Tail(stdin)
  /\ UNCHANGED <<record, process, current, stdout, started, printed, ended, reading,
                 callers>>

Texts == {i \in DOMAIN stdout : stdout[i].kind = "text"}

\* Code prints: the code that runs, or what some code has left behind, which may
\* outlive the interpreter by a little, but not the exit event for a reader.
PrintText ==
  /\ process \in {"running", "terminating", "killed"}
  /\ Cardinality(Texts) < MaxText
  /\ \E c \in started \cap Call :
       /\ stdout' = Append(stdout, [by |-> c, kind |-> "text"])
       /\ printed' = IF c = current /\ pc[c] # "over" THEN printed \cup {c} ELSE printed
  /\ UNCHANGED <<record, process, stdin, current, started, ended, reading, callers>>

\* The code ends or throws, and what follows it prints the delimiter, unless the
\* code has taken that for itself.
End ==
  /\ Alive /\ current # NoCall
  /\ \/ stdout' = Append(stdout, [by |-> current, kind |-> "delimiter"])
     \/ current \in Call /\ UNCHANGED stdout
  /\ ended' = ended \cup {current}
  /\ current' = NoCall
  /\ UNCHANGED <<record, process, stdin, started, printed, reading, callers>>

-----------------------------------------------------------------------------
(* readUntilDelimiter.                                                     *)

\* It resolves: initializeSession ends, or executeSession and execute do.
Resolve(how) ==
  /\ reader' = NoCall /\ text' = {} /\ printed' = printed \ {reader}
  /\ IF reader = Setup
     THEN /\ init' = IF how = "delimiter" \/ session.language # "python" THEN "done" ELSE "failed"
          /\ UNCHANGED <<pc, result, options, isExecuting>>
     ELSE /\ isExecuting' = FALSE
          /\ Return(reader, how, text)
          /\ UNCHANGED init
  /\ UNCHANGED <<session, registered, started, ended, waiting, ran>>

\* Mutant of IsDelimiter: any delimiter will do.
IsAnyDelimiter(chunk) == chunk.kind = "delimiter"

IsDelimiter(chunk) == chunk.kind = "delimiter" /\ chunk.by = reader

ReadText ==
  /\ reader # NoCall /\ stdout # <<>> /\ ~IsDelimiter(Head(stdout))
  /\ text' = text \cup {Head(stdout).by}
  /\ stdout' = Tail(stdout)
  /\ UNCHANGED <<record, process, stdin, current, started, printed, ended, reader,
                 callers>>

ReadDelimiter ==
  /\ reader # NoCall /\ stdout # <<>> /\ IsDelimiter(Head(stdout))
  /\ stdout' = Tail(stdout)
  /\ Resolve("delimiter")
  /\ UNCHANGED <<isClosed, process, stdin, current>>

ReadTimesOut ==
  /\ reader # NoCall
  /\ Resolve("timeout")
  /\ UNCHANGED <<isClosed, process, stdin, current, stdout>>

\* With nobody listening the stream drops data, or keeps it for who comes next.
DropText ==
  /\ reader = NoCall /\ stdout # <<>>
  /\ stdout' = Tail(stdout)
  /\ UNCHANGED <<record, process, stdin, current, started, printed, ended, reading,
                 callers>>

\* The exit event.  What was in the pipes is lost: nobody reads any more.
Exit ==
  /\ session.backend = "process"
  /\ process \in {"running", "terminating", "killed"}
  /\ process' = "exited" /\ isClosed' = TRUE
  /\ stdin' = <<>> /\ current' = NoCall /\ stdout' = <<>>
  /\ IF reader = NoCall
     THEN UNCHANGED <<session, init, registered, isExecuting, options, started,
                      printed, ended, reader, text, callers>>
     ELSE Resolve("exit")

-----------------------------------------------------------------------------
(* execute.                                                                *)

\* Up to the await of session.init.
Execute(c) ==
  /\ pc[c] = "new"
  /\ IF registered
     THEN /\ options' = IF c \in Plain THEN options ELSE c
          /\ pc' = [pc EXCEPT ![c] = "waiting"]
          /\ waiting' = Append(waiting, c)
          /\ UNCHANGED result
     ELSE Return(c, "error", {}) /\ UNCHANGED waiting
  /\ UNCHANGED <<session, init, registered, isClosed, isExecuting, interpreter,
                 reading, ran>>

\* session.init is settled: c is the first that goes on.
Resumes(c) ==
  /\ init \in {"done", "failed"}
  /\ waiting # <<>> /\ Head(waiting) = c
  /\ waiting' = Tail(waiting)

\* The checks that end the call: the init failed, which is an exception here,
\* the session was closed, or it is executing.
Refused(c) ==
  /\ pc[c] = "waiting" /\ Resumes(c)
  /\ init = "failed" \/ isClosed \/ isExecuting
  /\ Return(c, "error", {})
  /\ UNCHANGED <<session, init, registered, isClosed, isExecuting, interpreter,
                 reading, ran>>

\* The session is too old: the call destroys it.
Expired(c) ==
  /\ pc[c] = "waiting" /\ init = "done" /\ ~isClosed
  /\ waiting # <<>> /\ Head(waiting) = c
  /\ isClosed' = TRUE /\ registered' = FALSE
  /\ pc' = [pc EXCEPT ![c] = "destroying"]
  /\ waiting' = Append(Tail(waiting), c)
  /\ UNCHANGED <<session, init, isExecuting, options, interpreter, reading,
                 result, ran>>

\* Writing the code to stdin, and what follows at once.
Write(c) ==
  /\ stdin' = Append(stdin, c)
  /\ isExecuting' = TRUE
  /\ IF c \in Large
     THEN pc' = [pc EXCEPT ![c] = "draining"] /\ UNCHANGED <<reader, text>>
     ELSE pc' = [pc EXCEPT ![c] = "reading"] /\ Attach(c)
  /\ UNCHANGED <<result, options, started>>

\* The process is not there or its stdin not writable: an error.
WriteFails(c) ==
  /\ Return(c, "error", {})
  /\ isExecuting' = FALSE
  /\ UNCHANGED <<stdin, reader, text, started>>

\* The code runs in the WASM context or at the service.
Evaluate(c) ==
  /\ isExecuting' = TRUE
  /\ pc' = [pc EXCEPT ![c] = "evaluating"]
  /\ started' = started \cup {c}
  /\ UNCHANGED <<stdin, reader, text, result, options>>

Accepted(c) ==
  /\ pc[c] = "waiting" /\ Resumes(c)
  /\ init = "done" /\ ~isClosed /\ ~isExecuting

\* executeSession takes the pending options, whoever's they are.
TakeOptions(c) ==
  ran' = [ran EXCEPT ![c] = [options |-> options,
                             live |-> options # NoCall /\ pc[options] # "over"]]

\* The WASM manager's executeSession reads no options.
RunInContext(c) ==
  /\ session.backend = "wasm" /\ Accepted(c)
  /\ Evaluate(c)
  /\ UNCHANGED <<session, init, registered, isClosed, process, current, stdout,
                 printed, ended, ran>>

RunInService(c) ==
  /\ session.backend = "service" /\ Accepted(c)
  /\ TakeOptions(c)
  /\ IF options \in WithFiles
     THEN /\ isExecuting' = TRUE
          /\ pc' = [pc EXCEPT ![c] = "staging"]
          /\ UNCHANGED <<stdin, reader, text, result, options, started>>
     ELSE Evaluate(c)
  /\ UNCHANGED <<session, init, registered, isClosed, process, current, stdout,
                 printed, ended>>

Run(c) ==
  /\ session.backend = "process" /\ Accepted(c)
  /\ TakeOptions(c)
  /\ IF options \in OtherLanguage
     THEN WriteFails(c)
     ELSE IF options \in WithFiles
     THEN /\ isExecuting' = TRUE
          /\ pc' = [pc EXCEPT ![c] = "staging"]
          /\ UNCHANGED <<stdin, reader, text, result, options, started>>
     ELSE Write(c)
  /\ UNCHANGED <<session, init, registered, isClosed, process, current, stdout,
                 printed, ended>>

\* The files are in the workspace, or one of them cannot be written.
Staged(c) ==
  /\ pc[c] = "staging"
  /\ \/ session.backend = "process" /\ process # "exited" /\ Write(c)
     \/ session.backend = "service" /\ process # "exited" /\ Evaluate(c)
     \/ WriteFails(c)
  /\ UNCHANGED <<session, init, registered, isClosed, process, current, stdout,
                 printed, ended, waiting, ran>>

\* The "drain" event: the interpreter has read the code.
Drained(c) ==
  /\ pc[c] = "draining" /\ process # "exited"
  /\ \A i \in DOMAIN stdin : stdin[i] # c
  /\ pc' = [pc EXCEPT ![c] = "reading"]
  /\ Attach(c)
  /\ UNCHANGED <<record, interpreter, waiting, result, ran>>

\* The output that is captured while code runs in the context: its own, and
\* that of tasks which code before it has left to Pyodide's event loop.
CapturedFrom(c) == IF session.language = "python" THEN ended \cup {c} ELSE {c}

\* The code in the context ended, or was interrupted at its deadline.
EvaluatedInContext(c) ==
  /\ session.backend = "wasm" /\ pc[c] = "evaluating"
  /\ isExecuting' = FALSE /\ ended' = ended \cup {c}
  /\ \E read \in SUBSET CapturedFrom(c), how \in {"delimiter", "timeout"} :
       Return(c, how, read)
  /\ UNCHANGED <<session, init, registered, isClosed, process, stdin, current, stdout,
                 started, printed, reading, waiting, ran>>

\* The service answers; or the request fails or is aborted when its time is over,
\* while the code may go on there.  Which output the service takes to be that of
\* the code is left open.
ServiceAnswers(c) ==
  /\ session.backend = "service" /\ pc[c] = "evaluating"
  /\ isExecuting' = FALSE
  /\ \/ /\ process # "exited" /\ ended' = ended \cup {c}
        /\ \E read \in SUBSET started : Return(c, "delimiter", read)
     \/ Return(c, "error", {}) /\ UNCHANGED ended
  /\ UNCHANGED <<session, init, registered, isClosed, process, stdin, current, stdout,
                 started, printed, reading, waiting, ran>>

-----------------------------------------------------------------------------
(* destroy.                                                                *)

\* Mutant of Destroy: it does not wait for the initialization.
DestroyAtOnce(c) ==
  /\ pc[c] = "new"
  /\ IF registered
     THEN /\ isClosed' = TRUE /\ registered' = FALSE
          /\ IF process = "none" THEN Return(c, "gone", {})
             ELSE /\ pc' = [pc EXCEPT ![c] = "terminating"]
                  /\ UNCHANGED <<options, result>>
     ELSE Return(c, "gone", {}) /\ UNCHANGED <<isClosed, registered>>
  /\ UNCHANGED <<session, init, isExecuting, interpreter, reading, waiting, ran>>

Destroy(c) ==
  /\ pc[c] = "new"
  /\ IF registered
     THEN /\ isClosed' = TRUE /\ registered' = FALSE
          /\ pc' = [pc EXCEPT ![c] = "destroying"]
          /\ waiting' = Append(waiting, c)
          /\ UNCHANGED <<options, result>>
     ELSE Return(c, "gone", {}) /\ UNCHANGED <<isClosed, registered, waiting>>
  /\ UNCHANGED <<session, init, isExecuting, interpreter, reading, ran>>

\* terminateSession sends SIGTERM to the process, if there is one.
Terminate(c) ==
  /\ pc[c] = "destroying" /\ Resumes(c)
  /\ IF process = "none"
     THEN Return(c, "gone", {}) /\ UNCHANGED process
     ELSE /\ process' = IF process = "running" THEN "terminating" ELSE process
          /\ pc' = [pc EXCEPT ![c] = "terminating"]
          /\ UNCHANGED <<options, result>>
  /\ UNCHANGED <<session, init, registered, isClosed, isExecuting, stdin, current,
                 stdout, started, printed, ended, reading, ran>>

\* destroy returns.
Destroyed(c, how) ==
  /\ pc[c] = "terminating"
  /\ Return(c, how, {})
  /\ UNCHANGED <<session, init, registered, isClosed, isExecuting, stdin, current,
                 stdout, started, printed, ended, reading, waiting, ran>>

\* The process exits, or the time to do so is over and it gets SIGKILL; the
\* workspace is removed.
Terminated(c) ==
  /\ session.backend = "process"
  /\ process' = IF process = "exited" THEN process ELSE "killed"
  /\ Destroyed(c, "gone")

\* destroyContext waits for the operations on the context.
NothingEvaluates == \A d \in Call : pc[d] # "evaluating"

ContextDestroyed(c) ==
  /\ session.backend = "wasm"
  /\ NothingEvaluates
  /\ process' = "exited"
  /\ Destroyed(c, "gone")

\* The service stops the session, or the request fails and destroy with it.
ServiceStopped(c) ==
  /\ session.backend = "service"
  /\ \/ process' = "exited" /\ Destroyed(c, "gone")
     \/ UNCHANGED process /\ Destroyed(c, "error")

-----------------------------------------------------------------------------
\* The service ends a session that was not stopped: it was started with the
\* session's longest duration.
ServiceEnds ==
  /\ session.backend = "service" /\ Alive
  /\ process' = "exited"
  /\ UNCHANGED <<record, stdin, current, stdout, started, printed, ended, reading, callers>>

Continue(c) ==
  \/ Refused(c) \/ Run(c) \/ RunInContext(c) \/ RunInService(c)
  \/ Staged(c) \/ EvaluatedInContext(c) \/ ServiceAnswers(c) \/ Drained(c)
  \/ Terminate(c) \/ Terminated(c) \/ ContextDestroyed(c) \/ ServiceStopped(c)

Manager ==
  \/ WorkspaceCreated \/ ContextCreated \/ ServiceStarted
  \/ ReadText \/ ReadDelimiter

Next ==
  \/ Manager \/ InitFails
  \/ Take \/ ReadOn \/ PrintText \/ End \/ Exit \/ ServiceEnds
  \/ ReadTimesOut \/ DropText
  \/ \E c \in Call :
       \/ Execute(c)
       \/ Expired(c) \/ Destroy(c)
       \/ Continue(c)

\* Promises, timers and streams go on; the interpreter reads its stdin when it
\* has nothing to run and dies of SIGKILL.  The code that it runs need not end.
\* Requests to the service are answered or fail, and sessions end there in time.
Fairness ==
  /\ WF_vars(Manager) /\ WF_vars(ReadTimesOut) /\ WF_vars(Take)
  /\ WF_vars(process = "killed" /\ Exit) /\ WF_vars(ServiceEnds)
  /\ \A c \in Call : WF_vars(Continue(c))

Spec == Init /\ [][Next]_vars /\ Fairness

-----------------------------------------------------------------------------
\* A delimiter that ends a result is that of the call's own code, which has
\* ended; and nothing that the code printed before its end is missing, unless
\* it came while stdin drained and nobody listened.
OwnOutputIsWhole ==
  \A c \in Call : result[c].how = "delimiter" =>
    /\ c \in ended
    /\ c \notin Large => result[c].whole

\* A call whose code was run and that has come back without losing the
\* interpreter; only a request to the service may fail while its code goes on.
CameBack(d) ==
  /\ pc[d] = "over"
  /\ \/ result[d].how \in {"delimiter", "timeout"}
     \/ session.backend = "service" /\ result[d].how = "error"

\* Output reaches another call, but only forwards: from code that was run in the
\* interpreter and whose own call had come back before.  It never comes from a
\* call that was refused, and no two calls get output of each other.
OutputFlowsForward ==
  \A c, d \in Call : c # d /\ d \in result[c].text =>
    /\ d \in started /\ CameBack(d)
    /\ c \notin result[d].text

\* A call that runs with the options of another (its timeout, files and
\* language) runs while that other call has not returned: options do not
\* outlive their call.
OptionsAreLive == \A c \in Call : ran[c].options # Own(c) => ran[c].live

\* What a caller is told has a cause: its own output is whole, foreign output
\* comes from calls that had this interpreter before it, foreign options from
\* calls under way.
ResultsHaveCause == OwnOutputIsWhole /\ OutputFlowsForward /\ OptionsAreLive

\* No call is under way for ever: every execute returns, by its timeout if not
\* before, unless it waits for stdin to drain, for which there is no timeout, and
\* the event does not come when the process exits; and every destroy returns.  In
\* the end no process of a destroyed session runs, not even one that
\* initialization started after the call.
CallsReturn ==
  /\ \A c \in Call : []<>(pc[c] \in {"new", "draining", "over"})
  /\ <>[](registered \/ ~Alive)
=============================================================================
