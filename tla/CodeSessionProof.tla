-------------------------- MODULE CodeSessionProof --------------------------
(***************************************************************************)
(* Where what a caller of a code interpreter session is told comes from:   *)
(* for any number of calls, every backend, and code that may never end.    *)
(***************************************************************************)
EXTENDS CodeSession, SequenceTheorems, TLAPS

-----------------------------------------------------------------------------
(* Sequences.                                                              *)

(* What Append and Tail do to the elements of a sequence.                  *)
LEMMA Appending ==
  ASSUME NEW S, NEW s \in Seq(S), NEW x \in S
  PROVE  /\ Append(s, x) \in Seq(S) /\ Len(s) \in Nat
         /\ DOMAIN s = 1..Len(s) /\ DOMAIN Append(s, x) = 1..(Len(s) + 1)
         /\ \A i \in 1..Len(s) : Append(s, x)[i] = s[i]
         /\ Append(s, x)[Len(s) + 1] = x
OBVIOUS

LEMMA Tailing ==
  ASSUME NEW S, NEW s \in Seq(S), s # <<>>
  PROVE  /\ Tail(s) \in Seq(S) /\ Len(s) \in Nat \ {0}
         /\ DOMAIN s = 1..Len(s) /\ DOMAIN Tail(s) = 1..(Len(s) - 1)
         /\ \A i \in 1..(Len(s) - 1) : Tail(s)[i] = s[i + 1]
         /\ Head(s) = s[1] /\ Head(s) \in S /\ 1 \in 1..Len(s)
OBVIOUS

-----------------------------------------------------------------------------
(* Types.                                                                  *)

Code == Call \cup {Setup}
Chunk == [by : Code, kind : {"text", "delimiter"}]
Result == [how : {"none", "error", "gone", "delimiter", "timeout", "exit"}, text : SUBSET Code,
           whole : BOOLEAN]
Executing == {"staging", "evaluating", "draining", "reading"}

SessionTyped ==
  /\ session \in [backend : Backend, language : Language]
  /\ init \in {"workspace", "reading", "done", "failed"}
  /\ registered \in BOOLEAN /\ isClosed \in BOOLEAN /\ isExecuting \in BOOLEAN
  /\ options \in Call \cup {NoCall}

InterpreterTyped ==
  /\ process \in {"none", "running", "terminating", "killed", "exited"}
  /\ stdin \in Seq(Code) /\ stdout \in Seq(Chunk)
  /\ current \in Code \cup {NoCall}
  /\ started \in SUBSET Code /\ printed \in SUBSET Code /\ ended \in SUBSET Code
  /\ reader \in Code \cup {NoCall} /\ text \in SUBSET Code

CallsTyped ==
  /\ pc \in [Call -> {"new", "waiting", "destroying", "terminating", "over"} \cup Executing]
  /\ waiting \in Seq(Call)
  /\ result \in [Call -> Result]
  /\ ran \in [Call -> [options : Call \cup {NoCall}, live : BOOLEAN]]

TypeInv == SessionTyped /\ InterpreterTyped /\ CallsTyped

(* A call that returns.                                                    *)
LEMMA ReturnTyped ==
  ASSUME TypeInv, NEW c \in Call, NEW how \in {"error", "gone", "delimiter", "timeout", "exit"},
         NEW read \in SUBSET Code, Return(c, how, read)
  PROVE  /\ pc' \in [Call -> {"new", "waiting", "destroying", "terminating", "over"} \cup Executing]
         /\ result' \in [Call -> Result]
         /\ options' \in Call \cup {NoCall}
BY DEF Return, TypeInv, SessionTyped, CallsTyped, Result

LEMMA ResolveTyped ==
  ASSUME TypeInv, NEW how \in {"delimiter", "timeout", "exit"}, reader # NoCall, Resolve(how)
  PROVE  /\ pc' \in [Call -> {"new", "waiting", "destroying", "terminating", "over"} \cup Executing]
         /\ result' \in [Call -> Result]
         /\ options' \in Call \cup {NoCall}
         /\ init' \in {"workspace", "reading", "done", "failed"}
         /\ isExecuting' \in BOOLEAN
         /\ reader' = NoCall
         /\ text' = {} /\ printed' \in SUBSET Code
         /\ UNCHANGED <<session, registered, started, ended, waiting, ran>>
<1>1. CASE reader = Setup
  BY <1>1 DEF Resolve, TypeInv, SessionTyped, InterpreterTyped, CallsTyped
<1>2. CASE reader # Setup
  <2>1. reader \in Call /\ text \in SUBSET Code
    BY <1>2 DEF TypeInv, InterpreterTyped, Code
  <2>2. Return(reader, how, text) /\ isExecuting' = FALSE /\ UNCHANGED init /\ reader' = NoCall
    BY <1>2 DEF Resolve
  <2> QED
    BY <2>1, <2>2, ReturnTyped DEF Resolve, TypeInv, SessionTyped, InterpreterTyped
<1> QED
  BY <1>1, <1>2

LEMMA TypeInit == Init => TypeInv
<1> SUFFICES ASSUME Init PROVE TypeInv
  OBVIOUS
<1>1. \A c \in Call : Own(c) \in Call \cup {NoCall}
  BY DEF Own
<1>2. CallsTyped
  BY <1>1 DEF Init, CallsTyped, Result, NoResult
<1>3. SessionTyped
  BY DEF Init, SessionTyped
<1>4. InterpreterTyped
  BY DEF Init, InterpreterTyped
<1> QED
  BY <1>2, <1>3, <1>4 DEF TypeInv

(* The steps of the interpreter and of who reads its output.               *)
LEMMA TypeInterpreter ==
  ASSUME TypeInv,
         \/ WorkspaceCreated \/ ContextCreated \/ ServiceStarted \/ InitFails
         \/ Take \/ ReadOn \/ PrintText \/ End \/ ReadText \/ ReadDelimiter \/ ReadTimesOut
         \/ DropText \/ Exit \/ ServiceEnds
  PROVE  TypeInv'
<1> USE DEF TypeInv, SessionTyped, InterpreterTyped, CallsTyped
<1>1. CASE WorkspaceCreated
  <2>1. <<Setup>> \in Seq(Code) /\ Setup \in Code
    BY DEF Code
  <2> QED
    BY <1>1, <2>1 DEF WorkspaceCreated, Attach, callers
<1>2. CASE ContextCreated \/ ServiceStarted \/ InitFails \/ ServiceEnds
  BY <1>2 DEF ContextCreated, ServiceStarted, InitFails, ServiceEnds, record, interpreter, reading,
     callers
<1>3. CASE Take \/ ReadOn
  <2>a. stdin \in Seq(Code) /\ stdin # <<>> /\ stdin' = Tail(stdin)
    BY <1>3 DEF Take, ReadOn
  <2>1. stdin' \in Seq(Code) /\ Head(stdin) \in Code
    BY <2>a, Tailing
  <2>2. current' \in Code \cup {NoCall} /\ started' \in SUBSET Code
    BY <1>3, <2>1 DEF Take, ReadOn
  <2> QED
    BY <1>3, <2>1, <2>2 DEF Take, ReadOn, record, reading, callers
<1>4. CASE PrintText
  <2>1. PICK c \in Call : /\ stdout' = Append(stdout, [by |-> c, kind |-> "text"])
                          /\ printed' \in {printed, printed \cup {c}}
    BY <1>4 DEF PrintText
  <2>2. c \in Code /\ [by |-> c, kind |-> "text"] \in Chunk
    BY DEF Chunk, Code
  <2>3. printed' \in SUBSET Code /\ stdout' \in Seq(Chunk)
    BY <2>1, <2>2, Appending
  <2> QED
    BY <1>4, <2>3 DEF PrintText, record, reading, callers
<1>5. CASE End
  <2>1. current \in Code /\ [by |-> current, kind |-> "delimiter"] \in Chunk
    BY <1>5 DEF End, Chunk
  <2>2. stdout' = stdout \/ stdout' = Append(stdout, [by |-> current, kind |-> "delimiter"])
    BY <1>5 DEF End
  <2>3. stdout' \in Seq(Chunk)
    <3>1. stdout \in Seq(Chunk)
      OBVIOUS
    <3>2. ASSUME NEW x \in Chunk
          PROVE  Append(stdout, x) \in Seq(Chunk)
      BY <3>1, Appending
    <3> QED
      BY <2>1, <2>2, <3>1, <3>2
  <2>4. ended' \in SUBSET Code /\ current' = NoCall
    BY <1>5, <2>1 DEF End
  <2> QED
    BY <1>5, <2>3, <2>4 DEF End, record, reading, callers
<1>6. CASE ReadText
  <2>1. Head(stdout) \in Chunk /\ Tail(stdout) \in Seq(Chunk)
    BY <1>6, Tailing DEF ReadText
  <2>2. Head(stdout).by \in Code
    BY <2>1 DEF Chunk
  <2> QED
    BY <1>6, <2>1, <2>2 DEF ReadText, record, callers
<1>7. CASE ReadDelimiter
  BY <1>7, Tailing, ResolveTyped DEF ReadDelimiter
<1>8. CASE ReadTimesOut
  BY <1>8, ResolveTyped DEF ReadTimesOut
<1>9. CASE DropText
  BY <1>9, Tailing DEF DropText, record, reading, callers
<1>10. CASE Exit
  <2>a. stdin' = <<>> /\ stdout' = <<>> /\ current' = NoCall /\ isClosed' = TRUE /\ process' = "exited"
        /\ <<>> \in Seq(Code) /\ <<>> \in Seq(Chunk)
    BY <1>10 DEF Exit
  <2>1. CASE reader = NoCall
    BY <1>10, <2>a, <2>1 DEF Exit, callers
  <2>2. CASE reader # NoCall
    BY <1>10, <2>a, <2>2, ResolveTyped DEF Exit
  <2> QED
    BY <2>1, <2>2
<1> QED
  BY <1>1, <1>2, <1>3, <1>4, <1>5, <1>6, <1>7, <1>8, <1>9, <1>10

(* The steps of a call.                                                    *)
LEMMA TypeCalls ==
  ASSUME TypeInv, NEW c \in Call,
         Execute(c) \/ Expired(c) \/ Destroy(c) \/ Continue(c)
  PROVE  TypeInv'
<1>a. /\ {} \in SUBSET Code /\ c \in Code
      /\ waiting # <<>> => Tail(waiting) \in Seq(Call) /\ Append(Tail(waiting), c) \in Seq(Call)
      /\ Append(waiting, c) \in Seq(Call) /\ Append(stdin, c) \in Seq(Code)
  <2>1. c \in Code
    BY DEF Code
  <2>2. waiting \in Seq(Call) /\ stdin \in Seq(Code)
    BY DEF TypeInv, CallsTyped, InterpreterTyped
  <2> QED
    BY <2>1, <2>2, Appending, Tailing
<1>b. ASSUME NEW read \in SUBSET Code, NEW how \in {"error", "gone", "delimiter", "timeout"}, Return(c, how, read)
      PROVE  /\ pc' \in [Call -> {"new", "waiting", "destroying", "terminating", "over"} \cup Executing]
             /\ result' \in [Call -> Result]
             /\ options' \in Call \cup {NoCall}
  BY <1>b, ReturnTyped
<1>c. ASSUME TakeOptions(c)
      PROVE  ran' \in [Call -> [options : Call \cup {NoCall}, live : BOOLEAN]]
  BY <1>c DEF TakeOptions, TypeInv, SessionTyped, CallsTyped
<1>d. ASSUME Write(c) \/ Evaluate(c) \/ WriteFails(c)
      PROVE  /\ pc' \in [Call -> {"new", "waiting", "destroying", "terminating", "over"} \cup Executing]
             /\ result' \in [Call -> Result]
             /\ options' \in Call \cup {NoCall}
             /\ stdin' \in Seq(Code) /\ reader' \in Code \cup {NoCall} /\ text' \in SUBSET Code
             /\ isExecuting' \in BOOLEAN /\ started' \in SUBSET Code
  BY <1>a, <1>b, <1>d DEF Write, Evaluate, WriteFails, Attach, TypeInv, SessionTyped,
     InterpreterTyped, CallsTyped, Executing
<1> USE DEF TypeInv, SessionTyped, InterpreterTyped, CallsTyped
<1>1. CASE Execute(c)
  BY <1>1, <1>a, <1>b DEF Execute, interpreter, reading
<1>2. CASE Expired(c)
  BY <1>2, <1>a DEF Expired, interpreter, reading
<1>3. CASE Destroy(c)
  BY <1>3, <1>a, <1>b DEF Destroy, interpreter, reading
<1>4. CASE Refused(c)
  BY <1>4, <1>a, <1>b DEF Refused, Resumes, interpreter, reading
<1>5. CASE Run(c)
  <2>1. CASE UNCHANGED <<stdin, reader, text, result, options, started>> /\ isExecuting' = TRUE
             /\ pc' = [pc EXCEPT ![c] = "staging"]
    BY <1>5, <1>a, <1>c, <2>1 DEF Run, Accepted, Resumes, Executing
  <2>2. CASE Write(c) \/ WriteFails(c)
    BY <1>5, <1>a, <1>c, <1>d, <2>2 DEF Run, Accepted, Resumes
  <2> QED
    BY <1>5, <2>1, <2>2 DEF Run
<1>6. CASE RunInContext(c)
  BY <1>6, <1>a, <1>d DEF RunInContext, Accepted, Resumes
<1>7. CASE RunInService(c)
  <2>1. CASE UNCHANGED <<stdin, reader, text, result, options, started>> /\ isExecuting' = TRUE
             /\ pc' = [pc EXCEPT ![c] = "staging"]
    BY <1>7, <1>a, <1>c, <2>1 DEF RunInService, Accepted, Resumes, Executing
  <2>2. CASE Evaluate(c)
    BY <1>7, <1>a, <1>c, <1>d, <2>2 DEF RunInService, Accepted, Resumes
  <2> QED
    BY <1>7, <2>1, <2>2 DEF RunInService
<1>8. CASE Staged(c)
  BY <1>8, <1>d DEF Staged
<1>9. CASE EvaluatedInContext(c) \/ ServiceAnswers(c)
  <2>1. CapturedFrom(c) \subseteq Code /\ started \subseteq Code /\ ended \cup {c} \in SUBSET Code
    BY <1>a DEF CapturedFrom
  <2>2. PICK how \in {"error", "delimiter", "timeout"}, read \in SUBSET Code : Return(c, how, read)
    BY <1>9, <1>a, <2>1 DEF EvaluatedInContext, ServiceAnswers
  <2> QED
    BY <1>9, <1>b, <2>1, <2>2 DEF EvaluatedInContext, ServiceAnswers, reading
<1>10. CASE Drained(c)
  BY <1>10, <1>a DEF Drained, Attach, record, interpreter, Executing
<1>11. CASE Terminate(c)
  BY <1>11, <1>a, <1>b DEF Terminate, Resumes, reading
<1>12. CASE Terminated(c) \/ ContextDestroyed(c) \/ ServiceStopped(c)
  BY <1>12, <1>a, <1>b DEF Terminated, ContextDestroyed, ServiceStopped, Destroyed, reading
<1> QED
  BY <1>1, <1>2, <1>3, <1>4, <1>5, <1>6, <1>7, <1>8, <1>9, <1>10, <1>11, <1>12 DEF Continue

LEMMA TypeNext == TypeInv /\ [Next]_vars => TypeInv'
<1> SUFFICES ASSUME TypeInv, [Next]_vars PROVE TypeInv'
  OBVIOUS
<1>1. CASE UNCHANGED vars
  BY <1>1 DEF vars, record, interpreter, reading, callers, TypeInv, SessionTyped, InterpreterTyped,
     CallsTyped
<1>2. CASE Next
  BY <1>2, TypeInterpreter, TypeCalls DEF Next, Manager
<1> QED
  BY <1>1, <1>2

-----------------------------------------------------------------------------
(* The calls that wait for the initialization.                             *)

(* A call waits once; while it waits, the pending options are those of a   *)
(* call with options that waits behind it, or its own; and they are gone   *)
(* when their call has returned.                                           *)
WaitingOnce == \A i, j \in DOMAIN waiting : waiting[i] = waiting[j] => i = j

WaitingCalls == \A i \in DOMAIN waiting : pc[waiting[i]] \in {"waiting", "destroying"}

OptionsAreQueued ==
  \A i \in DOMAIN waiting : pc[waiting[i]] = "waiting" /\ waiting[i] \notin Plain =>
    \E j \in DOMAIN waiting : i <= j /\ options = waiting[j]

OptionsLive == options # NoCall => pc[options] # "over"

QueueInv == WaitingOnce /\ WaitingCalls /\ OptionsAreQueued /\ OptionsLive

(* One call goes on: the others are where they were, and the pending       *)
(* options are at most reset, which a call does to its own when it returns. *)
OneGoesOn(c) ==
  /\ pc' \in [Call -> {"new", "waiting", "destroying", "terminating", "over"} \cup Executing]
  /\ \A d \in Call : d # c => pc'[d] = pc[d]
  /\ \/ UNCHANGED options /\ pc'[c] # "over"
     \/ options = c /\ options' = NoCall
     \/ options # c /\ UNCHANGED options

LEMMA ReturnGoesOn ==
  ASSUME TypeInv, NEW c \in Call, NEW how, NEW read, Return(c, how, read)
  PROVE  OneGoesOn(c) /\ pc'[c] = "over" /\ pc' = [pc EXCEPT ![c] = "over"]
BY DEF Return, OneGoesOn, TypeInv, CallsTyped, SessionTyped

LEMMA QueueKept ==
  ASSUME TypeInv, QueueInv, NEW c \in Call, OneGoesOn(c), UNCHANGED waiting,
         pc[c] \notin {"waiting", "destroying"}
  PROVE  QueueInv'
<1>1. \A i \in DOMAIN waiting : waiting[i] \in Call /\ waiting[i] # c
  BY DEF TypeInv, CallsTyped, QueueInv, WaitingCalls
<1>2. \A i \in DOMAIN waiting : pc'[waiting[i]] = pc[waiting[i]]
  BY <1>1 DEF OneGoesOn
<1>3. WaitingOnce' /\ WaitingCalls'
  BY <1>2 DEF QueueInv, WaitingOnce, WaitingCalls
<1>4. OptionsAreQueued'
  BY <1>1, <1>2 DEF QueueInv, OptionsAreQueued, OneGoesOn
<1>5. OptionsLive'
  BY CallAssumption DEF QueueInv, OptionsLive, OneGoesOn, TypeInv, SessionTyped
<1> QED
  BY <1>3, <1>4, <1>5 DEF QueueInv

LEMMA QueuePops ==
  ASSUME TypeInv, QueueInv, NEW c \in Call, OneGoesOn(c), waiting # <<>>, Head(waiting) = c,
         waiting' = Tail(waiting)
  PROVE  QueueInv'
<1>a. /\ Len(waiting) \in Nat \ {0} /\ DOMAIN waiting = 1..Len(waiting)
      /\ DOMAIN waiting' = 1..(Len(waiting) - 1)
      /\ \A i \in DOMAIN waiting' : waiting'[i] = waiting[i + 1] /\ i + 1 \in DOMAIN waiting
      /\ waiting[1] = c /\ 1 \in DOMAIN waiting
      /\ \A i \in DOMAIN waiting : waiting[i] \in Call
  BY Tailing DEF TypeInv, CallsTyped
<1>1. \A i \in DOMAIN waiting : i # 1 => waiting[i] # c /\ pc'[waiting[i]] = pc[waiting[i]]
  BY <1>a DEF QueueInv, WaitingOnce, OneGoesOn
<1>2. \A i \in DOMAIN waiting' : i + 1 # 1
  BY <1>a
<1>3. WaitingOnce'
  BY <1>a DEF QueueInv, WaitingOnce
<1>4. WaitingCalls'
  BY <1>a, <1>1, <1>2 DEF QueueInv, WaitingCalls
<1>5. OptionsAreQueued'
  <2> SUFFICES ASSUME NEW i \in DOMAIN waiting', pc'[waiting'[i]] = "waiting", waiting'[i] \notin Plain
               PROVE  \E j \in DOMAIN waiting' : i <= j /\ options' = waiting'[j]
    BY DEF OptionsAreQueued
  <2>1. pc[waiting[i + 1]] = "waiting" /\ waiting[i + 1] \notin Plain /\ i + 1 \in DOMAIN waiting
    BY <1>a, <1>1, <1>2
  <2>2. PICK j \in DOMAIN waiting : i + 1 <= j /\ options = waiting[j]
    BY <2>1 DEF QueueInv, OptionsAreQueued
  <2>3. j - 1 \in DOMAIN waiting' /\ i <= j - 1 /\ j # 1 /\ (j - 1) + 1 = j
    BY <1>a, <2>2
  <2>4. options' = options
    BY <1>1, <2>2, <2>3 DEF OneGoesOn
  <2> QED
    BY <1>a, <2>2, <2>3, <2>4
<1>6. OptionsLive'
  BY CallAssumption DEF QueueInv, OptionsLive, OneGoesOn, TypeInv, SessionTyped
<1> QED
  BY <1>3, <1>4, <1>5, <1>6 DEF QueueInv

LEMMA QueueGrows ==
  ASSUME TypeInv, QueueInv, NEW c \in Call, pc[c] = "new",
         NEW p \in {"waiting", "destroying"}, pc' = [pc EXCEPT ![c] = p],
         waiting' = Append(waiting, c),
         UNCHANGED options \/ options' = c,
         p = "waiting" /\ c \notin Plain => options' = c
  PROVE  QueueInv'
<1>a. /\ Len(waiting) \in Nat /\ DOMAIN waiting = 1..Len(waiting)
      /\ DOMAIN waiting' = 1..(Len(waiting) + 1)
      /\ \A i \in DOMAIN waiting : waiting'[i] = waiting[i] /\ i \in DOMAIN waiting'
      /\ waiting'[Len(waiting) + 1] = c
      /\ \A i \in DOMAIN waiting : waiting[i] \in Call
  BY Appending DEF TypeInv, CallsTyped
<1>1. \A i \in DOMAIN waiting : waiting[i] # c
  BY DEF QueueInv, WaitingCalls
<1>2. pc'[c] = p /\ \A d \in Call : d # c => pc'[d] = pc[d]
  BY DEF TypeInv, CallsTyped
<1>3. \A i \in DOMAIN waiting' : i \in DOMAIN waiting \/ i = Len(waiting) + 1
  BY <1>a
<1>4. WaitingOnce'
  BY <1>a, <1>1, <1>3 DEF QueueInv, WaitingOnce
<1>5. WaitingCalls'
  BY <1>a, <1>1, <1>2, <1>3 DEF QueueInv, WaitingCalls
<1>6. OptionsAreQueued'
  <2> SUFFICES ASSUME NEW i \in DOMAIN waiting', pc'[waiting'[i]] = "waiting", waiting'[i] \notin Plain
               PROVE  \E j \in DOMAIN waiting' : i <= j /\ options' = waiting'[j]
    BY DEF OptionsAreQueued
  <2>1. Len(waiting) + 1 \in DOMAIN waiting' /\ i <= Len(waiting) + 1
    BY <1>a
  <2>2. CASE options' = c
    BY <1>a, <2>1, <2>2
  <2>3. CASE options' # c
    <3>1. i \in DOMAIN waiting /\ UNCHANGED options
      BY <1>a, <1>2, <1>3, <2>3
    <3>2. pc[waiting[i]] = "waiting" /\ waiting[i] \notin Plain
      BY <1>a, <1>1, <1>2, <3>1
    <3>3. PICK j \in DOMAIN waiting : i <= j /\ options = waiting[j]
      BY <3>1, <3>2 DEF QueueInv, OptionsAreQueued
    <3> QED
      BY <1>a, <3>1, <3>3
  <2> QED
    BY <2>2, <2>3
<1>7. OptionsLive'
  BY <1>2 DEF QueueInv, OptionsLive, TypeInv, SessionTyped
<1> QED
  BY <1>4, <1>5, <1>6, <1>7 DEF QueueInv

LEMMA QueueRotates ==
  ASSUME TypeInv, QueueInv, NEW c \in Call, waiting # <<>>, Head(waiting) = c,
         pc' = [pc EXCEPT ![c] = "destroying"],
         waiting' = Append(Tail(waiting), c), UNCHANGED options
  PROVE  QueueInv'
<1>a. /\ Len(waiting) \in Nat \ {0} /\ DOMAIN waiting = 1..Len(waiting)
      /\ Tail(waiting) \in Seq(Call) /\ DOMAIN Tail(waiting) = 1..(Len(waiting) - 1)
      /\ \A i \in 1..(Len(waiting) - 1) : Tail(waiting)[i] = waiting[i + 1]
      /\ waiting[1] = c
      /\ \A i \in DOMAIN waiting : waiting[i] \in Call
  BY Tailing DEF TypeInv, CallsTyped
<1>b. Len(Tail(waiting)) = Len(waiting) - 1
  BY <1>a
<1>c. /\ DOMAIN waiting' = 1..Len(waiting)
      /\ \A i \in 1..(Len(waiting) - 1) : waiting'[i] = waiting[i + 1]
      /\ waiting'[Len(waiting)] = c
  <2>1. /\ DOMAIN Append(Tail(waiting), c) = 1..((Len(waiting) - 1) + 1)
        /\ \A i \in 1..(Len(waiting) - 1) : Append(Tail(waiting), c)[i] = Tail(waiting)[i]
        /\ Append(Tail(waiting), c)[(Len(waiting) - 1) + 1] = c
    BY <1>a, <1>b, Appending
  <2>2. (Len(waiting) - 1) + 1 = Len(waiting)
    BY <1>a
  <2> QED
    BY <1>a, <2>1, <2>2
<1>1. pc'[c] = "destroying" /\ \A d \in Call : d # c => pc'[d] = pc[d]
  BY DEF TypeInv, CallsTyped
<1>2. \A i \in DOMAIN waiting' :
        \/ i \in 1..(Len(waiting) - 1) /\ i + 1 \in DOMAIN waiting /\ i + 1 # 1
        \/ i = Len(waiting)
  BY <1>a, <1>c
<1>3. \A i \in DOMAIN waiting : i # 1 => waiting[i] # c
  BY <1>a DEF QueueInv, WaitingOnce
<1>4. WaitingOnce'
  BY <1>a, <1>c, <1>2, <1>3 DEF QueueInv, WaitingOnce
<1>5. WaitingCalls'
  BY <1>a, <1>c, <1>1, <1>2, <1>3 DEF QueueInv, WaitingCalls
<1>6. OptionsAreQueued'
  <2> SUFFICES ASSUME NEW i \in DOMAIN waiting', pc'[waiting'[i]] = "waiting", waiting'[i] \notin Plain
               PROVE  \E j \in DOMAIN waiting' : i <= j /\ options' = waiting'[j]
    BY DEF OptionsAreQueued
  <2>1. i \in 1..(Len(waiting) - 1) /\ i + 1 \in DOMAIN waiting /\ waiting'[i] = waiting[i + 1]
    BY <1>c, <1>1, <1>2
  <2>2. pc[waiting[i + 1]] = "waiting" /\ waiting[i + 1] \notin Plain
    BY <1>a, <1>1, <1>3, <2>1
  <2>3. PICK j \in DOMAIN waiting : i + 1 <= j /\ options = waiting[j]
    BY <2>1, <2>2 DEF QueueInv, OptionsAreQueued
  <2>4. j - 1 \in 1..(Len(waiting) - 1) /\ i <= j - 1 /\ (j - 1) + 1 = j /\ j - 1 \in DOMAIN waiting'
    BY <1>a, <1>c, <2>1, <2>3
  <2> QED
    BY <1>c, <2>3, <2>4
<1>7. OptionsLive'
  BY <1>1 DEF QueueInv, OptionsLive, TypeInv, SessionTyped
<1> QED
  BY <1>4, <1>5, <1>6, <1>7 DEF QueueInv

(* A step that concerns no call.                                           *)
LEMMA QueueAlone ==
  ASSUME QueueInv, UNCHANGED <<pc, waiting, options>>
  PROVE  QueueInv'
BY DEF QueueInv, WaitingOnce, WaitingCalls, OptionsAreQueued, OptionsLive

(* readUntilDelimiter resolves for a call that reads.                      *)
LEMMA QueueResolves ==
  ASSUME TypeInv, QueueInv, NEW how, Resolve(how), reader # NoCall,
         reader # Setup => pc[reader] = "reading"
  PROVE  QueueInv'
<1>1. CASE reader = Setup
  BY <1>1, QueueAlone DEF Resolve
<1>2. CASE reader # Setup
  <2>1. reader \in Call
    BY <1>2 DEF TypeInv, InterpreterTyped, Code
  <2> QED
    BY <1>2, <2>1, ReturnGoesOn, QueueKept DEF Resolve
<1> QED
  BY <1>1, <1>2

\* For every call c that reads, readUntilDelimiter reads for it.
ReadersRead == \A c \in Call : reader = c <=> pc[c] = "reading"

LEMMA QueueNext == TypeInv /\ QueueInv /\ ReadersRead /\ [Next]_vars => QueueInv'
<1> SUFFICES ASSUME TypeInv, QueueInv, ReadersRead, [Next]_vars PROVE QueueInv'
  OBVIOUS
<1>a. reader # NoCall /\ reader # Setup => pc[reader] = "reading"
  BY DEF ReadersRead, TypeInv, InterpreterTyped, Code
<1>1. CASE UNCHANGED vars
  BY <1>1, QueueAlone DEF vars, callers, record
<1>2. CASE \/ WorkspaceCreated \/ ContextCreated \/ ServiceStarted \/ InitFails \/ Take
           \/ ReadOn \/ PrintText \/ End \/ ReadText \/ DropText \/ ServiceEnds
  BY <1>2, QueueAlone DEF WorkspaceCreated, ContextCreated, ServiceStarted, InitFails, Take,
     ReadOn, PrintText, End, ReadText, DropText, ServiceEnds, callers, record
<1>3. CASE ReadDelimiter \/ ReadTimesOut \/ Exit
  <2>1. CASE reader = NoCall
    BY <1>3, <2>1, QueueAlone DEF ReadDelimiter, ReadTimesOut, Exit, callers
  <2>2. CASE reader # NoCall
    BY <1>3, <1>a, <2>2, QueueResolves DEF ReadDelimiter, ReadTimesOut, Exit
  <2> QED
    BY <2>1, <2>2
<1>4. ASSUME NEW c \in Call, Execute(c)
      PROVE  QueueInv'
  <2>1. CASE registered
    BY <1>4, <2>1, QueueGrows DEF Execute
  <2>2. CASE ~registered
    BY <1>4, <2>2, ReturnGoesOn, QueueKept DEF Execute
  <2> QED
    BY <2>1, <2>2
<1>5. ASSUME NEW c \in Call, Destroy(c)
      PROVE  QueueInv'
  <2>1. CASE registered
    BY <1>5, <2>1, QueueGrows DEF Destroy
  <2>2. CASE ~registered
    BY <1>5, <2>2, ReturnGoesOn, QueueKept DEF Destroy
  <2> QED
    BY <2>1, <2>2
<1>6. ASSUME NEW c \in Call, Expired(c)
      PROVE  QueueInv'
  BY <1>6, QueueRotates DEF Expired
<1>7. ASSUME NEW c \in Call, Refused(c)
      PROVE  QueueInv'
  BY <1>7, ReturnGoesOn, QueuePops DEF Refused, Resumes
<1>8. ASSUME NEW c \in Call, Run(c) \/ RunInContext(c) \/ RunInService(c)
      PROVE  QueueInv'
  <2>1. waiting # <<>> /\ Head(waiting) = c /\ waiting' = Tail(waiting)
    BY <1>8 DEF Run, RunInContext, RunInService, Accepted, Resumes
  <2>2. OneGoesOn(c)
    <3>1. CASE \E p \in Executing : pc' = [pc EXCEPT ![c] = p] /\ UNCHANGED options
      BY <3>1 DEF OneGoesOn, TypeInv, CallsTyped, Executing
    <3>2. CASE WriteFails(c)
      BY <3>2, ReturnGoesOn DEF WriteFails
    <3> QED
      BY <1>8, <3>1, <3>2 DEF Run, RunInContext, RunInService, Write, Evaluate, Executing
  <2> QED
    BY <2>1, <2>2, QueuePops
<1>9. ASSUME NEW c \in Call, Staged(c)
      PROVE  QueueInv'
  <2>1. OneGoesOn(c)
    <3>1. CASE \E p \in Executing : pc' = [pc EXCEPT ![c] = p] /\ UNCHANGED options
      BY <3>1 DEF OneGoesOn, TypeInv, CallsTyped, Executing
    <3>2. CASE WriteFails(c)
      BY <3>2, ReturnGoesOn DEF WriteFails
    <3> QED
      BY <1>9, <3>1, <3>2 DEF Staged, Write, Evaluate, Executing
  <2> QED
    BY <1>9, <2>1, QueueKept DEF Staged
<1>10. ASSUME NEW c \in Call, EvaluatedInContext(c) \/ ServiceAnswers(c)
       PROVE  QueueInv'
  BY <1>10, ReturnGoesOn, QueueKept DEF EvaluatedInContext, ServiceAnswers
<1>11. ASSUME NEW c \in Call, Drained(c)
       PROVE  QueueInv'
  <2>1. OneGoesOn(c)
    BY <1>11 DEF Drained, record, OneGoesOn, TypeInv, CallsTyped, Executing
  <2> QED
    BY <1>11, <2>1, QueueKept DEF Drained
<1>12. ASSUME NEW c \in Call, Terminate(c)
       PROVE  QueueInv'
  <2>1. OneGoesOn(c)
    <3>1. CASE pc' = [pc EXCEPT ![c] = "terminating"] /\ UNCHANGED options
      BY <3>1 DEF OneGoesOn, TypeInv, CallsTyped
    <3> QED
      BY <1>12, <3>1, ReturnGoesOn DEF Terminate
  <2> QED
    BY <1>12, <2>1, QueuePops DEF Terminate, Resumes
<1>13. ASSUME NEW c \in Call, Terminated(c) \/ ContextDestroyed(c) \/ ServiceStopped(c)
       PROVE  QueueInv'
  BY <1>13, ReturnGoesOn, QueueKept DEF Terminated, ContextDestroyed, ServiceStopped, Destroyed
<1> QED
  BY <1>1, <1>2, <1>3, <1>4, <1>5, <1>6, <1>7, <1>8, <1>9, <1>10, <1>11, <1>12, <1>13
     DEF Next, Manager, Continue

-----------------------------------------------------------------------------
(* One execution at a time.                                                *)

Executes(c) == pc[c] \in Executing

(* A call that executes has the session for itself, after its              *)
(* initialization; readUntilDelimiter reads for that call, or for the      *)
(* initialization as long as it is pending.                                *)
OneExecutes ==
  /\ \A c \in Call : Executes(c) => isExecuting /\ init = "done"
  /\ \A c, d \in Call : Executes(c) /\ Executes(d) => c = d

SetupReads == reader = Setup => init = "reading"

(* Only the process of a local session is read from, until it exits; then  *)
(* the session is closed.                                                  *)
ReadsProcess ==
  /\ reader # NoCall => session.backend = "process" /\ process # "exited"
  /\ session.backend = "process" /\ process = "exited" => isClosed
  /\ init = "workspace" => process = "none"
  /\ \A c \in Call : pc[c] = "terminating" => init \in {"done", "failed"}
  /\ \A c \in Call : pc[c] = "draining" => session.backend = "process"

ExecInv == ReadersRead /\ OneExecutes /\ SetupReads /\ ReadsProcess


(* A call that was not executing goes on without executing.                *)
LEMMA ExecKept ==
  ASSUME TypeInv, ExecInv, NEW c \in Call, ~Executes(c),
         \A d \in Call : d # c => pc'[d] = pc[d],
         pc'[c] \notin Executing, pc'[c] = "terminating" => init \in {"done", "failed"},
         UNCHANGED <<session, init, isExecuting, reader, process>>,
         isClosed => isClosed'
  PROVE  ExecInv'
<1>1. \A d \in Call : Executes(d)' <=> Executes(d)
  BY DEF Executes
<1>2. ReadersRead'
  BY DEF ExecInv, ReadersRead, Executes, Executing
<1>3. OneExecutes'
  BY <1>1 DEF ExecInv, OneExecutes
<1>4. SetupReads' /\ ReadsProcess'
  BY DEF ExecInv, SetupReads, ReadsProcess, Executing
<1> QED
  BY <1>2, <1>3, <1>4 DEF ExecInv

(* The call that executes ends.                                            *)
LEMMA ExecEnds ==
  ASSUME TypeInv, ExecInv, NEW c \in Call, Executes(c) \/ \A d \in Call : ~Executes(d),
         pc' = [pc EXCEPT ![c] = "over"],
         reader' = IF reader = c THEN NoCall ELSE reader,
         UNCHANGED <<session, init>>, process' = process \/ reader' = NoCall,
         session.backend = "process" /\ process' = "exited" => isClosed',
         init = "workspace" => process' = "none"
  PROVE  ExecInv'
<1>1. pc'[c] = "over" /\ \A d \in Call : d # c => pc'[d] = pc[d]
  BY DEF TypeInv, CallsTyped
<1>2. \A d \in Call : ~Executes(d)'
  BY <1>1 DEF ExecInv, OneExecutes, Executes, Executing
<1>3. ReadersRead'
  <2>1. \A d \in Call : pc'[d] # "reading"
    BY <1>2 DEF Executes, Executing
  <2>2. \A d \in Call : d # c => pc[d] # "reading"
    BY <1>1, <2>1
  <2> QED
    BY <2>1, <2>2, CallAssumption DEF ExecInv, ReadersRead
<1>4. OneExecutes'
  BY <1>2 DEF OneExecutes
<1>5. SetupReads'
  BY CallAssumption DEF ExecInv, SetupReads
<1>6. ReadsProcess'
  BY <1>1 DEF ExecInv, ReadsProcess
<1> QED
  BY <1>3, <1>4, <1>5, <1>6 DEF ExecInv

(* A call begins to execute, or goes on to.                                *)
LEMMA ExecBegins ==
  ASSUME TypeInv, ExecInv, NEW c \in Call, Executes(c) \/ \A d \in Call : ~Executes(d),
         init = "done", NEW p \in Executing, pc' = [pc EXCEPT ![c] = p],
         isExecuting', UNCHANGED <<session, init, process, isClosed>>,
         pc[c] # "reading",
         p = "draining" => session.backend = "process",
         p # "reading" => reader' = reader,
         p = "reading" => reader' = c /\ session.backend = "process" /\ process # "exited"
  PROVE  ExecInv'
<1>1. pc'[c] = p /\ \A d \in Call : d # c => pc'[d] = pc[d]
  BY DEF TypeInv, CallsTyped
<1>2. \A d \in Call : d # c => ~Executes(d) /\ ~Executes(d)'
  BY <1>1 DEF ExecInv, OneExecutes, Executes
<1>3. OneExecutes'
  BY <1>2 DEF OneExecutes
<1>4. ReadersRead'
  BY <1>1, <1>2 DEF ExecInv, ReadersRead, Executes, Executing
<1>5. SetupReads' /\ ReadsProcess'
  BY <1>1, CallAssumption DEF ExecInv, SetupReads, ReadsProcess, Executing
<1> QED
  BY <1>3, <1>4, <1>5 DEF ExecInv

(* A step that concerns no call.                                           *)
LEMMA ExecAlone ==
  ASSUME ExecInv, UNCHANGED <<pc, session, init, isExecuting, reader, isClosed>>,
         UNCHANGED process \/ (reader = NoCall /\ session.backend # "process" /\ init # "workspace")
  PROVE  ExecInv'
BY DEF ExecInv, ReadersRead, OneExecutes, Executes, SetupReads, ReadsProcess

LEMMA ExecNext == TypeInv /\ ExecInv /\ [Next]_vars => ExecInv'
<1> SUFFICES ASSUME TypeInv, ExecInv, [Next]_vars PROVE ExecInv'
  OBVIOUS
<1>a. /\ reader \in Call => pc[reader] = "reading" /\ Executes(reader)
      /\ \A c \in Call : pc[c] = "reading" => reader = c
  BY DEF ExecInv, ReadersRead, Executes, Executing
<1>b. ~isExecuting => \A d \in Call : ~Executes(d)
  BY DEF ExecInv, OneExecutes
<1>1. CASE UNCHANGED vars
  BY <1>1, ExecAlone DEF vars, callers, record, interpreter, reading
<1>2. CASE Take \/ ReadOn \/ PrintText \/ End \/ ReadText \/ DropText
  BY <1>2, ExecAlone DEF Take, ReadOn, PrintText, End, ReadText, DropText, callers, record, reading
<1>3. CASE WorkspaceCreated
  <2>1. \A c \in Call : ~Executes(c)
    BY <1>3 DEF WorkspaceCreated, ExecInv, OneExecutes
  <2> QED
    BY <1>3, <2>1, CallAssumption DEF WorkspaceCreated, Attach, callers, ExecInv, ReadersRead,
       OneExecutes, SetupReads, ReadsProcess, Executes, Executing
<1>4. CASE ContextCreated \/ ServiceStarted \/ InitFails
  <2>1. /\ init = "workspace" /\ UNCHANGED <<pc, session, isExecuting, reader, isClosed>>
        /\ init' \in {"done", "failed"}
        /\ process' = process \/ (process' = "running" /\ session.backend # "process")
    BY <1>4 DEF ContextCreated, ServiceStarted, InitFails, callers, reading, interpreter
  <2>2. \A c \in Call : ~Executes(c) /\ pc[c] # "reading" /\ pc[c] # "terminating"
    BY <2>1 DEF ExecInv, OneExecutes, ReadsProcess, Executes, Executing
  <2>3. reader # Setup
    BY <2>1 DEF ExecInv, SetupReads
  <2> QED
    BY <2>1, <2>2, <2>3 DEF ExecInv, ReadersRead, OneExecutes, SetupReads, ReadsProcess, Executes
<1>5. CASE ReadDelimiter \/ ReadTimesOut \/ Exit
  <2>a. /\ UNCHANGED session /\ (process' = process \/ (process' = "exited" /\ isClosed'))
        /\ isClosed => isClosed'
        /\ process' # process => process # "none"
    BY <1>5 DEF ReadDelimiter, ReadTimesOut, Exit, Resolve
  <2>1. CASE reader = NoCall
    <3>1. UNCHANGED <<session, init, isExecuting, pc, reader>>
      BY <1>5, <2>1 DEF ReadDelimiter, ReadTimesOut, Exit, callers
    <3> QED
      BY <2>a, <2>1, <3>1 DEF ExecInv, ReadersRead, OneExecutes, Executes, SetupReads, ReadsProcess
  <2>2. ASSUME NEW how, Resolve(how), reader = Setup
        PROVE  ExecInv'
    <3>1. /\ reader' = NoCall /\ init' \in {"done", "failed"} /\ init = "reading"
          /\ UNCHANGED <<pc, isExecuting>>
      BY <2>2 DEF Resolve, ExecInv, SetupReads
    <3>2. \A c \in Call : ~Executes(c) /\ pc[c] # "reading" /\ c # NoCall /\ pc[c] # "terminating"
      BY <3>1, CallAssumption DEF ExecInv, OneExecutes, ReadsProcess, Executes, Executing
    <3> QED
      BY <2>a, <3>1, <3>2, CallAssumption DEF ExecInv, ReadersRead, OneExecutes, Executes,
         SetupReads, ReadsProcess
  <2>3. ASSUME NEW how, Resolve(how), reader \in Call
        PROVE  ExecInv'
    <3>1. /\ Return(reader, how, text) /\ reader' = NoCall /\ UNCHANGED init
      BY <2>3, CallAssumption DEF Resolve
    <3>2. pc' = [pc EXCEPT ![reader] = "over"]
      BY <3>1 DEF Return
    <3>3. session.backend = "process" /\ process' = "exited" => isClosed'
      BY <2>a DEF ExecInv, ReadsProcess
    <3>4. init = "workspace" => process' = "none"
      BY <2>a DEF ExecInv, ReadsProcess
    <3> QED
      BY <1>a, <2>3, <2>a, <3>1, <3>2, <3>3, <3>4, ExecEnds
  <2> QED
    BY <1>5, <2>1, <2>2, <2>3 DEF ReadDelimiter, ReadTimesOut, Exit, TypeInv, InterpreterTyped, Code
<1>6. CASE ServiceEnds
  <2>1. session.backend # "process" /\ reader = NoCall /\ init # "workspace"
    BY <1>6 DEF ServiceEnds, Alive, ExecInv, ReadsProcess
  <2> QED
    BY <1>6, <2>1, ExecAlone DEF ServiceEnds, record, reading, callers
<1>7. ASSUME NEW c \in Call, Execute(c) \/ Expired(c) \/ Destroy(c) \/ Refused(c)
      PROVE  ExecInv'
  <2>1. /\ pc[c] \in {"new", "waiting"}
        /\ \E p \in {"waiting", "over", "destroying"} : pc' = [pc EXCEPT ![c] = p]
        /\ UNCHANGED <<session, init, isExecuting, reader, process>> /\ (isClosed => isClosed')
    BY <1>7 DEF Execute, Expired, Destroy, Refused, Return, interpreter, reading
  <2>2. ~Executes(c) /\ pc'[c] \in {"waiting", "over", "destroying"}
        /\ \A d \in Call : d # c => pc'[d] = pc[d]
    BY <2>1 DEF Executes, Executing, TypeInv, CallsTyped
  <2> QED
    BY <2>1, <2>2, ExecKept DEF Executing
<1>8. ASSUME NEW c \in Call, Run(c) \/ RunInContext(c) \/ RunInService(c) \/ Staged(c)
      PROVE  ExecInv'
  <2>1. /\ UNCHANGED <<session, init, isClosed, process>> /\ init = "done"
        /\ Executes(c) \/ \A d \in Call : ~Executes(d)
        /\ pc[c] # "reading" /\ reader # c
    <3>1. CASE Staged(c)
      <4>1. pc[c] = "staging" /\ Executes(c)
        BY <3>1 DEF Staged, Executes, Executing
      <4> QED
        BY <1>a, <3>1, <4>1 DEF Staged, ExecInv, OneExecutes
    <3>2. CASE Run(c) \/ RunInContext(c) \/ RunInService(c)
      BY <1>a, <1>b, <3>2 DEF Run, RunInContext, RunInService, Accepted
    <3> QED
      BY <1>8, <3>1, <3>2
  <2>2. CASE WriteFails(c)
    <3>1. pc' = [pc EXCEPT ![c] = "over"] /\ UNCHANGED reader
      BY <2>2 DEF WriteFails, Return
    <3>2. session.backend = "process" /\ process = "exited" => isClosed
      BY DEF ExecInv, ReadsProcess
    <3> QED
      BY <2>1, <3>1, <3>2, ExecEnds
  <2>3. CASE Write(c) /\ session.backend = "process" /\ process # "exited"
    <3>1. \/ pc' = [pc EXCEPT ![c] = "draining"] /\ UNCHANGED reader
          \/ pc' = [pc EXCEPT ![c] = "reading"] /\ reader' = c
      BY <2>3 DEF Write, Attach
    <3> QED
      BY <2>1, <2>3, <3>1, ExecBegins DEF Write, Executing
  <2>4. CASE Evaluate(c)
    BY <2>1, <2>4, ExecBegins DEF Evaluate, Executing
  <2>5. CASE pc' = [pc EXCEPT ![c] = "staging"] /\ isExecuting' = TRUE /\ UNCHANGED reader
    BY <2>1, <2>5, ExecBegins DEF Executing
  <2>6. Run(c) => session.backend = "process" /\ process # "exited"
    BY DEF Run, Accepted, ExecInv, ReadsProcess
  <2> QED
    BY <1>8, <2>2, <2>3, <2>4, <2>5, <2>6 DEF Run, RunInContext, RunInService, Staged
<1>9. ASSUME NEW c \in Call, EvaluatedInContext(c) \/ ServiceAnswers(c)
      PROVE  ExecInv'
  <2>1. /\ pc[c] = "evaluating" /\ pc' = [pc EXCEPT ![c] = "over"]
        /\ UNCHANGED <<session, init, reader, process, isClosed>>
    BY <1>9 DEF EvaluatedInContext, ServiceAnswers, Return, reading
  <2>2. Executes(c) /\ reader # c
    BY <1>a, <2>1 DEF Executes, Executing
  <2> QED
    BY <2>1, <2>2, ExecEnds DEF ExecInv, ReadsProcess
<1>10. ASSUME NEW c \in Call, Drained(c)
       PROVE  ExecInv'
  <2>1. /\ pc[c] = "draining" /\ Executes(c) /\ process # "exited"
        /\ pc' = [pc EXCEPT ![c] = "reading"] /\ reader' = c
        /\ UNCHANGED <<session, init, process, isClosed, isExecuting>>
    BY <1>10 DEF Drained, Attach, record, interpreter, Executes, Executing
  <2>2. isExecuting' /\ init = "done" /\ session.backend = "process"
    BY <2>1 DEF ExecInv, OneExecutes, ReadsProcess
  <2> QED
    BY <2>1, <2>2, ExecBegins DEF Executing
<1>11. ASSUME NEW c \in Call, Terminate(c)
       PROVE  ExecInv'
  <2>1. /\ pc[c] = "destroying" /\ init \in {"done", "failed"}
        /\ \E p \in {"over", "terminating"} : pc' = [pc EXCEPT ![c] = p]
        /\ UNCHANGED <<session, init, isExecuting, reader, isClosed>>
        /\ process' # process => process = "running" /\ process' = "terminating"
    BY <1>11 DEF Terminate, Resumes, Return, reading
  <2>2. /\ ~Executes(c) /\ pc'[c] \in {"over", "terminating"}
        /\ \A d \in Call : d # c => pc'[d] = pc[d]
    BY <2>1 DEF Executes, Executing, TypeInv, CallsTyped
  <2> QED
    BY <2>1, <2>2 DEF ExecInv, ReadersRead, OneExecutes, Executes, Executing, SetupReads, ReadsProcess
<1>12. ASSUME NEW c \in Call, Terminated(c) \/ ContextDestroyed(c) \/ ServiceStopped(c)
       PROVE  ExecInv'
  <2>1. /\ pc[c] = "terminating" /\ pc' = [pc EXCEPT ![c] = "over"]
        /\ UNCHANGED <<session, init, isExecuting, reader, isClosed>>
        /\ \/ UNCHANGED process
           \/ session.backend = "process" /\ process' = "killed"
           \/ session.backend # "process"
    BY <1>12 DEF Terminated, ContextDestroyed, ServiceStopped, Destroyed, Return, reading
  <2>2. init \in {"done", "failed"}
    BY <2>1 DEF ExecInv, ReadsProcess
  <2>3. /\ ~Executes(c) /\ pc'[c] = "over"
        /\ \A d \in Call : d # c => pc'[d] = pc[d]
    BY <2>1 DEF Executes, Executing, TypeInv, CallsTyped
  <2> QED
    BY <2>1, <2>2, <2>3 DEF ExecInv, ReadersRead, OneExecutes, Executes, Executing, SetupReads,
       ReadsProcess
<1> QED
  BY <1>1, <1>2, <1>3, <1>4, <1>5, <1>6, <1>7, <1>8, <1>9, <1>10, <1>11, <1>12
     DEF Next, Manager, Continue

LEMMA QueueInit == Init => QueueInv
BY DEF Init, QueueInv, WaitingOnce, WaitingCalls, OptionsAreQueued, OptionsLive

LEMMA ExecInit == Init => ExecInv
<1> SUFFICES ASSUME Init PROVE ExecInv
  OBVIOUS
<1>1. \A c \in Call : pc[c] = "new" /\ c # NoCall
  BY CallAssumption DEF Init
<1>2. ReadersRead /\ OneExecutes
  BY <1>1 DEF Init, ReadersRead, OneExecutes, Executes, Executing
<1>3. SetupReads /\ ReadsProcess
  BY <1>1, CallAssumption DEF Init, SetupReads, ReadsProcess
<1> QED
  BY <1>2, <1>3 DEF ExecInv

-----------------------------------------------------------------------------
(* The code on its way through the interpreter.                            *)

InStdin(x) == \E i \in DOMAIN stdin : stdin[i] = x

(* Only code that was begun runs, prints and ends; nothing is begun before *)
(* the process was started, and only a process takes code from stdin.      *)
StartedFirst ==
  /\ current \in started \cup {NoCall}
  /\ \A i \in DOMAIN stdout : stdout[i].by \in started
  /\ text \cup ended \subseteq started
  /\ init = "workspace" => stdin = <<>> /\ started = {}
  /\ session.backend # "process" => stdin = <<>> /\ current = NoCall

(* Code is begun once.                                                     *)
ReadOnce ==
  /\ \A i, j \in DOMAIN stdin : stdin[i] = stdin[j] => i = j
  /\ \A i \in DOMAIN stdin : stdin[i] \notin started

(* A delimiter is printed by code that has ended.                          *)
DelimitersEnded ==
  \A i \in DOMAIN stdout : stdout[i].kind = "delimiter" =>
    stdout[i].by \in ended /\ stdout[i].by # current

PipeInv == StartedFirst /\ ReadOnce /\ DelimitersEnded

(* The call whose code was given to the interpreter executes, or has come  *)
(* back, unless the process has exited since.                              *)
Given(d) == InStdin(d) \/ d \in started

GivenInv ==
  /\ \A d \in Call : Given(d) =>
       \/ pc[d] \in {"draining", "reading", "evaluating"}
       \/ CameBack(d)
       \/ session.backend = "process" /\ process = "exited"
  /\ \A d \in Call : pc[d] = "evaluating" => d \in started /\ session.backend # "process"
  /\ \A d \in Call : pc[d] = "draining" => d \in Large

(* What the code of a call that reads has printed before its end was read, *)
(* or comes before the delimiter.                                          *)
Precedes(c) ==
  \E i \in DOMAIN stdout :
    /\ stdout[i].kind = "text" /\ stdout[i].by = c
    /\ \A j \in DOMAIN stdout : stdout[j].kind = "delimiter" /\ stdout[j].by = c => i < j

WholeInv ==
  \A c \in printed \ Large :
    /\ c \in Call /\ pc[c] = "reading"
    /\ c \in text \/ Precedes(c)

LEMMA PipeInit == Init => PipeInv
BY CallAssumption DEF Init, PipeInv, StartedFirst, ReadOnce, DelimitersEnded

LEMMA ChunksBy ==
  ASSUME TypeInv
  PROVE  NoCall \notin Code /\ \A i \in DOMAIN stdout : stdout[i].by \in Code
<1>1. \A i \in DOMAIN stdout : stdout[i] \in Chunk
  BY DEF TypeInv, InterpreterTyped
<1> QED
  BY <1>1, CallAssumption DEF Chunk, Code

(* A sequence that has lost its first element, or all.                     *)
LEMMA Shrinking ==
  ASSUME NEW S, NEW s \in Seq(S), NEW t,
         t = s \/ (s # <<>> /\ t = Tail(s)) \/ t = <<>>
  PROVE  \E k \in {0, 1} : \A i \in DOMAIN t : i \in Nat /\ i + k \in DOMAIN s /\ t[i] = s[i + k]
<1>1. CASE t = s
  <2>1. \A i \in DOMAIN t : i \in Nat /\ i + 0 \in DOMAIN s /\ t[i] = s[i + 0]
    BY <1>1
  <2> QED
    BY <2>1
<1>2. CASE s # <<>> /\ t = Tail(s)
  <2>1. \A i \in DOMAIN t : i \in Nat /\ i + 1 \in DOMAIN s /\ t[i] = s[i + 1]
    BY <1>2, Tailing
  <2> QED
    BY <2>1
<1>3. CASE t = <<>>
  <2>1. DOMAIN t = {}
    BY <1>3
  <2> QED
    BY <2>1
<1> QED
  BY <1>1, <1>2, <1>3

(* A step that puts nothing into the pipes.                                *)
LEMMA PipeShrinks ==
  ASSUME TypeInv, PipeInv, UNCHANGED <<session, started>>, ended \subseteq ended',
         stdin' = stdin \/ (stdin # <<>> /\ stdin' = Tail(stdin)) \/ stdin' = <<>>,
         stdout' = stdout \/ (stdout # <<>> /\ stdout' = Tail(stdout)) \/ stdout' = <<>>,
         current' \in {current, NoCall}, text' \cup ended' \subseteq started,
         init' = "workspace" => init = "workspace"
  PROVE  PipeInv' /\ \A x : Given(x)' => Given(x)
<1>1. PICK k \in {0, 1} : \A i \in DOMAIN stdin' : i \in Nat /\ i + k \in DOMAIN stdin
                                                  /\ stdin'[i] = stdin[i + k]
  <2>1. stdin \in Seq(Code)
    BY DEF TypeInv, InterpreterTyped
  <2> QED
    BY <2>1, Shrinking
<1>2. PICK l \in {0, 1} : \A i \in DOMAIN stdout' : i \in Nat /\ i + l \in DOMAIN stdout
                                                   /\ stdout'[i] = stdout[i + l]
  <2>1. stdout \in Seq(Chunk)
    BY DEF TypeInv, InterpreterTyped
  <2> QED
    BY <2>1, Shrinking
<1>3. StartedFirst'
  <2>1. \A i \in DOMAIN stdout' : stdout'[i].by \in started'
    BY <1>2 DEF PipeInv, StartedFirst
  <2>2. stdin = <<>> => stdin' = <<>>
    OBVIOUS
  <2> QED
    BY <2>1, <2>2 DEF PipeInv, StartedFirst
<1>4. ReadOnce'
  <2>1. \A i \in DOMAIN stdin' : stdin'[i] \notin started'
    BY <1>1 DEF PipeInv, ReadOnce
  <2>2. ASSUME NEW i \in DOMAIN stdin', NEW j \in DOMAIN stdin', stdin'[i] = stdin'[j]
        PROVE  i = j
    <3>1. i + k = j + k
      BY <1>1, <2>2 DEF PipeInv, ReadOnce
    <3> QED
      BY <1>1, <3>1
  <2> QED
    BY <2>1, <2>2 DEF ReadOnce
<1>5. DelimitersEnded'
  <2>1. \A i \in DOMAIN stdout : stdout[i].by # NoCall
    BY ChunksBy
  <2> QED
    BY <1>2, <2>1 DEF PipeInv, DelimitersEnded
<1>6. \A x : Given(x)' => Given(x)
  BY <1>1 DEF Given, InStdin
<1> QED
  BY <1>3, <1>4, <1>5, <1>6 DEF PipeInv

(* A call writes its code.                                                 *)
LEMMA PipeWrites ==
  ASSUME TypeInv, PipeInv, NEW c \in Call, ~Given(c), init # "workspace",
         stdin' = Append(stdin, c), UNCHANGED <<session, init, current, stdout, started, ended>>,
         session.backend = "process", text' \subseteq started
  PROVE  PipeInv' /\ \A x : Given(x)' => Given(x) \/ x = c
<1>a. /\ Len(stdin) \in Nat /\ DOMAIN stdin = 1..Len(stdin)
      /\ DOMAIN stdin' = 1..(Len(stdin) + 1)
      /\ \A i \in DOMAIN stdin : stdin'[i] = stdin[i]
      /\ stdin'[Len(stdin) + 1] = c
  <2>1. stdin \in Seq(Code) /\ c \in Code
    BY DEF TypeInv, InterpreterTyped, Code
  <2> QED
    BY <2>1, Appending
<1>b. \A i \in DOMAIN stdin' : i \in DOMAIN stdin \/ i = Len(stdin) + 1
  BY <1>a
<1>1. StartedFirst'
  BY DEF PipeInv, StartedFirst
<1>2. ReadOnce'
  <2>1. c \notin started /\ \A i \in DOMAIN stdin : stdin[i] # c
    BY DEF Given, InStdin
  <2>2. \A i \in DOMAIN stdin' : stdin'[i] \notin started'
    BY <1>a, <1>b, <2>1 DEF PipeInv, ReadOnce
  <2>3. \A i, j \in DOMAIN stdin' : stdin'[i] = stdin'[j] => i = j
    BY <1>a, <1>b, <2>1 DEF PipeInv, ReadOnce
  <2> QED
    BY <2>2, <2>3 DEF ReadOnce
<1>3. DelimitersEnded'
  BY DEF PipeInv, DelimitersEnded
<1>4. \A x : Given(x)' => Given(x) \/ x = c
  BY <1>a, <1>b DEF Given, InStdin
<1> QED
  BY <1>1, <1>2, <1>3, <1>4 DEF PipeInv

(* Code runs in a WASM context or at the service.                          *)
LEMMA PipeEvaluates ==
  ASSUME TypeInv, PipeInv, NEW c \in Call, session.backend # "process", init # "workspace",
         started' = started \cup {c},
         UNCHANGED <<session, init, stdin, current, stdout, ended, text>>
  PROVE  PipeInv' /\ \A x : Given(x)' => Given(x) \/ x = c
<1>1. stdin = <<>> /\ DOMAIN stdin = {}
  BY DEF PipeInv, StartedFirst
<1>2. StartedFirst' /\ ReadOnce' /\ DelimitersEnded'
  BY <1>1 DEF PipeInv, StartedFirst, ReadOnce, DelimitersEnded
<1> QED
  BY <1>2 DEF PipeInv, Given, InStdin

LEMMA PipeStarts ==
  ASSUME TypeInv, ExecInv, PipeInv, WorkspaceCreated
  PROVE  PipeInv' /\ \A x \in Call : ~Given(x)'
<1>1. /\ stdin' = <<Setup>> /\ init = "workspace" /\ init' = "reading" /\ text' = {}
      /\ session.backend = "process"
      /\ UNCHANGED <<session, stdout, current, started, ended>>
  BY DEF WorkspaceCreated, Attach
<1>2. DOMAIN stdin' = 1..1 /\ stdin'[1] = Setup /\ started = {}
  BY <1>1 DEF PipeInv, StartedFirst
<1>3. StartedFirst' /\ ReadOnce' /\ DelimitersEnded'
  BY <1>1, <1>2 DEF PipeInv, StartedFirst, ReadOnce, DelimitersEnded
<1>4. \A x \in Call : ~Given(x)'
  BY <1>1, <1>2, CallAssumption DEF Given, InStdin
<1> QED
  BY <1>3, <1>4 DEF PipeInv

LEMMA PipeTake ==
  ASSUME TypeInv, ExecInv, PipeInv, Take
  PROVE  PipeInv' /\ \A x : Given(x)' => Given(x)
<1>a. /\ DOMAIN stdin = 1..Len(stdin) /\ Len(stdin) \in Nat
      /\ \A i \in DOMAIN stdin' : stdin'[i] = stdin[i + 1] /\ i + 1 \in DOMAIN stdin /\ i \in Nat \ {0}
      /\ current' = stdin[1] /\ 1 \in DOMAIN stdin /\ stdin # <<>>
      /\ started' = started \cup {current'}
      /\ UNCHANGED <<session, stdout, ended, text, init>>
  <2>1. stdin \in Seq(Code)
    BY DEF TypeInv, InterpreterTyped
  <2> QED
    BY <2>1, Tailing DEF Take, record, reading
<1>1. \A x : Given(x)' => Given(x)
  BY <1>a DEF Given, InStdin
<1>2. StartedFirst'
  BY <1>a DEF PipeInv, StartedFirst
<1>3. ReadOnce'
  <2>1. \A i \in DOMAIN stdin' : i + 1 # 1
    BY <1>a
  <2>2. \A i \in DOMAIN stdin' : stdin'[i] \notin started'
    BY <1>a, <2>1 DEF PipeInv, ReadOnce
  <2>3. ASSUME NEW i \in DOMAIN stdin', NEW j \in DOMAIN stdin', stdin'[i] = stdin'[j]
        PROVE  i = j
    <3>1. i + 1 = j + 1
      BY <1>a, <2>3 DEF PipeInv, ReadOnce
    <3> QED
      BY <1>a, <3>1
  <2> QED
    BY <2>2, <2>3 DEF ReadOnce
<1>4. DelimitersEnded'
  <2>1. current' \notin started
    BY <1>a DEF PipeInv, ReadOnce
  <2> QED
    BY <1>a, <2>1 DEF PipeInv, DelimitersEnded, StartedFirst
<1> QED
  BY <1>1, <1>2, <1>3, <1>4 DEF PipeInv

(* Code that was begun prints text, or the delimiter when it ends.         *)
LEMMA PipePrints ==
  ASSUME TypeInv, PipeInv, NEW c \in started, NEW k \in {"text", "delimiter"},
         stdout' = Append(stdout, [by |-> c, kind |-> k]),
         UNCHANGED <<session, stdin, started, text, init>>, ended \subseteq ended',
         ended' \subseteq started,
         k = "text" => current' = current,
         k = "delimiter" => current' = NoCall /\ c \in ended'
  PROVE  PipeInv' /\ \A x : Given(x)' => Given(x)
<1>a. /\ Len(stdout) \in Nat /\ DOMAIN stdout = 1..Len(stdout)
      /\ DOMAIN stdout' = 1..(Len(stdout) + 1)
      /\ \A i \in DOMAIN stdout : stdout'[i] = stdout[i]
      /\ stdout'[Len(stdout) + 1] = [by |-> c, kind |-> k]
  <2>1. stdout \in Seq(Chunk) /\ [by |-> c, kind |-> k] \in Chunk
    BY DEF TypeInv, InterpreterTyped, Chunk
  <2> QED
    BY <2>1, Appending
<1>b. \A i \in DOMAIN stdout' : i \in DOMAIN stdout \/ i = Len(stdout) + 1
  BY <1>a
<1>c. c # NoCall /\ \A i \in DOMAIN stdout : stdout[i].by # NoCall
  BY ChunksBy DEF TypeInv, InterpreterTyped
<1>1. StartedFirst'
  BY <1>a, <1>b DEF PipeInv, StartedFirst
<1>2. ReadOnce'
  BY DEF PipeInv, ReadOnce
<1>3. DelimitersEnded'
  <2> SUFFICES ASSUME NEW i \in DOMAIN stdout', stdout'[i].kind = "delimiter"
               PROVE  stdout'[i].by \in ended' /\ stdout'[i].by # current'
    BY DEF DelimitersEnded
  <2>1. CASE i \in DOMAIN stdout
    BY <1>a, <1>c, <2>1 DEF PipeInv, DelimitersEnded
  <2>2. CASE i = Len(stdout) + 1
    BY <1>a, <1>c, <2>2
  <2> QED
    BY <1>b, <2>1, <2>2
<1> QED
  BY <1>1, <1>2, <1>3 DEF PipeInv, Given, InStdin

-----------------------------------------------------------------------------
(* What the steps of a call do.                                            *)

(* A call that does not execute, and does not begin to.                    *)
LEMMA StepsAside ==
  ASSUME TypeInv, NEW c \in Call,
         \/ Execute(c) \/ Expired(c) \/ Destroy(c) \/ Refused(c) \/ Terminate(c)
         \/ Terminated(c) \/ ContextDestroyed(c) \/ ServiceStopped(c)
  PROVE  /\ UNCHANGED <<session, init, stdin, current, stdout, started, printed, ended, reader,
                        text, ran>>
         /\ pc[c] \in {"new", "waiting", "destroying", "terminating"}
         /\ \E p \in {"waiting", "destroying", "terminating", "over"} : pc' = [pc EXCEPT ![c] = p]
         /\ result' = result \/ \E how \in {"error", "gone"} : Return(c, how, {})
         /\ session.backend = "process" /\ process = "exited" => process' = "exited"
<1>1. CASE Execute(c) \/ Expired(c) \/ Destroy(c) \/ Refused(c)
  BY <1>1 DEF Execute, Expired, Destroy, Refused, Return, interpreter, reading
<1>2. CASE Terminate(c)
  BY <1>2 DEF Terminate, Return, reading
<1>3. CASE Terminated(c) \/ ContextDestroyed(c) \/ ServiceStopped(c)
  BY <1>3 DEF Terminated, ContextDestroyed, ServiceStopped, Destroyed, Return, reading
<1> QED
  BY <1>1, <1>2, <1>3

(* A call that begins to execute, or whose files are there.                *)
LEMMA StepsToRun ==
  ASSUME TypeInv, ExecInv, NEW c \in Call,
         Run(c) \/ RunInContext(c) \/ RunInService(c) \/ Staged(c)
  PROVE  /\ UNCHANGED <<session, init, process, current, stdout, printed, ended>>
         /\ init = "done" /\ pc[c] \in {"waiting", "staging"}
         /\ \A d \in Call : Executes(d) => d = c
         /\ \/ Write(c) /\ session.backend = "process" /\ process # "exited"
            \/ WriteFails(c)
            \/ Evaluate(c) /\ session.backend # "process"
            \/ /\ pc' = [pc EXCEPT ![c] = "staging"]
               /\ UNCHANGED <<stdin, reader, text, result, started>>
<1>1. CASE Staged(c)
  <2>1. pc[c] = "staging" /\ Executes(c)
    BY <1>1 DEF Staged, Executes, Executing
  <2> QED
    BY <1>1, <2>1 DEF Staged, ExecInv, OneExecutes
<1>2. CASE Run(c) \/ RunInContext(c) \/ RunInService(c)
  <2>1. Accepted(c) /\ session.backend = "process" => process # "exited"
    BY DEF Accepted, ExecInv, ReadsProcess
  <2>2. Accepted(c) => init = "done" /\ pc[c] = "waiting" /\ \A d \in Call : ~Executes(d)
    BY DEF Accepted, ExecInv, OneExecutes
  <2>3. CASE Run(c)
    BY <2>1, <2>2, <2>3 DEF Run
  <2>4. CASE RunInContext(c)
    BY <2>2, <2>4 DEF RunInContext
  <2>5. CASE RunInService(c)
    BY <2>2, <2>5 DEF RunInService
  <2> QED
    BY <1>2, <2>3, <2>4, <2>5
<1> QED
  BY <1>1, <1>2

(* The code of a call comes back from the WASM context or the service.     *)
LEMMA StepsBack ==
  ASSUME TypeInv, NEW c \in Call, EvaluatedInContext(c) \/ ServiceAnswers(c)
  PROVE  /\ UNCHANGED <<session, init, process, stdin, current, stdout, started, printed, reader,
                        text, ran>>
         /\ pc[c] = "evaluating" /\ session.backend # "process"
         /\ ended' \in {ended, ended \cup {c}}
         /\ \E how, read :
              /\ Return(c, how, read) /\ read \subseteq started \cup ended \cup {c}
              /\ how = "delimiter" => c \in ended'
              /\ how \in {"delimiter", "timeout"} \/ (session.backend = "service" /\ how = "error")
<1>1. CASE EvaluatedInContext(c)
  BY <1>1 DEF EvaluatedInContext, CapturedFrom, reading
<1>2. CASE ServiceAnswers(c)
  BY <1>2 DEF ServiceAnswers, reading
<1> QED
  BY <1>1, <1>2

(* readUntilDelimiter resolves.                                            *)
LEMMA StepsResolve ==
  ASSUME TypeInv, ExecInv, reader # NoCall, NEW how, Resolve(how)
  PROVE  /\ UNCHANGED <<session, started, ended, ran>>
         /\ reader' = NoCall /\ text' = {} /\ printed' = printed \ {reader}
         /\ init' = "workspace" => init = "workspace"
         /\ session.backend = "process" /\ process # "exited"
         /\ \/ reader = Setup /\ UNCHANGED <<pc, result>>
            \/ reader \in Call /\ pc[reader] = "reading" /\ Return(reader, how, text)
<1>1. reader \in Code
  BY DEF TypeInv, InterpreterTyped
<1> QED
  BY <1>1, CallAssumption DEF Code, Resolve, ExecInv, ReadersRead, ReadsProcess

-----------------------------------------------------------------------------
(* Code and its calls.                                                     *)

(* A step that concerns no call.                                           *)
LEMMA GivenAlone ==
  ASSUME GivenInv, UNCHANGED <<session, pc, result>>, started \subseteq started',
         \A d \in Call : Given(d)' => Given(d),
         session.backend = "process" /\ process = "exited" => process' = "exited"
  PROVE  GivenInv'
BY DEF GivenInv, CameBack

(* One call goes on.                                                       *)
LEMMA GivenGoesOn ==
  ASSUME TypeInv, GivenInv, NEW c \in Call, NEW p, pc' = [pc EXCEPT ![c] = p],
         \A d \in Call : d # c => result'[d] = result[d],
         UNCHANGED session, started \subseteq started',
         \A d \in Call : Given(d)' => Given(d) \/ d = c,
         session.backend = "process" /\ process = "exited" => process' = "exited",
         Given(c)' => \/ p \in {"draining", "reading", "evaluating"}
                      \/ CameBack(c)'
                      \/ session.backend = "process" /\ process' = "exited",
         p = "evaluating" => c \in started' /\ session.backend # "process",
         p = "draining" => c \in Large
  PROVE  GivenInv'
<1>1. pc'[c] = p /\ \A d \in Call : d # c => pc'[d] = pc[d]
  BY DEF TypeInv, CallsTyped
<1>2. \A d \in Call : d # c => (CameBack(d)' <=> CameBack(d))
  BY <1>1 DEF CameBack
<1>3. \A d \in Call : Given(d)' => \/ pc'[d] \in {"draining", "reading", "evaluating"}
                                   \/ CameBack(d)'
                                   \/ session'.backend = "process" /\ process' = "exited"
  BY <1>1, <1>2 DEF GivenInv
<1>4. \A d \in Call : /\ pc'[d] = "evaluating" => d \in started' /\ session'.backend # "process"
                      /\ pc'[d] = "draining" => d \in Large
  BY <1>1 DEF GivenInv
<1> QED
  BY <1>3, <1>4 DEF GivenInv

(* The code of a call that does not execute and has not returned is not    *)
(* with the interpreter, unless the process has exited.                    *)
LEMMA NotGiven ==
  ASSUME GivenInv, NEW c \in Call, Given(c),
         pc[c] \notin {"draining", "reading", "evaluating", "over"}
  PROVE  session.backend = "process" /\ process = "exited"
BY DEF GivenInv, CameBack

LEMMA ReturnIsTold ==
  ASSUME TypeInv, NEW c \in Call, NEW how, NEW read, Return(c, how, read)
  PROVE  /\ pc' = [pc EXCEPT ![c] = "over"] /\ pc'[c] = "over"
         /\ \A d \in Call : d # c => result'[d] = result[d]
         /\ result'[c].how = how /\ result'[c].text = read
         /\ result'[c].whole <=> (how = "delimiter" /\ c \in printed => c \in read)
<1> DEFINE w == how = "delimiter" /\ c \in printed => c \in read
<1>1. /\ pc' = [pc EXCEPT ![c] = "over"]
      /\ result' = [result EXCEPT ![c] = [how |-> how, text |-> read, whole |-> w]]
  BY DEF Return
<1>2. pc \in [Call -> {"new", "waiting", "destroying", "terminating", "over"} \cup Executing]
      /\ result \in [Call -> Result]
  BY DEF TypeInv, CallsTyped
<1>3. w <=> (how = "delimiter" /\ c \in printed => c \in read)
  OBVIOUS
<1> HIDE DEF w
<1>4. result'[c] = [how |-> how, text |-> read, whole |-> w]
  BY <1>1, <1>2
<1>5. result'[c].how = how /\ result'[c].text = read /\ result'[c].whole = w
  BY <1>4
<1> QED
  BY <1>1, <1>2, <1>3, <1>5

LEMMA GivenInit == Init => GivenInv
BY DEF Init, GivenInv, Given, InStdin

LEMMA PipeNext ==
  TypeInv /\ ExecInv /\ PipeInv /\ GivenInv /\ [Next]_vars => PipeInv' /\ GivenInv'
<1> SUFFICES ASSUME TypeInv, ExecInv, PipeInv, GivenInv, [Next]_vars
             PROVE  PipeInv' /\ GivenInv'
  OBVIOUS
<1>a. text \subseteq started /\ ended \subseteq started
  BY DEF PipeInv, StartedFirst
<1>1. CASE UNCHANGED vars
  BY <1>1, <1>a, PipeShrinks, GivenAlone DEF vars, record, interpreter, reading, callers
<1>2. CASE WorkspaceCreated
  <2>1. process # "exited"
    BY <1>2 DEF WorkspaceCreated, ExecInv, ReadsProcess
  <2>2. UNCHANGED <<session, pc, result, started>>
    BY <1>2 DEF WorkspaceCreated, callers
  <2> QED
    BY <1>2, <2>1, <2>2, PipeStarts, GivenAlone
<1>3. CASE ContextCreated \/ ServiceStarted \/ InitFails \/ ServiceEnds
  <2>1. /\ UNCHANGED <<session, pc, result, stdin, stdout, current, started, ended, text>>
        /\ init' = "workspace" => init = "workspace"
        /\ session.backend = "process" => UNCHANGED process
    BY <1>3 DEF ContextCreated, ServiceStarted, InitFails, ServiceEnds, record, interpreter,
       reading, callers
  <2> QED
    BY <1>a, <2>1, PipeShrinks, GivenAlone
<1>4. CASE Take
  <2>1. UNCHANGED <<session, pc, result, process>> /\ started \subseteq started'
    BY <1>4 DEF Take, record, callers
  <2> QED
    BY <1>4, <2>1, PipeTake, GivenAlone
<1>5. CASE ReadOn \/ ReadText \/ DropText
  <2>1. /\ UNCHANGED <<session, pc, result, process, init, current, started, ended>>
        /\ stdin' = stdin \/ (stdin # <<>> /\ stdin' = Tail(stdin))
        /\ stdout' = stdout \/ (stdout # <<>> /\ stdout' = Tail(stdout))
    BY <1>5 DEF ReadOn, ReadText, DropText, record, reading, callers
  <2>2. text' \subseteq started
    <3>1. CASE ReadText
      <4>1. Head(stdout).by \in started
        BY <3>1, Tailing DEF ReadText, PipeInv, StartedFirst, TypeInv, InterpreterTyped
      <4> QED
        BY <1>a, <3>1, <4>1 DEF ReadText
    <3>2. CASE ReadOn \/ DropText
      BY <1>a, <3>2 DEF ReadOn, DropText, reading
    <3> QED
      BY <1>5, <3>1, <3>2
  <2> QED
    BY <1>a, <2>1, <2>2, PipeShrinks, GivenAlone
<1>6. CASE PrintText
  <2>1. PICK c \in started : stdout' = Append(stdout, [by |-> c, kind |-> "text"])
    BY <1>6 DEF PrintText
  <2>2. UNCHANGED <<session, pc, result, process, init, stdin, current, started, ended, text>>
    BY <1>6 DEF PrintText, record, reading, callers
  <2> QED
    BY <1>a, <2>1, <2>2, PipePrints, GivenAlone
<1>7. CASE End
  <2>1. /\ UNCHANGED <<session, pc, result, process, init, stdin, started, text>>
        /\ current' = NoCall /\ ended' = ended \cup {current} /\ current # NoCall
    BY <1>7 DEF End, record, reading, callers
  <2>2. current \in started /\ ended' \subseteq started
    BY <1>a, <2>1 DEF PipeInv, StartedFirst
  <2>3. CASE stdout' = Append(stdout, [by |-> current, kind |-> "delimiter"])
    <3>1. PipeInv' /\ \A x : Given(x)' => Given(x)
      BY <2>1, <2>2, <2>3, PipePrints
    <3> QED
      BY <2>1, <3>1, GivenAlone
  <2>4. CASE UNCHANGED stdout
    BY <1>a, <2>1, <2>2, <2>4, PipeShrinks, GivenAlone
  <2> QED
    BY <1>7, <2>3, <2>4 DEF End
<1>8. CASE ReadDelimiter \/ ReadTimesOut \/ Exit
  <2>1. /\ stdin' = stdin \/ stdin' = <<>>
        /\ stdout' = stdout \/ (stdout # <<>> /\ stdout' = Tail(stdout)) \/ stdout' = <<>>
        /\ current' \in {current, NoCall}
        /\ process' = process \/ process' = "exited"
    BY <1>8 DEF ReadDelimiter, ReadTimesOut, Exit
  <2>2. CASE reader = NoCall
    <3>1. UNCHANGED <<session, pc, result, init, started, ended, text>>
      BY <1>8, <2>2 DEF ReadDelimiter, ReadTimesOut, Exit, callers
    <3> QED
      BY <1>a, <2>1, <3>1, PipeShrinks, GivenAlone
  <2>3. ASSUME NEW how, Resolve(how), reader # NoCall,
               how \in {"delimiter", "timeout"} \/ process' = "exited"
        PROVE  PipeInv' /\ GivenInv'
    <3>1. /\ UNCHANGED <<session, started, ended>> /\ text' = {}
          /\ init' = "workspace" => init = "workspace"
          /\ session.backend = "process"
          /\ \/ UNCHANGED <<pc, result>>
             \/ reader \in Call /\ pc[reader] = "reading" /\ Return(reader, how, text)
      BY <2>3, StepsResolve
    <3>2. PipeInv' /\ \A x : Given(x)' => Given(x)
      BY <1>a, <2>1, <3>1, PipeShrinks
    <3>3. CASE UNCHANGED <<pc, result>>
      BY <2>1, <3>1, <3>2, <3>3, GivenAlone
    <3>4. CASE reader \in Call /\ pc[reader] = "reading" /\ Return(reader, how, text)
      <4>1. /\ pc' = [pc EXCEPT ![reader] = "over"] /\ pc'[reader] = "over"
            /\ \A d \in Call : d # reader => result'[d] = result[d]
            /\ result'[reader].how = how
        BY <3>4, ReturnIsTold
      <4>2. pc'[reader] = "over" /\ (result'[reader].how \in {"delimiter", "timeout"} \/ process' = "exited")
        BY <2>3, <4>1
      <4>3. ASSUME NEW c \in Call, c = reader
            PROVE  GivenInv'
        <5>1. CameBack(c)' \/ process' = "exited"
          BY <4>2, <4>3 DEF CameBack
        <5>2. pc' = [pc EXCEPT ![c] = "over"] /\ \A d \in Call : d # c => result'[d] = result[d]
          BY <4>1, <4>3
        <5> QED
          BY <2>1, <3>1, <3>2, <5>1, <5>2, GivenGoesOn
      <4> QED
        BY <3>2, <3>4, <4>3
    <3> QED
      BY <3>1, <3>3, <3>4
  <2> QED
    BY <1>8, <2>2, <2>3 DEF ReadDelimiter, ReadTimesOut, Exit
<1>9. ASSUME NEW c \in Call,
             \/ Execute(c) \/ Expired(c) \/ Destroy(c) \/ Refused(c) \/ Terminate(c)
             \/ Terminated(c) \/ ContextDestroyed(c) \/ ServiceStopped(c)
      PROVE  PipeInv' /\ GivenInv'
  <2>1. /\ UNCHANGED <<session, init, stdin, current, stdout, started, ended, text>>
        /\ pc[c] \in {"new", "waiting", "destroying", "terminating"}
        /\ result' = result \/ \E how \in {"error", "gone"} : Return(c, how, {})
        /\ session.backend = "process" /\ process = "exited" => process' = "exited"
    BY <1>9, StepsAside
  <2>2. PICK p \in {"waiting", "destroying", "terminating", "over"} : pc' = [pc EXCEPT ![c] = p]
    BY <1>9, StepsAside
  <2>3. \A d \in Call : d # c => result'[d] = result[d]
    BY <2>1, ReturnIsTold
  <2>4. PipeInv' /\ \A x : Given(x)' => Given(x)
    BY <1>a, <2>1, PipeShrinks
  <2>5. Given(c) => session.backend = "process" /\ process' = "exited"
    BY <2>1, NotGiven
  <2> QED
    BY <2>1, <2>2, <2>3, <2>4, <2>5, GivenGoesOn
<1>10. ASSUME NEW c \in Call, Run(c) \/ RunInContext(c) \/ RunInService(c) \/ Staged(c)
       PROVE  PipeInv' /\ GivenInv'
  <2>1. /\ UNCHANGED <<session, init, process, current, stdout, printed, ended>>
        /\ init = "done" /\ pc[c] \in {"waiting", "staging"}
        /\ \/ Write(c) /\ session.backend = "process" /\ process # "exited"
           \/ WriteFails(c)
           \/ Evaluate(c) /\ session.backend # "process"
           \/ /\ pc' = [pc EXCEPT ![c] = "staging"]
              /\ UNCHANGED <<stdin, reader, text, result, started>>
    BY <1>10, StepsToRun
  <2>2. Given(c) => session.backend = "process" /\ process = "exited"
    BY <2>1, NotGiven
  <2>3. CASE Write(c) /\ session.backend = "process" /\ process # "exited"
    <3>1. /\ stdin' = Append(stdin, c) /\ UNCHANGED <<started, result>> /\ text' \subseteq started
          /\ ~Given(c)
      BY <1>a, <2>2, <2>3 DEF Write, Attach
    <3>2. PipeInv' /\ \A x : Given(x)' => Given(x) \/ x = c
      BY <2>1, <2>3, <3>1, PipeWrites
    <3>3. PICK p \in {"draining", "reading"} : pc' = [pc EXCEPT ![c] = p] /\ (p = "draining" => c \in Large)
      BY <2>3 DEF Write
    <3> QED
      BY <2>1, <3>1, <3>2, <3>3, GivenGoesOn
  <2>4. CASE WriteFails(c) \/ (/\ pc' = [pc EXCEPT ![c] = "staging"]
                               /\ UNCHANGED <<stdin, reader, text, result, started>>)
    <3>1. /\ UNCHANGED <<stdin, text, started>> /\ \A d \in Call : d # c => result'[d] = result[d]
          /\ \E p \in {"staging", "over"} : pc' = [pc EXCEPT ![c] = p]
      BY <2>4, ReturnIsTold DEF WriteFails
    <3>2. PipeInv' /\ \A x : Given(x)' => Given(x)
      BY <1>a, <2>1, <3>1, PipeShrinks
    <3> QED
      BY <2>1, <2>2, <3>1, <3>2, GivenGoesOn
  <2>5. CASE Evaluate(c) /\ session.backend # "process"
    <3>1. /\ started' = started \cup {c} /\ UNCHANGED <<stdin, text, result>>
          /\ pc' = [pc EXCEPT ![c] = "evaluating"]
      BY <2>5 DEF Evaluate
    <3>2. PipeInv' /\ \A x : Given(x)' => Given(x) \/ x = c
      BY <2>1, <2>5, <3>1, PipeEvaluates
    <3> QED
      BY <2>1, <2>5, <3>1, <3>2, GivenGoesOn
  <2> QED
    BY <2>1, <2>3, <2>4, <2>5
<1>11. ASSUME NEW c \in Call, EvaluatedInContext(c) \/ ServiceAnswers(c)
       PROVE  PipeInv' /\ GivenInv'
  <2>1. /\ UNCHANGED <<session, init, process, stdin, current, stdout, started, text>>
        /\ pc[c] = "evaluating" /\ ended' \in {ended, ended \cup {c}}
    BY <1>11, StepsBack
  <2>2. PICK how, read :
          /\ Return(c, how, read)
          /\ how \in {"delimiter", "timeout"} \/ (session.backend = "service" /\ how = "error")
    BY <1>11, StepsBack
  <2>3. ended' \subseteq started /\ ended \subseteq ended'
    BY <1>a, <2>1 DEF GivenInv
  <2>4. PipeInv' /\ \A x : Given(x)' => Given(x)
    BY <1>a, <2>1, <2>3, PipeShrinks
  <2>5. /\ pc' = [pc EXCEPT ![c] = "over"] /\ pc'[c] = "over"
        /\ \A d \in Call : d # c => result'[d] = result[d]
        /\ result'[c].how = how
    BY <2>2, ReturnIsTold
  <2>6. CameBack(c)'
    BY <2>1, <2>2, <2>5 DEF CameBack
  <2> QED
    BY <2>1, <2>4, <2>5, <2>6, GivenGoesOn
<1>12. ASSUME NEW c \in Call, Drained(c)
       PROVE  PipeInv' /\ GivenInv'
  <2>1. /\ UNCHANGED <<session, init, process, stdin, current, stdout, started, ended, result>>
        /\ pc' = [pc EXCEPT ![c] = "reading"] /\ text' = {}
    BY <1>12 DEF Drained, Attach, record, interpreter
  <2>2. PipeInv' /\ \A x : Given(x)' => Given(x)
    BY <1>a, <2>1, PipeShrinks
  <2> QED
    BY <2>1, <2>2, GivenGoesOn
<1> QED
  BY <1>1, <1>2, <1>3, <1>4, <1>5, <1>6, <1>7, <1>8, <1>9, <1>10, <1>11, <1>12
     DEF Next, Manager, Continue

-----------------------------------------------------------------------------
(* What the code of a call that reads has printed.                         *)

LEMMA WholeInit == Init => WholeInv
BY DEF Init, WholeInv

(* A step that takes nothing from a call that reads.                       *)
LEMMA WholeKept ==
  ASSUME WholeInv, printed' \subseteq printed, UNCHANGED stdout, text \subseteq text',
         \A c \in Call : pc[c] = "reading" => pc'[c] = "reading"
  PROVE  WholeInv'
BY DEF WholeInv, Precedes

(* A step when no call reads.                                              *)
LEMMA WholeNone ==
  ASSUME WholeInv, printed' \subseteq printed, \A c \in printed' : c \in Call => pc[c] # "reading"
  PROVE  WholeInv'
BY DEF WholeInv

(* Text that comes before a delimiter does so when something is printed.   *)
LEMMA PrecedesStill ==
  ASSUME TypeInv, NEW c, NEW x \in Chunk, Precedes(c), stdout' = Append(stdout, x)
  PROVE  Precedes(c)'
<1>a. /\ Len(stdout) \in Nat /\ DOMAIN stdout = 1..Len(stdout)
      /\ DOMAIN stdout' = 1..(Len(stdout) + 1)
      /\ \A i \in DOMAIN stdout : stdout'[i] = stdout[i]
  <2>1. stdout \in Seq(Chunk)
    BY DEF TypeInv, InterpreterTyped
  <2> QED
    BY <2>1, Appending
<1>1. PICK i \in DOMAIN stdout :
        /\ stdout[i].kind = "text" /\ stdout[i].by = c
        /\ \A j \in DOMAIN stdout : stdout[j].kind = "delimiter" /\ stdout[j].by = c => i < j
  BY DEF Precedes
<1>2. i \in DOMAIN stdout' /\ stdout'[i] = stdout[i]
  BY <1>a
<1>3. ASSUME NEW j \in DOMAIN stdout', stdout'[j].kind = "delimiter", stdout'[j].by = c
      PROVE  i < j
  <2>1. CASE j \in DOMAIN stdout
    BY <1>a, <1>1, <1>3, <2>1
  <2>2. CASE j = Len(stdout) + 1
    BY <1>a, <2>2
  <2> QED
    BY <1>a, <2>1, <2>2
<1>4. stdout'[i].kind = "text" /\ stdout'[i].by = c
  BY <1>1, <1>2
<1> QED
  BY <1>2, <1>3, <1>4 DEF Precedes

(* Code that runs prints: no delimiter of it is there yet.                 *)
LEMMA PrecedesFirst ==
  ASSUME TypeInv, PipeInv, NEW c \in Code, c = current,
         stdout' = Append(stdout, [by |-> c, kind |-> "text"])
  PROVE  Precedes(c)'
<1>a. /\ Len(stdout) \in Nat /\ DOMAIN stdout = 1..Len(stdout)
      /\ DOMAIN stdout' = 1..(Len(stdout) + 1)
      /\ \A i \in DOMAIN stdout : stdout'[i] = stdout[i]
      /\ stdout'[Len(stdout) + 1] = [by |-> c, kind |-> "text"]
  <2>1. stdout \in Seq(Chunk) /\ [by |-> c, kind |-> "text"] \in Chunk
    BY DEF TypeInv, InterpreterTyped, Chunk
  <2> QED
    BY <2>1, Appending
<1>1. \A j \in DOMAIN stdout' : j \in DOMAIN stdout \/ j = Len(stdout) + 1
  BY <1>a
<1>2. \A j \in DOMAIN stdout' : ~(stdout'[j].kind = "delimiter" /\ stdout'[j].by = c)
  BY <1>a, <1>1 DEF PipeInv, DelimitersEnded
<1>3. PICK i \in DOMAIN stdout' : stdout'[i] = [by |-> c, kind |-> "text"]
  BY <1>a
<1> QED
  BY <1>2, <1>3 DEF Precedes

(* The first text is read.                                                 *)
LEMMA PrecedesRead ==
  ASSUME TypeInv, NEW c, Precedes(c), ReadText
  PROVE  c \in text' \/ Precedes(c)'
<1>a. /\ Len(stdout) \in Nat \ {0} /\ DOMAIN stdout = 1..Len(stdout)
      /\ DOMAIN stdout' = 1..(Len(stdout) - 1)
      /\ \A i \in DOMAIN stdout' : stdout'[i] = stdout[i + 1]
      /\ text' = text \cup {stdout[1].by}
  <2>1. stdout \in Seq(Chunk) /\ stdout # <<>> /\ stdout' = Tail(stdout)
        /\ text' = text \cup {Head(stdout).by}
    BY DEF ReadText, TypeInv, InterpreterTyped
  <2> QED
    BY <2>1, Tailing
<1>1. PICK i \in DOMAIN stdout :
        /\ stdout[i].kind = "text" /\ stdout[i].by = c
        /\ \A j \in DOMAIN stdout : stdout[j].kind = "delimiter" /\ stdout[j].by = c => i < j
  BY DEF Precedes
<1>2. CASE i = 1
  BY <1>a, <1>1, <1>2
<1>3. CASE i # 1
  <2>1. i - 1 \in DOMAIN stdout' /\ (i - 1) + 1 = i
    BY <1>a, <1>3
  <2>2. stdout'[i - 1] = stdout[i]
    BY <1>a, <2>1
  <2>3. ASSUME NEW j \in DOMAIN stdout', stdout'[j].kind = "delimiter", stdout'[j].by = c
        PROVE  i - 1 < j
    <3>1. j + 1 \in DOMAIN stdout /\ stdout'[j] = stdout[j + 1]
      BY <1>a
    <3>2. i < j + 1
      BY <1>1, <2>3, <3>1
    <3> QED
      BY <1>a, <3>2
  <2> QED
    BY <1>1, <2>1, <2>2, <2>3 DEF Precedes
<1> QED
  BY <1>2, <1>3

LEMMA WholePrints ==
  ASSUME TypeInv, PipeInv, GivenInv, WholeInv, PrintText
  PROVE  WholeInv'
<1>1. PICK c \in started \cap Call :
        /\ stdout' = Append(stdout, [by |-> c, kind |-> "text"])
        /\ printed' = IF c = current /\ pc[c] # "over" THEN printed \cup {c} ELSE printed
  BY DEF PrintText
<1>2. [by |-> c, kind |-> "text"] \in Chunk
  BY DEF Chunk, Code
<1>3. UNCHANGED <<pc, text>> /\ process # "exited"
  BY DEF PrintText, callers, reading
<1>4. ASSUME NEW d \in printed \ Large
      PROVE  d \in Call /\ pc'[d] = "reading" /\ (d \in text' \/ Precedes(d)')
  BY <1>1, <1>2, <1>3, PrecedesStill DEF WholeInv
<1>5. ASSUME NEW d \in printed' \ Large, d \notin printed
      PROVE  d \in Call /\ pc'[d] = "reading" /\ (d \in text' \/ Precedes(d)')
  <2>1. d = c /\ c = current /\ pc[c] # "over"
    BY <1>1, <1>5
  <2>2. session.backend = "process"
    BY <2>1, CallAssumption DEF PipeInv, StartedFirst
  <2>3. pc[c] = "reading"
    BY <1>3, <1>5, <2>1, <2>2 DEF GivenInv, Given, CameBack
  <2>4. Precedes(d)'
    <3>1. c \in Code
      BY DEF Code
    <3>2. Precedes(c)'
      BY <1>1, <2>1, <3>1, PrecedesFirst
    <3> QED
      BY <2>1, <3>2
  <2> QED
    BY <1>3, <2>1, <2>3, <2>4
<1> QED
  BY <1>4, <1>5 DEF WholeInv

LEMMA WholeNext ==
  TypeInv /\ ExecInv /\ PipeInv /\ GivenInv /\ WholeInv /\ [Next]_vars => WholeInv'
<1> SUFFICES ASSUME TypeInv, ExecInv, PipeInv, GivenInv, WholeInv, [Next]_vars
             PROVE  WholeInv'
  OBVIOUS
<1>a. /\ \A c \in Call : pc[c] = "reading" => reader = c /\ reader # NoCall
      /\ \A c, d \in Call : Executes(c) /\ pc[d] = "reading" => d = c
      /\ \A c \in Call : pc[c] = "reading" => init = "done"
  BY CallAssumption DEF ExecInv, ReadersRead, OneExecutes, Executes, Executing
<1>1. CASE UNCHANGED vars
  BY <1>1, WholeKept DEF vars, interpreter, reading, callers
<1>2. CASE ContextCreated \/ ServiceStarted \/ InitFails \/ ServiceEnds \/ Take \/ ReadOn
  BY <1>2, WholeKept DEF ContextCreated, ServiceStarted, InitFails, ServiceEnds, Take, ReadOn,
     interpreter, reading, callers
<1>3. CASE WorkspaceCreated \/ DropText
  <2>1. printed' = printed /\ \A c \in Call : pc[c] # "reading"
    BY <1>3, <1>a DEF WorkspaceCreated, DropText
  <2> QED
    BY <2>1, WholeNone
<1>4. CASE PrintText
  BY <1>4, WholePrints
<1>5. CASE End
  <2>1. UNCHANGED <<pc, text, printed>>
    BY <1>5 DEF End, callers, reading
  <2>2. CASE UNCHANGED stdout
    BY <2>1, <2>2, WholeKept
  <2>3. CASE stdout' = Append(stdout, [by |-> current, kind |-> "delimiter"])
    <3>1. [by |-> current, kind |-> "delimiter"] \in Chunk
      BY <1>5 DEF End, TypeInv, InterpreterTyped, Chunk
    <3>2. \A c : Precedes(c) => Precedes(c)'
      BY <2>3, <3>1, PrecedesStill
    <3> QED
      BY <2>1, <3>2 DEF WholeInv
  <2> QED
    BY <1>5, <2>2, <2>3 DEF End
<1>6. CASE ReadText
  <2>1. UNCHANGED <<pc, printed>> /\ text \subseteq text'
    BY <1>6 DEF ReadText, callers
  <2>2. \A c : Precedes(c) => c \in text' \/ Precedes(c)'
    BY <1>6, PrecedesRead
  <2> QED
    BY <2>1, <2>2 DEF WholeInv
<1>7. CASE ReadDelimiter \/ ReadTimesOut \/ Exit
  <2>1. CASE reader = NoCall
    <3>1. printed' = printed /\ \A c \in Call : pc[c] # "reading"
      BY <1>7, <1>a, <2>1 DEF ReadDelimiter, ReadTimesOut, Exit
    <3> QED
      BY <3>1, WholeNone
  <2>2. CASE reader # NoCall
    <3>1. printed' = printed \ {reader}
      BY <1>7, <2>2, StepsResolve DEF ReadDelimiter, ReadTimesOut, Exit
    <3> QED
      BY <1>a, <3>1, WholeNone
  <2> QED
    BY <2>1, <2>2
<1>8. ASSUME NEW c \in Call,
             \/ Execute(c) \/ Expired(c) \/ Destroy(c) \/ Refused(c) \/ Terminate(c)
             \/ Terminated(c) \/ ContextDestroyed(c) \/ ServiceStopped(c)
      PROVE  WholeInv'
  <2>1. UNCHANGED <<printed, stdout, text>>
    BY <1>8, StepsAside
  <2>2. \A d \in Call : pc[d] = "reading" => pc'[d] = "reading"
    BY <1>8, StepsAside DEF TypeInv, CallsTyped
  <2> QED
    BY <2>1, <2>2, WholeKept
<1>9. ASSUME NEW c \in Call, Run(c) \/ RunInContext(c) \/ RunInService(c) \/ Staged(c)
      PROVE  WholeInv'
  <2>1. /\ printed' = printed /\ pc[c] # "reading"
        /\ \A d \in Call : Executes(d) => d = c
    BY <1>9, StepsToRun
  <2>2. \A d \in Call : pc[d] # "reading"
    BY <2>1 DEF Executes, Executing
  <2> QED
    BY <2>1, <2>2, WholeNone
<1>10. ASSUME NEW c \in Call, EvaluatedInContext(c) \/ ServiceAnswers(c)
       PROVE  WholeInv'
  <2>1. printed' = printed /\ pc[c] # "reading" /\ Executes(c)
    BY <1>10, StepsBack DEF Executes, Executing
  <2> QED
    BY <1>a, <2>1, WholeNone
<1>11. ASSUME NEW c \in Call, Drained(c)
       PROVE  WholeInv'
  <2>1. printed' = printed /\ pc[c] # "reading" /\ Executes(c)
    BY <1>11 DEF Drained, interpreter, Executes, Executing
  <2> QED
    BY <1>a, <2>1, WholeNone
<1> QED
  BY <1>1, <1>2, <1>3, <1>4, <1>5, <1>6, <1>7, <1>8, <1>9, <1>10, <1>11
     DEF Next, Manager, Continue

-----------------------------------------------------------------------------
(* What callers are told.                                                  *)

SessionInv ==
  /\ TypeInv /\ QueueInv /\ ExecInv
  /\ PipeInv /\ GivenInv /\ WholeInv
  /\ ResultsHaveCause

(* The options that the first call of the queue finds are its own, or      *)
(* those of a call that has not returned.                                  *)
LEMMA OptionsFound ==
  ASSUME TypeInv, QueueInv, NEW c \in Call, Accepted(c)
  PROVE  options # Own(c) => options # NoCall /\ pc[options] # "over"
<1>1. waiting # <<>> /\ waiting[1] = c /\ 1 \in DOMAIN waiting /\ pc[c] = "waiting"
  BY Tailing DEF Accepted, Resumes, TypeInv, CallsTyped
<1>2. CASE c \in Plain
  BY <1>2 DEF Own, QueueInv, OptionsLive
<1>3. CASE c \notin Plain
  <2>1. \E j \in DOMAIN waiting : options = waiting[j]
    BY <1>1, <1>3 DEF QueueInv, OptionsAreQueued
  <2>2. options \in Call
    BY <2>1 DEF TypeInv, CallsTyped
  <2> QED
    BY <2>2, CallAssumption DEF QueueInv, OptionsLive
<1> QED
  BY <1>2, <1>3

LEMMA OptionsTaken ==
  ASSUME TypeInv, QueueInv, OptionsAreLive, NEW c \in Call, Accepted(c), TakeOptions(c)
  PROVE  OptionsAreLive'
<1>1. /\ ran'[c] = [options |-> options, live |-> options # NoCall /\ pc[options] # "over"]
      /\ \A d \in Call : d # c => ran'[d] = ran[d]
  BY DEF TakeOptions, TypeInv, CallsTyped
<1>2. options # Own(c) => options # NoCall /\ pc[options] # "over"
  BY OptionsFound
<1>3. ran'[c].options = options /\ ran'[c].live = (options # NoCall /\ pc[options] # "over")
  BY <1>1
<1>4. \A d \in Call : ran[d].options # Own(d) => ran[d].live
  BY DEF OptionsAreLive
<1>5. ASSUME NEW d \in Call, ran'[d].options # Own(d)
      PROVE  ran'[d].live
  <2>1. CASE d = c
    BY <1>2, <1>3, <1>5, <2>1
  <2>2. CASE d # c
    <3>1. ran'[d] = ran[d]
      BY <1>1, <2>2
    <3> QED
      BY <1>4, <1>5, <3>1
  <2> QED
    BY <2>1, <2>2
<1>6. \A d \in Call : Own(d)' = Own(d)
  BY DEF Own
<1> QED
  BY <1>5, <1>6 DEF OptionsAreLive

LEMMA OptionsKept ==
  ASSUME OptionsAreLive, UNCHANGED ran
  PROVE  OptionsAreLive'
BY DEF OptionsAreLive, Own

(* When a call executes, those whose code was begun before have come back, *)
(* unless the process has exited.                                          *)
LEMMA OthersCameBack ==
  ASSUME ExecInv, GivenInv, NEW c \in Call, Executes(c), NEW d \in Call, d # c, d \in started,
         ~(session.backend = "process" /\ process = "exited")
  PROVE  CameBack(d)
<1>1. ~Executes(d)
  BY DEF ExecInv, OneExecutes
<1> QED
  BY <1>1 DEF GivenInv, Given, Executes, Executing

(* A call returns with output of calls that came back before.              *)
LEMMA OutputReturns ==
  ASSUME TypeInv, OutputFlowsForward, NEW c \in Call, pc[c] # "over", NEW how, NEW read,
         Return(c, how, read), UNCHANGED session, started \subseteq started',
         \A d \in Call : d # c /\ d \in read => d \in started /\ CameBack(d)
  PROVE  OutputFlowsForward'
<1>1. /\ pc' = [pc EXCEPT ![c] = "over"]
      /\ \A d \in Call : d # c => result'[d] = result[d]
      /\ result'[c].text = read
  BY ReturnIsTold
<1>2. \A d \in Call : d # c => pc'[d] = pc[d]
  BY <1>1 DEF TypeInv, CallsTyped
<1>3. \A d \in Call : d # c /\ CameBack(d) => CameBack(d)'
  BY <1>1, <1>2 DEF CameBack
<1>4. \A d \in Call : d # c => c \notin result[d].text
  BY DEF OutputFlowsForward, CameBack
<1>5. ASSUME NEW a \in Call, NEW d \in Call, a # d, d \in result'[a].text
      PROVE  d \in started' /\ CameBack(d)' /\ a \notin result'[d].text
  <2>1. CASE a = c
    <3>1. d \in started /\ CameBack(d) /\ result'[d] = result[d]
      BY <1>1, <1>5, <2>1
    <3> QED
      BY <1>3, <1>4, <1>5, <2>1, <3>1
  <2>2. CASE a # c
    <3>1. d \in result[a].text
      BY <1>1, <1>5, <2>2
    <3>2. d # c
      BY <1>4, <2>2, <3>1
    <3>3. d \in started /\ CameBack(d) /\ a \notin result[d].text
      BY <1>5, <3>1 DEF OutputFlowsForward
    <3> QED
      BY <1>1, <1>3, <3>2, <3>3
  <2> QED
    BY <2>1, <2>2
<1> QED
  BY <1>5 DEF OutputFlowsForward

(* A call returns: with a delimiter only when its code has ended, and then *)
(* with all that it has printed.                                           *)
LEMMA OwnReturns ==
  ASSUME TypeInv, OwnOutputIsWhole, NEW c \in Call, NEW how, NEW read, Return(c, how, read),
         ended \subseteq ended',
         how = "delimiter" => c \in ended' /\ (c \in printed \ Large => c \in read)
  PROVE  OwnOutputIsWhole'
<1>1. /\ \A d \in Call : d # c => result'[d] = result[d]
      /\ result'[c].how = how
      /\ result'[c].whole <=> (how = "delimiter" /\ c \in printed => c \in read)
  BY ReturnIsTold
<1>2. result'[c].how = "delimiter" => c \in ended' /\ (c \notin Large => result'[c].whole)
  BY <1>1
<1>3. \A d \in Call : d # c => (result'[d].how = "delimiter" =>
                                  d \in ended' /\ (d \notin Large => result'[d].whole))
  BY <1>1 DEF OwnOutputIsWhole
<1> QED
  BY <1>2, <1>3 DEF OwnOutputIsWhole

OutputHasCause == OwnOutputIsWhole /\ OutputFlowsForward

LEMMA OutputKept ==
  ASSUME TypeInv, OutputHasCause, UNCHANGED <<session, result>>, started \subseteq started',
         ended \subseteq ended', \A d \in Call : pc[d] = "over" => pc'[d] = "over"
  PROVE  OutputHasCause'
<1>1. \A d \in Call : CameBack(d) => CameBack(d)'
  BY DEF CameBack
<1>2. OwnOutputIsWhole'
  BY DEF OutputHasCause, OwnOutputIsWhole
<1>3. OutputFlowsForward'
  BY <1>1 DEF OutputHasCause, OutputFlowsForward
<1> QED
  BY <1>2, <1>3 DEF OutputHasCause

(* A call returns without output.                                          *)
LEMMA OutputOfNone ==
  ASSUME TypeInv, OutputHasCause, NEW c \in Call, pc[c] # "over", NEW how, how # "delimiter",
         Return(c, how, {}), UNCHANGED <<session, started, ended>>
  PROVE  OutputHasCause'
<1>1. OutputFlowsForward'
  BY OutputReturns DEF OutputHasCause
<1>2. OwnOutputIsWhole'
  BY OwnReturns DEF OutputHasCause
<1> QED
  BY <1>1, <1>2 DEF OutputHasCause

(* readUntilDelimiter resolves for a call.                                 *)
LEMMA OutputResolves ==
  ASSUME TypeInv, ExecInv, PipeInv, GivenInv, OutputHasCause, reader # NoCall,
         NEW how, Resolve(how), how = "delimiter" => reader \in ended /\
                                  (reader \in printed \ Large => reader \in text)
  PROVE  OutputHasCause'
<1>1. /\ UNCHANGED <<session, started, ended>>
      /\ session.backend = "process" /\ process # "exited"
      /\ \/ reader = Setup /\ UNCHANGED <<pc, result>>
         \/ reader \in Call /\ pc[reader] = "reading" /\ Return(reader, how, text)
  BY StepsResolve
<1>2. CASE UNCHANGED <<pc, result>>
  BY <1>1, <1>2, OutputKept
<1>3. ASSUME NEW c \in Call, c = reader, pc[c] = "reading", Return(c, how, text)
      PROVE  OutputHasCause'
  <2>1. Executes(c)
    BY <1>3 DEF Executes, Executing
  <2>2. \A d \in Call : d # c /\ d \in text => d \in started /\ CameBack(d)
    BY <1>1, <2>1, OthersCameBack DEF PipeInv, StartedFirst
  <2>3. pc[c] # "over"
    BY <1>3
  <2>4. OutputFlowsForward'
    BY <1>1, <1>3, <2>2, <2>3, OutputReturns DEF OutputHasCause
  <2>5. OwnOutputIsWhole'
    BY <1>1, <1>3, OwnReturns DEF OutputHasCause
  <2> QED
    BY <2>4, <2>5 DEF OutputHasCause
<1> QED
  BY <1>1, <1>2, <1>3

(* At the delimiter, what the code has printed was read.                   *)
LEMMA OutputRead ==
  ASSUME TypeInv, PipeInv, WholeInv, ReadDelimiter
  PROVE  reader \in ended /\ (reader \in printed \ Large => reader \in text)
<1>1. /\ 1 \in DOMAIN stdout /\ stdout[1].kind = "delimiter" /\ stdout[1].by = reader
      /\ DOMAIN stdout = 1..Len(stdout) /\ Len(stdout) \in Nat
  <2>1. stdout \in Seq(Chunk) /\ stdout # <<>>
    BY DEF ReadDelimiter, TypeInv, InterpreterTyped
  <2> QED
    BY <2>1, Tailing DEF ReadDelimiter, IsDelimiter
<1>2. ~Precedes(reader)
  <2> SUFFICES ASSUME NEW i \in DOMAIN stdout,
                      \A j \in DOMAIN stdout :
                        stdout[j].kind = "delimiter" /\ stdout[j].by = reader => i < j
               PROVE  FALSE
    BY DEF Precedes
  <2>1. i < 1
    BY <1>1
  <2> QED
    BY <1>1, <2>1
<1> QED
  BY <1>1, <1>2 DEF PipeInv, DelimitersEnded, WholeInv

LEMMA OptionsNext ==
  TypeInv /\ QueueInv /\ ExecInv /\ OptionsAreLive /\ [Next]_vars => OptionsAreLive'
<1> SUFFICES ASSUME TypeInv, QueueInv, ExecInv, OptionsAreLive, [Next]_vars
             PROVE  OptionsAreLive'
  OBVIOUS
<1>1. CASE UNCHANGED vars
  BY <1>1, OptionsKept DEF vars, callers
<1>2. CASE \/ WorkspaceCreated \/ ContextCreated \/ ServiceStarted \/ InitFails \/ ServiceEnds
           \/ Take \/ ReadOn \/ PrintText \/ End \/ ReadText \/ DropText
  BY <1>2, OptionsKept DEF WorkspaceCreated, ContextCreated, ServiceStarted, InitFails,
     ServiceEnds, Take, ReadOn, PrintText, End, ReadText, DropText, callers
<1>3. CASE ReadDelimiter \/ ReadTimesOut \/ Exit
  BY <1>3, OptionsKept DEF ReadDelimiter, ReadTimesOut, Exit, Resolve, callers
<1>4. ASSUME NEW c \in Call,
             \/ Execute(c) \/ Expired(c) \/ Destroy(c) \/ Refused(c) \/ Terminate(c)
             \/ Terminated(c) \/ ContextDestroyed(c) \/ ServiceStopped(c)
      PROVE  OptionsAreLive'
  BY <1>4, StepsAside, OptionsKept
<1>5. ASSUME NEW c \in Call, Run(c) \/ RunInService(c)
      PROVE  OptionsAreLive'
  BY <1>5, OptionsTaken DEF Run, RunInService
<1>6. ASSUME NEW c \in Call, RunInContext(c) \/ Staged(c) \/ Drained(c)
      PROVE  OptionsAreLive'
  BY <1>6, OptionsKept DEF RunInContext, Staged, Drained
<1>7. ASSUME NEW c \in Call, EvaluatedInContext(c) \/ ServiceAnswers(c)
      PROVE  OptionsAreLive'
  BY <1>7, StepsBack, OptionsKept
<1> QED
  BY <1>1, <1>2, <1>3, <1>4, <1>5, <1>6, <1>7 DEF Next, Manager, Continue

LEMMA OutputNext ==
  TypeInv /\ ExecInv /\ PipeInv /\ GivenInv /\ WholeInv /\ OutputHasCause /\ [Next]_vars
    => OutputHasCause'
<1> SUFFICES ASSUME TypeInv, ExecInv, PipeInv, GivenInv, WholeInv, OutputHasCause, [Next]_vars
             PROVE  OutputHasCause'
  OBVIOUS
<1>1. CASE UNCHANGED vars
  BY <1>1, OutputKept DEF vars, record, interpreter, callers
<1>2. CASE \/ WorkspaceCreated \/ ContextCreated \/ ServiceStarted \/ InitFails \/ ServiceEnds
           \/ Take \/ ReadOn \/ PrintText \/ End \/ ReadText \/ DropText
  <2>1. UNCHANGED <<session, result, pc>> /\ started \subseteq started' /\ ended \subseteq ended'
    BY <1>2 DEF WorkspaceCreated, ContextCreated, ServiceStarted, InitFails, ServiceEnds, Take,
       ReadOn, PrintText, End, ReadText, DropText, record, interpreter, callers
  <2> QED
    BY <2>1, OutputKept
<1>3. CASE ReadDelimiter
  BY <1>3, OutputRead, OutputResolves DEF ReadDelimiter
<1>4. CASE ReadTimesOut
  BY <1>4, OutputResolves DEF ReadTimesOut
<1>5. CASE Exit
  <2>1. CASE reader = NoCall
    <3>1. UNCHANGED <<session, result, pc, started, ended>>
      BY <1>5, <2>1 DEF Exit, callers
    <3> QED
      BY <3>1, OutputKept
  <2> QED
    BY <1>5, <2>1, OutputResolves DEF Exit
<1>6. ASSUME NEW c \in Call,
             \/ Execute(c) \/ Expired(c) \/ Destroy(c) \/ Refused(c) \/ Terminate(c)
             \/ Terminated(c) \/ ContextDestroyed(c) \/ ServiceStopped(c)
      PROVE  OutputHasCause'
  <2>1. /\ UNCHANGED <<session, started, ended>>
        /\ pc[c] \in {"new", "waiting", "destroying", "terminating"}
        /\ result' = result \/ \E how \in {"error", "gone"} : Return(c, how, {})
    BY <1>6, StepsAside
  <2>2. \A d \in Call : pc[d] = "over" => pc'[d] = "over"
    BY <1>6, <2>1, StepsAside DEF TypeInv, CallsTyped
  <2> QED
    BY <2>1, <2>2, OutputKept, OutputOfNone
<1>7. ASSUME NEW c \in Call, Run(c) \/ RunInContext(c) \/ RunInService(c) \/ Staged(c)
      PROVE  OutputHasCause'
  <2>1. /\ UNCHANGED <<session, ended>> /\ pc[c] # "over"
        /\ Write(c) \/ WriteFails(c) \/ Evaluate(c)
           \/ (pc' = [pc EXCEPT ![c] = "staging"] /\ UNCHANGED <<result, started>>)
    BY <1>7, StepsToRun
  <2>2. CASE WriteFails(c)
    BY <2>1, <2>2, OutputOfNone DEF WriteFails
  <2>3. CASE \/ Write(c) \/ Evaluate(c)
             \/ (pc' = [pc EXCEPT ![c] = "staging"] /\ UNCHANGED <<result, started>>)
    <3>1. UNCHANGED result /\ started \subseteq started' /\ \E p : pc' = [pc EXCEPT ![c] = p]
      BY <2>3 DEF Write, Evaluate
    <3>2. \A d \in Call : pc[d] = "over" => pc'[d] = "over"
      BY <2>1, <3>1 DEF TypeInv, CallsTyped
    <3> QED
      BY <2>1, <3>1, <3>2, OutputKept
  <2> QED
    BY <2>1, <2>2, <2>3
<1>8. ASSUME NEW c \in Call, EvaluatedInContext(c) \/ ServiceAnswers(c)
      PROVE  OutputHasCause'
  <2>1. /\ UNCHANGED <<session, started>> /\ ended \subseteq ended'
        /\ pc[c] = "evaluating" /\ session.backend # "process" /\ Executes(c)
    BY <1>8, StepsBack DEF Executes, Executing
  <2>2. PICK how, read : /\ Return(c, how, read) /\ read \subseteq started \cup ended \cup {c}
                         /\ how = "delimiter" => c \in ended'
    BY <1>8, StepsBack
  <2>3. \A d \in Call : d # c /\ d \in read => d \in started /\ CameBack(d)
    BY <2>1, <2>2, OthersCameBack DEF PipeInv, StartedFirst
  <2>4. OutputFlowsForward'
    BY <2>1, <2>2, <2>3, OutputReturns DEF OutputHasCause
  <2>5. c \notin printed \ Large
    BY <2>1 DEF WholeInv
  <2>6. OwnOutputIsWhole'
    BY <2>1, <2>2, <2>5, OwnReturns DEF OutputHasCause
  <2> QED
    BY <2>4, <2>6 DEF OutputHasCause
<1>9. ASSUME NEW c \in Call, Drained(c)
      PROVE  OutputHasCause'
  <2>1. UNCHANGED <<session, result, started, ended>>
    BY <1>9 DEF Drained, record, interpreter
  <2>2. \A d \in Call : pc[d] = "over" => pc'[d] = "over"
    BY <1>9 DEF Drained, TypeInv, CallsTyped
  <2> QED
    BY <2>1, <2>2, OutputKept
<1> QED
  BY <1>1, <1>2, <1>3, <1>4, <1>5, <1>6, <1>7, <1>8, <1>9 DEF Next, Manager, Continue

LEMMA SessionInit == Init => SessionInv
<1> SUFFICES ASSUME Init PROVE SessionInv
  OBVIOUS
<1>1. \A c \in Call : /\ result[c].how = "none" /\ result[c].text = {}
                      /\ ran[c].options = Own(c)
  BY DEF Init, NoResult
<1>2. ResultsHaveCause
  BY <1>1 DEF ResultsHaveCause, OwnOutputIsWhole, OutputFlowsForward, OptionsAreLive
<1> QED
  BY <1>2, TypeInit, QueueInit, ExecInit, PipeInit, GivenInit, WholeInit DEF SessionInv

LEMMA SessionNext == SessionInv /\ [Next]_vars => SessionInv'
<1> SUFFICES ASSUME SessionInv, [Next]_vars PROVE SessionInv'
  OBVIOUS
<1>1. TypeInv /\ QueueInv /\ ExecInv /\ PipeInv /\ GivenInv /\ WholeInv
  BY DEF SessionInv
<1>2. OutputHasCause /\ OptionsAreLive
  BY DEF SessionInv, ResultsHaveCause, OutputHasCause
<1>3. TypeInv' /\ QueueInv' /\ ExecInv'
  BY <1>1, TypeNext, QueueNext, ExecNext DEF ExecInv
<1>4. PipeInv' /\ GivenInv' /\ WholeInv'
  BY <1>1, PipeNext, WholeNext
<1>5. OutputHasCause' /\ OptionsAreLive'
  BY <1>1, <1>2, OutputNext, OptionsNext
<1> QED
  BY <1>3, <1>4, <1>5 DEF SessionInv, ResultsHaveCause, OutputHasCause

(* What callers of a session are told has a cause, for any number of calls *)
(* in any order, on every backend, and whatever code leaves behind: a      *)
(* result that ends with a delimiter is that of the call's own code and    *)
(* lacks nothing the code printed before its end, unless it was printed    *)
(* while stdin drained; output in the result of another call comes from    *)
(* code whose own call had come back before, never in both directions; and *)
(* options that are not a call's own are those of one under way.           *)
THEOREM ResultsCause == Spec => []ResultsHaveCause
<1>1. SessionInv => ResultsHaveCause
  BY DEF SessionInv
<1> QED
  BY <1>1, SessionInit, SessionNext, PTL DEF Spec

(* A call that executes has the session for itself: whichever calls of     *)
(* execute and destroy come meanwhile, none other executes until it has    *)
(* returned, and the interpreter's output is read for it alone.            *)
THEOREM OneAtATime == Spec => [](OneExecutes /\ ReadersRead)
<1>1. SessionInv => OneExecutes /\ ReadersRead
  BY DEF SessionInv, ExecInv
<1> QED
  BY <1>1, SessionInit, SessionNext, PTL DEF Spec

=============================================================================
