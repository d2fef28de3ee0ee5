----------------------------- MODULE AgentEvents -----------------------------
(***************************************************************************)
(* Runs of agents that tell their caller what happens.  Every run takes    *)
(* the bus of its session, forwards the events of the bus to onEvent, and  *)
(* stops the forwarder when it ends; a run without a session id of its     *)
(* caller's owns its bus and destroys it.  onEvent feeds the server-sent   *)
(* events of an HTTP request, as in the agent server.  Observers iterate   *)
(* over agent.subscribe().                                                 *)
(*                                                                         *)
(* What a run does is reduced to the events it publishes.  Timers fire     *)
(* when no microtask is left, which is what the guard of Yielded says; the *)
(* forwarder works in microtasks only.                                     *)
(***************************************************************************)
EXTENDS Naturals, FiniteSets, SequencesExt

CONSTANTS
  Run, Observer,
  Scenario,   \* bound: pairs of the runs and observers there will be, and the
              \*   runs that are given one and the same session id
  Capacity,   \* eventBusCapacity
  MaxEvents,  \* bound: events of a run
  MaxFaults   \* bound: throwing onEvents and aborted requests

ASSUME RunAssumption ==
  /\ Scenario \subseteq (SUBSET (Run \cup Observer)) \X (SUBSET Run)
  /\ Run \cap Observer = {} /\ "shared" \notin Run
  /\ Capacity \in Nat \ {0} /\ {MaxEvents, MaxFaults} \subseteq Nat

Session == Run \cup {"shared"}

\* An event is the run that publishes it and its number; the last message to
\* a client has the number 0.
LastMessage(r) == <<r, 0>>

VARIABLES
  actors,     \* the runs and observers there will be
  shared,     \* the runs that are given the same session id; every other
              \*   run owns the bus of an id of its own
  registry, buses, destroyed, sub,  \* see EventBus
  pc,         \* what a run does; that of an observer: "idle", "getting", "on"
  bus,        \* the bus a run or an observer was given
  published,  \* number of events a run has published
  returning,  \* the forwarders whose iterator has been asked to return
  client,     \* what the client of a request was sent
  stream,     \* whether the client's stream is "open", "aborted" or "closed"
  told,       \* history: the events a run's onEvent was called with
  due,        \* history: those published for it until its run ended
  thrown,     \* the forwarders whose onEvent threw
  faults      \* bound

INSTANCE EventBus WITH Subscriber <- Run \cup Observer

plan == <<actors, shared>>
made == <<registry, buses, destroyed>>
eventBus == <<made, sub>>
requests == <<client, stream>>
history == <<told, due>>
vars == <<plan, eventBus, pc, bus, published, returning, requests, history, thrown, faults>>

SessionOf(r) == IF r \in shared THEN "shared" ELSE r

Init ==
  /\ \E s \in Scenario : actors = s[1] /\ shared = s[2]
  /\ BusInit
  /\ pc = [x \in Run \cup Observer |-> "idle"]
  /\ bus = [x \in Run \cup Observer |-> 0]
  /\ published = [r \in Run |-> 0]
  /\ returning = {} /\ thrown = {} /\ faults = 0
  /\ client = [r \in Run |-> <<>>] /\ stream = [r \in Run |-> "open"]
  /\ told = [r \in Run |-> <<>>] /\ due = [r \in Run |-> <<>>]

Goto(x, place) == pc' = [pc EXCEPT ![x] = place]
Fault == faults < MaxFaults /\ faults' = faults + 1

-----------------------------------------------------------------------------
(* A run.                                                                  *)

\* createSessionBus; the run goes on when the promise has resolved.
OpenBus(r) ==
  /\ r \in actors /\ pc[r] = "idle"
  /\ GetSessionEventBus(SessionOf(r))
  /\ bus' = [bus EXCEPT ![r] = BusOf(SessionOf(r))]
  /\ Goto(r, "opening")
  /\ UNCHANGED <<plan, destroyed, sub, published, returning, requests, history, thrown, faults>>

\* startOnEventForwarder subscribes and asks for the first event.
StartForwarder(r) ==
  /\ pc[r] = "opening"
  /\ sub' = [sub EXCEPT ![r] = Taking(Subscription(bus[r]))]
  /\ Goto(r, "running")
  /\ UNCHANGED <<plan, made, bus, published, returning, requests, history,
                 thrown, faults>>

\* The program emits an event.
Emit(r) ==
  /\ pc[r] = "running" /\ published[r] < MaxEvents
  /\ LET event == <<r, published[r] + 1>>
     IN  /\ Publish(bus[r], event)
         /\ due' = [q \in Run |->
              IF bus[q] = bus[r] /\ pc[q] \in {"running", "yielding"}
              THEN Append(due[q], event) ELSE due[q]]
  /\ published' = [published EXCEPT ![r] = @ + 1]
  /\ UNCHANGED <<plan, made, pc, bus, returning, requests, told, thrown, faults>>

\* The program succeeds or fails: the finally block of executeAgentProgram.
Finish(r) ==
  /\ pc[r] = "running"
  /\ Goto(r, "yielding")
  /\ UNCHANGED <<plan, eventBus, bus, published, returning, requests, history, thrown, faults>>

\* The timer of microtaskYieldMs: the forwarder has done what it could.  The
\* return() waits in the iterator behind the pending next(), unless onEvent
\* threw.
Yielded(r) ==
  /\ pc[r] = "yielding" /\ sub[r].hand = <<>>
  /\ returning' = returning \cup {r}
  /\ sub' = IF r \in thrown THEN [sub EXCEPT ![r] = Done(@)] ELSE sub
  /\ Goto(r, "stopping")
  /\ UNCHANGED <<plan, made, bus, published, requests, history, thrown, faults>>

\* Mutant of Stopped: the forwarder is waited for without a limit.
StoppedWhenDone(r) ==
  /\ pc[r] = "stopping" /\ sub[r].state = "done"
  /\ Goto(r, IF r \in shared THEN "ending" ELSE "destroying")
  /\ UNCHANGED <<plan, eventBus, bus, published, returning, requests, history, thrown, faults>>

\* The race of the forwarder's end against pollDelayMs, which may be over at
\* any time.
Stopped(r) ==
  /\ pc[r] = "stopping"
  /\ Goto(r, IF r \in shared THEN "ending" ELSE "destroying")
  /\ UNCHANGED <<plan, eventBus, bus, published, returning, requests, history, thrown, faults>>

\* destroySessionEventBus, by runs that own their bus.
DestroyBus(r) ==
  /\ pc[r] = "destroying"
  /\ IF registry[SessionOf(r)] = 0 THEN UNCHANGED eventBus
     ELSE Destroy(SessionOf(r), registry[SessionOf(r)])
  /\ Goto(r, "ending")
  /\ UNCHANGED <<plan, bus, published, returning, requests, history, thrown, faults>>

\* run() returns or throws: the handler sends the last message and the stream
\* is closed.
EndRequest(r) ==
  /\ pc[r] = "ending"
  /\ IF stream[r] = "open"
     THEN /\ client' = [client EXCEPT ![r] = Append(@, LastMessage(r))]
          /\ stream' = [stream EXCEPT ![r] = "closed"]
     ELSE UNCHANGED requests
  /\ Goto(r, "returned")
  /\ UNCHANGED <<plan, eventBus, bus, published, returning, history, thrown, faults>>

\* The client disconnects.
AbortRequest(r) ==
  /\ pc[r] \notin {"idle", "returned"} /\ stream[r] = "open" /\ Fault
  /\ stream' = [stream EXCEPT ![r] = "aborted"]
  /\ UNCHANGED <<plan, eventBus, pc, bus, published, returning, client, history, thrown>>

-----------------------------------------------------------------------------
(* The forwarder of a run.                                                 *)

\* send: nothing is sent once the stream is aborted, and enqueue fails when it
\* is closed, which is caught.
Send(r, event) ==
  /\ client' = IF stream[r] = "open" THEN [client EXCEPT ![r] = Append(@, event)] ELSE client
  /\ stream' = IF stream[r] = "closed" THEN [stream EXCEPT ![r] = "aborted"] ELSE stream

\* Mutant of AfterEvent: the iterator goes on although it should return.
AfterEventGoesOn(r) == Taking([sub[r] EXCEPT !.hand = <<>>])

\* After an event: the return() that was waiting, or the next next().
AfterEvent(r) ==
  IF r \in returning THEN Done(sub[r]) ELSE Taking([sub[r] EXCEPT !.hand = <<>>])

\* The iterator hands out an event and onEvent is called with it.
Forward(r) ==
  /\ sub[r].hand # <<>> /\ r \notin thrown
  /\ told' = [told EXCEPT ![r] = Append(@, sub[r].hand[1])]
  /\ Send(r, sub[r].hand[1])
  /\ sub' = [sub EXCEPT ![r] = AfterEvent(r)]
  /\ UNCHANGED <<plan, made, pc, bus, published, returning, due, thrown, faults>>

\* onEvent throws: the forwarder's task ends, its subscription stays.
ForwardThrows(r) ==
  /\ sub[r].hand # <<>> /\ r \notin thrown /\ Fault
  /\ thrown' = thrown \cup {r}
  /\ sub' = [sub EXCEPT ![r] = IF r \in returning THEN Done(@)
                               ELSE [@ EXCEPT !.hand = <<>>, !.state = "ready"]]
  /\ UNCHANGED <<plan, made, pc, bus, published, returning, requests, history>>

-----------------------------------------------------------------------------
(* Observers.                                                              *)

\* agent.subscribe with the id of a session, which its events tell.
Observe(o, r) ==
  /\ o \in actors /\ pc[o] = "idle" /\ published[r] > 0
  /\ GetSessionEventBus(SessionOf(r))
  /\ bus' = [bus EXCEPT ![o] = BusOf(SessionOf(r))]
  /\ Goto(o, "getting")
  /\ UNCHANGED <<plan, destroyed, sub, published, returning, requests, history, thrown, faults>>

Subscribe(o) ==
  /\ pc[o] = "getting"
  /\ sub' = [sub EXCEPT ![o] = Subscription(bus[o])]
  /\ Goto(o, "on")
  /\ UNCHANGED <<plan, made, bus, published, returning, requests, history,
                 thrown, faults>>

\* The observer asks for an event, and gets one.
AskNext(o) ==
  /\ sub[o].state \in {"fresh", "ready"}
  /\ sub' = [sub EXCEPT ![o] = Taking(@)]
  /\ UNCHANGED <<plan, made, pc, bus, published, returning, requests, history,
                 thrown, faults>>

GetNext(o) ==
  /\ sub[o].hand # <<>>
  /\ sub' = [sub EXCEPT ![o] = [@ EXCEPT !.hand = <<>>, !.state = "ready"]]
  /\ UNCHANGED <<plan, made, pc, bus, published, returning, requests, history,
                 thrown, faults>>

-----------------------------------------------------------------------------
RunStep(r) ==
  \/ OpenBus(r) \/ StartForwarder(r) \/ Finish(r) \/ Yielded(r) \/ Stopped(r)
  \/ DestroyBus(r) \/ EndRequest(r)

Next ==
  \/ \E r \in Run : \/ RunStep(r) \/ Emit(r) \/ AbortRequest(r)
                    \/ Forward(r) \/ ForwardThrows(r)
  \/ \E o \in Observer : \/ \E r \in Run : Observe(o, r)
                         \/ Subscribe(o) \/ AskNext(o) \/ GetNext(o)

\* Programs end, timers fire, promises settle, and observers go on asking.
Fairness ==
  /\ \A r \in Run : WF_vars(RunStep(r)) /\ WF_vars(Forward(r))
  /\ \A o \in Observer : WF_vars(Subscribe(o) \/ AskNext(o) \/ GetNext(o))

Spec == Init /\ [][Next]_vars /\ Fairness

-----------------------------------------------------------------------------
(* Buffers and iterators agree; the registry holds no destroyed bus.       *)
TypeOK ==
  /\ \A s \in Session : registry[s] \in (0..buses) \ destroyed
  /\ destroyed \subseteq 1..buses
  /\ \A x \in Run \cup Observer :
       /\ sub[x].state \in {"none", "fresh", "taking", "ready", "done"}
       /\ sub[x].bus \in {0, bus[x]} /\ bus[x] \in 0..buses
       /\ Len(sub[x].queue) <= Capacity /\ Len(sub[x].hand) <= 1
       /\ sub[x].hand # <<>> => sub[x].state = "taking"
       /\ Pending(sub[x]) => sub[x].queue = <<>>
       /\ sub[x].bus \in destroyed => sub[x].queue = <<>> /\ ~Pending(sub[x])
  /\ \A r \in Run : stream[r] = "closed" => pc[r] = "returned"

Stopping(r) == pc[r] \in {"stopping", "destroying", "ending", "returned"}

\* Of two events the first comes before the second.
Before(events, e, f) ==
  \E k, l \in DOMAIN events : k < l /\ events[k] = e /\ events[l] = f

(* Whatever the sliding buffer dropped, onEvent gets the newest events of  *)
(* the bus, as many as the buffer holds, before the run returns: among     *)
(* them the end of a session with no other run.  It gets them in order and *)
(* none twice, and what comes too late comes after them.                   *)
TailIsTold ==
  \A r \in Run : Stopping(r) /\ r \notin thrown =>
    /\ ToSet(LastN(due[r], Capacity)) \subseteq ToSet(told[r])
    /\ \A i, j \in DOMAIN told[r] :
         i < j /\ told[r][j] \in ToSet(due[r]) => Before(due[r], told[r][i], told[r][j])

(* Once a run has stopped its forwarder, onEvent is called at most once    *)
(* more, and only with an event of another run of the session.             *)
OneLateEvent ==
  \A r \in Run : Stopping(r) =>
    LET late == {i \in DOMAIN told[r] : told[r][i] \notin ToSet(due[r])}
    IN  (\A i, j \in late : i = j) /\ \A i \in late : told[r][i][1] # r

(* A client that stays gets the newest events before the last message, and *)
(* nothing after it.                                                       *)
StreamsEndOnce ==
  \A r \in Run : LastMessage(r) \in ToSet(client[r]) =>
    /\ Last(client[r]) = LastMessage(r)
    /\ r \notin thrown => ToSet(LastN(due[r], Capacity)) \subseteq ToSet(client[r])

(* Who observes a bus that its run owns learns that the run has ended, also *)
(* when they were given the bus just before it was destroyed.              *)
ObserversEnd ==
  \A o \in Observer, r \in Run :
    (r \notin shared /\ bus[o] # 0 /\ bus[o] = bus[r]) ~> sub[o].state = "done"

(* Every request gets its last message, unless its client has gone.        *)
RequestsEnd ==
  \A r \in Run :
    pc[r] # "idle" ~> LastMessage(r) \in ToSet(client[r]) \/ stream[r] = "aborted"

=============================================================================
