------------------------------ MODULE EventBus ------------------------------
(***************************************************************************)
(* The event bus of a session: a sliding buffer per subscription, the      *)
(* async iterators that read them, destruction, and the registry that      *)
(* gives every session id its bus.                                         *)
(*                                                                         *)
(* A subscription is a record: its bus, the state of its iterator, the     *)
(* event that a pending take was given (hand), and the events that wait in *)
(* the buffer (queue).  The iterator is an async generator: "fresh" before *)
(* its first next(), "taking" while it awaits Queue.take, "ready" between  *)
(* an event and the next next(), and "done".                               *)
(***************************************************************************)
EXTENDS Naturals, SequencesExt

CONSTANTS
  Subscriber,  \* those who may subscribe, each once
  Session,     \* session ids
  Capacity     \* eventBusCapacity, at least 1

VARIABLES
  registry,   \* sessionBusPromises: the number of a session's bus, or 0
  buses,      \* buses created
  destroyed,  \* buses destroyed
  sub         \* the subscription of every subscriber

NoSubscription == [bus |-> 0, state |-> "none", hand |-> <<>>, queue |-> <<>>]

BusInit ==
  /\ registry = [s \in Session |-> 0]
  /\ buses = 0 /\ destroyed = {}
  /\ sub = [x \in Subscriber |-> NoSubscription]

LastN(q, n) == SubSeq(q, (IF Len(q) > n THEN Len(q) - n ELSE 0) + 1, Len(q))

Done(x) == [x EXCEPT !.state = "done", !.hand = <<>>, !.queue = <<>>]

\* A take is pending: the next event completes it and is not buffered.
Pending(x) == x.state = "taking" /\ x.hand = <<>>

\* getSessionEventBus: the bus of session s, created if there is none.
BusOf(s) == IF registry[s] = 0 THEN buses + 1 ELSE registry[s]
GetSessionEventBus(s) ==
  /\ registry' = [registry EXCEPT ![s] = BusOf(s)]
  /\ buses' = IF registry[s] = 0 THEN buses + 1 ELSE buses

\* subscribe: a destroyed bus gives an iterator that has ended.
Subscription(b) ==
  LET x == [NoSubscription EXCEPT !.bus = b, !.state = "fresh"]
  IN  IF b \in destroyed THEN Done(x) ELSE x

\* next(): a take.  On a queue that is shut down it fails, which ends the
\* iterator.
Taking(x) ==
  IF x.bus \in destroyed THEN Done(x)
  ELSE IF x.queue = <<>> THEN [x EXCEPT !.state = "taking"]
  ELSE [x EXCEPT !.state = "taking", !.hand = <<Head(x.queue)>>, !.queue = Tail(@)]

\* Mutant of Offered: a full buffer refuses the event.
OfferedIfRoom(x, event) ==
  IF Pending(x) THEN [x EXCEPT !.hand = <<event>>]
  ELSE IF Len(x.queue) = Capacity THEN x
  ELSE [x EXCEPT !.queue = Append(@, event)]

\* What the PubSub does with an event for one subscription: when the buffer is
\* full the oldest event goes.
Offered(x, event) ==
  IF Pending(x) THEN [x EXCEPT !.hand = <<event>>]
  ELSE [x EXCEPT !.queue = LastN(Append(@, event), Capacity)]

Hears(x, b) == x.bus = b /\ x.state \in {"fresh", "taking", "ready"}

\* publish: nothing happens on a destroyed bus.
Publish(b, event) ==
  sub' = [x \in Subscriber |->
            IF b \notin destroyed /\ Hears(sub[x], b) THEN Offered(sub[x], event) ELSE sub[x]]

\* The scope of a subscription is closed and its queue shut down: a pending
\* take fails, an event already taken is still handed out.
Shut(x) == IF Pending(x) THEN Done(x) ELSE [x EXCEPT !.queue = <<>>]

\* Mutant of Destroy: the scopes of the subscriptions stay open.
DestroyLeavesScopes(s, b) ==
  /\ destroyed' = destroyed \cup {b}
  /\ registry' = IF registry[s] = b THEN [registry EXCEPT ![s] = 0] ELSE registry
  /\ UNCHANGED <<buses, sub>>

\* Mutant of Destroy: onDestroy is not called.
DestroyKeepsEntry(s, b) ==
  /\ destroyed' = destroyed \cup {b}
  /\ sub' = [x \in Subscriber |-> IF Hears(sub[x], b) THEN Shut(sub[x]) ELSE sub[x]]
  /\ UNCHANGED <<buses, registry>>

\* destroy of bus b, created for session s.
Destroy(s, b) ==
  /\ destroyed' = destroyed \cup {b}
  /\ registry' = IF registry[s] = b THEN [registry EXCEPT ![s] = 0] ELSE registry
  /\ sub' = [x \in Subscriber |-> IF Hears(sub[x], b) THEN Shut(sub[x]) ELSE sub[x]]
  /\ UNCHANGED buses

=============================================================================
