-------------------------- MODULE AgentEventsProof --------------------------
(***************************************************************************)
(* What the client of a request is sent before its last message, and what  *)
(* onEvent is told, in which order and how late: for any number of runs    *)
(* and observers, shared and owned buses, and any capacity of the buffers. *)
(***************************************************************************)
EXTENDS AgentEvents, SequenceTheorems, TLAPS

-----------------------------------------------------------------------------
(* Sequences.                                                              *)

LEMMA Appending ==
  ASSUME NEW S, NEW s \in Seq(S), NEW x \in S
  PROVE  /\ Append(s, x) \in Seq(S) /\ Len(s) \in Nat /\ Len(Append(s, x)) = Len(s) + 1
         /\ \A i \in 1..Len(s) : Append(s, x)[i] = s[i]
         /\ Append(s, x)[Len(s) + 1] = x
OBVIOUS

(* The elements of a sequence, by their positions.                         *)
LEMMA Elements ==
  ASSUME NEW S, NEW s \in Seq(S)
  PROVE  ToSet(s) = {s[i] : i \in 1..Len(s)}
BY DEF ToSet

LEMMA ElementsAppended ==
  ASSUME NEW S, NEW s \in Seq(S), NEW x \in S
  PROVE  ToSet(Append(s, x)) = ToSet(s) \cup {x}
<1>1. /\ ToSet(s) = {s[i] : i \in 1..Len(s)}
      /\ ToSet(Append(s, x)) = {Append(s, x)[i] : i \in 1..(Len(s) + 1)}
  <2>1. Append(s, x) \in Seq(S) /\ Len(Append(s, x)) = Len(s) + 1
    BY Appending
  <2> QED
    BY <2>1, Elements
<1>2. \A i \in 1..(Len(s) + 1) : i \in 1..Len(s) \/ i = Len(s) + 1
  BY Appending
<1>3. 1..Len(s) \subseteq 1..(Len(s) + 1) /\ Len(s) + 1 \in 1..(Len(s) + 1)
  BY Appending
<1> QED
  BY <1>1, <1>2, <1>3, Appending

(* The newest elements of a sequence, at most n.                           *)
Newest(s, n) == {s[i] : i \in {j \in 1..Len(s) : j > Len(s) - n}}

LEMMA LastNIs ==
  ASSUME NEW S, NEW s \in Seq(S), NEW n \in Nat
  PROVE  /\ LastN(s, n) \in Seq(S) /\ Len(LastN(s, n)) <= n
         /\ Len(s) <= n => LastN(s, n) = s
         /\ Len(s) > n => /\ Len(LastN(s, n)) = n
                          /\ \A i \in 1..n : LastN(s, n)[i] = s[Len(s) - n + i]
         /\ ToSet(LastN(s, n)) = Newest(s, n)
<1>a. Len(s) \in Nat /\ \A i \in 1..Len(s) : s[i] \in S
  OBVIOUS
<1>1. CASE Len(s) <= n
  <2>1. LastN(s, n) = s
    <3>1. (IF Len(s) > n THEN Len(s) - n ELSE 0) + 1 = 1
      BY <1>a, <1>1
    <3>2. LastN(s, n) = SubSeq(s, 1, Len(s))
      BY <3>1, Zenon DEF LastN
    <3> QED
      BY <3>2, SubSeqFull
  <2>2. {j \in 1..Len(s) : j > Len(s) - n} = 1..Len(s)
    BY <1>1
  <2> QED
    BY <1>1, <2>1, <2>2, Elements DEF Newest
<1>2. CASE Len(s) > n
  <2>1. LastN(s, n) = SubSeq(s, Len(s) - n + 1, Len(s))
    BY <1>2 DEF LastN
  <2>2. /\ LastN(s, n) \in Seq(S) /\ Len(LastN(s, n)) = n
        /\ \A i \in 1..n : LastN(s, n)[i] = s[Len(s) - n + i]
    BY <1>a, <1>2, <2>1
  <2>3. ToSet(LastN(s, n)) = {LastN(s, n)[i] : i \in 1..n}
    BY <2>2, Elements
  <2>4. \A i \in 1..n : Len(s) - n + i \in {j \in 1..Len(s) : j > Len(s) - n}
    BY <1>2
  <2>5. \A j \in 1..Len(s) : j > Len(s) - n => j - (Len(s) - n) \in 1..n /\ Len(s) - n + (j - (Len(s) - n)) = j
    BY <1>2
  <2>6. {LastN(s, n)[i] : i \in 1..n} = {s[i] : i \in {j \in 1..Len(s) : j > Len(s) - n}}
    <3>1. ASSUME NEW i \in 1..n
          PROVE  LastN(s, n)[i] \in {s[k] : k \in {j \in 1..Len(s) : j > Len(s) - n}}
      BY <2>2, <2>4
    <3>2. ASSUME NEW j \in 1..Len(s), j > Len(s) - n
          PROVE  s[j] \in {LastN(s, n)[i] : i \in 1..n}
      BY <2>2, <2>5, <3>2
    <3> QED
      BY <3>1, <3>2
  <2>7. ToSet(LastN(s, n)) = Newest(s, n)
    BY <2>3, <2>6 DEF Newest
  <2>8. ~(Len(s) <= n) /\ Len(LastN(s, n)) <= n
    BY <1>a, <1>2, <2>2
  <2> QED
    BY <2>2, <2>7, <2>8
<1> QED
  BY <1>1, <1>2

-----------------------------------------------------------------------------
(* Subscriptions.                                                          *)

Actor == Run \cup Observer
Event == Run \X (Nat \ {0})
SubscriptionType ==
  [bus : Nat, state : {"none", "fresh", "taking", "ready", "done"},
   hand : Seq(Event), queue : Seq(Event)]

(* The buffer keeps within its capacity, a take is only given one event,   *)
(* and it only waits when the buffer is empty.                             *)
Shape(x) ==
  /\ Len(x.queue) <= Capacity /\ Len(x.hand) <= 1
  /\ x.hand # <<>> => x.state = "taking"
  /\ x.state \in {"none", "done"} => x.queue = <<>>
  /\ Pending(x) => x.queue = <<>>

Quiet(x) == x.queue = <<>> /\ ~Pending(x)

LEMMA Nothing ==
  /\ <<>> \in Seq(Event) /\ Len(<<>>) = 0 /\ 0 <= Capacity /\ Capacity \in Nat \ {0}
  /\ \A e \in Event : <<e>> \in Seq(Event) /\ Len(<<e>>) = 1 /\ <<e>> # <<>> /\ <<e>>[1] = e
BY RunAssumption

LEMMA DoneShape ==
  ASSUME NEW x \in SubscriptionType
  PROVE  /\ Done(x) \in SubscriptionType /\ Shape(Done(x)) /\ Quiet(Done(x))
         /\ Done(x).bus = x.bus /\ Done(x).hand = <<>> /\ Done(x).queue = <<>>
         /\ Done(x).state = "done"
<1>1. /\ Done(x).bus = x.bus /\ Done(x).state = "done"
      /\ Done(x).hand = <<>> /\ Done(x).queue = <<>>
  BY DEF Done, SubscriptionType
<1>2. Done(x) \in SubscriptionType
  BY Nothing DEF Done, SubscriptionType
<1>3. Shape(Done(x)) /\ Quiet(Done(x))
  BY <1>1, Nothing DEF Shape, Quiet, Pending
<1> QED
  BY <1>1, <1>2, <1>3

LEMMA SubscriptionShape ==
  ASSUME NEW b \in Nat
  PROVE  /\ NoSubscription \in SubscriptionType /\ Shape(NoSubscription)
         /\ NoSubscription.bus = 0 /\ NoSubscription.hand = <<>> /\ Quiet(NoSubscription)
         /\ Subscription(b) \in SubscriptionType /\ Shape(Subscription(b))
         /\ Subscription(b).bus = b /\ Quiet(Subscription(b))
         /\ Subscription(b).hand = <<>> /\ Subscription(b).queue = <<>>
         /\ Subscription(b).state \in {"fresh", "done"}
         /\ b \notin destroyed => Subscription(b).state = "fresh"
<1>1. /\ NoSubscription \in SubscriptionType /\ Shape(NoSubscription)
      /\ NoSubscription.bus = 0 /\ NoSubscription.hand = <<>> /\ Quiet(NoSubscription)
  BY Nothing DEF NoSubscription, SubscriptionType, Shape, Quiet, Pending
<1> DEFINE x == [NoSubscription EXCEPT !.bus = b, !.state = "fresh"]
<1>2. x.bus = b /\ x.state = "fresh" /\ x.hand = <<>> /\ x.queue = <<>>
  BY DEF NoSubscription
<1>3. x \in SubscriptionType
  BY Nothing DEF NoSubscription, SubscriptionType
<1>4. Subscription(b) = IF b \in destroyed THEN Done(x) ELSE x
  BY DEF Subscription
<1> HIDE DEF x
<1>5. x \in SubscriptionType /\ Shape(x) /\ Quiet(x)
  BY <1>2, <1>3, Nothing DEF Shape, Quiet, Pending
<1> QED
  BY <1>1, <1>2, <1>4, <1>5, DoneShape

LEMMA TakingShape ==
  ASSUME NEW x \in SubscriptionType, Len(x.queue) <= Capacity, x.hand = <<>>
  PROVE  /\ Taking(x) \in SubscriptionType /\ Shape(Taking(x)) /\ Taking(x).bus = x.bus
         /\ x.bus \in destroyed => Quiet(Taking(x)) /\ Taking(x).hand = <<>>
         /\ x.bus \notin destroyed =>
              /\ Taking(x).state = "taking"
              /\ x.queue = <<>> => Taking(x).hand = <<>> /\ Taking(x).queue = <<>>
              /\ x.queue # <<>> => /\ Taking(x).hand = <<Head(x.queue)>>
                                   /\ Taking(x).queue = Tail(x.queue)
<1>1. CASE x.bus \in destroyed
  BY <1>1, DoneShape DEF Taking
<1>2. CASE x.bus \notin destroyed /\ x.queue = <<>>
  <2>1. Taking(x) = [x EXCEPT !.state = "taking"]
    BY <1>2 DEF Taking
  <2> QED
    BY <1>2, <2>1, Nothing DEF SubscriptionType, Shape, Pending
<1>3. CASE x.bus \notin destroyed /\ x.queue # <<>>
  <2>1. Taking(x) = [x EXCEPT !.state = "taking", !.hand = <<Head(x.queue)>>, !.queue = Tail(@)]
    BY <1>3 DEF Taking
  <2>2. /\ x.queue \in Seq(Event) /\ Head(x.queue) \in Event /\ Tail(x.queue) \in Seq(Event)
        /\ Len(x.queue) \in Nat /\ Len(Tail(x.queue)) = Len(x.queue) - 1
    BY <1>3 DEF SubscriptionType
  <2>3. /\ <<Head(x.queue)>> \in Seq(Event) /\ Len(<<Head(x.queue)>>) = 1
        /\ <<Head(x.queue)>> # <<>>
    BY <2>2, Nothing
  <2>4. Len(Tail(x.queue)) <= Capacity
    BY <2>2, Nothing
  <2>5. Taking(x) = [bus |-> x.bus, state |-> "taking", hand |-> <<Head(x.queue)>>,
                     queue |-> Tail(x.queue)]
    BY <2>1 DEF SubscriptionType
  <2>6. Taking(x) \in SubscriptionType
    BY <2>2, <2>3, <2>5 DEF SubscriptionType
  <2>7. Shape(Taking(x))
    BY <2>3, <2>4, <2>5 DEF Shape, Pending
  <2> QED
    BY <1>3, <2>5, <2>6, <2>7
<1> QED
  BY <1>1, <1>2, <1>3

LEMMA OfferedShape ==
  ASSUME NEW x \in SubscriptionType, Shape(x), NEW e \in Event,
         x.state \in {"fresh", "taking", "ready"}
  PROVE  /\ Offered(x, e) \in SubscriptionType /\ Shape(Offered(x, e))
         /\ Offered(x, e).bus = x.bus /\ Offered(x, e).state = x.state
         /\ Pending(x) => Offered(x, e).hand = <<e>> /\ Offered(x, e).queue = <<>>
         /\ ~Pending(x) => /\ Offered(x, e).hand = x.hand
                           /\ Offered(x, e).queue = LastN(Append(x.queue, e), Capacity)
<1>1. CASE Pending(x)
  <2>1. Offered(x, e) = [bus |-> x.bus, state |-> x.state, hand |-> <<e>>, queue |-> x.queue]
    BY <1>1 DEF Offered, SubscriptionType
  <2>2. x.queue = <<>> /\ x.state = "taking"
    BY <1>1 DEF Shape, Pending
  <2>3. Offered(x, e) \in SubscriptionType
    BY <2>1, Nothing DEF SubscriptionType
  <2>4. Shape(Offered(x, e))
    BY <2>1, <2>2, Nothing DEF Shape, Pending
  <2> QED
    BY <1>1, <2>1, <2>2, <2>3, <2>4
<1>2. CASE ~Pending(x)
  <2>1. Offered(x, e) = [x EXCEPT !.queue = LastN(Append(@, e), Capacity)]
    BY <1>2 DEF Offered
  <2>2. x.queue \in Seq(Event) /\ Append(x.queue, e) \in Seq(Event)
    BY DEF SubscriptionType
  <2>3. LastN(Append(x.queue, e), Capacity) \in Seq(Event) /\ Len(LastN(Append(x.queue, e), Capacity)) <= Capacity
    <3>1. Capacity \in Nat
      BY Nothing
    <3> QED
      BY <2>2, <3>1, LastNIs
  <2> QED
    BY <1>2, <2>1, <2>3 DEF SubscriptionType, Shape, Pending
<1> QED
  BY <1>1, <1>2

LEMMA ShutShape ==
  ASSUME NEW x \in SubscriptionType, Shape(x)
  PROVE  /\ Shut(x) \in SubscriptionType /\ Shape(Shut(x)) /\ Shut(x).bus = x.bus
         /\ Quiet(Shut(x))
<1>1. CASE Pending(x)
  BY <1>1, DoneShape DEF Shut
<1>2. CASE ~Pending(x)
  BY <1>2, Nothing DEF Shut, SubscriptionType, Shape, Quiet, Pending
<1> QED
  BY <1>1, <1>2

-----------------------------------------------------------------------------
(* Types.                                                                  *)

Place == {"idle", "opening", "running", "yielding", "stopping", "destroying", "ending", "returned",
          "getting", "on"}

BusesTyped ==
  /\ registry \in [Session -> Nat] /\ buses \in Nat /\ destroyed \subseteq 1..buses
  /\ \A s \in Session : registry[s] <= buses /\ registry[s] \notin destroyed
  /\ \A s, t \in Session : registry[s] = registry[t] /\ registry[s] # 0 => s = t

ActorsTyped ==
  /\ shared \subseteq Run
  /\ pc \in [Actor -> Place] /\ bus \in [Actor -> Nat]
  /\ sub \in [Actor -> SubscriptionType]
  /\ published \in [Run -> Nat]

RequestsTyped ==
  /\ client \in [Run -> Seq(Run \X Nat)]
  /\ told \in [Run -> Seq(Event)] /\ due \in [Run -> Seq(Event)]
  /\ stream \in [Run -> {"open", "aborted", "closed"}]
  /\ \A r \in Run : stream[r] = "closed" => pc[r] = "returned"

SubscriptionsFit ==
  \A x \in Actor :
    /\ Shape(sub[x]) /\ sub[x].bus \in {0, bus[x]} /\ bus[x] <= buses
    /\ sub[x].bus \in destroyed => Quiet(sub[x])
    /\ pc[x] \in {"idle", "opening", "getting"} =>
         sub[x].bus = 0 /\ sub[x].state = "none" /\ sub[x].hand = <<>>

TypeInv == BusesTyped /\ ActorsTyped /\ RequestsTyped /\ SubscriptionsFit

LEMMA Sessions == \A r \in Run : SessionOf(r) \in Session /\ r \in Actor
BY DEF SessionOf, Session, Actor

LEMMA TypeInit == Init => TypeInv
<1> SUFFICES ASSUME Init PROVE TypeInv
  OBVIOUS
<1>1. PICK s \in Scenario : actors = s[1] /\ shared = s[2]
  BY DEF Init
<1>2. shared \subseteq Run
  BY <1>1, RunAssumption
<1>3. NoSubscription \in SubscriptionType /\ Shape(NoSubscription) /\ NoSubscription.bus = 0
      /\ NoSubscription.hand = <<>> /\ NoSubscription.state = "none" /\ Quiet(NoSubscription)
  <2>1. 0 \in Nat
    OBVIOUS
  <2> QED
    BY <2>1, SubscriptionShape DEF NoSubscription
<1>4. BusesTyped
  BY DEF Init, BusInit, BusesTyped
<1>5. ActorsTyped
  BY <1>2, <1>3 DEF Init, BusInit, ActorsTyped, Actor, Place
<1>6. RequestsTyped
  BY DEF Init, RequestsTyped
<1>7. SubscriptionsFit
  BY <1>3 DEF Init, BusInit, SubscriptionsFit, Actor
<1> QED
  BY <1>4, <1>5, <1>6, <1>7 DEF TypeInv

(* An actor goes from one place to another.                                *)
LEMMA Going ==
  ASSUME TypeInv, NEW x \in Actor, NEW p \in Place, Goto(x, p)
  PROVE  /\ pc' \in [Actor -> Place] /\ pc'[x] = p
         /\ \A y \in Actor : y # x => pc'[y] = pc[y]
BY DEF Goto, TypeInv, ActorsTyped

(* One subscription changes, on the bus that it has.                       *)
LEMMA Moves ==
  ASSUME TypeInv, NEW x \in Actor, NEW s \in SubscriptionType,
         sub' = [sub EXCEPT ![x] = s],
         Shape(s), s.bus = sub[x].bus, s.bus \in destroyed => Quiet(s),
         pc[x] \notin {"idle", "opening", "getting"},
         \A y \in Actor : pc'[y] \in {"idle", "opening", "getting"} => pc'[y] = pc[y],
         UNCHANGED <<made, bus>>
  PROVE  SubscriptionsFit' /\ sub' \in [Actor -> SubscriptionType] /\ BusesTyped'
<1>1. sub' \in [Actor -> SubscriptionType] /\ sub'[x] = s /\ \A y \in Actor : y # x => sub'[y] = sub[y]
  BY DEF TypeInv, ActorsTyped
<1>2. BusesTyped'
  BY DEF TypeInv, BusesTyped, made
<1>3. SubscriptionsFit'
  <2> SUFFICES ASSUME NEW y \in Actor
               PROVE  /\ Shape(sub'[y]) /\ sub'[y].bus \in {0, bus[y]} /\ bus[y] <= buses
                      /\ sub'[y].bus \in destroyed => Quiet(sub'[y])
                      /\ pc'[y] \in {"idle", "opening", "getting"} =>
                           sub'[y].bus = 0 /\ sub'[y].state = "none" /\ sub'[y].hand = <<>>
    BY DEF SubscriptionsFit, made, Shape, Quiet, Pending
  <2>1. CASE y = x
    BY <1>1, <2>1 DEF TypeInv, SubscriptionsFit
  <2>2. CASE y # x
    BY <1>1, <2>2 DEF TypeInv, SubscriptionsFit
  <2> QED
    BY <2>1, <2>2
<1> QED
  BY <1>1, <1>2, <1>3

(* An actor that has no subscription yet gets the bus of a session.        *)
LEMMA TypeGets ==
  ASSUME TypeInv, NEW x \in Actor, NEW s \in Session, NEW p \in {"opening", "getting"},
         pc[x] = "idle", GetSessionEventBus(s), bus' = [bus EXCEPT ![x] = BusOf(s)],
         Goto(x, p), UNCHANGED <<shared, destroyed, sub, published, client, stream, told, due>>
  PROVE  TypeInv' /\ BusOf(s) \in Nat /\ BusOf(s) \notin destroyed /\ registry'[s] = BusOf(s)
                  /\ \A t \in Session : registry[t] # 0 => registry'[t] = registry[t]
<1>a. /\ pc' \in [Actor -> Place] /\ pc'[x] = p /\ \A y \in Actor : y # x => pc'[y] = pc[y]
  BY Going DEF Place
<1>b. /\ registry \in [Session -> Nat] /\ buses \in Nat /\ destroyed \subseteq 1..buses
      /\ \A t \in Session : registry[t] <= buses /\ registry[t] \notin destroyed
  BY DEF TypeInv, BusesTyped
<1>c. /\ BusOf(s) = IF registry[s] = 0 THEN buses + 1 ELSE registry[s]
      /\ registry' = [registry EXCEPT ![s] = BusOf(s)]
      /\ buses' = IF registry[s] = 0 THEN buses + 1 ELSE buses
  BY DEF GetSessionEventBus, BusOf
<1>d. BusOf(s) \in Nat /\ BusOf(s) <= buses' /\ buses' \in Nat /\ buses <= buses' /\ BusOf(s) \notin destroyed
  BY <1>b, <1>c
<1>e. registry' \in [Session -> Nat] /\ registry'[s] = BusOf(s) /\ \A t \in Session : t # s => registry'[t] = registry[t]
  BY <1>b, <1>c, <1>d
<1>1. BusesTyped'
  <2>1. registry' \in [Session -> Nat] /\ buses' \in Nat /\ destroyed' \subseteq 1..buses'
    BY <1>b, <1>d, <1>e
  <2>2. \A t \in Session : registry'[t] <= buses' /\ registry'[t] \notin destroyed'
    BY <1>b, <1>d, <1>e
  <2>3. \A t \in Session : t # s => registry'[t] # BusOf(s) \/ registry'[t] = 0
    BY <1>b, <1>c, <1>e DEF TypeInv, BusesTyped
  <2>4. \A t, u \in Session : registry'[t] = registry'[u] /\ registry'[t] # 0 => t = u
    <3> SUFFICES ASSUME NEW t \in Session, NEW u \in Session, registry'[t] = registry'[u],
                        registry'[t] # 0, t # u
                 PROVE  FALSE
      OBVIOUS
    <3>1. t # s /\ u # s
      BY <1>e, <2>3
    <3> QED
      BY <1>e, <3>1 DEF TypeInv, BusesTyped
  <2> QED
    BY <2>1, <2>2, <2>4 DEF BusesTyped
<1>2. ActorsTyped'
  BY <1>a, <1>d DEF TypeInv, ActorsTyped
<1>3. RequestsTyped'
  BY <1>a DEF TypeInv, RequestsTyped, Actor
<1>4. SubscriptionsFit'
  <2> SUFFICES ASSUME NEW y \in Actor
               PROVE  /\ Shape(sub[y]) /\ sub[y].bus \in {0, bus'[y]} /\ bus'[y] <= buses'
                      /\ sub[y].bus \in destroyed => Quiet(sub[y])
                      /\ pc'[y] \in {"idle", "opening", "getting"} =>
                           sub[y].bus = 0 /\ sub[y].state = "none" /\ sub[y].hand = <<>>
    BY DEF SubscriptionsFit, Shape, Quiet, Pending
  <2>1. CASE y = x
    BY <1>a, <1>d, <2>1 DEF TypeInv, SubscriptionsFit, ActorsTyped
  <2>2. CASE y # x
    BY <1>a, <1>b, <1>d, <2>2 DEF TypeInv, SubscriptionsFit, ActorsTyped
  <2> QED
    BY <2>1, <2>2
<1>5. \A t \in Session : registry[t] # 0 => registry'[t] = registry[t]
  BY <1>c, <1>e
<1> QED
  BY <1>1, <1>2, <1>3, <1>4, <1>5, <1>d, <1>e DEF TypeInv

(* It subscribes.                                                          *)
LEMMA TypeSubscribes ==
  ASSUME TypeInv, NEW x \in Actor, NEW p \in {"running", "on"}, pc[x] \in {"opening", "getting"},
         NEW s \in SubscriptionType, sub' = [sub EXCEPT ![x] = s], Shape(s), s.bus = bus[x],
         s.bus \in destroyed => Quiet(s),
         Goto(x, p), UNCHANGED <<shared, made, bus, published, client, stream, told, due>>
  PROVE  TypeInv'
<1>a. /\ pc' \in [Actor -> Place] /\ pc'[x] = p /\ \A y \in Actor : y # x => pc'[y] = pc[y]
  BY Going DEF Place
<1>b. sub' \in [Actor -> SubscriptionType] /\ sub'[x] = s /\ \A y \in Actor : y # x => sub'[y] = sub[y]
  BY DEF TypeInv, ActorsTyped
<1>1. BusesTyped'
  BY DEF TypeInv, BusesTyped, made
<1>2. ActorsTyped'
  BY <1>a, <1>b DEF TypeInv, ActorsTyped
<1>3. RequestsTyped'
  BY <1>a DEF TypeInv, RequestsTyped, Actor
<1>4. SubscriptionsFit'
  <2> SUFFICES ASSUME NEW y \in Actor
               PROVE  /\ Shape(sub'[y]) /\ sub'[y].bus \in {0, bus[y]} /\ bus[y] <= buses
                      /\ sub'[y].bus \in destroyed => Quiet(sub'[y])
                      /\ pc'[y] \in {"idle", "opening", "getting"} =>
                           sub'[y].bus = 0 /\ sub'[y].state = "none" /\ sub'[y].hand = <<>>
    BY DEF SubscriptionsFit, made, Shape, Quiet, Pending
  <2>1. CASE y = x
    BY <1>a, <1>b, <2>1 DEF TypeInv, SubscriptionsFit
  <2>2. CASE y # x
    BY <1>a, <1>b, <2>2 DEF TypeInv, SubscriptionsFit
  <2> QED
    BY <2>1, <2>2
<1> QED
  BY <1>1, <1>2, <1>3, <1>4 DEF TypeInv

(* An event is published: every subscription to the bus is offered it.     *)
LEMMA PublishOffers ==
  ASSUME TypeInv, NEW b, NEW e \in Event, Publish(b, e)
  PROVE  /\ sub' \in [Actor -> SubscriptionType]
         /\ \A x \in Actor :
              /\ Shape(sub'[x]) /\ sub'[x].bus = sub[x].bus /\ sub'[x].state = sub[x].state
              /\ sub[x].bus \in destroyed => sub'[x] = sub[x]
              /\ sub'[x] # sub[x] => Hears(sub[x], b)
              /\ sub'[x] = IF b \notin destroyed /\ Hears(sub[x], b) THEN Offered(sub[x], e) ELSE sub[x]
<1>1. sub' = [x \in Actor |-> IF b \notin destroyed /\ Hears(sub[x], b) THEN Offered(sub[x], e) ELSE sub[x]]
  BY DEF Publish, Actor
<1>2. \A x \in Actor : sub[x] \in SubscriptionType /\ Shape(sub[x])
  BY DEF TypeInv, ActorsTyped, SubscriptionsFit
<1>3. ASSUME NEW x \in Actor
      PROVE  /\ sub'[x] \in SubscriptionType
             /\ Shape(sub'[x]) /\ sub'[x].bus = sub[x].bus /\ sub'[x].state = sub[x].state
             /\ sub[x].bus \in destroyed => sub'[x] = sub[x]
             /\ sub'[x] # sub[x] => Hears(sub[x], b)
             /\ sub'[x] = IF b \notin destroyed /\ Hears(sub[x], b) THEN Offered(sub[x], e) ELSE sub[x]
  <2>1. CASE b \notin destroyed /\ Hears(sub[x], b)
    <3>1. sub'[x] = Offered(sub[x], e) /\ sub[x].bus = b /\ sub[x].state \in {"fresh", "taking", "ready"}
      BY <1>1, <2>1 DEF Hears
    <3> QED
      BY <1>2, <2>1, <3>1, OfferedShape
  <2>2. CASE ~(b \notin destroyed /\ Hears(sub[x], b))
    BY <1>1, <1>2, <2>2
  <2> QED
    BY <2>1, <2>2
<1> QED
  BY <1>1, <1>3

(* A bus is destroyed.                                                     *)
LEMMA TypeDestroys ==
  ASSUME TypeInv, NEW s \in Session, registry[s] # 0, Destroy(s, registry[s]), UNCHANGED bus,
         \A y \in Actor : pc'[y] \in {"idle", "opening", "getting"} => pc'[y] = pc[y]
  PROVE  /\ BusesTyped' /\ SubscriptionsFit' /\ sub' \in [Actor -> SubscriptionType]
         /\ \A t \in Session : t # s => registry'[t] = registry[t]
         /\ \A x \in Actor : ~Hears(sub[x], registry[s]) => sub'[x] = sub[x]
<1> DEFINE b == registry[s]
<1>a. /\ registry \in [Session -> Nat] /\ buses \in Nat /\ destroyed \subseteq 1..buses
      /\ \A t \in Session : registry[t] <= buses /\ registry[t] \notin destroyed
      /\ \A t, u \in Session : registry[t] = registry[u] /\ registry[t] # 0 => t = u
  BY DEF TypeInv, BusesTyped
<1>b. /\ destroyed' = destroyed \cup {b} /\ registry' = [registry EXCEPT ![s] = 0] /\ buses' = buses
      /\ sub' = [x \in Actor |-> IF Hears(sub[x], b) THEN Shut(sub[x]) ELSE sub[x]]
  BY DEF Destroy, Actor
<1>c. b \in Nat /\ b # 0 /\ b <= buses
  BY <1>a
<1>d. registry' \in [Session -> Nat] /\ registry'[s] = 0 /\ \A t \in Session : t # s => registry'[t] = registry[t]
  BY <1>a, <1>b
<1> HIDE DEF b
<1>1. BusesTyped'
  <2>1. registry' \in [Session -> Nat] /\ buses' \in Nat /\ destroyed' \subseteq 1..buses'
    BY <1>a, <1>b, <1>c, <1>d
  <2>2. ASSUME NEW t \in Session
        PROVE  registry'[t] <= buses' /\ registry'[t] \notin destroyed'
    <3>1. CASE t = s
      BY <1>a, <1>b, <1>c, <1>d, <3>1
    <3>2. CASE t # s
      <4>1. registry[t] # b
        BY <1>a, <1>c, <3>2 DEF b
      <4> QED
        BY <1>a, <1>b, <1>d, <3>2, <4>1
    <3> QED
      BY <3>1, <3>2
  <2>3. \A t, u \in Session : registry'[t] = registry'[u] /\ registry'[t] # 0 => t = u
    BY <1>a, <1>d
  <2> QED
    BY <2>1, <2>2, <2>3 DEF BusesTyped
<1>2. ASSUME NEW x \in Actor
      PROVE  /\ sub'[x] \in SubscriptionType /\ Shape(sub'[x]) /\ sub'[x].bus = sub[x].bus
             /\ sub'[x].bus \in destroyed' => Quiet(sub'[x])
             /\ ~Hears(sub[x], b) => sub'[x] = sub[x]
  <2>1. sub[x] \in SubscriptionType /\ Shape(sub[x]) /\ (sub[x].bus \in destroyed => Quiet(sub[x]))
    BY DEF TypeInv, ActorsTyped, SubscriptionsFit
  <2>2. CASE Hears(sub[x], b)
    <3>1. sub'[x] = Shut(sub[x])
      BY <1>b, <2>2
    <3> QED
      BY <2>1, <2>2, <3>1, ShutShape
  <2>3. CASE ~Hears(sub[x], b)
    <3>1. sub'[x] = sub[x]
      BY <1>b, <2>3
    <3>2. sub[x].bus = b => Quiet(sub[x])
      BY <2>1, <2>3 DEF Hears, Quiet, Shape, Pending, SubscriptionType
    <3> QED
      BY <1>b, <2>1, <3>1, <3>2
  <2> QED
    BY <2>2, <2>3
<1>3. sub' \in [Actor -> SubscriptionType]
  BY <1>b, <1>2
<1>4. SubscriptionsFit'
  <2> SUFFICES ASSUME NEW y \in Actor
               PROVE  /\ Shape(sub'[y]) /\ sub'[y].bus \in {0, bus'[y]} /\ bus'[y] <= buses'
                      /\ sub'[y].bus \in destroyed' => Quiet(sub'[y])
                      /\ pc'[y] \in {"idle", "opening", "getting"} =>
                           sub'[y].bus = 0 /\ sub'[y].state = "none" /\ sub'[y].hand = <<>>
    BY DEF SubscriptionsFit, Shape, Quiet, Pending
  <2>1. sub[y].state = "none" => ~Hears(sub[y], b)
    BY DEF Hears
  <2> QED
    BY <1>b, <1>2, <2>1 DEF TypeInv, SubscriptionsFit
<1> QED
  BY <1>1, <1>2, <1>3, <1>4, <1>d DEF b

(* The events that wait are in the types.                                  *)
LEMMA HandTyped ==
  ASSUME TypeInv, NEW x \in Actor
  PROVE  /\ sub[x] \in SubscriptionType /\ sub[x].hand \in Seq(Event) /\ Shape(sub[x])
         /\ sub[x].bus \in destroyed => Quiet(sub[x])
         /\ sub[x].hand # <<>> => sub[x].hand[1] \in Event /\ sub[x].hand[1] \in Run \X Nat
                                  /\ sub[x].state = "taking" /\ pc[x] \notin {"idle", "opening", "getting"}
                                  /\ ToSet(sub[x].hand) = {sub[x].hand[1]}
<1>1. /\ sub[x] \in SubscriptionType /\ sub[x].hand \in Seq(Event) /\ Shape(sub[x])
      /\ sub[x].bus \in destroyed => Quiet(sub[x])
  BY DEF TypeInv, ActorsTyped, SubscriptionsFit, SubscriptionType
<1>2. CASE sub[x].hand # <<>>
  <2>1. Len(sub[x].hand) = 1
    <3>1. Len(sub[x].hand) \in Nat /\ Len(sub[x].hand) # 0
      BY <1>1, <1>2, EmptySeq
    <3>2. Len(sub[x].hand) <= 1
      BY <1>1 DEF Shape
    <3>3. \A n \in Nat : n # 0 /\ n <= 1 => n = 1
      OBVIOUS
    <3> QED
      BY <3>1, <3>2, <3>3, Zenon
  <2>2. sub[x].hand[1] \in Event
    BY <1>1, <2>1
  <2>3. ToSet(sub[x].hand) = {sub[x].hand[1]}
    <3>1. ToSet(sub[x].hand) = {sub[x].hand[i] : i \in 1..1}
      BY <1>1, <2>1, Elements
    <3>2. \A i : i \in 1..1 <=> i = 1
      OBVIOUS
    <3> QED
      BY <3>1, <3>2
  <2> QED
    BY <1>1, <1>2, <2>2, <2>3 DEF Event, Shape, TypeInv, SubscriptionsFit
<1> QED
  BY <1>1, <1>2

(* After a next() or a return().                                           *)
LEMMA TakesAgain ==
  ASSUME TypeInv, NEW x \in Actor, NEW h, h = [sub[x] EXCEPT !.hand = <<>>]
  PROVE  /\ h \in SubscriptionType /\ h.bus = sub[x].bus /\ h.hand = <<>> /\ h.queue = sub[x].queue
         /\ sub[x].state \in {"taking", "fresh", "ready"} =>
              /\ Taking(h) \in SubscriptionType /\ Shape(Taking(h)) /\ Taking(h).bus = sub[x].bus
              /\ sub[x].bus \in destroyed => Quiet(Taking(h))
              /\ sub[x].bus \notin destroyed =>
                   /\ Taking(h).state = "taking"
                   /\ sub[x].queue = <<>> => Taking(h).hand = <<>> /\ Taking(h).queue = <<>>
                   /\ sub[x].queue # <<>> => /\ Taking(h).hand = <<Head(sub[x].queue)>>
                                             /\ Taking(h).queue = Tail(sub[x].queue)
<1>1. sub[x] \in SubscriptionType /\ Shape(sub[x])
  BY HandTyped
<1>2. /\ h \in SubscriptionType /\ h.bus = sub[x].bus /\ h.hand = <<>> /\ h.queue = sub[x].queue
      /\ h.state = sub[x].state
  BY <1>1, Nothing DEF SubscriptionType
<1>3. Len(h.queue) <= Capacity
  BY <1>1, <1>2 DEF Shape
<1> QED
  BY <1>2, <1>3, TakingShape

(* What was sent is typed, and stays so.                                   *)
LEMMA Sending ==
  ASSUME TypeInv, NEW r \in Run, NEW e \in Run \X Nat, Send(r, e)
  PROVE  /\ client' \in [Run -> Seq(Run \X Nat)]
         /\ stream' \in [Run -> {"open", "aborted", "closed"}]
         /\ \A q \in Run : stream'[q] = "closed" => stream[q] = "closed"
         /\ \A q \in Run : q # r => client'[q] = client[q] /\ stream'[q] = stream[q]
         /\ stream[r] = "open" => client'[r] = Append(client[r], e) /\ stream'[r] = "open"
         /\ stream[r] # "open" => client'[r] = client[r] /\ stream'[r] # "open"
BY DEF Send, TypeInv, RequestsTyped

LEMMA TypeNext == TypeInv /\ [Next]_vars => TypeInv'
<1> SUFFICES ASSUME TypeInv, [Next]_vars PROVE TypeInv'
  OBVIOUS
<1>1. CASE UNCHANGED vars
  <2>1. BusesTyped'
    BY <1>1 DEF vars, eventBus, made, TypeInv, BusesTyped
  <2>2. ActorsTyped' /\ RequestsTyped'
    BY <1>1 DEF vars, eventBus, plan, requests, history, TypeInv, ActorsTyped, RequestsTyped
  <2>3. SubscriptionsFit'
    BY <1>1 DEF vars, eventBus, made, TypeInv, SubscriptionsFit, Shape, Quiet, Pending
  <2> QED
    BY <2>1, <2>2, <2>3 DEF TypeInv
<1>2. ASSUME NEW r \in Run, OpenBus(r)
      PROVE  TypeInv'
  BY <1>2, Sessions, TypeGets DEF OpenBus, plan, requests, history
<1>3. ASSUME NEW o \in Observer, NEW r \in Run, Observe(o, r)
      PROVE  TypeInv'
  BY <1>3, Sessions, TypeGets DEF Observe, plan, requests, history, Actor
<1>4. ASSUME NEW r \in Run, StartForwarder(r)
      PROVE  TypeInv'
  <2>1. bus[r] \in Nat /\ r \in Actor
    BY DEF TypeInv, ActorsTyped, Actor
  <2>2. Len(Subscription(bus[r]).queue) <= Capacity
    BY <2>1, SubscriptionShape DEF Shape
  <2>3. /\ Taking(Subscription(bus[r])) \in SubscriptionType /\ Shape(Taking(Subscription(bus[r])))
        /\ Taking(Subscription(bus[r])).bus = bus[r]
        /\ bus[r] \in destroyed => Quiet(Taking(Subscription(bus[r])))
    BY <2>1, <2>2, SubscriptionShape, TakingShape
  <2> QED
    BY <1>4, <2>1, <2>3, TypeSubscribes DEF StartForwarder, plan, requests, history
<1>5. ASSUME NEW o \in Observer, Subscribe(o)
      PROVE  TypeInv'
  <2>1. bus[o] \in Nat /\ o \in Actor
    BY DEF TypeInv, ActorsTyped, Actor
  <2> QED
    BY <1>5, <2>1, SubscriptionShape, TypeSubscribes DEF Subscribe, plan, requests, history
<1>6. ASSUME NEW r \in Run, Emit(r)
      PROVE  TypeInv'
  <2> DEFINE e == <<r, published[r] + 1>>
  <2>1. e \in Event /\ r \in Actor
    BY DEF TypeInv, ActorsTyped, Event, Actor
  <2>2. /\ Publish(bus[r], e)
        /\ UNCHANGED <<shared, made, pc, bus, client, stream, told>>
        /\ published' = [published EXCEPT ![r] = @ + 1]
        /\ \A q \in Run : due'[q] = due[q] \/ due'[q] = Append(due[q], e)
        /\ due' = [q \in Run |-> due'[q]]
    BY <1>6 DEF Emit, plan, requests
  <2> HIDE DEF e
  <2>3. /\ sub' \in [Actor -> SubscriptionType]
        /\ \A x \in Actor : /\ Shape(sub'[x]) /\ sub'[x].bus = sub[x].bus
                            /\ sub[x].bus \in destroyed => sub'[x] = sub[x]
                            /\ sub[x].state = "none" => sub'[x] = sub[x]
    BY <2>1, <2>2, PublishOffers DEF Hears
  <2>4. BusesTyped'
    BY <2>2 DEF made, TypeInv, BusesTyped
  <2>5. ActorsTyped'
    BY <2>2, <2>3 DEF TypeInv, ActorsTyped
  <2>6. RequestsTyped'
    <3>1. \A q \in Run : due'[q] \in Seq(Event)
      <4>1. \A q \in Run : due[q] \in Seq(Event) /\ Append(due[q], e) \in Seq(Event)
        BY <2>1, Appending DEF TypeInv, RequestsTyped
      <4> QED
        BY <2>2, <4>1
    <3>2. due' \in [Run -> Seq(Event)]
      BY <2>2, <3>1
    <3> QED
      BY <2>2, <3>2 DEF TypeInv, RequestsTyped
  <2>7. SubscriptionsFit'
    <3> SUFFICES ASSUME NEW y \in Actor
                 PROVE  /\ Shape(sub'[y]) /\ sub'[y].bus \in {0, bus'[y]} /\ bus'[y] <= buses'
                        /\ sub'[y].bus \in destroyed' => Quiet(sub'[y])
                        /\ pc'[y] \in {"idle", "opening", "getting"} =>
                             sub'[y].bus = 0 /\ sub'[y].state = "none" /\ sub'[y].hand = <<>>
      BY DEF SubscriptionsFit, Shape, Quiet, Pending
    <3> QED
      BY <2>2, <2>3 DEF made, TypeInv, SubscriptionsFit
  <2> QED
    BY <2>4, <2>5, <2>6, <2>7 DEF TypeInv
<1>7. ASSUME NEW r \in Run, Finish(r) \/ Stopped(r) \/ EndRequest(r) \/ AbortRequest(r)
      PROVE  TypeInv'
  <2>1. /\ UNCHANGED <<shared, made, sub, bus, published, told, due>>
        /\ pc' \in [Actor -> Place]
        /\ \A y \in Actor : pc'[y] \in {"idle", "opening", "getting"} => pc'[y] = pc[y]
        /\ \A q \in Run : pc[q] = "returned" => pc'[q] = "returned"
    BY <1>7 DEF Finish, Stopped, EndRequest, AbortRequest, Goto, plan, eventBus, history, TypeInv,
       ActorsTyped, Place, Actor
  <2>2. BusesTyped' /\ ActorsTyped'
    BY <2>1 DEF made, TypeInv, BusesTyped, ActorsTyped
  <2>3. RequestsTyped'
    <3>1. CASE UNCHANGED requests
      BY <2>1, <3>1 DEF requests, TypeInv, RequestsTyped
    <3>2. CASE /\ EndRequest(r)
               /\ client' = [client EXCEPT ![r] = Append(@, LastMessage(r))]
               /\ stream' = [stream EXCEPT ![r] = "closed"]
      <4>1. LastMessage(r) \in Run \X Nat /\ pc'[r] = "returned"
        BY <3>2 DEF LastMessage, EndRequest, Goto, TypeInv, ActorsTyped, Actor
      <4> QED
        BY <2>1, <3>2, <4>1 DEF TypeInv, RequestsTyped
    <3>3. CASE AbortRequest(r)
      BY <2>1, <3>3 DEF AbortRequest, TypeInv, RequestsTyped
    <3> QED
      BY <1>7, <3>1, <3>2, <3>3 DEF Finish, Stopped, EndRequest
  <2>4. SubscriptionsFit'
    BY <2>1 DEF made, TypeInv, SubscriptionsFit, Shape, Quiet, Pending
  <2> QED
    BY <2>2, <2>3, <2>4 DEF TypeInv
<1>8. ASSUME NEW r \in Run, Yielded(r)
      PROVE  TypeInv'
  <2>1. r \in Actor /\ "stopping" \in Place /\ Goto(r, "stopping") /\ pc[r] = "yielding"
        /\ UNCHANGED <<shared, made, bus, published, client, stream, told, due>>
    BY <1>8 DEF Yielded, Actor, Place, plan, requests, history
  <2>2. /\ pc' \in [Actor -> Place]
        /\ \A y \in Actor : pc'[y] \in {"idle", "opening", "getting"} => pc'[y] = pc[y]
        /\ \A q \in Run : pc[q] = "returned" => pc'[q] = "returned"
    BY <2>1, Going DEF Actor
  <2>3. PICK s \in SubscriptionType : /\ sub' = [sub EXCEPT ![r] = s] /\ Shape(s)
                                     /\ s.bus = sub[r].bus /\ (s.bus \in destroyed => Quiet(s))
    <3>1. sub[r] \in SubscriptionType /\ Shape(sub[r]) /\ (sub[r].bus \in destroyed => Quiet(sub[r]))
      BY <2>1, HandTyped
    <3>2. CASE r \in thrown
      BY <1>8, <3>1, <3>2, DoneShape DEF Yielded
    <3>3. CASE r \notin thrown
      <4>1. sub' = [sub EXCEPT ![r] = sub[r]]
        BY <1>8, <3>3 DEF Yielded, TypeInv, ActorsTyped
      <4> QED
        BY <3>1, <4>1
    <3> QED
      BY <3>2, <3>3
  <2>4. SubscriptionsFit' /\ sub' \in [Actor -> SubscriptionType] /\ BusesTyped'
    BY <2>1, <2>2, <2>3, Moves
  <2>5. ActorsTyped' /\ RequestsTyped'
    BY <2>1, <2>2, <2>4 DEF TypeInv, ActorsTyped, RequestsTyped
  <2> QED
    BY <2>4, <2>5 DEF TypeInv
<1>9. ASSUME NEW r \in Run, DestroyBus(r)
      PROVE  TypeInv'
  <2>1. r \in Actor /\ "ending" \in Place /\ Goto(r, "ending") /\ pc[r] = "destroying"
        /\ UNCHANGED <<shared, bus, published, client, stream, told, due>>
    BY <1>9 DEF DestroyBus, Actor, Place, plan, requests, history
  <2>2. /\ pc' \in [Actor -> Place]
        /\ \A y \in Actor : pc'[y] \in {"idle", "opening", "getting"} => pc'[y] = pc[y]
        /\ \A q \in Run : pc[q] = "returned" => pc'[q] = "returned"
    BY <2>1, Going DEF Actor
  <2>3. BusesTyped' /\ SubscriptionsFit' /\ sub' \in [Actor -> SubscriptionType]
    <3>1. CASE UNCHANGED eventBus
      BY <2>1, <2>2, <3>1 DEF eventBus, made, TypeInv, BusesTyped, ActorsTyped, SubscriptionsFit, Shape,
         Quiet, Pending
    <3>2. CASE registry[SessionOf(r)] # 0 /\ Destroy(SessionOf(r), registry[SessionOf(r)])
      BY <2>1, <2>2, <3>2, Sessions, TypeDestroys
    <3> QED
      BY <1>9, <3>1, <3>2 DEF DestroyBus
  <2>4. ActorsTyped' /\ RequestsTyped'
    BY <2>1, <2>2, <2>3 DEF TypeInv, ActorsTyped, RequestsTyped
  <2> QED
    BY <2>3, <2>4 DEF TypeInv
<1>10. ASSUME NEW r \in Run, Forward(r) \/ ForwardThrows(r)
       PROVE  TypeInv'
  <2>1. r \in Actor /\ UNCHANGED <<shared, made, pc, bus, published, due>> /\ sub[r].hand # <<>>
    BY <1>10 DEF Forward, ForwardThrows, plan, requests, history, Actor
  <2>2. sub[r].hand[1] \in Event /\ sub[r].hand[1] \in Run \X Nat /\ sub[r].state = "taking"
        /\ sub[r] \in SubscriptionType /\ pc[r] \notin {"idle", "opening", "getting"}
        /\ Shape(sub[r]) /\ (sub[r].bus \in destroyed => Quiet(sub[r]))
    BY <2>1, HandTyped
  <2>3. PICK s \in SubscriptionType : /\ sub' = [sub EXCEPT ![r] = s] /\ Shape(s)
                                     /\ s.bus = sub[r].bus /\ (s.bus \in destroyed => Quiet(s))
    <3>1. CASE sub' = [sub EXCEPT ![r] = Done(sub[r])]
      BY <2>2, <3>1, DoneShape
    <3>2. CASE sub' = [sub EXCEPT ![r] = Taking([sub[r] EXCEPT !.hand = <<>>])]
      <4>1. PICK h : h = [sub[r] EXCEPT !.hand = <<>>]
        OBVIOUS
      <4> QED
        BY <2>1, <2>2, <3>2, <4>1, TakesAgain
    <3>3. CASE sub' = [sub EXCEPT ![r] = [sub[r] EXCEPT !.hand = <<>>, !.state = "ready"]]
      <4>1. PICK h : h = [sub[r] EXCEPT !.hand = <<>>, !.state = "ready"]
        OBVIOUS
      <4>2. /\ h \in SubscriptionType /\ h.bus = sub[r].bus /\ h.hand = <<>> /\ h.queue = sub[r].queue
            /\ h.state = "ready"
        BY <2>2, <4>1, Nothing DEF SubscriptionType
      <4>3. Shape(h) /\ (h.bus \in destroyed => Quiet(h))
        BY <2>2, <4>2, Nothing DEF Shape, Quiet, Pending
      <4> QED
        BY <3>3, <4>1, <4>2, <4>3
    <3> QED
      BY <1>10, <3>1, <3>2, <3>3 DEF Forward, AfterEvent, ForwardThrows
  <2>4. SubscriptionsFit' /\ sub' \in [Actor -> SubscriptionType] /\ BusesTyped'
    BY <2>1, <2>2, <2>3, Moves
  <2>5. ActorsTyped'
    BY <2>1, <2>4 DEF TypeInv, ActorsTyped
  <2>6. RequestsTyped'
    <3>1. CASE Forward(r)
      <4>1. told' \in [Run -> Seq(Event)]
        BY <2>2, <3>1 DEF Forward, TypeInv, RequestsTyped
      <4>2. Send(r, sub[r].hand[1])
        BY <3>1 DEF Forward
      <4> QED
        BY <2>1, <2>2, <4>1, <4>2, Sending DEF TypeInv, RequestsTyped
    <3>2. CASE ForwardThrows(r)
      BY <2>1, <3>2 DEF ForwardThrows, requests, history, TypeInv, RequestsTyped
    <3> QED
      BY <1>10, <3>1, <3>2
  <2> QED
    BY <2>4, <2>5, <2>6 DEF TypeInv
<1>11. ASSUME NEW o \in Observer, AskNext(o) \/ GetNext(o)
       PROVE  TypeInv'
  <2>1. o \in Actor /\ UNCHANGED <<shared, made, pc, bus, published, client, stream, told, due>>
    BY <1>11 DEF AskNext, GetNext, plan, requests, history, Actor
  <2>2. sub[o] \in SubscriptionType /\ Shape(sub[o]) /\ (sub[o].bus \in destroyed => Quiet(sub[o]))
    BY <2>1, HandTyped
  <2>3. pc[o] \notin {"idle", "opening", "getting"}
    BY <1>11, <2>1 DEF AskNext, GetNext, TypeInv, SubscriptionsFit
  <2>4. PICK s \in SubscriptionType : /\ sub' = [sub EXCEPT ![o] = s] /\ Shape(s)
                                     /\ s.bus = sub[o].bus /\ (s.bus \in destroyed => Quiet(s))
    <3>1. CASE AskNext(o)
      <4>1. sub[o].hand = <<>> /\ Len(sub[o].queue) <= Capacity
        BY <2>2, <3>1 DEF AskNext, Shape
      <4>2. sub' = [sub EXCEPT ![o] = Taking(sub[o])]
        BY <3>1 DEF AskNext
      <4> QED
        BY <2>2, <4>1, <4>2, TakingShape
    <3>2. CASE GetNext(o)
      <4>1. PICK h : h = [sub[o] EXCEPT !.hand = <<>>, !.state = "ready"]
        OBVIOUS
      <4>2. /\ h \in SubscriptionType /\ h.bus = sub[o].bus /\ h.hand = <<>> /\ h.queue = sub[o].queue
            /\ h.state = "ready"
        BY <2>2, <4>1, Nothing DEF SubscriptionType
      <4>3. Shape(h) /\ (h.bus \in destroyed => Quiet(h))
        BY <2>2, <4>2, Nothing DEF Shape, Quiet, Pending
      <4> QED
        BY <3>2, <4>1, <4>2, <4>3 DEF GetNext
    <3> QED
      BY <1>11, <3>1, <3>2
  <2>5. SubscriptionsFit' /\ sub' \in [Actor -> SubscriptionType] /\ BusesTyped'
    BY <2>1, <2>3, <2>4, Moves
  <2>6. ActorsTyped' /\ RequestsTyped'
    BY <2>1, <2>5 DEF TypeInv, ActorsTyped, RequestsTyped
  <2> QED
    BY <2>5, <2>6 DEF TypeInv
<1> QED
  BY <1>1, <1>2, <1>3, <1>4, <1>5, <1>6, <1>7, <1>8, <1>9, <1>10, <1>11 DEF Next, RunStep

(* Every state of the buses, runs and requests is well-typed: buffers keep *)
(* within their capacity, no session has a destroyed bus, and a bus that   *)
(* was destroyed leaves no subscription waiting.                           *)
THEOREM TypeCorrect == Spec => []TypeOK
<1>1. TypeInv => TypeOK
  <2> SUFFICES ASSUME TypeInv PROVE TypeOK
    OBVIOUS
  <2>1. \A s \in Session : registry[s] \in (0..buses) \ destroyed
    BY DEF TypeInv, BusesTyped
  <2>2. ASSUME NEW x \in Actor
        PROVE  /\ sub[x].state \in {"none", "fresh", "taking", "ready", "done"}
               /\ sub[x].bus \in {0, bus[x]} /\ bus[x] \in 0..buses
               /\ Len(sub[x].queue) <= Capacity /\ Len(sub[x].hand) <= 1
               /\ sub[x].hand # <<>> => sub[x].state = "taking"
               /\ Pending(sub[x]) => sub[x].queue = <<>>
               /\ sub[x].bus \in destroyed => sub[x].queue = <<>> /\ ~Pending(sub[x])
    <3>1. sub[x] \in SubscriptionType /\ bus[x] \in Nat /\ bus[x] <= buses /\ buses \in Nat
      BY DEF TypeInv, ActorsTyped, SubscriptionsFit, BusesTyped
    <3>2. sub[x].state \in {"none", "fresh", "taking", "ready", "done"} /\ bus[x] \in 0..buses
      BY <3>1 DEF SubscriptionType
    <3> QED
      BY <3>2 DEF TypeInv, SubscriptionsFit, Shape, Quiet
  <2> QED
    BY <2>1, <2>2 DEF TypeOK, TypeInv, BusesTyped, RequestsTyped, Actor
<1> QED
  BY <1>1, TypeInit, TypeNext, PTL DEF Spec

-----------------------------------------------------------------------------
(* What the buffer keeps.                                                  *)

(* The newest elements of a sequence, as many as a buffer holds.           *)
Recent(s) == Newest(s, Capacity)

EndOf(q, s) == Len(q) <= Len(s) /\ \A i \in 1..Len(q) : q[i] = s[Len(s) - Len(q) + i]

LEMMA RecentIsLast ==
  ASSUME NEW S, NEW s \in Seq(S)
  PROVE  ToSet(LastN(s, Capacity)) = Recent(s)
<1>1. Capacity \in Nat
  BY Nothing
<1> QED
  BY <1>1, LastNIs DEF Recent

LEMMA RecentAppended ==
  ASSUME NEW s \in Seq(Event), NEW e \in Event
  PROVE  Recent(Append(s, e)) \subseteq Recent(s) \cup {e}
<1> SUFFICES ASSUME NEW i \in 1..Len(Append(s, e)), i > Len(Append(s, e)) - Capacity
             PROVE  Append(s, e)[i] \in Recent(s) \cup {e}
  BY DEF Recent, Newest
<1>1. /\ Len(s) \in Nat /\ Len(Append(s, e)) = Len(s) + 1 /\ Append(s, e)[Len(s) + 1] = e
      /\ \A k \in 1..Len(s) : Append(s, e)[k] = s[k]
  BY Appending
<1>2. CASE i = Len(s) + 1
  BY <1>1, <1>2
<1>3. CASE i # Len(s) + 1
  <2>1. i \in 1..Len(s) /\ i > Len(s) - Capacity
    BY <1>1, <1>3, Nothing
  <2> QED
    BY <1>1, <2>1 DEF Recent, Newest
<1> QED
  BY <1>2, <1>3

(* Two sequences of which one ends the other, and an event after each.     *)
LEMMA EndAppended ==
  ASSUME NEW q \in Seq(Event), NEW d \in Seq(Event), NEW e \in Event, EndOf(q, d)
  PROVE  EndOf(Append(q, e), Append(d, e))
<1>1. PICK a \in Seq(Event) : a = Append(q, e)
  BY Appending
<1>2. PICK c \in Seq(Event) : c = Append(d, e)
  BY Appending
<1>3. /\ Len(q) \in Nat /\ Len(a) = Len(q) + 1 /\ a[Len(q) + 1] = e
      /\ \A k \in 1..Len(q) : a[k] = q[k]
  BY <1>1, Appending
<1>4. /\ Len(d) \in Nat /\ Len(c) = Len(d) + 1 /\ c[Len(d) + 1] = e
      /\ \A k \in 1..Len(d) : c[k] = d[k]
  BY <1>2, Appending
<1>5. Len(q) <= Len(d) /\ \A i \in 1..Len(q) : q[i] = d[Len(d) - Len(q) + i]
  BY DEF EndOf
<1>6. ASSUME NEW i \in 1..(Len(q) + 1)
      PROVE  a[i] = c[Len(c) - Len(a) + i]
  <2>1. CASE i = Len(q) + 1
    BY <1>3, <1>4, <2>1
  <2>2. CASE i # Len(q) + 1
    <3>1. i \in 1..Len(q) /\ Len(d) - Len(q) + i \in 1..Len(d)
          /\ Len(c) - Len(a) + i = Len(d) - Len(q) + i
      BY <1>3, <1>4, <1>5, <2>2
    <3> QED
      BY <1>3, <1>4, <1>5, <3>1
  <2> QED
    BY <2>1, <2>2
<1>7. Len(a) <= Len(c)
  BY <1>3, <1>4, <1>5
<1>8. EndOf(a, c)
  BY <1>3, <1>6, <1>7 DEF EndOf
<1> QED
  BY <1>1, <1>2, <1>8

(* The end of a sequence holds its newest elements when it is as long as   *)
(* the buffer.                                                             *)
LEMMA FullEnd ==
  ASSUME NEW q \in Seq(Event), NEW d \in Seq(Event), EndOf(q, d), Len(q) = Capacity
  PROVE  Recent(d) \subseteq ToSet(q)
<1>1. Len(q) \in Nat /\ Len(d) \in Nat /\ ToSet(q) = {q[i] : i \in 1..Len(q)}
  BY Elements
<1>2. Len(q) <= Len(d) /\ \A i \in 1..Len(q) : q[i] = d[Len(d) - Len(q) + i]
  BY DEF EndOf
<1> SUFFICES ASSUME NEW i \in 1..Len(d), i > Len(d) - Len(q)
             PROVE  d[i] \in ToSet(q)
  BY DEF Recent, Newest
<1>3. i - (Len(d) - Len(q)) \in 1..Len(q) /\ Len(d) - Len(q) + (i - (Len(d) - Len(q))) = i
  BY <1>1
<1>4. PICK k \in 1..Len(q) : Len(d) - Len(q) + k = i
  BY <1>3
<1> QED
  BY <1>1, <1>2, <1>4

(* So do the last elements of an end that is longer.                       *)
LEMMA LastEnds ==
  ASSUME NEW a \in Seq(Event), NEW d \in Seq(Event), EndOf(a, d), Len(a) > Capacity
  PROVE  /\ EndOf(LastN(a, Capacity), d) /\ LastN(a, Capacity) \in Seq(Event)
         /\ Len(LastN(a, Capacity)) = Capacity
<1>a. Capacity \in Nat
  BY Nothing
<1>1. PICK q : q = LastN(a, Capacity)
  OBVIOUS
<1>2. q \in Seq(Event) /\ Len(q) = Capacity /\ \A i \in 1..Capacity : q[i] = a[Len(a) - Capacity + i]
  <2>1. /\ LastN(a, Capacity) \in Seq(Event) /\ Len(LastN(a, Capacity)) = Capacity
        /\ \A i \in 1..Capacity : LastN(a, Capacity)[i] = a[Len(a) - Capacity + i]
    BY <1>a, LastNIs
  <2> QED
    BY <1>1, <2>1
<1>3. Len(a) \in Nat /\ Len(d) \in Nat
      /\ Len(a) <= Len(d) /\ \A i \in 1..Len(a) : a[i] = d[Len(d) - Len(a) + i]
  BY DEF EndOf
<1>4. ASSUME NEW i \in 1..Capacity
      PROVE  q[i] = d[Len(d) - Capacity + i]
  <2>1. /\ Len(a) - Capacity + i \in 1..Len(a)
        /\ Len(d) - Len(a) + (Len(a) - Capacity + i) = Len(d) - Capacity + i
    BY <1>a, <1>3
  <2> QED
    BY <1>2, <1>3, <2>1
<1>5. EndOf(q, d)
  BY <1>a, <1>2, <1>3, <1>4 DEF EndOf
<1> QED
  BY <1>1, <1>2, <1>5

(* An event that is offered leaves the newest events told, in hand or in   *)
(* the buffer: when one is dropped the whole buffer is newer.              *)
LEMMA OfferedTail ==
  ASSUME NEW x \in SubscriptionType, Shape(x), x.state = "taking", NEW e \in Event,
         NEW d \in Seq(Event), NEW T, EndOf(x.queue, d),
         Recent(d) \subseteq T \cup ToSet(x.hand) \cup ToSet(x.queue),
         NEW y, y = Offered(x, e)
  PROVE  /\ EndOf(y.queue, Append(d, e))
         /\ Recent(Append(d, e)) \subseteq T \cup ToSet(y.hand) \cup ToSet(y.queue)
<1>a. /\ Pending(x) => y.hand = <<e>> /\ y.queue = <<>>
      /\ ~Pending(x) => y.hand = x.hand /\ y.queue = LastN(Append(x.queue, e), Capacity)
  BY OfferedShape
<1>b. x.queue \in Seq(Event) /\ Append(x.queue, e) \in Seq(Event) /\ Append(d, e) \in Seq(Event)
  BY Appending DEF SubscriptionType
<1>c. Recent(Append(d, e)) \subseteq Recent(d) \cup {e}
  BY RecentAppended
<1>d. EndOf(Append(x.queue, e), Append(d, e))
  BY <1>b, EndAppended
<1>1. CASE Pending(x)
  <2>1. x.hand = <<>> /\ x.queue = <<>>
    BY <1>1 DEF Pending, Shape
  <2>2. ToSet(x.hand) = {} /\ ToSet(x.queue) = {}
    BY <2>1 DEF ToSet
  <2>3. y.hand = <<e>> /\ y.queue = <<>> /\ e \in ToSet(y.hand)
    BY <1>1, <1>a DEF ToSet
  <2>4. EndOf(<<>>, Append(d, e))
    <3>1. Len(<<>>) = 0 /\ Len(Append(d, e)) \in Nat
      BY <1>b
    <3> QED
      BY <3>1 DEF EndOf
  <2> QED
    BY <1>c, <2>2, <2>3, <2>4
<1>2. CASE ~Pending(x) /\ Len(Append(x.queue, e)) <= Capacity
  <2>1. y.queue = Append(x.queue, e) /\ y.hand = x.hand
    <3>1. Capacity \in Nat
      BY Nothing
    <3>2. LastN(Append(x.queue, e), Capacity) = Append(x.queue, e)
      BY <1>2, <1>b, <3>1, LastNIs
    <3> QED
      BY <1>2, <1>a, <3>2
  <2>2. ToSet(y.queue) = ToSet(x.queue) \cup {e}
    BY <1>b, <2>1, ElementsAppended
  <2> QED
    BY <1>c, <1>d, <2>1, <2>2
<1>3. CASE ~Pending(x) /\ Len(Append(x.queue, e)) > Capacity
  <2>1. y.queue \in Seq(Event) /\ Len(y.queue) = Capacity /\ EndOf(y.queue, Append(d, e))
    BY <1>3, <1>a, <1>b, <1>d, LastEnds
  <2>2. Recent(Append(d, e)) \subseteq ToSet(y.queue)
    BY <1>b, <2>1, FullEnd
  <2> QED
    BY <2>1, <2>2
<1>4. Len(Append(x.queue, e)) <= Capacity \/ Len(Append(x.queue, e)) > Capacity
  BY <1>b, Nothing
<1> QED
  BY <1>1, <1>2, <1>3, <1>4

(* What is left when the oldest element is taken.                          *)
LEMMA TailEnds ==
  ASSUME NEW q \in Seq(Event), q # <<>>, NEW d \in Seq(Event), EndOf(q, d)
  PROVE  EndOf(Tail(q), d) /\ ToSet(q) \subseteq {Head(q)} \cup ToSet(Tail(q))
<1>0. Tail(q) \in Seq(Event)
  OBVIOUS
<1>1. PICK t \in Seq(Event) : t = Tail(q)
  BY <1>0
<1>2. /\ Len(q) \in Nat /\ Len(q) >= 1 /\ Len(t) = Len(q) - 1 /\ Head(q) = q[1]
      /\ \A i \in 1..(Len(q) - 1) : t[i] = q[i + 1]
  BY <1>1
<1>3. Len(d) \in Nat /\ Len(q) <= Len(d) /\ \A i \in 1..Len(q) : q[i] = d[Len(d) - Len(q) + i]
  BY DEF EndOf
<1>4. ASSUME NEW i \in 1..Len(t)
      PROVE  t[i] = d[Len(d) - Len(t) + i]
  <2>1. i + 1 \in 1..Len(q) /\ Len(d) - Len(q) + (i + 1) = Len(d) - Len(t) + i /\ i \in 1..(Len(q) - 1)
    BY <1>2, <1>3
  <2> QED
    BY <1>2, <1>3, <2>1
<1>5. EndOf(t, d)
  BY <1>2, <1>3, <1>4 DEF EndOf
<1>6. ToSet(q) \subseteq {q[1]} \cup ToSet(t)
  <2>1. ToSet(q) = {q[i] : i \in 1..Len(q)} /\ ToSet(t) = {t[i] : i \in 1..Len(t)}
    BY Elements
  <2>2. ASSUME NEW i \in 1..Len(q), i # 1
        PROVE  q[i] \in ToSet(t)
    <3>1. i - 1 \in 1..(Len(q) - 1) /\ (i - 1) + 1 = i /\ Len(t) = Len(q) - 1
      BY <1>2, <2>2
    <3>2. t[i - 1] = q[i]
      BY <1>2, <3>1
    <3> QED
      BY <2>1, <3>1, <3>2
  <2> QED
    BY <2>1, <2>2
<1> QED
  BY <1>1, <1>2, <1>5, <1>6

(* An event that is handed out was the oldest that waited.                 *)
LEMMA TakenTail ==
  ASSUME TypeInv, NEW r \in Run, sub[r].hand # <<>>, sub[r].bus \notin destroyed,
         NEW h, h = [sub[r] EXCEPT !.hand = <<>>],
         NEW d \in Seq(Event), NEW T, EndOf(sub[r].queue, d),
         Recent(d) \subseteq T \cup ToSet(sub[r].hand) \cup ToSet(sub[r].queue)
  PROVE  /\ EndOf(Taking(h).queue, d)
         /\ Recent(d) \subseteq
              (T \cup {sub[r].hand[1]}) \cup ToSet(Taking(h).hand) \cup ToSet(Taking(h).queue)
<1>1. PICK q : q = sub[r].queue
  OBVIOUS
<1>2. r \in Actor /\ q \in Seq(Event) /\ sub[r].state = "taking" /\ ToSet(sub[r].hand) = {sub[r].hand[1]}
  <2>1. r \in Actor
    BY Sessions
  <2>2. sub[r] \in SubscriptionType /\ sub[r].state = "taking" /\ ToSet(sub[r].hand) = {sub[r].hand[1]}
    BY <2>1, HandTyped
  <2> QED
    BY <1>1, <2>1, <2>2 DEF SubscriptionType
<1>3. /\ q = <<>> => Taking(h).hand = <<>> /\ Taking(h).queue = <<>>
      /\ q # <<>> => Taking(h).hand = <<Head(q)>> /\ Taking(h).queue = Tail(q)
  BY <1>1, <1>2, TakesAgain
<1>4. CASE q = <<>>
  <2>1. ToSet(q) = {}
    BY <1>4 DEF ToSet
  <2> QED
    BY <1>1, <1>2, <1>3, <1>4, <2>1
<1>5. CASE q # <<>>
  <2>1. EndOf(Tail(q), d) /\ ToSet(q) \subseteq {Head(q)} \cup ToSet(Tail(q))
    BY <1>1, <1>2, <1>5, TailEnds
  <2>2. Head(q) \in ToSet(<<Head(q)>>)
    BY DEF ToSet
  <2> QED
    BY <1>1, <1>2, <1>3, <1>5, <2>1, <2>2
<1> QED
  BY <1>4, <1>5


-----------------------------------------------------------------------------
(* What a run has done for its client.                                     *)

\* A run that has not stopped has the bus that its session has.
OwnsBus(r) ==
  pc[r] \in {"opening", "running", "yielding"} => registry[SessionOf(r)] = bus[r] /\ bus[r] # 0

NotYet(r) ==
  /\ pc[r] \in {"idle", "opening", "running", "yielding"} => r \notin returning
  /\ pc[r] \in {"idle", "opening"} => due[r] = <<>>
  /\ pc[r] = "destroying" => r \notin shared

\* While a run lives, the newest events are told, in hand or in the buffer.
Forwards(r) ==
  pc[r] \in {"running", "yielding"} =>
    /\ sub[r].bus = bus[r]
    /\ r \notin thrown =>
         /\ sub[r].state = "taking" /\ EndOf(sub[r].queue, due[r])
         /\ Recent(due[r]) \subseteq ToSet(told[r]) \cup ToSet(sub[r].hand) \cup ToSet(sub[r].queue)

Heard(r) == Stopping(r) /\ r \notin thrown => Recent(due[r]) \subseteq ToSet(told[r])

\* What was told was sent while the stream was open.
Sent(r) ==
  /\ stream[r] = "open" =>
       ToSet(told[r]) \subseteq ToSet(client[r]) /\ LastMessage(r) \notin ToSet(client[r])
  /\ LastMessage(r) \in ToSet(client[r]) =>
       /\ stream[r] # "open" /\ pc[r] = "returned" /\ client[r][Len(client[r])] = LastMessage(r)
       /\ r \notin thrown => Recent(due[r]) \subseteq ToSet(client[r])

EndsWell(r) == OwnsBus(r) /\ NotYet(r) /\ Forwards(r) /\ Heard(r) /\ Sent(r)

EndsInv == \A r \in Run : EndsWell(r)

LEMMA NextState ==
  ASSUME NEW r \in Run, shared' = shared,
         pc'[r] \in {"opening", "running", "yielding"} =>
           registry'[SessionOf(r)] = bus'[r] /\ bus'[r] # 0,
         pc'[r] \in {"idle", "opening", "running", "yielding"} => r \notin returning',
         pc'[r] \in {"idle", "opening"} => due'[r] = <<>>,
         pc'[r] = "destroying" => r \notin shared,
         pc'[r] \in {"running", "yielding"} => sub'[r].bus = bus'[r],
         pc'[r] \in {"running", "yielding"} /\ r \notin thrown' =>
           /\ sub'[r].state = "taking" /\ EndOf(sub'[r].queue, due'[r])
           /\ Recent(due'[r]) \subseteq
                ToSet(told'[r]) \cup ToSet(sub'[r].hand) \cup ToSet(sub'[r].queue),
         pc'[r] \in {"stopping", "destroying", "ending", "returned"} /\ r \notin thrown' =>
           Recent(due'[r]) \subseteq ToSet(told'[r]),
         stream'[r] = "open" =>
           ToSet(told'[r]) \subseteq ToSet(client'[r]) /\ LastMessage(r) \notin ToSet(client'[r]),
         LastMessage(r) \in ToSet(client'[r]) =>
           /\ stream'[r] # "open" /\ pc'[r] = "returned" /\ client'[r][Len(client'[r])] = LastMessage(r)
           /\ r \notin thrown' => Recent(due'[r]) \subseteq ToSet(client'[r])
  PROVE  EndsWell(r)'
<1>1. OwnsBus(r)' /\ NotYet(r)'
  BY DEF OwnsBus, NotYet, SessionOf
<1>2. Forwards(r)'
  BY DEF Forwards, EndOf, Recent, Newest, ToSet
<1>3. Heard(r)'
  BY DEF Heard, Stopping, Recent, Newest, ToSet
<1>4. Sent(r)'
  BY DEF Sent, LastMessage, Recent, Newest, ToSet
<1> QED
  BY <1>1, <1>2, <1>3, <1>4 DEF EndsWell

(* The step of another.                                                    *)
LEMMA OfAnother ==
  ASSUME NEW r \in Run, EndsWell(r), shared' = shared,
         pc'[r] = pc[r], bus'[r] = bus[r], sub'[r] = sub[r], due'[r] = due[r], told'[r] = told[r],
         client'[r] = client[r], stream'[r] = stream[r],
         r \in thrown' <=> r \in thrown, r \in returning' <=> r \in returning,
         pc[r] \in {"opening", "running", "yielding"} =>
           registry'[SessionOf(r)] = registry[SessionOf(r)]
  PROVE  EndsWell(r)'
BY NextState DEF EndsWell, OwnsBus, NotYet, Forwards, Heard, Sent, Stopping

(* The bus of a run that has not stopped was not destroyed.                *)
LEMMA BusLives ==
  ASSUME TypeInv, NEW r \in Run, OwnsBus(r), pc[r] \in {"opening", "running", "yielding"}
  PROVE  bus[r] \notin destroyed
BY Sessions DEF OwnsBus, TypeInv, BusesTyped

LEMMA NothingIsDue ==
  /\ Recent(<<>>) = {} /\ ToSet(<<>>) = {} /\ EndOf(<<>>, <<>>)
  /\ \A d \in Seq(Event) : EndOf(<<>>, d)
<1>1. Len(<<>>) = 0 /\ \A d \in Seq(Event) : Len(d) \in Nat
  OBVIOUS
<1>2. EndOf(<<>>, <<>>) /\ \A d \in Seq(Event) : EndOf(<<>>, d)
  BY <1>1 DEF EndOf
<1>3. Recent(<<>>) = {}
  BY <1>1 DEF Recent, Newest
<1> QED
  BY <1>2, <1>3 DEF ToSet

LEMMA EndsOpen ==
  ASSUME TypeInv, EndsInv, NEW q \in Run, OpenBus(q)
  PROVE  EndsInv'
<1> SUFFICES ASSUME NEW r \in Run PROVE EndsWell(r)'
  BY DEF EndsInv
<1>1. /\ UNCHANGED <<shared, destroyed, sub, returning, client, stream, told, due, thrown>>
      /\ pc[q] = "idle" /\ bus' = [bus EXCEPT ![q] = BusOf(SessionOf(q))] /\ Goto(q, "opening")
  BY DEF OpenBus, plan, requests, history
<1>2. pc'[q] = "opening" /\ bus'[q] = BusOf(SessionOf(q)) /\ q \in Actor /\ r \in Actor
      /\ \A y \in Actor : y # q => pc'[y] = pc[y] /\ bus'[y] = bus[y]
  BY <1>1 DEF Goto, TypeInv, ActorsTyped, Actor
<1>3. /\ registry'[SessionOf(q)] = BusOf(SessionOf(q)) /\ BusOf(SessionOf(q)) # 0
      /\ \A t \in Session : registry[t] # 0 => registry'[t] = registry[t]
  BY Sessions DEF OpenBus, GetSessionEventBus, BusOf, TypeInv, BusesTyped
<1>4. EndsWell(r)
  BY DEF EndsInv
<1>5. CASE r = q
  BY <1>1, <1>2, <1>3, <1>4, <1>5, NextState DEF EndsWell, NotYet, Sent
<1>6. CASE r # q
  BY <1>1, <1>2, <1>3, <1>4, <1>6, Sessions, OfAnother DEF EndsWell, OwnsBus
<1> QED
  BY <1>5, <1>6

LEMMA EndsObserve ==
  ASSUME TypeInv, EndsInv, NEW o \in Observer,
         \/ \E q \in Run : Observe(o, q)
         \/ Subscribe(o) \/ AskNext(o) \/ GetNext(o)
  PROVE  EndsInv'
<1> SUFFICES ASSUME NEW r \in Run PROVE EndsWell(r)'
  BY DEF EndsInv
<1>1. /\ UNCHANGED <<shared, destroyed, returning, client, stream, told, due, thrown>>
      /\ r \in Actor /\ r # o
  BY RunAssumption DEF Observe, Subscribe, AskNext, GetNext, plan, made, requests, history, Actor
<1>2. pc'[r] = pc[r] /\ bus'[r] = bus[r] /\ sub'[r] = sub[r]
  BY <1>1 DEF Observe, Subscribe, AskNext, GetNext, Goto, TypeInv, ActorsTyped
<1>3. \A t \in Session : registry[t] # 0 => registry'[t] = registry[t]
  BY Sessions DEF Observe, Subscribe, AskNext, GetNext, made, GetSessionEventBus, BusOf, TypeInv,
     BusesTyped
<1>4. EndsWell(r)
  BY DEF EndsInv
<1> QED
  BY <1>1, <1>2, <1>3, <1>4, Sessions, OfAnother DEF EndsWell, OwnsBus

LEMMA EndsStart ==
  ASSUME TypeInv, EndsInv, NEW q \in Run, StartForwarder(q)
  PROVE  EndsInv'
<1> SUFFICES ASSUME NEW r \in Run PROVE EndsWell(r)'
  BY DEF EndsInv
<1>1. /\ UNCHANGED <<shared, registry, destroyed, bus, returning, client, stream, told, due, thrown>>
      /\ pc[q] = "opening" /\ Goto(q, "running") /\ r \in Actor /\ q \in Actor
      /\ sub' = [sub EXCEPT ![q] = Taking(Subscription(bus[q]))]
  BY DEF StartForwarder, plan, made, requests, history, Actor
<1>2. pc'[q] = "running" /\ sub'[q] = Taking(Subscription(bus[q]))
      /\ \A y \in Actor : y # q => pc'[y] = pc[y] /\ sub'[y] = sub[y]
  BY <1>1 DEF Goto, TypeInv, ActorsTyped
<1>3. EndsWell(r)
  BY DEF EndsInv
<1>4. CASE r = q
  <2>1. bus[r] \notin destroyed /\ bus[r] \in Nat
    BY <1>1, <1>3, <1>4, BusLives DEF EndsWell, TypeInv, ActorsTyped
  <2>2. /\ Subscription(bus[r]) \in SubscriptionType /\ Subscription(bus[r]).bus = bus[r]
        /\ Len(Subscription(bus[r]).queue) <= Capacity
        /\ Subscription(bus[r]).hand = <<>> /\ Subscription(bus[r]).queue = <<>>
    BY <2>1, SubscriptionShape DEF Shape
  <2>3. sub'[r].bus = bus[r] /\ sub'[r].state = "taking" /\ sub'[r].hand = <<>> /\ sub'[r].queue = <<>>
    BY <1>2, <1>4, <2>1, <2>2, TakingShape
  <2>4. due'[r] = <<>>
    BY <1>1, <1>3, <1>4 DEF EndsWell, NotYet
  <2> QED
    BY <1>1, <1>2, <1>3, <1>4, <2>3, <2>4, NothingIsDue, NextState DEF EndsWell, OwnsBus, NotYet, Sent
<1>5. CASE r # q
  BY <1>1, <1>2, <1>3, <1>5, OfAnother
<1> QED
  BY <1>4, <1>5

LEMMA EndsEmit ==
  ASSUME TypeInv, EndsInv, NEW q \in Run, Emit(q)
  PROVE  EndsInv'
<1> SUFFICES ASSUME NEW r \in Run PROVE EndsWell(r)'
  BY DEF EndsInv
<1>1. PICK e : e = <<q, published[q] + 1>>
  OBVIOUS
<1>2. /\ UNCHANGED <<shared, registry, destroyed, pc, bus, returning, client, stream, told, thrown>>
      /\ pc[q] = "running" /\ Publish(bus[q], e) /\ e \in Event
      /\ due'[r] = IF bus[r] = bus[q] /\ pc[r] \in {"running", "yielding"} THEN Append(due[r], e)
                   ELSE due[r]
  BY <1>1 DEF Emit, plan, made, requests, TypeInv, ActorsTyped, Event
<1>3. EndsWell(r) /\ EndsWell(q) /\ r \in Actor /\ due[r] \in Seq(Event)
  BY DEF EndsInv, Actor, TypeInv, RequestsTyped
<1>4. sub'[r] = (IF bus[q] \notin destroyed /\ Hears(sub[r], bus[q]) THEN Offered(sub[r], e) ELSE sub[r])
      /\ sub'[r].bus = sub[r].bus /\ sub'[r].state = sub[r].state
  BY <1>2, <1>3, PublishOffers
<1>5. bus[q] \notin destroyed
  BY <1>2, <1>3, BusLives DEF EndsWell
<1>6. CASE pc[r] \in {"running", "yielding"} /\ r \notin thrown /\ bus[r] = bus[q]
  <2>1. /\ sub[r].bus = bus[r] /\ sub[r].state = "taking" /\ EndOf(sub[r].queue, due[r])
        /\ Recent(due[r]) \subseteq ToSet(told[r]) \cup ToSet(sub[r].hand) \cup ToSet(sub[r].queue)
    BY <1>3, <1>6 DEF EndsWell, Forwards
  <2>2. sub'[r] = Offered(sub[r], e) /\ due'[r] = Append(due[r], e)
    BY <1>2, <1>4, <1>5, <1>6, <2>1 DEF Hears
  <2>3. sub[r] \in SubscriptionType /\ Shape(sub[r])
    BY <1>3, HandTyped
  <2>4. /\ EndOf(sub'[r].queue, due'[r])
        /\ Recent(due'[r]) \subseteq ToSet(told[r]) \cup ToSet(sub'[r].hand) \cup ToSet(sub'[r].queue)
    BY <1>2, <1>3, <2>1, <2>2, <2>3, OfferedTail
  <2> QED
    BY <1>2, <1>3, <1>4, <1>6, <2>1, <2>4, NextState DEF EndsWell, OwnsBus, NotYet, Sent
<1>7. CASE pc[r] \in {"running", "yielding"} /\ r \notin thrown /\ bus[r] # bus[q]
  <2>1. sub'[r] = sub[r] /\ due'[r] = due[r]
    BY <1>2, <1>3, <1>4, <1>7 DEF EndsWell, Forwards, Hears
  <2> QED
    BY <1>2, <1>3, <2>1, OfAnother
<1>8. CASE pc[r] \in {"running", "yielding"} /\ r \in thrown
  BY <1>2, <1>3, <1>4, <1>8, NextState DEF EndsWell, OwnsBus, NotYet, Forwards, Sent
<1>9. CASE pc[r] \notin {"running", "yielding"}
  <2>1. due'[r] = due[r]
    BY <1>2, <1>9
  <2> QED
    BY <1>2, <1>3, <1>9, <2>1, NextState DEF EndsWell, OwnsBus, NotYet, Heard, Stopping, Sent
<1> QED
  BY <1>6, <1>7, <1>8, <1>9


LEMMA EndsStop ==
  ASSUME TypeInv, EndsInv, NEW q \in Run, Finish(q) \/ Yielded(q) \/ Stopped(q)
  PROVE  EndsInv'
<1> SUFFICES ASSUME NEW r \in Run PROVE EndsWell(r)'
  BY DEF EndsInv
<1>1. /\ UNCHANGED <<shared, registry, destroyed, bus, client, stream, told, due, thrown>>
      /\ r \in Actor /\ q \in Actor /\ sub' \in {sub, [sub EXCEPT ![q] = Done(@)]}
  BY DEF Finish, Yielded, Stopped, eventBus, plan, made, requests, history, Actor
<1>2. /\ r # q => pc'[r] = pc[r] /\ sub'[r] = sub[r] /\ (r \in returning' <=> r \in returning)
      /\ Finish(q) => pc[q] = "running" /\ pc'[q] = "yielding" /\ sub' = sub /\ returning' = returning
      /\ Yielded(q) => pc[q] = "yielding" /\ pc'[q] = "stopping" /\ sub[q].hand = <<>>
      /\ Stopped(q) => pc[q] = "stopping" /\ pc'[q] = IF q \in shared THEN "ending" ELSE "destroying"
  BY <1>1 DEF Finish, Yielded, Stopped, eventBus, Goto, TypeInv, ActorsTyped
<1>3. EndsWell(r)
  BY DEF EndsInv
<1>4. CASE r # q
  BY <1>1, <1>2, <1>3, <1>4, OfAnother
<1>5. CASE r = q /\ Finish(q)
  BY <1>1, <1>2, <1>3, <1>5, NextState DEF EndsWell, OwnsBus, NotYet, Forwards, Sent
<1>6. CASE r = q /\ Yielded(q)
  <2>1. r \notin thrown => Recent(due[r]) \subseteq ToSet(told[r])
    <3> SUFFICES ASSUME r \notin thrown PROVE Recent(due[r]) \subseteq ToSet(told[r])
      OBVIOUS
    <3>1. sub[r].hand = <<>> /\ sub[r].state = "taking"
          /\ Recent(due[r]) \subseteq ToSet(told[r]) \cup ToSet(sub[r].hand) \cup ToSet(sub[r].queue)
      BY <1>2, <1>3, <1>6 DEF EndsWell, Forwards
    <3>2. sub[r].queue = <<>>
      BY <1>1, <3>1, HandTyped DEF Shape, Pending
    <3> QED
      BY <3>1, <3>2, NothingIsDue
  <2> QED
    BY <1>1, <1>2, <1>3, <1>6, <2>1, NextState DEF EndsWell, Sent
<1>7. CASE r = q /\ Stopped(q)
  BY <1>1, <1>2, <1>3, <1>7, NextState DEF EndsWell, Heard, Stopping, Sent
<1> QED
  BY <1>4, <1>5, <1>6, <1>7

LEMMA EndsDestroy ==
  ASSUME TypeInv, EndsInv, NEW q \in Run, DestroyBus(q)
  PROVE  EndsInv'
<1> SUFFICES ASSUME NEW r \in Run PROVE EndsWell(r)'
  BY DEF EndsInv
<1>1. /\ UNCHANGED <<shared, bus, returning, client, stream, told, due, thrown>>
      /\ r \in Actor /\ q \in Actor /\ pc[q] = "destroying" /\ pc'[q] = "ending"
      /\ r # q => pc'[r] = pc[r]
  BY DEF DestroyBus, plan, requests, history, Actor, Goto, TypeInv, ActorsTyped
<1>2. EndsWell(r) /\ EndsWell(q)
  BY DEF EndsInv
<1>3. CASE r = q
  BY <1>1, <1>2, <1>3, NextState DEF EndsWell, Heard, Stopping, Sent
<1>4. CASE r # q
  <2>1. SessionOf(r) # SessionOf(q) /\ SessionOf(r) \in Session /\ SessionOf(q) \in Session
    BY <1>1, <1>2, <1>4, Sessions, RunAssumption DEF SessionOf, EndsWell, NotYet
  <2>2. CASE UNCHANGED eventBus
    BY <1>1, <1>2, <1>4, <2>2, OfAnother DEF eventBus, made
  <2>3. CASE registry[SessionOf(q)] # 0 /\ Destroy(SessionOf(q), registry[SessionOf(q)])
    <3>1. /\ registry'[SessionOf(r)] = registry[SessionOf(r)]
          /\ ~Hears(sub[r], registry[SessionOf(q)]) => sub'[r] = sub[r]
      <4>1. \A y \in Actor : pc'[y] \in {"idle", "opening", "getting"} => pc'[y] = pc[y]
        BY <1>1 DEF DestroyBus, Goto, TypeInv, ActorsTyped
      <4> QED
        BY <1>1, <2>1, <2>3, <4>1, TypeDestroys
    <3>2. CASE pc[r] \in {"running", "yielding"}
      <4>1. sub[r].bus = bus[r] /\ bus[r] = registry[SessionOf(r)] /\ bus[r] # 0
        BY <1>2, <3>2 DEF EndsWell, OwnsBus, Forwards
      <4>2. ~Hears(sub[r], registry[SessionOf(q)])
        BY <2>1, <4>1 DEF Hears, TypeInv, BusesTyped
      <4> QED
        BY <1>1, <1>2, <1>4, <3>1, <4>2, OfAnother
    <3>3. CASE pc[r] \notin {"running", "yielding"}
      BY <1>1, <1>2, <1>4, <3>1, <3>3, NextState DEF EndsWell, OwnsBus, NotYet, Heard, Stopping, Sent
    <3> QED
      BY <3>2, <3>3
  <2> QED
    BY <2>2, <2>3 DEF DestroyBus
<1> QED
  BY <1>3, <1>4

LEMMA EndsEnd ==
  ASSUME TypeInv, EndsInv, NEW q \in Run, EndRequest(q) \/ AbortRequest(q)
  PROVE  EndsInv'
<1> SUFFICES ASSUME NEW r \in Run PROVE EndsWell(r)'
  BY DEF EndsInv
<1>1. /\ UNCHANGED <<shared, registry, destroyed, sub, bus, returning, told, due, thrown>>
      /\ r \in Actor /\ q \in Actor
  BY DEF EndRequest, AbortRequest, plan, eventBus, made, history, Actor
<1>2. /\ r # q => pc'[r] = pc[r] /\ client'[r] = client[r] /\ stream'[r] = stream[r]
      /\ EndRequest(q) => pc[q] = "ending" /\ pc'[q] = "returned"
      /\ AbortRequest(q) => pc' = pc /\ client' = client /\ stream'[q] = "aborted" /\ stream[q] = "open"
      /\ EndRequest(q) /\ stream[q] # "open" => client' = client /\ stream' = stream
      /\ EndRequest(q) /\ stream[q] = "open" =>
           client'[q] = Append(client[q], LastMessage(q)) /\ stream'[q] = "closed"
  BY <1>1 DEF EndRequest, AbortRequest, requests, Goto, TypeInv, ActorsTyped, RequestsTyped
<1>3. EndsWell(r) /\ client[r] \in Seq(Run \X Nat) /\ LastMessage(r) \in Run \X Nat
  BY DEF EndsInv, TypeInv, RequestsTyped, LastMessage
<1>4. CASE r # q
  BY <1>1, <1>2, <1>3, <1>4, OfAnother
<1>5. CASE r = q /\ AbortRequest(q)
  BY <1>1, <1>2, <1>3, <1>5, NextState DEF EndsWell, OwnsBus, NotYet, Forwards, Heard, Stopping, Sent
<1>6. CASE r = q /\ EndRequest(q) /\ stream[r] # "open"
  BY <1>1, <1>2, <1>3, <1>6, NextState DEF EndsWell, Heard, Stopping, Sent
<1>7. CASE r = q /\ EndRequest(q) /\ stream[r] = "open"
  <2>1. /\ ToSet(client'[r]) = ToSet(client[r]) \cup {LastMessage(r)}
        /\ client'[r][Len(client'[r])] = LastMessage(r)
    <3>1. client'[r] = Append(client[r], LastMessage(r))
      BY <1>2, <1>7
    <3>2. ToSet(Append(client[r], LastMessage(r))) = ToSet(client[r]) \cup {LastMessage(r)}
      BY <1>3, ElementsAppended
    <3>3. Append(client[r], LastMessage(r))[Len(Append(client[r], LastMessage(r)))] = LastMessage(r)
      BY <1>3, Appending
    <3> QED
      BY <3>1, <3>2, <3>3
  <2>2. ToSet(told[r]) \subseteq ToSet(client[r])
        /\ (r \notin thrown => Recent(due[r]) \subseteq ToSet(told[r]))
    BY <1>2, <1>3, <1>7 DEF EndsWell, Sent, Heard, Stopping
  <2> QED
    BY <1>1, <1>2, <1>7, <2>1, <2>2, NextState
<1> QED
  BY <1>4, <1>5, <1>6, <1>7

LEMMA EndsForward ==
  ASSUME TypeInv, EndsInv, NEW q \in Run, Forward(q)
  PROVE  EndsInv'
<1> SUFFICES ASSUME NEW r \in Run PROVE EndsWell(r)'
  BY DEF EndsInv
<1>1. PICK e : e = sub[q].hand[1]
  OBVIOUS
<1>2. /\ UNCHANGED <<shared, registry, destroyed, pc, bus, returning, due, thrown>>
      /\ sub[q].hand # <<>> /\ q \notin thrown /\ Send(q, e) /\ told' = [told EXCEPT ![q] = Append(@, e)]
      /\ sub' = [sub EXCEPT ![q] = AfterEvent(q)] /\ q \in Actor /\ r \in Actor
  BY <1>1 DEF Forward, plan, made, Actor
<1>3. /\ EndsWell(r) /\ told[r] \in Seq(Event) /\ client[r] \in Seq(Run \X Nat) /\ due[r] \in Seq(Event)
      /\ e \in Event /\ e \in Run \X Nat /\ stream[r] \in {"open", "aborted", "closed"}
  BY <1>1, <1>2, HandTyped DEF EndsInv, TypeInv, RequestsTyped
<1>4. /\ r # q => told'[r] = told[r] /\ sub'[r] = sub[r]
      /\ told'[q] = Append(told[q], e) /\ sub'[q] = AfterEvent(q)
  BY <1>2 DEF TypeInv, ActorsTyped, RequestsTyped
<1>5. CASE r # q
  BY <1>2, <1>3, <1>4, <1>5, Sending, OfAnother
<1>6. CASE r = q
  <2>1. ToSet(told'[r]) = ToSet(told[r]) \cup {e}
    <3>1. ToSet(Append(told[r], e)) = ToSet(told[r]) \cup {e}
      BY <1>3, ElementsAppended
    <3> QED
      BY <1>4, <1>6, <3>1
  <2>2. pc[r] \in {"running", "yielding"} =>
          /\ sub'[r].bus = bus[r] /\ sub'[r].state = "taking" /\ EndOf(sub'[r].queue, due[r])
          /\ Recent(due[r]) \subseteq
               ToSet(told'[r]) \cup ToSet(sub'[r].hand) \cup ToSet(sub'[r].queue)
    <3> SUFFICES ASSUME pc[r] \in {"running", "yielding"}
                 PROVE  /\ sub'[r].bus = bus[r] /\ sub'[r].state = "taking" /\ EndOf(sub'[r].queue, due[r])
                        /\ Recent(due[r]) \subseteq
                             ToSet(told'[r]) \cup ToSet(sub'[r].hand) \cup ToSet(sub'[r].queue)
      OBVIOUS
    <3>1. PICK h : h = [sub[r] EXCEPT !.hand = <<>>]
      OBVIOUS
    <3>2. r \notin returning /\ bus[r] \notin destroyed /\ sub[r].bus = bus[r]
          /\ sub[r].state = "taking" /\ EndOf(sub[r].queue, due[r])
          /\ Recent(due[r]) \subseteq ToSet(told[r]) \cup ToSet(sub[r].hand) \cup ToSet(sub[r].queue)
      BY <1>2, <1>3, <1>6, BusLives DEF EndsWell, NotYet, Forwards
    <3>3. sub'[r] = Taking(h)
      BY <1>4, <1>6, <3>1, <3>2 DEF AfterEvent
    <3>4. Taking(h).bus = bus[r] /\ Taking(h).state = "taking"
      BY <1>2, <3>1, <3>2, TakesAgain
    <3>5. /\ EndOf(Taking(h).queue, due[r])
          /\ Recent(due[r]) \subseteq
               (ToSet(told[r]) \cup {e}) \cup ToSet(Taking(h).hand) \cup ToSet(Taking(h).queue)
      BY <1>1, <1>2, <1>3, <1>6, <3>1, <3>2, TakenTail
    <3> QED
      BY <2>1, <3>3, <3>4, <3>5
  <2>3. e # LastMessage(r)
    BY <1>3 DEF Event, LastMessage
  <2>4. /\ stream'[r] = "open" => ToSet(told'[r]) \subseteq ToSet(client'[r])
                                  /\ LastMessage(r) \notin ToSet(client'[r])
        /\ stream'[r] # "open" => client'[r] = client[r] /\ stream[r] # "open"
    <3>1. CASE stream[r] = "open"
      <4>1. client'[r] = Append(client[r], e) /\ stream'[r] = "open"
        BY <1>2, <1>3, <1>6, <3>1, Sending
      <4>2. ToSet(client'[r]) = ToSet(client[r]) \cup {e}
        BY <1>3, <4>1, ElementsAppended
      <4> QED
        BY <1>3, <2>1, <2>3, <3>1, <4>1, <4>2 DEF EndsWell, Sent
    <3>2. CASE stream[r] # "open"
      BY <1>2, <1>3, <1>6, <3>2, Sending
    <3> QED
      BY <3>1, <3>2
  <2> QED
    BY <1>2, <1>3, <1>6, <2>1, <2>2, <2>4, NextState DEF EndsWell, OwnsBus, NotYet, Heard, Stopping, Sent
<1> QED
  BY <1>5, <1>6

LEMMA EndsThrow ==
  ASSUME TypeInv, EndsInv, NEW q \in Run, ForwardThrows(q)
  PROVE  EndsInv'
<1> SUFFICES ASSUME NEW r \in Run PROVE EndsWell(r)'
  BY DEF EndsInv
<1>1. /\ UNCHANGED <<shared, registry, destroyed, pc, bus, returning, client, stream, told, due>>
      /\ thrown' = thrown \cup {q} /\ q \in Actor /\ r \in Actor
      /\ sub' = [sub EXCEPT ![q] = IF q \in returning THEN Done(@)
                                   ELSE [@ EXCEPT !.hand = <<>>, !.state = "ready"]]
  BY DEF ForwardThrows, plan, made, requests, history, Actor
<1>2. EndsWell(r) /\ sub[r] \in SubscriptionType
  BY <1>1, HandTyped DEF EndsInv
<1>3. r # q => sub'[r] = sub[r]
  BY <1>1 DEF TypeInv, ActorsTyped
<1>4. CASE r = q
  <2>1. sub'[r] = IF r \in returning THEN Done(sub[r])
                  ELSE [sub[r] EXCEPT !.hand = <<>>, !.state = "ready"]
    BY <1>1, <1>4 DEF TypeInv, ActorsTyped
  <2>2. sub'[r].bus = sub[r].bus
    <3>1. [sub[r] EXCEPT !.hand = <<>>, !.state = "ready"].bus = sub[r].bus
      BY <1>2 DEF SubscriptionType
    <3> QED
      BY <1>2, <2>1, <3>1, DoneShape
  <2> QED
    BY <1>1, <1>2, <1>4, <2>2, NextState DEF EndsWell, OwnsBus, NotYet, Forwards, Sent
<1>5. CASE r # q
  BY <1>1, <1>2, <1>3, <1>5, OfAnother
<1> QED
  BY <1>4, <1>5

LEMMA EndsInit == Init => EndsInv
<1> SUFFICES ASSUME Init, NEW r \in Run PROVE EndsWell(r)
  BY DEF EndsInv
<1>1. /\ pc[r] = "idle" /\ r \notin returning /\ due[r] = <<>> /\ told[r] = <<>> /\ client[r] = <<>>
      /\ stream[r] = "open"
  BY DEF Init
<1> QED
  BY <1>1, NothingIsDue DEF EndsWell, OwnsBus, NotYet, Forwards, Heard, Stopping, Sent

LEMMA EndsNext == TypeInv /\ EndsInv /\ [Next]_vars => EndsInv'
<1> SUFFICES ASSUME TypeInv, EndsInv, [Next]_vars PROVE EndsInv'
  OBVIOUS
<1>1. CASE UNCHANGED vars
  BY <1>1, OfAnother DEF vars, eventBus, made, plan, requests, history, EndsInv
<1>2. ASSUME NEW r \in Run,
             RunStep(r) \/ Emit(r) \/ AbortRequest(r) \/ Forward(r) \/ ForwardThrows(r)
      PROVE  EndsInv'
  BY <1>2, EndsOpen, EndsStart, EndsEmit, EndsStop, EndsDestroy, EndsEnd, EndsForward, EndsThrow
     DEF RunStep
<1>3. ASSUME NEW o \in Observer,
             \/ \E r \in Run : Observe(o, r)
             \/ Subscribe(o) \/ AskNext(o) \/ GetNext(o)
      PROVE  EndsInv'
  BY <1>3, EndsObserve
<1> QED
  BY <1>1, <1>2, <1>3 DEF Next

(* A client that stays is sent the newest events of its run, as many as    *)
(* the buffer holds, before the last message, and nothing after it: for    *)
(* any number of runs, of observers and of runs of one session.            *)
THEOREM StreamsEnd == Spec => []StreamsEndOnce
<1>1. TypeInv /\ EndsInv => StreamsEndOnce
  <2> SUFFICES ASSUME TypeInv, EndsInv, NEW r \in Run, LastMessage(r) \in ToSet(client[r])
               PROVE  /\ Last(client[r]) = LastMessage(r)
                      /\ r \notin thrown => ToSet(LastN(due[r], Capacity)) \subseteq ToSet(client[r])
    BY DEF StreamsEndOnce
  <2>1. client[r][Len(client[r])] = LastMessage(r)
        /\ (r \notin thrown => Recent(due[r]) \subseteq ToSet(client[r]))
    BY DEF EndsInv, EndsWell, Sent
  <2>2. ToSet(LastN(due[r], Capacity)) = Recent(due[r])
    <3>1. due[r] \in Seq(Event)
      BY DEF TypeInv, RequestsTyped
    <3> QED
      BY <3>1, RecentIsLast
  <2> QED
    BY <2>1, <2>2 DEF Last
<1> QED
  BY <1>1, TypeInit, TypeNext, EndsInit, EndsNext, PTL DEF Spec


-----------------------------------------------------------------------------
(* The order in which a run is told its events.                            *)

\* No event of a run has a number that it has not published.
OfItsTime(r) == \A e \in ToSet(due[r]) : e[2] <= published[e[1]]

InOrder(r) ==
  \A i, j \in DOMAIN told[r] :
    i < j /\ told[r][j] \in ToSet(due[r]) => Before(due[r], told[r][i], told[r][j])

\* Events that wait no longer: the buffer q is the end of what is due.
Passed(q, events, T) == \A e \in T : \E k \in 1..(Len(events) - Len(q)) : events[k] = e

AllBefore(events, T, U) == \A e \in T, f \in U : Before(events, e, f)

\* While a run lives, what it was told comes before the event in hand, and
\* that one before the buffer.
TakesInTurn(r) ==
  pc[r] \in {"running", "yielding"} /\ r \notin thrown =>
    /\ Passed(sub[r].queue, due[r], ToSet(told[r]) \cup ToSet(sub[r].hand))
    /\ AllBefore(due[r], ToSet(told[r]), ToSet(sub[r].hand))

\* What it is told later is told last, and then its iterator has ended.
OnceBelated(r) ==
  IF Stopping(r)
  THEN /\ r \in returning
       /\ \A e \in ToSet(sub[r].hand) : e \notin ToSet(due[r]) /\ e[1] # r
       /\ \A i \in DOMAIN told[r] : told[r][i] \notin ToSet(due[r]) =>
            told[r][i][1] # r /\ i = Len(told[r]) /\ sub[r].state = "done"
  ELSE ToSet(told[r]) \subseteq ToSet(due[r])

InTurn(r) ==
  /\ pc[r] \notin {"getting", "on"}
  /\ OfItsTime(r) /\ InOrder(r) /\ TakesInTurn(r) /\ OnceBelated(r)

TurnInv == \A r \in Run : InTurn(r)

LEMMA BeforeAppended ==
  ASSUME NEW d \in Seq(Event), NEW g \in Event, NEW e, NEW f
  PROVE  /\ Before(d, e, f) => Before(Append(d, g), e, f)
         /\ e \in ToSet(d) => Before(Append(d, g), e, g)
<1>1. PICK c \in Seq(Event) : c = Append(d, g)
  BY Appending
<1>2. /\ Len(d) \in Nat /\ Len(c) = Len(d) + 1 /\ c[Len(d) + 1] = g
      /\ \A k \in 1..Len(d) : c[k] = d[k]
  BY <1>1, Appending
<1>3. DOMAIN d = 1..Len(d) /\ DOMAIN c = 1..(Len(d) + 1) /\ DOMAIN d \subseteq DOMAIN c
  BY <1>2
<1>4. Before(d, e, f) => Before(c, e, f)
  BY <1>2, <1>3 DEF Before
<1>5. ASSUME e \in ToSet(d)
      PROVE  Before(c, e, g)
  <2>1. PICK k \in 1..Len(d) : d[k] = e
    BY <1>5, Elements
  <2>2. k \in DOMAIN c /\ Len(d) + 1 \in DOMAIN c /\ k < Len(d) + 1 /\ c[k] = e
    BY <1>2, <1>3, <2>1
  <2> QED
    BY <1>2, <2>2 DEF Before
<1> QED
  BY <1>1, <1>4, <1>5

LEMMA NothingInTurn ==
  ASSUME NEW q, NEW d
  PROVE  Passed(q, d, {}) /\ \A T : AllBefore(d, T, {}) /\ AllBefore(d, {}, T)
BY DEF Passed, AllBefore

LEMMA TurnState ==
  ASSUME NEW r \in Run, pc'[r] \notin {"getting", "on"},
         \A e \in ToSet(due'[r]) : e[2] <= published'[e[1]],
         \A i, j \in DOMAIN told'[r] :
           i < j /\ told'[r][j] \in ToSet(due'[r]) => Before(due'[r], told'[r][i], told'[r][j]),
         pc'[r] \in {"running", "yielding"} /\ r \notin thrown' =>
           /\ Passed(sub'[r].queue, due'[r], ToSet(told'[r]) \cup ToSet(sub'[r].hand))
           /\ AllBefore(due'[r], ToSet(told'[r]), ToSet(sub'[r].hand)),
         pc'[r] \in {"stopping", "destroying", "ending", "returned"} =>
           /\ r \in returning'
           /\ \A e \in ToSet(sub'[r].hand) : e \notin ToSet(due'[r]) /\ e[1] # r
           /\ \A i \in DOMAIN told'[r] : told'[r][i] \notin ToSet(due'[r]) =>
                told'[r][i][1] # r /\ i = Len(told'[r]) /\ sub'[r].state = "done",
         pc'[r] \notin {"stopping", "destroying", "ending", "returned"} =>
           ToSet(told'[r]) \subseteq ToSet(due'[r])
  PROVE  InTurn(r)'
<1>1. OfItsTime(r)'
  BY DEF OfItsTime, ToSet
<1>2. InOrder(r)'
  BY DEF InOrder, Before, ToSet
<1>3. TakesInTurn(r)'
  BY DEF TakesInTurn, Passed, AllBefore, Before, ToSet
<1>4. OnceBelated(r)'
  BY DEF OnceBelated, Stopping, ToSet
<1> QED
  BY <1>1, <1>2, <1>3, <1>4 DEF InTurn

(* A step that changes neither what a run is told nor what it waits for.   *)
LEMMA TurnKept ==
  ASSUME NEW r \in Run, InTurn(r), published' = published, pc'[r] \notin {"getting", "on"},
         sub'[r] = sub[r], due'[r] = due[r], told'[r] = told[r],
         r \in thrown' <=> r \in thrown, r \in returning' <=> r \in returning,
         pc'[r] \in {"running", "yielding"} <=> pc[r] \in {"running", "yielding"},
         pc'[r] \in {"stopping", "destroying", "ending", "returned"} <=> Stopping(r)
  PROVE  InTurn(r)'
BY TurnState DEF InTurn, OfItsTime, InOrder, TakesInTurn, OnceBelated, Stopping

LEMMA TurnQuietly ==
  ASSUME TypeInv, TurnInv,
         \/ \E q \in Run : OpenBus(q) \/ Finish(q) \/ Stopped(q) \/ EndRequest(q) \/ AbortRequest(q)
         \/ \E o \in Observer : \/ \E q \in Run : Observe(o, q)
                                \/ Subscribe(o) \/ AskNext(o) \/ GetNext(o)
  PROVE  TurnInv'
<1> SUFFICES ASSUME NEW r \in Run PROVE InTurn(r)'
  BY DEF TurnInv
<1>1. InTurn(r) /\ r \in Actor
  BY DEF TurnInv, Actor
<1>2. ASSUME NEW q \in Run,
             OpenBus(q) \/ Finish(q) \/ Stopped(q) \/ EndRequest(q) \/ AbortRequest(q)
      PROVE  InTurn(r)'
  <2>1. /\ published' = published /\ sub' = sub /\ due' = due /\ told' = told /\ thrown' = thrown
        /\ returning' = returning
    BY <1>2 DEF OpenBus, Finish, Stopped, EndRequest, AbortRequest, eventBus, plan, requests, history
  <2>2. /\ pc'[r] \in {"running", "yielding"} <=> pc[r] \in {"running", "yielding"}
        /\ pc'[r] \in {"stopping", "destroying", "ending", "returned"} <=> Stopping(r)
        /\ pc'[r] \notin {"getting", "on"}
    BY <1>1, <1>2 DEF InTurn, OpenBus, Finish, Stopped, EndRequest, AbortRequest, Goto, Stopping, TypeInv,
       ActorsTyped
  <2> QED
    BY <1>1, <2>1, <2>2, TurnKept
<1>3. ASSUME NEW o \in Observer,
             \/ \E q \in Run : Observe(o, q)
             \/ Subscribe(o) \/ AskNext(o) \/ GetNext(o)
      PROVE  InTurn(r)'
  <2>1. /\ published' = published /\ due' = due /\ told' = told /\ thrown' = thrown
        /\ returning' = returning /\ r # o
    BY <1>3, RunAssumption DEF Observe, Subscribe, AskNext, GetNext, plan, made, requests, history
  <2>2. pc'[r] = pc[r] /\ sub'[r] = sub[r]
    BY <1>1, <1>3, <2>1 DEF Observe, Subscribe, AskNext, GetNext, Goto, TypeInv, ActorsTyped
  <2> QED
    BY <1>1, <2>1, <2>2, TurnKept DEF Stopping, InTurn
<1> QED
  BY <1>2, <1>3

LEMMA TurnStart ==
  ASSUME TypeInv, EndsInv, TurnInv, NEW q \in Run, StartForwarder(q)
  PROVE  TurnInv'
<1> SUFFICES ASSUME NEW r \in Run PROVE InTurn(r)'
  BY DEF TurnInv
<1>1. /\ UNCHANGED <<published, returning, told, due, thrown>>
      /\ pc[q] = "opening" /\ Goto(q, "running") /\ r \in Actor /\ q \in Actor
      /\ sub' = [sub EXCEPT ![q] = Taking(Subscription(bus[q]))]
  BY DEF StartForwarder, plan, made, requests, history, Actor
<1>2. pc'[q] = "running" /\ sub'[q] = Taking(Subscription(bus[q]))
      /\ \A y \in Actor : y # q => pc'[y] = pc[y] /\ sub'[y] = sub[y]
  BY <1>1 DEF Goto, TypeInv, ActorsTyped
<1>3. InTurn(r) /\ EndsWell(r)
  BY DEF TurnInv, EndsInv
<1>4. CASE r = q
  <2>1. bus[r] \notin destroyed /\ bus[r] \in Nat
    BY <1>1, <1>3, <1>4, BusLives DEF EndsWell, TypeInv, ActorsTyped
  <2>2. /\ Subscription(bus[r]) \in SubscriptionType /\ Subscription(bus[r]).bus = bus[r]
        /\ Len(Subscription(bus[r]).queue) <= Capacity
        /\ Subscription(bus[r]).hand = <<>> /\ Subscription(bus[r]).queue = <<>>
    BY <2>1, SubscriptionShape DEF Shape
  <2>3. sub'[r].hand = <<>>
    BY <1>2, <1>4, <2>1, <2>2, TakingShape
  <2>4. ToSet(due[r]) = {} /\ ToSet(told[r]) = {} /\ ToSet(sub'[r].hand) = {}
    BY <1>1, <1>3, <1>4, <2>3, NothingIsDue DEF EndsWell, NotYet, InTurn, OnceBelated, Stopping
  <2> QED
    BY <1>1, <1>2, <1>3, <1>4, <2>4, NothingInTurn, TurnState DEF InTurn, OfItsTime, InOrder
<1>5. CASE r # q
  BY <1>1, <1>2, <1>3, <1>5, TurnKept DEF Stopping, InTurn
<1> QED
  BY <1>4, <1>5

LEMMA TurnYielded ==
  ASSUME TypeInv, TurnInv, NEW q \in Run, Yielded(q)
  PROVE  TurnInv'
<1> SUFFICES ASSUME NEW r \in Run PROVE InTurn(r)'
  BY DEF TurnInv
<1>1. /\ UNCHANGED <<published, told, due, thrown>> /\ returning' = returning \cup {q}
      /\ pc[q] = "yielding" /\ sub[q].hand = <<>> /\ r \in Actor /\ q \in Actor
      /\ sub' \in {sub, [sub EXCEPT ![q] = Done(@)]}
  BY DEF Yielded, plan, made, requests, history, Actor
<1>2. /\ r # q => pc'[r] = pc[r] /\ sub'[r] = sub[r]
      /\ pc'[q] = "stopping"
      /\ sub'[q] \in {sub[q], Done(sub[q])}
  BY <1>1 DEF Yielded, Goto, TypeInv, ActorsTyped
<1>3. InTurn(r)
  BY DEF TurnInv
<1>4. CASE r # q
  BY <1>1, <1>2, <1>3, <1>4, TurnKept DEF Stopping, InTurn
<1>5. CASE r = q
  <2>1. sub'[r].hand = <<>>
    <3>1. Done(sub[r]).hand = <<>>
      BY <1>1, HandTyped, DoneShape
    <3> QED
      BY <1>1, <1>2, <1>5, <3>1
  <2>2. ToSet(sub'[r].hand) = {}
    BY <2>1, NothingIsDue
  <2>3. \A i \in DOMAIN told[r] : told[r][i] \in ToSet(due[r])
    BY <1>1, <1>3, <1>5 DEF InTurn, OnceBelated, Stopping, ToSet
  <2> QED
    BY <1>1, <1>2, <1>3, <1>5, <2>2, <2>3, TurnState DEF InTurn, OfItsTime, InOrder
<1> QED
  BY <1>4, <1>5

LEMMA TurnDestroy ==
  ASSUME TypeInv, EndsInv, TurnInv, NEW q \in Run, DestroyBus(q)
  PROVE  TurnInv'
<1> SUFFICES ASSUME NEW r \in Run PROVE InTurn(r)'
  BY DEF TurnInv
<1>1. /\ UNCHANGED <<shared, bus, published, returning, told, due, thrown>>
      /\ r \in Actor /\ q \in Actor /\ pc[q] = "destroying" /\ pc'[q] = "ending"
      /\ r # q => pc'[r] = pc[r]
  BY DEF DestroyBus, plan, requests, history, Actor, Goto, TypeInv, ActorsTyped
<1>2. InTurn(r) /\ EndsWell(r) /\ EndsWell(q)
  BY DEF TurnInv, EndsInv
<1>3. /\ pc'[r] \in {"running", "yielding"} <=> pc[r] \in {"running", "yielding"}
      /\ pc'[r] \in {"stopping", "destroying", "ending", "returned"} <=> Stopping(r)
      /\ pc'[r] \notin {"getting", "on"}
  BY <1>1, <1>2 DEF Stopping, InTurn
<1>4. CASE UNCHANGED eventBus
  BY <1>1, <1>2, <1>3, <1>4, TurnKept DEF eventBus
<1>5. CASE registry[SessionOf(q)] # 0 /\ Destroy(SessionOf(q), registry[SessionOf(q)])
  <2>1. sub'[r] = IF Hears(sub[r], registry[SessionOf(q)]) THEN Shut(sub[r]) ELSE sub[r]
    BY <1>1, <1>5 DEF Destroy, Actor
  <2>2. CASE pc[r] \in {"running", "yielding"}
    <3>1. SessionOf(r) # SessionOf(q) /\ SessionOf(r) \in Session /\ SessionOf(q) \in Session
      BY <1>1, <1>2, <2>2, Sessions, RunAssumption DEF SessionOf, EndsWell, NotYet
    <3>2. sub[r].bus = bus[r] /\ bus[r] = registry[SessionOf(r)] /\ bus[r] # 0
      BY <1>2, <2>2 DEF EndsWell, OwnsBus, Forwards
    <3>3. ~Hears(sub[r], registry[SessionOf(q)])
      BY <3>1, <3>2 DEF Hears, TypeInv, BusesTyped
    <3> QED
      BY <1>1, <1>2, <1>3, <2>1, <3>3, TurnKept
  <2>3. CASE pc[r] \notin {"running", "yielding"}
    <3>1. sub[r] \in SubscriptionType
      BY <1>1, HandTyped
    <3>2. /\ Shut(sub[r]).hand \in {<<>>, sub[r].hand}
          /\ sub[r].state = "done" => Shut(sub[r]).state = "done"
      <4>1. Done(sub[r]).hand = <<>> /\ Done(sub[r]).state = "done"
        BY <3>1, DoneShape
      <4>2. /\ [sub[r] EXCEPT !.queue = <<>>].hand = sub[r].hand
            /\ [sub[r] EXCEPT !.queue = <<>>].state = sub[r].state
        BY <3>1 DEF SubscriptionType
      <4> QED
        BY <4>1, <4>2 DEF Shut
    <3>3. /\ sub'[r].hand \in {<<>>, sub[r].hand}
          /\ sub[r].state = "done" => sub'[r].state = "done"
      BY <2>1, <3>2
    <3>4. ToSet(sub'[r].hand) \subseteq ToSet(sub[r].hand)
      BY <3>3, NothingIsDue
    <3> QED
      BY <1>1, <1>2, <1>3, <2>3, <3>3, <3>4, TurnState
         DEF InTurn, OfItsTime, InOrder, OnceBelated, Stopping
  <2> QED
    BY <2>2, <2>3
<1> QED
  BY <1>4, <1>5 DEF DestroyBus

(* An event that is new is not due yet.                                    *)
LEMMA NewEvent ==
  ASSUME TypeInv, NEW r \in Run, OfItsTime(r),
         NEW e \in Event, e[2] = published[e[1]] + 1,
         \A q \in Run : published'[q] \in Nat /\ published[q] <= published'[q],
         published'[e[1]] = published[e[1]] + 1
  PROVE  /\ e \notin ToSet(due[r])
         /\ \A f \in ToSet(due[r]) \cup {e} : f[2] <= published'[f[1]]
<1>1. published \in [Run -> Nat] /\ due[r] \in Seq(Event) /\ e[1] \in Run
  BY DEF TypeInv, ActorsTyped, RequestsTyped, Event
<1>2. \A f \in ToSet(due[r]) : f \in Event /\ f[2] <= published[f[1]]
  BY <1>1, Elements DEF OfItsTime
<1>3. e \notin ToSet(due[r])
  BY <1>1, <1>2
<1>4. ASSUME NEW f \in ToSet(due[r])
      PROVE  f[2] <= published'[f[1]]
  <2>1. f[1] \in Run /\ f[2] \in Nat /\ f[2] <= published[f[1]]
    BY <1>2 DEF Event
  <2>2. published[f[1]] <= published'[f[1]] /\ published[f[1]] \in Nat /\ published'[f[1]] \in Nat
    BY <1>1, <2>1
  <2> QED
    BY <2>1, <2>2
<1>5. e[2] <= published'[e[1]]
  BY <1>1
<1> QED
  BY <1>3, <1>4, <1>5

(* An event is published: a run that lives gets it after all the others.   *)
LEMMA OfferedInTurn ==
  ASSUME NEW x \in SubscriptionType, Shape(x), x.state = "taking", NEW e \in Event,
         NEW d \in Seq(Event), NEW T \in SUBSET Event, EndOf(x.queue, d),
         Passed(x.queue, d, T \cup ToSet(x.hand)), AllBefore(d, T, ToSet(x.hand))
  PROVE  /\ Passed(Offered(x, e).queue, Append(d, e), T \cup ToSet(Offered(x, e).hand))
         /\ AllBefore(Append(d, e), T, ToSet(Offered(x, e).hand))
<1>a. PICK y, c : y = Offered(x, e) /\ c = Append(d, e)
  OBVIOUS
<1>1. /\ Pending(x) => y.hand = <<e>> /\ y.queue = <<>>
      /\ ~Pending(x) => y.hand = x.hand /\ y.queue = LastN(Append(x.queue, e), Capacity)
  BY <1>a, OfferedShape
<1>2. /\ x.queue \in Seq(Event) /\ Len(x.queue) \in Nat /\ Append(x.queue, e) \in Seq(Event)
      /\ Len(Append(x.queue, e)) = Len(x.queue) + 1 /\ Len(x.queue) <= Len(d) /\ Capacity \in Nat
  BY Nothing DEF SubscriptionType, EndOf
<1>3. /\ c \in Seq(Event) /\ Len(d) \in Nat /\ Len(c) = Len(d) + 1 /\ c[Len(d) + 1] = e
      /\ \A k \in 1..Len(d) : c[k] = d[k]
  BY <1>a, Appending
<1>4. \A f, g : Before(d, f, g) => Before(c, f, g)
  BY <1>a, BeforeAppended
<1>5. \A f \in ToSet(d) : Before(c, f, e)
  BY <1>a, BeforeAppended
<1>6. CASE Pending(x)
  <2>1. y.hand = <<e>> /\ y.queue = <<>> /\ Len(y.queue) = 0 /\ ToSet(y.hand) = {e}
    BY <1>1, <1>6 DEF ToSet
  <2>2. \A f \in T : f \in ToSet(d) /\ \E k \in 1..Len(d) : d[k] = f
    <3>1. ASSUME NEW f \in T
          PROVE  \E k \in 1..Len(d) : d[k] = f
      BY <1>2, <1>3, <3>1 DEF Passed
    <3> QED
      BY <3>1, Elements
  <2>3. Len(c) - Len(y.queue) = Len(d) + 1
    BY <1>3, <2>1
  <2>4. \A f \in T \cup {e} : \E k \in 1..(Len(d) + 1) : c[k] = f
    <3>1. Len(d) + 1 \in 1..(Len(d) + 1) /\ \A k \in 1..Len(d) : k \in 1..(Len(d) + 1)
      BY <1>3
    <3> QED
      BY <1>3, <2>2, <3>1
  <2>5. \A f \in T : Before(c, f, e)
    BY <1>5, <2>2
  <2> QED
    BY <1>a, <2>1, <2>3, <2>4, <2>5 DEF Passed, AllBefore
<1>7. CASE ~Pending(x)
  <2>1. y.hand = x.hand /\ y.queue \in Seq(Event) /\ Len(y.queue) <= Len(x.queue) + 1
    <3>1. /\ LastN(Append(x.queue, e), Capacity) \in Seq(Event)
          /\ Len(LastN(Append(x.queue, e), Capacity)) <= Capacity
          /\ Len(Append(x.queue, e)) <= Capacity =>
               LastN(Append(x.queue, e), Capacity) = Append(x.queue, e)
      BY <1>2, LastNIs
    <3> QED
      BY <1>1, <1>2, <1>7, <3>1
  <2>2. ASSUME NEW f \in T \cup ToSet(y.hand)
        PROVE  \E k \in 1..(Len(c) - Len(y.queue)) : c[k] = f
    <3>1. PICK k \in 1..(Len(d) - Len(x.queue)) : d[k] = f
      BY <2>1, <2>2 DEF Passed
    <3>2. k \in 1..Len(d) /\ k \in 1..(Len(c) - Len(y.queue))
      BY <1>2, <1>3, <2>1, <3>1
    <3> QED
      BY <1>3, <3>1, <3>2
  <2>3. \A f \in T, g \in ToSet(y.hand) : Before(c, f, g)
    BY <1>4, <2>1 DEF AllBefore
  <2> QED
    BY <1>a, <2>2, <2>3 DEF Passed, AllBefore
<1> QED
  BY <1>6, <1>7

LEMMA TurnEmit ==
  ASSUME TypeInv, EndsInv, TurnInv, NEW q \in Run, Emit(q)
  PROVE  TurnInv'
<1> SUFFICES ASSUME NEW r \in Run PROVE InTurn(r)'
  BY DEF TurnInv
<1>1. PICK e : e = <<q, published[q] + 1>>
  OBVIOUS
<1>2. /\ UNCHANGED <<pc, bus, returning, told, thrown>>
      /\ pc[q] = "running" /\ Publish(bus[q], e)
      /\ due'[r] = IF bus[r] = bus[q] /\ pc[r] \in {"running", "yielding"} THEN Append(due[r], e)
                   ELSE due[r]
      /\ published' = [published EXCEPT ![q] = @ + 1] /\ published' \in [Run -> Nat]
  BY <1>1 DEF Emit, plan, made, requests, TypeInv, ActorsTyped
<1>3. /\ InTurn(r) /\ EndsWell(r) /\ EndsWell(q) /\ r \in Actor /\ due[r] \in Seq(Event)
      /\ told[r] \in Seq(Event) /\ sub[r] \in SubscriptionType /\ Shape(sub[r])
  BY HandTyped DEF TurnInv, EndsInv, Actor, TypeInv, RequestsTyped
<1>4. /\ e \in Event /\ e[1] = q /\ e \notin ToSet(due[r])
      /\ \A f \in ToSet(due[r]) \cup {e} : f[2] <= published'[f[1]]
  <2>1. OfItsTime(r) /\ published \in [Run -> Nat]
    BY <1>3 DEF InTurn, TypeInv, ActorsTyped
  <2>2. e \in Event /\ e[1] = q /\ e[2] = published[e[1]] + 1
    BY <1>1, <2>1 DEF Event
  <2>3. /\ \A s \in Run : published'[s] \in Nat /\ published[s] <= published'[s]
        /\ published'[e[1]] = published[e[1]] + 1
    BY <1>2, <2>1, <2>2
  <2> QED
    BY <2>1, <2>2, <2>3, NewEvent
<1>5. sub'[r] = (IF bus[q] \notin destroyed /\ Hears(sub[r], bus[q]) THEN Offered(sub[r], e) ELSE sub[r])
      /\ sub'[r].state = sub[r].state
  BY <1>2, <1>3, <1>4, PublishOffers
<1>6. ToSet(Append(due[r], e)) = ToSet(due[r]) \cup {e}
  BY <1>3, <1>4, ElementsAppended
<1>7. CASE pc[r] \in {"running", "yielding"}
  <2>1. ToSet(told[r]) \subseteq ToSet(due[r]) /\ InOrder(r)
    BY <1>3, <1>7 DEF InTurn, OnceBelated, Stopping
  <2>2. /\ \A f \in ToSet(due'[r]) : f[2] <= published'[f[1]]
        /\ ToSet(told[r]) \subseteq ToSet(due'[r])
    BY <1>2, <1>4, <1>6, <2>1
  <2>3. \A i, j \in DOMAIN told[r] :
          i < j /\ told[r][j] \in ToSet(due'[r]) => Before(due'[r], told[r][i], told[r][j])
    <3> SUFFICES ASSUME NEW i \in DOMAIN told[r], NEW j \in DOMAIN told[r], i < j
                 PROVE  Before(due'[r], told[r][i], told[r][j])
      OBVIOUS
    <3>1. told[r][j] \in ToSet(told[r])
      BY DEF ToSet
    <3>2. Before(due[r], told[r][i], told[r][j])
      BY <2>1, <3>1 DEF InOrder
    <3> QED
      BY <1>2, <1>3, <1>4, <3>2, BeforeAppended
  <2>4. r \notin thrown =>
          /\ Passed(sub'[r].queue, due'[r], ToSet(told[r]) \cup ToSet(sub'[r].hand))
          /\ AllBefore(due'[r], ToSet(told[r]), ToSet(sub'[r].hand))
    <3> SUFFICES ASSUME r \notin thrown
                 PROVE  /\ Passed(sub'[r].queue, due'[r], ToSet(told[r]) \cup ToSet(sub'[r].hand))
                        /\ AllBefore(due'[r], ToSet(told[r]), ToSet(sub'[r].hand))
      OBVIOUS
    <3>1. /\ sub[r].bus = bus[r] /\ sub[r].state = "taking" /\ EndOf(sub[r].queue, due[r])
          /\ Passed(sub[r].queue, due[r], ToSet(told[r]) \cup ToSet(sub[r].hand))
          /\ AllBefore(due[r], ToSet(told[r]), ToSet(sub[r].hand))
      BY <1>3, <1>7 DEF EndsWell, Forwards, InTurn, TakesInTurn
    <3>2. bus[q] \notin destroyed /\ ToSet(told[r]) \in SUBSET Event
      BY <1>2, <1>3, BusLives, Elements DEF EndsWell
    <3>3. CASE bus[r] = bus[q]
      <4>1. sub'[r] = Offered(sub[r], e) /\ due'[r] = Append(due[r], e)
        BY <1>2, <1>5, <1>7, <3>1, <3>2, <3>3 DEF Hears
      <4>2. /\ Passed(Offered(sub[r], e).queue, Append(due[r], e),
                      ToSet(told[r]) \cup ToSet(Offered(sub[r], e).hand))
            /\ AllBefore(Append(due[r], e), ToSet(told[r]), ToSet(Offered(sub[r], e).hand))
        BY <1>3, <1>4, <3>1, <3>2, OfferedInTurn
      <4> QED
        BY <4>1, <4>2
    <3>4. CASE bus[r] # bus[q]
      <4>1. sub'[r] = sub[r] /\ due'[r] = due[r]
        BY <1>2, <1>5, <3>1, <3>4 DEF Hears
      <4> QED
        BY <3>1, <4>1
    <3> QED
      BY <3>3, <3>4
  <2> QED
    BY <1>2, <1>7, <2>2, <2>3, <2>4, TurnState
<1>8. CASE pc[r] \notin {"running", "yielding"}
  <2>1. due'[r] = due[r] /\ q # r
    BY <1>2, <1>8
  <2>2. ToSet(sub'[r].hand) \subseteq ToSet(sub[r].hand) \cup {e}
    <3>1. CASE sub'[r] = sub[r]
      BY <3>1
    <3>2. CASE Hears(sub[r], bus[q]) /\ sub'[r] = Offered(sub[r], e)
      <4>1. Offered(sub[r], e).hand \in {<<e>>, sub[r].hand}
        BY <1>3, <1>4, <3>2, OfferedShape DEF Hears
      <4>2. ToSet(<<e>>) = {e}
        BY DEF ToSet
      <4> QED
        BY <3>2, <4>1, <4>2
    <3> QED
      BY <1>5, <3>1, <3>2
  <2> QED
    BY <1>2, <1>3, <1>4, <1>5, <1>8, <2>1, <2>2, TurnState
       DEF InTurn, OfItsTime, InOrder, OnceBelated, Stopping
<1> QED
  BY <1>7, <1>8

(* The next event that is handed out is the first of the buffer.           *)
LEMMA TakenInTurn ==
  ASSUME NEW q \in Seq(Event), q # <<>>, NEW d \in Seq(Event), EndOf(q, d), NEW T,
         Passed(q, d, T)
  PROVE  Passed(Tail(q), d, T \cup {Head(q)}) /\ AllBefore(d, T, {Head(q)})
<1>1. /\ Len(q) \in Nat /\ Len(q) >= 1 /\ Len(Tail(q)) = Len(q) - 1 /\ Head(q) = q[1]
      /\ Len(d) \in Nat /\ Len(q) <= Len(d) /\ \A i \in 1..Len(q) : q[i] = d[Len(d) - Len(q) + i]
      /\ DOMAIN d = 1..Len(d)
  BY DEF EndOf
<1>2. PICK n \in 1..Len(d) : n = Len(d) - Len(q) + 1
  BY <1>1
<1>3. d[n] = Head(q) /\ Len(d) - Len(Tail(q)) = n
  BY <1>1, <1>2
<1>4. ASSUME NEW f \in T
      PROVE  \E k \in 1..n : k < n /\ k \in DOMAIN d /\ d[k] = f
  <2>1. PICK k \in 1..(Len(d) - Len(q)) : d[k] = f
    BY DEF Passed
  <2>2. k \in 1..n /\ k < n /\ k \in 1..Len(d)
    BY <1>1, <1>2
  <2> QED
    BY <1>1, <2>1, <2>2
<1>5. n \in 1..n /\ n \in DOMAIN d
  BY <1>1
<1> QED
  BY <1>3, <1>4, <1>5 DEF Before, Passed, AllBefore

LEMMA TurnForward ==
  ASSUME TypeInv, EndsInv, TurnInv, NEW q \in Run, Forward(q)
  PROVE  TurnInv'
<1> SUFFICES ASSUME NEW r \in Run PROVE InTurn(r)'
  BY DEF TurnInv
<1>1. PICK e : e = sub[q].hand[1]
  OBVIOUS
<1>2. /\ UNCHANGED <<destroyed, pc, bus, published, returning, due, thrown>>
      /\ sub[q].hand # <<>> /\ q \notin thrown /\ told' = [told EXCEPT ![q] = Append(@, e)]
      /\ sub' = [sub EXCEPT ![q] = AfterEvent(q)] /\ q \in Actor /\ r \in Actor
  BY <1>1 DEF Forward, plan, made, Actor
<1>3. /\ InTurn(r) /\ EndsWell(r) /\ told[r] \in Seq(Event) /\ due[r] \in Seq(Event) /\ e \in Event
      /\ ToSet(sub[q].hand) = {e} /\ sub[q].state = "taking" /\ sub[q] \in SubscriptionType
  BY <1>1, <1>2, HandTyped DEF TurnInv, EndsInv, TypeInv, RequestsTyped
<1>4. /\ r # q => told'[r] = told[r] /\ sub'[r] = sub[r]
      /\ told'[q] = Append(told[q], e) /\ sub'[q] = AfterEvent(q)
  BY <1>2 DEF TypeInv, ActorsTyped, RequestsTyped
<1>5. CASE r # q
  BY <1>2, <1>3, <1>4, <1>5, TurnKept DEF Stopping, InTurn
<1>6. CASE r = q
  <2>1. PICK t : t = Append(told[r], e)
    OBVIOUS
  <2>2. /\ Len(told[r]) \in Nat /\ Len(t) = Len(told[r]) + 1 /\ t[Len(told[r]) + 1] = e
        /\ \A i \in 1..Len(told[r]) : t[i] = told[r][i]
        /\ DOMAIN t = 1..(Len(told[r]) + 1) /\ DOMAIN told[r] = 1..Len(told[r])
        /\ told'[r] = t /\ ToSet(t) = ToSet(told[r]) \cup {e}
    BY <1>3, <1>4, <1>6, <2>1, Appending, ElementsAppended
  <2>3. \A i \in DOMAIN t : i = Len(told[r]) + 1 \/ i \in DOMAIN told[r]
    BY <2>2
  <2>4. CASE pc[r] \in {"running", "yielding"}
    <3>1. PICK h : h = [sub[r] EXCEPT !.hand = <<>>]
      OBVIOUS
    <3>2. /\ r \notin returning /\ bus[r] \notin destroyed /\ sub[r].bus = bus[r]
          /\ EndOf(sub[r].queue, due[r])
          /\ Passed(sub[r].queue, due[r], ToSet(told[r]) \cup {e})
          /\ AllBefore(due[r], ToSet(told[r]), {e})
      BY <1>2, <1>3, <1>6, <2>4, BusLives
         DEF EndsWell, NotYet, Forwards, InTurn, TakesInTurn
    <3>3. sub'[r] = Taking(h) /\ r \in Actor /\ sub[r].queue \in Seq(Event)
      BY <1>2, <1>3, <1>4, <1>6, <3>1, <3>2 DEF AfterEvent, SubscriptionType
    <3>4. /\ sub[r].queue = <<>> => sub'[r].hand = <<>> /\ sub'[r].queue = <<>>
          /\ sub[r].queue # <<>> => /\ sub'[r].hand = <<Head(sub[r].queue)>>
                                    /\ sub'[r].queue = Tail(sub[r].queue)
      BY <1>3, <1>6, <3>1, <3>2, <3>3, TakesAgain
    <3>5. /\ Passed(sub'[r].queue, due[r], ToSet(t) \cup ToSet(sub'[r].hand))
          /\ AllBefore(due[r], ToSet(t), ToSet(sub'[r].hand))
      <4>1. CASE sub[r].queue = <<>>
        <5>1. ToSet(sub'[r].hand) = {} /\ sub'[r].queue = sub[r].queue
          BY <3>4, <4>1, NothingIsDue
        <5>2. ToSet(t) \cup {} = ToSet(told[r]) \cup {e}
          BY <2>2
        <5> QED
          BY <3>2, <5>1, <5>2, NothingInTurn
      <4>2. CASE sub[r].queue # <<>>
        <5>1. ToSet(sub'[r].hand) = {Head(sub[r].queue)} /\ sub'[r].queue = Tail(sub[r].queue)
          BY <3>4, <4>2 DEF ToSet
        <5>2. Passed(sub[r].queue, due[r], ToSet(t))
          BY <2>2, <3>2
        <5>3. /\ Passed(Tail(sub[r].queue), due[r], ToSet(t) \cup {Head(sub[r].queue)})
              /\ AllBefore(due[r], ToSet(t), {Head(sub[r].queue)})
          BY <1>3, <3>2, <3>3, <4>2, <5>2, TakenInTurn
        <5> QED
          BY <5>1, <5>3
      <4> QED
        BY <4>1, <4>2
    <3>6. ToSet(told[r]) \subseteq ToSet(due[r]) /\ e \in ToSet(due[r])
      <4>1. PICK k \in 1..(Len(due[r]) - Len(sub[r].queue)) : due[r][k] = e
        BY <3>2 DEF Passed
      <4>2. Len(sub[r].queue) \in Nat /\ Len(due[r]) \in Nat
        BY <1>3, <3>3
      <4>3. k \in 1..Len(due[r])
        BY <4>2
      <4> QED
        BY <1>3, <2>4, <4>1, <4>3, Elements DEF InTurn, OnceBelated, Stopping
    <3>7. ASSUME NEW i \in DOMAIN t, NEW j \in DOMAIN t, i < j
          PROVE  Before(due[r], t[i], t[j])
      <4>1. i \in DOMAIN told[r] /\ t[i] = told[r][i] /\ told[r][i] \in ToSet(told[r])
        BY <2>2, <3>7 DEF ToSet
      <4>2. CASE j = Len(told[r]) + 1
        BY <2>2, <3>2, <4>1, <4>2 DEF AllBefore
      <4>3. CASE j \in DOMAIN told[r]
        <5>1. t[j] = told[r][j] /\ told[r][j] \in ToSet(due[r])
          BY <2>2, <3>6, <4>3 DEF ToSet
        <5> QED
          BY <1>3, <3>7, <4>1, <4>3, <5>1 DEF InTurn, InOrder
      <4> QED
        BY <2>3, <4>2, <4>3
    <3>8. /\ told'[r] = t /\ ToSet(t) \subseteq ToSet(due[r]) /\ due'[r] = due[r]
          /\ pc'[r] \in {"running", "yielding"}
          /\ \A f \in ToSet(due'[r]) : f[2] <= published'[f[1]]
          /\ \A i, j \in DOMAIN t : i < j => Before(due[r], t[i], t[j])
      BY <1>2, <1>3, <2>2, <2>4, <3>6, <3>7 DEF InTurn, OfItsTime
    <3> QED
      BY <3>5, <3>8, TurnState
  <2>5. CASE Stopping(r)
    <3>1. /\ r \in returning /\ e \notin ToSet(due[r]) /\ e[1] # r
          /\ \A i \in DOMAIN told[r] : told[r][i] \in ToSet(due[r])
      BY <1>3, <1>6, <2>5 DEF InTurn, OnceBelated
    <3>2. sub'[r].state = "done" /\ sub'[r].hand = <<>>
      BY <1>3, <1>4, <1>6, <3>1, DoneShape DEF AfterEvent
    <3>3. ToSet(sub'[r].hand) = {}
      BY <3>2, NothingIsDue
    <3>4. ASSUME NEW i \in DOMAIN t, t[i] \notin ToSet(due[r])
          PROVE  t[i][1] # r /\ i = Len(t)
      <4>1. i = Len(told[r]) + 1
        BY <2>2, <2>3, <3>1, <3>4
      <4> QED
        BY <2>2, <3>1, <4>1
    <3>5. ASSUME NEW i \in DOMAIN t, NEW j \in DOMAIN t, i < j, t[j] \in ToSet(due[r])
          PROVE  Before(due[r], t[i], t[j])
      <4>1. j \in DOMAIN told[r]
        BY <2>2, <2>3, <3>1, <3>5
      <4>2. i \in DOMAIN told[r] /\ t[i] = told[r][i] /\ t[j] = told[r][j]
        BY <2>2, <3>5, <4>1
      <4> QED
        BY <1>3, <3>5, <4>1, <4>2 DEF InTurn, InOrder
    <3> QED
      BY <1>2, <1>3, <2>2, <2>5, <3>1, <3>2, <3>3, <3>4, <3>5, TurnState
         DEF InTurn, OfItsTime, Stopping
  <2>6. pc[r] \notin {"idle", "opening", "getting", "on"}
    BY <1>2, <1>3, <1>6, HandTyped DEF InTurn
  <2>7. pc[r] \in Place
    BY <1>2 DEF TypeInv, ActorsTyped
  <2> QED
    BY <2>4, <2>5, <2>6, <2>7 DEF Place, Stopping
<1> QED
  BY <1>5, <1>6

LEMMA TurnThrow ==
  ASSUME TypeInv, TurnInv, NEW q \in Run, ForwardThrows(q)
  PROVE  TurnInv'
<1> SUFFICES ASSUME NEW r \in Run PROVE InTurn(r)'
  BY DEF TurnInv
<1>1. /\ UNCHANGED <<pc, published, returning, told, due>>
      /\ thrown' = thrown \cup {q} /\ q \in Actor /\ r \in Actor /\ sub[q].hand # <<>>
      /\ sub' = [sub EXCEPT ![q] = IF q \in returning THEN Done(@)
                                   ELSE [@ EXCEPT !.hand = <<>>, !.state = "ready"]]
  BY DEF ForwardThrows, plan, made, requests, history, Actor
<1>2. InTurn(r) /\ sub[r] \in SubscriptionType
  BY <1>1, HandTyped DEF TurnInv
<1>3. CASE r # q
  <2>1. sub'[r] = sub[r]
    BY <1>1, <1>3 DEF TypeInv, ActorsTyped
  <2> QED
    BY <1>1, <1>2, <1>3, <2>1, TurnKept DEF Stopping, InTurn
<1>4. CASE r = q
  <2>1. sub'[r] = IF r \in returning THEN Done(sub[r])
                  ELSE [sub[r] EXCEPT !.hand = <<>>, !.state = "ready"]
    BY <1>1, <1>4 DEF TypeInv, ActorsTyped
  <2>2. sub'[r].hand = <<>>
    <3>1. [sub[r] EXCEPT !.hand = <<>>, !.state = "ready"].hand = <<>>
      BY <1>2 DEF SubscriptionType
    <3> QED
      BY <1>2, <2>1, <3>1, DoneShape
  <2>3. ToSet(sub'[r].hand) = {}
    BY <2>2, NothingIsDue
  <2>4. sub[r].state = "taking"
    BY <1>1, <1>4, HandTyped
  <2>5. \A i \in DOMAIN told[r] : Stopping(r) => told[r][i] \in ToSet(due[r])
    BY <1>2, <2>4 DEF InTurn, OnceBelated
  <2> QED
    BY <1>1, <1>2, <1>4, <2>3, <2>5, TurnState DEF InTurn, OfItsTime, InOrder, OnceBelated, Stopping
<1> QED
  BY <1>3, <1>4

LEMMA TurnInit == Init => TurnInv
<1> SUFFICES ASSUME Init, NEW r \in Run PROVE InTurn(r)
  BY DEF TurnInv
<1>1. pc[r] = "idle" /\ due[r] = <<>> /\ told[r] = <<>> /\ ToSet(<<>>) = {}
  BY NothingIsDue DEF Init
<1> QED
  BY <1>1 DEF InTurn, OfItsTime, InOrder, TakesInTurn, OnceBelated, Stopping

LEMMA TurnNext == TypeInv /\ EndsInv /\ TurnInv /\ [Next]_vars => TurnInv'
<1> SUFFICES ASSUME TypeInv, EndsInv, TurnInv, [Next]_vars PROVE TurnInv'
  OBVIOUS
<1>1. CASE UNCHANGED vars
  <2> SUFFICES ASSUME NEW r \in Run PROVE InTurn(r)'
    BY DEF TurnInv
  <2>1. InTurn(r)
    BY DEF TurnInv
  <2> QED
    BY <1>1, <2>1, TurnKept DEF vars, eventBus, history, Stopping, InTurn
<1>2. ASSUME NEW r \in Run,
             RunStep(r) \/ Emit(r) \/ AbortRequest(r) \/ Forward(r) \/ ForwardThrows(r)
      PROVE  TurnInv'
  BY <1>2, TurnQuietly, TurnStart, TurnYielded, TurnDestroy, TurnEmit, TurnForward, TurnThrow
     DEF RunStep
<1>3. ASSUME NEW o \in Observer,
             \/ \E r \in Run : Observe(o, r)
             \/ Subscribe(o) \/ AskNext(o) \/ GetNext(o)
      PROVE  TurnInv'
  BY <1>3, TurnQuietly
<1> QED
  BY <1>1, <1>2, <1>3 DEF Next

(* A run that has stopped, and whose onEvent did not throw, was told the   *)
(* newest events of the bus, as many as the buffer holds, and what it was  *)
(* told came in the order of the bus and none of it twice: for any number  *)
(* of runs that publish on the bus and any capacity.                       *)
THEOREM TailTold == Spec => []TailIsTold
<1>1. TypeInv /\ EndsInv /\ TurnInv => TailIsTold
  <2> SUFFICES ASSUME TypeInv, EndsInv, TurnInv, NEW r \in Run, Stopping(r), r \notin thrown
               PROVE  /\ ToSet(LastN(due[r], Capacity)) \subseteq ToSet(told[r])
                      /\ InOrder(r)
    BY DEF TailIsTold, InOrder
  <2>1. Recent(due[r]) \subseteq ToSet(told[r]) /\ due[r] \in Seq(Event)
    BY DEF EndsInv, EndsWell, Heard, TypeInv, RequestsTyped
  <2> QED
    BY <2>1, RecentIsLast DEF TurnInv, InTurn
<1> QED
  BY <1>1, TypeInit, TypeNext, EndsInit, EndsNext, TurnInit, TurnNext, PTL DEF Spec

(* After a run has stopped its forwarder, its onEvent is called at most    *)
(* once more, with an event of another run of the session: the return()    *)
(* that waits in the iterator ends it after the event in hand.             *)
THEOREM LateOnce == Spec => []OneLateEvent
<1>1. TurnInv => OneLateEvent
  BY DEF TurnInv, InTurn, OnceBelated, OneLateEvent
<1> QED
  BY <1>1, TypeInit, TypeNext, EndsInit, EndsNext, TurnInit, TurnNext, PTL DEF Spec

=============================================================================
