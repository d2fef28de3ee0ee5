--------------------------- MODULE RedisStoreProof ---------------------------
(***************************************************************************)
(* Type correctness of the Redis store, what its indexes and deletions     *)
(* leave behind, and what a fork copies, for any number of clients,        *)
(* sessions, calls and faults.                                             *)
(***************************************************************************)
EXTENDS RedisStore, SequenceTheorems, FiniteSetTheorems, TLAPS

-----------------------------------------------------------------------------
(* The calls.  The commands of an operation come in an order, which is     *)
(* what ties the place of a call to its operation.                         *)
Ops == {"none", "update", "delete", "add", "save", "fork"}

PcOf(op) ==
  CASE op = "none"   -> {"idle"}
    [] op = "update" -> {"write"}
    [] op = "delete" -> {"messages", "counter", "collect", "index", "versions", "records"}
    [] op = "add"    -> {"count", "push", "read", "write"}
    [] op = "save"   -> {"record", "index", "version"}
    [] op = "fork"   -> {"origin", "create", "list", "copy", "require", "count", "push",
                         "read", "write", "requireSaved", "record", "index", "version"}

Places ==
  {"idle", "write", "messages", "counter", "collect", "index", "versions", "records", "count",
   "push", "read", "record", "version", "origin", "create", "list", "copy", "require",
   "requireSaved"}

(* A call when the session ids us, n checkpoints and m messages have been  *)
(* made and the clock shows t.                                             *)
CallRecord(us, n, m, t) ==
  [op : Ops, pc : Places, s : us \cup {NoSession}, todo : Seq(1..m),
   at : 0..t, cp : 0..n, ids : SUBSET (1..n), from : 0..n]

CallType(k, us, n, m, t) ==
  /\ k \in CallRecord(us, n, m, t)
  /\ k.pc \in PcOf(k.op)
  /\ k.s = NoSession <=> k.pc \in {"idle", "origin", "create"}
  /\ k.op = "delete" /\ k.pc \in {"index", "records"} => k.ids # {}
  /\ k.pc \in {"require", "count", "push", "read"} => k.todo # <<>>
  /\ k.op = "fork" => k.from # 0 /\ (k.pc = "write" => k.todo # <<>>)
  /\ k.op \in {"save", "fork"} /\ k.pc \in {"record", "index", "version"} => k.cp # 0

LEMMA CallTypeGrows ==
  ASSUME NEW us, NEW n \in Nat, NEW m \in Nat, NEW t \in Nat, NEW k, CallType(k, us, n, m, t),
         NEW us2, NEW n2 \in Nat, NEW m2 \in Nat, NEW t2 \in Nat,
         us \subseteq us2, n <= n2, m <= m2, t <= t2
  PROVE  CallType(k, us2, n2, m2, t2)
<1>1. Seq(1..m) \subseteq Seq(1..m2)
  <2>1. 1..m \subseteq 1..m2
    OBVIOUS
  <2> QED
    BY <2>1, SeqMonotonic
<1>2. k \in CallRecord(us2, n2, m2, t2)
  BY <1>1 DEF CallType, CallRecord
<1> QED
  BY <1>2 DEF CallType

LEMMA IdleType ==
  ASSUME NEW us, NEW n \in Nat, NEW m \in Nat, NEW t \in Nat
  PROVE  CallType(Idle, us, n, m, t)
<1>1. <<>> \in Seq(1..m)
  BY EmptySeq
<1>2. Idle \in CallRecord(us, n, m, t)
  BY <1>1 DEF CallRecord, Idle, Ops, Places
<1>3. Idle.op = "none" /\ Idle.pc = "idle" /\ Idle.s = NoSession
  BY DEF Idle
<1>4. "idle" \in PcOf("none")
  BY DEF PcOf
<1> QED
  BY <1>2, <1>3, <1>4 DEF CallType

-----------------------------------------------------------------------------
(* TypeInv: TypeOK with the whole of the calls, and the finiteness of what *)
(* a fork has to copy.                                                     *)
Checkpoints == [s : Session, at : Nat, seen : SUBSET Nat]

CallsTyped ==
  /\ call = [c \in Client |-> call[c]]
  /\ \A c \in Client : CallType(call[c], used, Len(saves), Len(said), now)

StoreTyped ==
  /\ now \in 0..MaxTime /\ calls \in 0..MaxCalls /\ faults \in 0..MaxFaults
  /\ session \subseteq used /\ counted \subseteq used /\ used \subseteq Session
  /\ recorded \subseteq CheckpointId
  /\ index \in [Session -> SUBSET CheckpointId]
  /\ versions \in [Session -> SUBSET CheckpointId]
  /\ said \in Seq(Session)
  /\ saves \in Seq(Checkpoints)
  /\ \A i \in CheckpointId : saves[i].s \in used /\ saves[i].at <= now
  /\ excused \subseteq used \cup {NoSession} /\ doomed \subseteq used

MessagesTyped ==
  /\ messages \in [Session -> SUBSET [what : 1..Len(said), at : 0..now]]
  /\ \A s \in Session : IsFiniteSet(messages[s])

TypeInv == StoreTyped /\ MessagesTyped /\ CallsTyped

LEMMA Sizes ==
  ASSUME StoreTyped
  PROVE  /\ now \in Nat /\ Len(saves) \in Nat /\ Len(said) \in Nat
         /\ CheckpointId = DOMAIN saves
BY StoreAssumption, LenProperties DEF StoreTyped, CheckpointId

LEMMA TypeInvOK == TypeInv => TypeOK
<1> SUFFICES ASSUME TypeInv PROVE TypeOK
  OBVIOUS
<1>1. ASSUME NEW c \in Client
      PROVE  /\ call[c].s \in used \cup {NoSession}
             /\ call[c].at \in 0..now /\ call[c].cp \in 0..Len(saves)
             /\ call[c].ids \subseteq CheckpointId /\ call[c].from \in 0..Len(saves)
             /\ call[c].op = "delete" /\ call[c].pc \in {"index", "records"}
                  => call[c].ids # {}
             /\ call[c].pc \in {"require", "count", "push"} => call[c].todo # <<>>
  BY DEF TypeInv, CallsTyped, CallType, CallRecord, CheckpointId
<1>2. ASSUME NEW i \in CheckpointId
      PROVE  saves[i].s \in Session /\ saves[i].at \in 0..now
  <2>1. saves[i] \in Checkpoints
    BY Sizes, LenProperties DEF TypeInv, StoreTyped
  <2> QED
    BY <2>1, Sizes DEF TypeInv, StoreTyped, Checkpoints
<1> QED
  BY <1>1, <1>2 DEF TypeOK, TypeInv, StoreTyped, MessagesTyped

LEMMA TypeInit == Init => TypeInv
<1> SUFFICES ASSUME Init PROVE TypeInv
  OBVIOUS
<1>1. StoreTyped
  BY StoreAssumption, EmptySeq DEF Init, StoreTyped, CheckpointId
<1>2. MessagesTyped
  BY FS_EmptySet DEF Init, MessagesTyped
<1>3. CallsTyped
  BY <1>1, IdleType, Sizes DEF Init, CallsTyped
<1> QED
  BY <1>1, <1>2, <1>3 DEF TypeInv

(* Only the call of c changes.                                             *)
CallOf(c) == call' = [d \in Client |-> IF d = c THEN call'[c] ELSE call[d]]

LEMMA CallChanges ==
  ASSUME CallsTyped, NEW c \in Client, NEW k, call' = [call EXCEPT ![c] = k]
  PROVE  CallOf(c) /\ call'[c] = k
BY DEF CallsTyped, CallOf

(* One client's call changes and the bounds of the calls only grow.        *)
LEMMA CallsStep ==
  ASSUME TypeInv, StoreTyped', NEW c \in Client, CallOf(c),
         used \subseteq used', Len(saves) <= Len(saves'), Len(said) <= Len(said'), now <= now',
         CallType(call'[c], used', Len(saves'), Len(said'), now')
  PROVE  CallsTyped'
<1>1. /\ now \in Nat /\ Len(saves) \in Nat /\ Len(said) \in Nat
      /\ now' \in Nat /\ Len(saves') \in Nat /\ Len(said') \in Nat
  BY StoreAssumption, LenProperties DEF TypeInv, StoreTyped
<1>2. ASSUME NEW d \in Client
      PROVE  CallType(call'[d], used', Len(saves'), Len(said'), now')
  <2>1. CASE d = c
    BY <2>1
  <2>2. CASE d # c
    <3>1. call'[d] = call[d] /\ CallType(call[d], used, Len(saves), Len(said), now)
      BY <2>2 DEF TypeInv, CallsTyped, CallOf
    <3> QED
      BY <1>1, <3>1, CallTypeGrows
  <2> QED
    BY <2>1, <2>2
<1>3. call' = [d \in Client |-> call'[d]]
  BY DEF CallOf
<1> QED
  BY <1>2, <1>3 DEF CallsTyped

(* A checkpoint of a known session is made.                                *)
LEMMA SavedType ==
  ASSUME StoreTyped, NEW s \in used, NEW cp \in Checkpoints, cp.s = s, cp.at = now,
         saves' = Append(saves, cp), calls' \in 0..MaxCalls,
         UNCHANGED <<now, session, counted, recorded, index, versions, used, said, faults,
                     excused, doomed>>
  PROVE  StoreTyped' /\ Len(saves') = Len(saves) + 1
<1>1. Len(saves) \in Nat /\ now \in Nat
  BY Sizes
<1>2. /\ saves' \in Seq(Checkpoints) /\ Len(saves') = Len(saves) + 1
      /\ \A i \in 1..Len(saves) : saves'[i] = saves[i]
      /\ saves'[Len(saves) + 1] = cp
  BY AppendProperties DEF StoreTyped
<1>3. \A i \in CheckpointId' : saves'[i].s \in used' /\ saves'[i].at <= now'
  BY <1>1, <1>2 DEF StoreTyped, CheckpointId
<1>4. 1..Len(saves) \subseteq 1..Len(saves')
  BY <1>1, <1>2
<1> QED
  BY <1>2, <1>3, <1>4 DEF StoreTyped, CheckpointId

LEMMA MessagesGrow ==
  ASSUME TypeInv, StoreTyped', UNCHANGED messages, Len(said) <= Len(said'), now <= now'
  PROVE  MessagesTyped'
<1>1. now \in Nat /\ Len(said) \in Nat /\ now' \in Nat /\ Len(said') \in Nat
  BY StoreAssumption, LenProperties DEF TypeInv, StoreTyped
<1>2. [what : 1..Len(said), at : 0..now] \subseteq [what : 1..Len(said'), at : 0..now']
  BY <1>1
<1> QED
  BY <1>2 DEF TypeInv, MessagesTyped

(* The call of a client ends or goes on while ids and checkpoints stay.    *)
LEMMA FinishType ==
  ASSUME TypeInv, StoreTyped', NEW c \in Client, Finish(c), UNCHANGED <<used, saves, said, now>>
  PROVE  CallsTyped'
<1>1. CallType(Idle, used', Len(saves'), Len(said'), now')
  BY IdleType, Sizes DEF TypeInv
<1>2. CallOf(c) /\ call'[c] = Idle
  BY CallChanges DEF TypeInv, Finish
<1> QED
  BY <1>1, <1>2, CallsStep, Sizes DEF TypeInv

LEMMA GotoType ==
  ASSUME TypeInv, StoreTyped', NEW c \in Client, NEW p, Goto(c, p),
         UNCHANGED <<used, saves, said, now>>,
         CallType([call[c] EXCEPT !.pc = p], used, Len(saves), Len(said), now)
  PROVE  CallsTyped'
<1>1. call' = [call EXCEPT ![c] = [call[c] EXCEPT !.pc = p]]
  BY DEF Goto
<1>2. CallOf(c) /\ call'[c] = [call[c] EXCEPT !.pc = p]
  BY <1>1 DEF TypeInv, CallsTyped, CallOf
<1> QED
  BY <1>2, CallsStep, Sizes DEF TypeInv

LEMMA BeginType ==
  ASSUME TypeInv, NEW c \in Client, Begin(c)
  PROVE  TypeInv'
<1> USE DEF TypeInv
<1>0. now \in Nat /\ Len(saves) \in Nat /\ Len(said) \in Nat /\ <<>> \in Seq(1..Len(said))
  BY Sizes, EmptySeq
<1>1. CASE CreateSession(c)
  <2>1. PICK s \in Session \ used : session' = session \cup {s} /\ used' = used \cup {s}
    BY <1>1 DEF CreateSession
  <2>2. UNCHANGED <<now, counted, messages, recorded, index, versions, call, saves,
                    history, calls, faults>> /\ call[c] = Idle
    BY <1>1 DEF CreateSession
  <2>3. StoreTyped'
    BY <2>1, <2>2 DEF StoreTyped, CheckpointId, history
  <2>4. MessagesTyped'
    BY <2>2, <2>3, <1>0, MessagesGrow DEF history
  <2>5. call' = [call EXCEPT ![c] = Idle]
    BY <2>2 DEF CallsTyped
  <2>6. CallType(Idle, used', Len(saves'), Len(said'), now')
    BY <1>0, <2>2, IdleType DEF history
  <2>7. CallsTyped'
    <3>1. CallOf(c) /\ call'[c] = Idle
      BY <2>5, CallChanges
    <3> QED
      <4>1. used \subseteq used' /\ UNCHANGED <<saves, said, now>>
        BY <2>1, <2>2 DEF history
      <4>2. CallType(call'[c], used', Len(saves'), Len(said'), now')
        BY <2>6, <3>1
      <4> QED
        BY <1>0, <2>3, <3>1, <4>1, <4>2, CallsStep
  <2> QED
    BY <2>3, <2>4, <2>7
<1>2. ASSUME NEW s \in Session, UpdateSession(c, s)
      PROVE  TypeInv'
  <2> DEFINE k == [Idle EXCEPT !.op = "update", !.pc = "write", !.s = s]
  <2>1. UNCHANGED <<now, keys, saves, used, history, faults>> /\ calls' = calls + 1
        /\ calls < MaxCalls /\ s \in used /\ call' = [call EXCEPT ![c] = k]
    BY <1>2 DEF UpdateSession, Call, StoreTyped
  <2>2. StoreTyped'
    BY <2>1, StoreAssumption DEF StoreTyped, CheckpointId, history, keys
  <2>3. MessagesTyped'
    BY <2>1, <2>2, <1>0, MessagesGrow DEF history, keys
  <2>4. CallType(k, used, Len(saves), Len(said), now)
    <3>1. k \in CallRecord(used, Len(saves), Len(said), now)
      <4>1. Idle \in CallRecord(used, Len(saves), Len(said), now)
        BY <1>0, IdleType DEF CallType
      <4> QED
        BY <1>0, <2>1, <4>1 DEF CallRecord, Ops, Places
    <3>2. k.op = "update" /\ k.pc = "write" /\ k.s = s
      BY DEF Idle
    <3>3. "write" \in PcOf("update")
      BY DEF PcOf
    <3> QED
      BY <1>0, <2>1, <3>1, <3>2, <3>3, StoreAssumption DEF StoreTyped, CallType
  <2>5. CallsTyped'
    <3>1. CallOf(c) /\ call'[c] = k
      BY <2>1, CallChanges
    <3> QED
      BY <1>0, <2>1, <2>2, <2>4, <3>1, CallsStep DEF history
  <2> QED
    BY <2>2, <2>3, <2>5
<1>3. ASSUME NEW s \in Session, DeleteSession(c, s)
      PROVE  TypeInv'
  <2> DEFINE k == [Idle EXCEPT !.op = "delete", !.pc = "messages", !.s = s]
  <2>1. UNCHANGED <<now, counted, messages, recorded, index, versions, saves, used, said, faults>>
        /\ calls' = calls + 1
        /\ calls < MaxCalls /\ s \in used /\ call' = [call EXCEPT ![c] = k]
        /\ session' = session \ {s} /\ doomed' = doomed \cup {s}
        /\ excused' = IF Busy(s) THEN excused \cup {s} ELSE excused
    BY <1>3 DEF DeleteSession, Call
  <2>2. StoreTyped'
    BY <2>1, StoreAssumption DEF StoreTyped, CheckpointId
  <2>3. MessagesTyped'
    BY <2>1, <2>2, <1>0, MessagesGrow
  <2>4. CallType(k, used, Len(saves), Len(said), now)
    <3>1. k \in CallRecord(used, Len(saves), Len(said), now)
      <4>1. Idle \in CallRecord(used, Len(saves), Len(said), now)
        BY <1>0, IdleType DEF CallType
      <4> QED
        BY <1>0, <2>1, <4>1 DEF CallRecord, Ops, Places
    <3>2. k.op = "delete" /\ k.pc = "messages" /\ k.s = s
      BY DEF Idle
    <3>3. "messages" \in PcOf("delete")
      BY DEF PcOf
    <3> QED
      BY <1>0, <2>1, <3>1, <3>2, <3>3, StoreAssumption DEF StoreTyped, CallType
  <2>5. CallsTyped'
    <3>1. CallOf(c) /\ call'[c] = k
      BY <2>1, CallChanges
    <3> QED
      BY <1>0, <2>1, <2>2, <2>4, <3>1, CallsStep
  <2> QED
    BY <2>2, <2>3, <2>5
<1>4. ASSUME NEW s \in Session, AddMessage(c, s)
      PROVE  TypeInv'
  <2> DEFINE k == [Idle EXCEPT !.op = "add", !.pc = "count", !.s = s,
                               !.todo = <<Len(said) + 1>>, !.at = now]
  <2>1. UNCHANGED <<now, keys, saves, used, excused, doomed, faults>>
        /\ calls' = calls + 1 /\ calls < MaxCalls /\ s \in used
        /\ call' = [call EXCEPT ![c] = k] /\ said' = Append(said, s)
    BY <1>4 DEF AddMessage, Call, StoreTyped
  <2>2. said' \in Seq(Session) /\ Len(said') = Len(said) + 1
    BY <2>1, AppendProperties DEF StoreTyped
  <2>3. StoreTyped'
    BY <2>1, <2>2, StoreAssumption DEF StoreTyped, CheckpointId, keys
  <2>4. MessagesTyped'
    BY <2>1, <2>2, <2>3, <1>0, MessagesGrow DEF keys
  <2>5. <<Len(said) + 1>> \in Seq(1..Len(said')) /\ <<Len(said) + 1>> # <<>>
    BY <1>0, <2>2
  <2>6. CallType(k, used, Len(saves), Len(said'), now)
    <3>1. k \in CallRecord(used, Len(saves), Len(said'), now)
      <4>1. Idle \in CallRecord(used, Len(saves), Len(said'), now)
        BY <1>0, <2>2, <2>5, IdleType DEF CallType
      <4>2. s \in used /\ <<Len(said) + 1>> \in Seq(1..Len(said')) /\ now \in 0..now
        BY <1>0, <2>1, <2>5
      <4> QED
        BY <4>1, <4>2 DEF CallRecord, Ops, Places
    <3>2. k.op = "add" /\ k.pc = "count" /\ k.s = s /\ k.todo = <<Len(said) + 1>>
      BY DEF Idle
    <3>3. "count" \in PcOf("add")
      BY DEF PcOf
    <3> QED
      BY <1>0, <2>1, <3>1, <3>2, <3>3, StoreAssumption DEF StoreTyped, CallType
  <2>7. CallsTyped'
    <3>1. CallOf(c) /\ call'[c] = k
      BY <2>1, CallChanges
    <3> QED
      BY <1>0, <2>1, <2>2, <2>3, <2>6, <3>1, CallsStep
  <2> QED
    BY <2>3, <2>4, <2>7
<1>5. ASSUME NEW s \in Session, SaveCheckpoint(c, s)
      PROVE  TypeInv'
  <2> DEFINE k == [Idle EXCEPT !.op = "save", !.pc = "record", !.s = s, !.cp = Len(saves) + 1]
  <2>1. UNCHANGED <<now, keys, used, history, faults>>
        /\ calls' = calls + 1 /\ calls < MaxCalls /\ s \in used
        /\ call' = [call EXCEPT ![c] = k] /\ saves' = Append(saves, NewCheckpoint(s))
    BY <1>5 DEF SaveCheckpoint, Call, StoreTyped
  <2>2. NewCheckpoint(s) \in Checkpoints
    BY <1>0 DEF NewCheckpoint, Checkpoints, MessagesTyped
  <2>3. StoreTyped' /\ Len(saves') = Len(saves) + 1
    <3>1. calls' \in 0..MaxCalls
      BY <2>1, StoreAssumption DEF StoreTyped
    <3> QED
      BY <2>1, <2>2, <3>1, SavedType DEF history, keys, NewCheckpoint
  <2>4. MessagesTyped'
    BY <2>1, <2>3, <1>0, MessagesGrow DEF history, keys
  <2>5. CallType(k, used, Len(saves'), Len(said), now)
    <3>1. k \in CallRecord(used, Len(saves'), Len(said), now)
      <4>1. Idle \in CallRecord(used, Len(saves'), Len(said), now)
        BY <1>0, <2>3, IdleType DEF CallType
      <4>2. s \in used /\ Len(saves) + 1 \in 0..Len(saves')
        BY <1>0, <2>1, <2>3
      <4> QED
        BY <4>1, <4>2 DEF CallRecord, Ops, Places
    <3>2. k.op = "save" /\ k.pc = "record" /\ k.s = s /\ k.cp = Len(saves) + 1
      BY DEF Idle
    <3>3. "record" \in PcOf("save")
      BY DEF PcOf
    <3> QED
      BY <1>0, <2>1, <3>1, <3>2, <3>3, StoreAssumption DEF StoreTyped, CallType
  <2>6. CallsTyped'
    <3>1. CallOf(c) /\ call'[c] = k
      BY <2>1, CallChanges
    <3> QED
      BY <1>0, <2>1, <2>3, <2>5, <3>1, CallsStep DEF history
  <2> QED
    BY <2>3, <2>4, <2>6
<1>6. ASSUME NEW id \in recorded, Fork(c, id)
      PROVE  TypeInv'
  <2> DEFINE k == [Idle EXCEPT !.op = "fork", !.pc = "origin", !.from = id]
  <2>1. UNCHANGED <<now, keys, saves, used, history, faults>>
        /\ calls' = calls + 1 /\ calls < MaxCalls /\ id \in 1..Len(saves)
        /\ call' = [call EXCEPT ![c] = k]
    BY <1>6 DEF Fork, Call, StoreTyped, CheckpointId
  <2>2. StoreTyped'
    BY <2>1, StoreAssumption DEF StoreTyped, CheckpointId, history, keys
  <2>3. MessagesTyped'
    BY <2>1, <2>2, <1>0, MessagesGrow DEF history, keys
  <2>4. CallType(k, used, Len(saves), Len(said), now)
    <3>1. k \in CallRecord(used, Len(saves), Len(said), now)
      <4>1. Idle \in CallRecord(used, Len(saves), Len(said), now)
        BY <1>0, IdleType DEF CallType
      <4>2. id \in 0..Len(saves)
        BY <1>0, <2>1
      <4> QED
        BY <4>1, <4>2 DEF CallRecord, Ops, Places
    <3>2. k.op = "fork" /\ k.pc = "origin" /\ k.s = NoSession /\ k.from = id
      BY DEF Idle
    <3>3. "origin" \in PcOf("fork")
      BY DEF PcOf
    <3> QED
      BY <1>0, <2>1, <3>1, <3>2, <3>3, StoreAssumption DEF StoreTyped, CallType
  <2>5. CallsTyped'
    <3>1. CallOf(c) /\ call'[c] = k
      BY <2>1, CallChanges
    <3> QED
      BY <1>0, <2>1, <2>2, <2>4, <3>1, CallsStep DEF history
  <2> QED
    BY <2>2, <2>3, <2>5
<1> QED
  BY <1>1, <1>2, <1>3, <1>4, <1>5, <1>6 DEF Begin

(* Which operation a call belongs to is seen from its place.               *)
LEMMA PlaceTellsOp ==
  ASSUME NEW us, NEW n, NEW m, NEW t, NEW k, CallType(k, us, n, m, t)
  PROVE  /\ k.pc \in {"messages", "counter", "collect", "versions", "records"} =>
              k.op = "delete"
         /\ k.pc \in {"origin", "create", "list", "copy", "require", "requireSaved"} =>
              k.op = "fork"
         /\ k.pc \in {"count", "push", "read"} => k.op \in {"add", "fork"}
         /\ k.pc \in {"record", "version"} => k.op \in {"save", "fork"}
         /\ k.pc = "index" => k.op \in {"save", "fork", "delete"}
         /\ k.pc = "write" => k.op \in {"update", "add", "fork"}
<1>1. k.op \in Ops /\ k.pc \in PcOf(k.op)
  BY DEF CallType, CallRecord
<1>2. CASE k.op = "none"
  BY <1>1, <1>2 DEF PcOf
<1>3. CASE k.op = "update"
  BY <1>1, <1>3 DEF PcOf
<1>4. CASE k.op = "delete"
  BY <1>1, <1>4 DEF PcOf
<1>5. CASE k.op = "add"
  BY <1>1, <1>5 DEF PcOf
<1>6. CASE k.op = "save"
  BY <1>1, <1>6 DEF PcOf
<1>7. CASE k.op = "fork"
  BY <1>1, <1>7 DEF PcOf
<1> QED
  BY <1>1, <1>2, <1>3, <1>4, <1>5, <1>6, <1>7 DEF Ops

(* A call of a known session goes on with p.                               *)
LEMMA GoesOn ==
  ASSUME NEW us, NEW n, NEW m, NEW t, NEW k, CallType(k, us, n, m, t), k.s # NoSession,
         NEW p \in Places, p \in PcOf(k.op), p \notin {"idle", "origin", "create"},
         k.op = "delete" /\ p \in {"index", "records"} => k.ids # {},
         p \in {"require", "count", "push", "read", "write"} => k.todo # <<>>,
         p \in {"record", "index", "version"} => k.cp # 0 \/ k.op = "delete"
  PROVE  CallType([k EXCEPT !.pc = p], us, n, m, t)
<1>1. k \in CallRecord(us, n, m, t)
  BY DEF CallType
<1>2. [k EXCEPT !.pc = p] \in CallRecord(us, n, m, t)
  BY <1>1 DEF CallRecord
<1>3. /\ [k EXCEPT !.pc = p].pc = p /\ [k EXCEPT !.pc = p].op = k.op
      /\ [k EXCEPT !.pc = p].s = k.s /\ [k EXCEPT !.pc = p].ids = k.ids
      /\ [k EXCEPT !.pc = p].todo = k.todo /\ [k EXCEPT !.pc = p].cp = k.cp
      /\ [k EXCEPT !.pc = p].from = k.from
  BY <1>1 DEF CallRecord
<1> QED
  BY <1>2, <1>3 DEF CallType

(* The types that a step of a call relies on.                              *)
LEMMA CallOK ==
  ASSUME TypeInv, NEW c \in Client
  PROVE  /\ CallType(call[c], used, Len(saves), Len(said), now)
         /\ call[c] \in CallRecord(used, Len(saves), Len(said), now)
         /\ call[c].s \in used \cup {NoSession}
         /\ call[c].pc \notin {"idle", "origin", "create"} => call[c].s \in used
BY DEF TypeInv, CallsTyped, CallType, CallRecord

(* deleteSession.                                                          *)
DeleteStep(c) ==
  \/ DeleteMessages(c) \/ DeleteCounter(c) \/ CollectCheckpoints(c)
  \/ DeleteIndex(c) \/ DeleteVersions(c) \/ DeleteRecord(c)

LEMMA DeleteType ==
  ASSUME TypeInv, NEW c \in Client, DeleteStep(c)
  PROVE  TypeInv'
<1> DEFINE s == call[c].s
<1>1. /\ CallType(call[c], used, Len(saves), Len(said), now)
      /\ call[c] \in CallRecord(used, Len(saves), Len(said), now)
      /\ call[c].pc \in {"messages", "counter", "collect", "index", "versions", "records"}
      /\ call[c].op = "delete" /\ s \in used /\ s \in Session /\ s # NoSession
  BY CallOK, PlaceTellsOp, StoreAssumption
     DEF DeleteStep, DeleteMessages, DeleteCounter, CollectCheckpoints, DeleteIndex,
         DeleteVersions, DeleteRecord, TypeInv, StoreTyped
<1>2. UNCHANGED <<used, saves, said, now>>
  BY DEF DeleteStep, DeleteMessages, DeleteCounter, CollectCheckpoints, DeleteIndex,
         DeleteVersions, DeleteRecord, history, keys
<1>3. StoreTyped'
  BY <1>1 DEF TypeInv, StoreTyped, CheckpointId, DeleteStep, DeleteMessages, DeleteCounter,
         CollectCheckpoints, DeleteIndex, DeleteVersions, DeleteRecord, history, keys
<1>4. MessagesTyped'
  <2>1. CASE DeleteMessages(c)
    BY <2>1, <1>2, FS_EmptySet DEF DeleteMessages, TypeInv, MessagesTyped
  <2>2. CASE ~ DeleteMessages(c)
    <3>1. UNCHANGED messages
      BY <2>2 DEF DeleteStep, DeleteCounter, CollectCheckpoints, DeleteIndex,
         DeleteVersions, DeleteRecord, keys
    <3> QED
      BY <3>1, <1>2 DEF TypeInv, MessagesTyped
  <2> QED
    BY <2>1, <2>2
<1>5. {"counter", "collect", "index", "versions", "records"} \subseteq PcOf("delete") \cap Places
  BY DEF PcOf, Places
<1>6. CASE DeleteMessages(c) \/ DeleteCounter(c) \/ DeleteIndex(c)
  <2>1. PICK p \in {"counter", "collect", "versions"} : Goto(c, p)
    BY <1>6 DEF DeleteMessages, DeleteCounter, DeleteIndex
  <2>2. CallType([call[c] EXCEPT !.pc = p], used, Len(saves), Len(said), now)
    BY <1>1, <1>5, GoesOn
  <2>3. CallsTyped'
    BY <1>2, <1>3, <2>1, <2>2, GotoType
  <2> QED
    BY <1>3, <1>4, <2>3 DEF TypeInv
<1>7. CASE CollectCheckpoints(c)
  <2> DEFINE i == index[s]
             p == IF i = {} THEN "versions" ELSE "index"
             k == [call[c] EXCEPT !.ids = i]
  <2>1. CallOf(c) /\ call'[c] = [k EXCEPT !.pc = p]
    BY <1>1, <1>7 DEF CollectCheckpoints, TypeInv, CallsTyped, CallOf, CallRecord
  <2>2. i \in SUBSET (1..Len(saves))
    BY <1>1 DEF TypeInv, StoreTyped, CheckpointId
  <2>3. CallType(k, used, Len(saves), Len(said), now)
    <3>1. k \in CallRecord(used, Len(saves), Len(said), now)
      BY <1>1, <2>2 DEF CallRecord
    <3>2. k.pc = "collect" /\ k.op = "delete" /\ k.s = s
      BY <1>1, <1>7 DEF CallRecord, CollectCheckpoints
    <3> QED
      BY <1>1, <3>1, <3>2 DEF CallType, PcOf
  <2>4. k.ids = i /\ k.op = "delete" /\ k.s = s
    BY <1>1 DEF CallRecord
  <2>5. CallType([k EXCEPT !.pc = p], used, Len(saves), Len(said), now)
    BY <1>1, <1>5, <2>3, <2>4, GoesOn
  <2>6. CallsTyped'
    BY <1>2, <1>3, <2>1, <2>5, CallsStep, Sizes DEF TypeInv
  <2> QED
    BY <1>3, <1>4, <2>6 DEF TypeInv
<1>8. CASE DeleteVersions(c)
  <2>1. CASE call[c].ids = {}
    <3>1. Finish(c)
      BY <1>8, <2>1 DEF DeleteVersions
    <3> QED
      BY <1>2, <1>3, <1>4, <3>1, FinishType DEF TypeInv
  <2>2. CASE call[c].ids # {}
    <3>1. Goto(c, "records")
      BY <1>8, <2>2 DEF DeleteVersions
    <3>2. CallType([call[c] EXCEPT !.pc = "records"], used, Len(saves), Len(said), now)
      BY <1>1, <1>5, <2>2, GoesOn
    <3>3. CallsTyped'
      BY <1>2, <1>3, <3>1, <3>2, GotoType
    <3> QED
      BY <1>3, <1>4, <3>3 DEF TypeInv
  <2> QED
    BY <2>1, <2>2
<1>9. CASE DeleteRecord(c)
  <2>1. PICK id \in call[c].ids :
          IF call[c].ids = {id} THEN Finish(c) ELSE call' = [call EXCEPT ![c].ids = @ \ {id}]
    BY <1>9 DEF DeleteRecord
  <2>2. CASE call[c].ids = {id}
    BY <1>2, <1>3, <1>4, <2>1, <2>2, FinishType DEF TypeInv
  <2>3. CASE call[c].ids # {id}
    <3> DEFINE k == [call[c] EXCEPT !.ids = @ \ {id}]
    <3>1. CallOf(c) /\ call'[c] = k
      BY <1>1, <2>1, <2>3 DEF TypeInv, CallsTyped, CallOf, CallRecord
    <3>2. k \in CallRecord(used, Len(saves), Len(said), now)
      BY <1>1 DEF CallRecord
    <3>3. k.pc = "records" /\ k.op = "delete" /\ k.s = s /\ k.ids = call[c].ids \ {id}
      BY <1>1, <1>9 DEF CallRecord, DeleteRecord
    <3>4. k.ids # {}
      BY <2>3, <3>3
    <3>5. CallType(k, used, Len(saves), Len(said), now)
      BY <1>1, <1>5, <3>2, <3>3, <3>4 DEF CallType
    <3>6. CallsTyped'
      BY <1>2, <1>3, <3>1, <3>5, CallsStep, Sizes DEF TypeInv
    <3> QED
      BY <1>3, <1>4, <3>6 DEF TypeInv
  <2> QED
    BY <2>1, <2>2, <2>3
<1> QED
  BY <1>6, <1>7, <1>8, <1>9 DEF DeleteStep

(* A call that throws, or is cut short.                                    *)
LEMMA ThrowType ==
  ASSUME TypeInv, NEW c \in Client, Throw(c), faults' \in 0..MaxFaults,
         UNCHANGED <<now, keys, saves, used, said, doomed, calls>>
  PROVE  TypeInv'
<1>1. StoreTyped'
  BY CallOK DEF TypeInv, StoreTyped, CheckpointId, Throw, keys
<1>2. MessagesTyped'
  BY DEF TypeInv, MessagesTyped, keys
<1>3. CallsTyped'
  BY <1>1, FinishType DEF Throw
<1> QED
  BY <1>1, <1>2, <1>3 DEF TypeInv

(* addMessage and the session's update at its end.                         *)
MessageStep(c) == CountMessage(c) \/ PushMessage(c) \/ ReadSession(c) \/ WriteSession(c)

LEMMA MessageType ==
  ASSUME TypeInv, NEW c \in Client, MessageStep(c)
  PROVE  TypeInv'
<1> DEFINE s == call[c].s
<1>0. now \in Nat /\ Len(saves) \in Nat /\ Len(said) \in Nat
  BY Sizes DEF TypeInv
<1>1. /\ CallType(call[c], used, Len(saves), Len(said), now)
      /\ call[c] \in CallRecord(used, Len(saves), Len(said), now)
      /\ call[c].pc \in {"count", "push", "read", "write"}
      /\ call[c].op \in {"update", "add", "fork"} /\ s \in used /\ s \in Session /\ s # NoSession
      /\ call[c].pc # "write" => call[c].op # "update" /\ call[c].todo # <<>>
      /\ call[c].op = "fork" => call[c].todo # <<>>
  <2>1. call[c].pc \in {"count", "push", "read", "write"}
    BY DEF MessageStep, CountMessage, PushMessage, ReadSession, WriteSession
  <2>2. CallType(call[c], used, Len(saves), Len(said), now) /\ s \in used
    BY <2>1, CallOK
  <2>3. s \in Session /\ s # NoSession
    BY <2>2, StoreAssumption DEF TypeInv, StoreTyped
  <2>4. call[c].op \in {"update", "add", "fork"} /\ (call[c].pc # "write" => call[c].op # "update")
    BY <2>1, <2>2, PlaceTellsOp
  <2> QED
    BY <2>1, <2>2, <2>3, <2>4 DEF CallType
<1>2. UNCHANGED <<used, saves, said, now, doomed, calls, faults>>
  BY DEF MessageStep, CountMessage, PushMessage, ReadSession, WriteSession, history, keys
<1>3. {"push", "read", "write"} \subseteq Places \cap PcOf("add") \cap PcOf("fork")
      /\ {"require", "requireSaved"} \subseteq Places \cap PcOf("fork")
  BY DEF PcOf, Places
<1>4. CASE CountMessage(c)
  <2>1. StoreTyped'
    BY <1>1, <1>4 DEF CountMessage, TypeInv, StoreTyped, CheckpointId, history
  <2>2. MessagesTyped'
    BY <1>4 DEF CountMessage, TypeInv, MessagesTyped, history
  <2>3. Goto(c, "push") /\ call[c].op \in {"add", "fork"} /\ call[c].todo # <<>>
    BY <1>1, <1>4 DEF CountMessage
  <2>4. CallType([call[c] EXCEPT !.pc = "push"], used, Len(saves), Len(said), now)
    BY <1>1, <1>3, <2>3, GoesOn
  <2>5. CallsTyped'
    BY <1>2, <2>1, <2>3, <2>4, GotoType
  <2> QED
    BY <2>1, <2>2, <2>5 DEF TypeInv
<1>5. CASE PushMessage(c)
  <2> DEFINE m == [what |-> Head(call[c].todo), at |-> call[c].at]
  <2>1. StoreTyped'
    BY <1>5 DEF PushMessage, TypeInv, StoreTyped, CheckpointId, history
  <2>2. Goto(c, "read") /\ call[c].op \in {"add", "fork"} /\ call[c].todo # <<>>
    BY <1>1, <1>5 DEF PushMessage
  <2>3. m \in [what : 1..Len(said), at : 0..now]
    <3>1. call[c].todo \in Seq(1..Len(said)) /\ call[c].at \in 0..now
      BY <1>1 DEF CallRecord
    <3>2. Head(call[c].todo) \in 1..Len(said)
      BY <2>2, <3>1, HeadTailProperties
    <3> QED
      BY <3>1, <3>2
  <2>4. messages' = [messages EXCEPT ![s] = @ \cup {m}]
    BY <1>5 DEF PushMessage
  <2>5. IsFiniteSet(messages[s] \cup {m})
    BY <1>1, FS_AddElement DEF TypeInv, MessagesTyped
  <2>6. MessagesTyped'
    <3>1. messages' \in [Session -> SUBSET [what : 1..Len(said), at : 0..now]]
      BY <1>1, <2>3, <2>4 DEF TypeInv, MessagesTyped
    <3>2. \A r \in Session : IsFiniteSet(messages'[r])
      BY <1>1, <2>4, <2>5 DEF TypeInv, MessagesTyped
    <3> QED
      BY <1>2, <3>1, <3>2 DEF MessagesTyped
  <2>7. CallType([call[c] EXCEPT !.pc = "read"], used, Len(saves), Len(said), now)
    BY <1>1, <1>3, <2>2, GoesOn
  <2>8. CallsTyped'
    BY <1>2, <2>1, <2>2, <2>7, GotoType
  <2> QED
    BY <2>1, <2>6, <2>8 DEF TypeInv
<1>6. CASE ReadSession(c)
  <2>1. CASE s \in session
    <3>1. Goto(c, "write") /\ UNCHANGED <<keys, excused>>
      BY <1>6, <2>1 DEF ReadSession
    <3>2. StoreTyped' /\ MessagesTyped'
      BY <1>2, <3>1 DEF TypeInv, StoreTyped, MessagesTyped, CheckpointId, keys
    <3>3. call[c].op \in {"add", "fork"} /\ call[c].todo # <<>>
      BY <1>1, <1>6 DEF ReadSession
    <3>4. CallType([call[c] EXCEPT !.pc = "write"], used, Len(saves), Len(said), now)
      BY <1>1, <1>3, <3>3, GoesOn
    <3>5. CallsTyped'
      BY <1>2, <3>1, <3>2, <3>4, GotoType
    <3> QED
      BY <3>2, <3>5 DEF TypeInv
  <2>2. CASE s \notin session
    <3>1. Throw(c) /\ UNCHANGED keys
      BY <1>6, <2>2 DEF ReadSession
    <3> QED
      BY <1>2, <3>1, ThrowType DEF TypeInv, StoreTyped
  <2> QED
    BY <2>1, <2>2
<1>7. CASE WriteSession(c)
  <2>1. StoreTyped' /\ MessagesTyped'
    BY <1>1, <1>7 DEF WriteSession, TypeInv, StoreTyped, MessagesTyped, CheckpointId, history
  <2>2. CASE call[c].op # "fork"
    <3>1. Finish(c)
      BY <1>7, <2>2 DEF WriteSession
    <3> QED
      BY <1>2, <2>1, <3>1, FinishType DEF TypeInv
  <2>3. CASE call[c].op = "fork"
    <3> DEFINE rest == Tail(call[c].todo)
               p == IF rest = <<>> THEN "requireSaved" ELSE "require"
               k == [call[c] EXCEPT !.todo = rest]
    <3>1. call' = [call EXCEPT ![c].todo = rest, ![c].pc = p]
      BY <1>7, <2>3 DEF WriteSession
    <3>2. CallOf(c) /\ call'[c] = [k EXCEPT !.pc = p]
      BY <1>1, <3>1 DEF TypeInv, CallsTyped, CallOf, CallRecord
    <3>3. rest \in Seq(1..Len(said))
      <4>1. call[c].todo \in Seq(1..Len(said)) /\ call[c].todo # <<>>
        BY <1>1, <2>3 DEF CallRecord
      <4> QED
        BY <4>1, HeadTailProperties
    <3>4. /\ [k EXCEPT !.pc = p] \in CallRecord(used, Len(saves), Len(said), now)
          /\ [k EXCEPT !.pc = p].pc = p /\ [k EXCEPT !.pc = p].op = "fork"
          /\ [k EXCEPT !.pc = p].s = s /\ [k EXCEPT !.pc = p].todo = rest
          /\ [k EXCEPT !.pc = p].from = call[c].from
      <4>1. k \in CallRecord(used, Len(saves), Len(said), now)
        BY <1>1, <3>3 DEF CallRecord
      <4>2. p \in Places
        BY <1>3
      <4>3. k.op = "fork" /\ k.s = s /\ k.todo = rest /\ k.from = call[c].from
        BY <1>1, <2>3 DEF CallRecord
      <4> HIDE DEF k, p
      <4> QED
        BY <4>1, <4>2, <4>3 DEF CallRecord
    <3>5. CallType([k EXCEPT !.pc = p], used, Len(saves), Len(said), now)
      BY <1>1, <1>3, <2>3, <3>4 DEF CallType
    <3>6. CallsTyped'
      BY <1>0, <1>2, <2>1, <3>2, <3>5, CallsStep
    <3> QED
      BY <2>1, <3>6 DEF TypeInv
  <2> QED
    BY <2>2, <2>3
<1> QED
  BY <1>4, <1>5, <1>6, <1>7 DEF MessageStep

(* saveCheckpoint.                                                         *)
CheckpointStep(c) == RecordCheckpoint(c) \/ IndexCheckpoint(c) \/ VersionCheckpoint(c)

LEMMA CheckpointType ==
  ASSUME TypeInv, NEW c \in Client, CheckpointStep(c)
  PROVE  TypeInv'
<1> DEFINE s == call[c].s
<1>1. /\ CallType(call[c], used, Len(saves), Len(said), now)
      /\ call[c].op \in {"save", "fork"} /\ s \in used /\ s \in Session /\ s # NoSession
      /\ call[c].cp # 0 /\ call[c].cp \in CheckpointId
  <2>1. call[c].pc \in {"record", "index", "version"}
        /\ (call[c].pc = "index" => call[c].op \in {"save", "fork"})
    BY DEF CheckpointStep, RecordCheckpoint, IndexCheckpoint, VersionCheckpoint
  <2>2. CallType(call[c], used, Len(saves), Len(said), now) /\ s \in used
        /\ call[c].cp \in 0..Len(saves)
    BY <2>1, CallOK DEF CallRecord
  <2>3. s \in Session /\ s # NoSession
    BY <2>2, StoreAssumption DEF TypeInv, StoreTyped
  <2>4. call[c].op \in {"save", "fork"}
    BY <2>1, <2>2, PlaceTellsOp
  <2>5. call[c].cp # 0
    BY <2>1, <2>2, <2>4 DEF CallType
  <2> QED
    BY <2>2, <2>3, <2>4, <2>5, Sizes DEF CheckpointId, TypeInv
<1>2. UNCHANGED <<used, saves, said, now>>
  BY DEF CheckpointStep, RecordCheckpoint, IndexCheckpoint, VersionCheckpoint, history
<1>3. StoreTyped' /\ MessagesTyped'
  <2>1. CASE RecordCheckpoint(c)
    BY <1>1, <2>1 DEF RecordCheckpoint, history, TypeInv, StoreTyped, MessagesTyped, CheckpointId
  <2>2. CASE IndexCheckpoint(c)
    BY <1>1, <2>2 DEF IndexCheckpoint, history, TypeInv, StoreTyped, MessagesTyped, CheckpointId
  <2>3. CASE VersionCheckpoint(c)
    BY <1>1, <2>3 DEF VersionCheckpoint, history, TypeInv, StoreTyped, MessagesTyped, CheckpointId
  <2> QED
    BY <2>1, <2>2, <2>3 DEF CheckpointStep
<1>4. {"index", "version"} \subseteq Places \cap PcOf("save") \cap PcOf("fork")
  BY DEF PcOf, Places
<1>5. CASE RecordCheckpoint(c) \/ IndexCheckpoint(c)
  <2>1. PICK p \in {"index", "version"} : Goto(c, p)
    BY <1>5 DEF RecordCheckpoint, IndexCheckpoint
  <2>2. CallType([call[c] EXCEPT !.pc = p], used, Len(saves), Len(said), now)
    BY <1>1, <1>4, GoesOn
  <2>3. CallsTyped'
    BY <1>2, <1>3, <2>1, <2>2, GotoType
  <2> QED
    BY <1>3, <2>3 DEF TypeInv
<1>6. CASE VersionCheckpoint(c)
  <2>1. Finish(c)
    BY <1>6 DEF VersionCheckpoint
  <2> QED
    BY <1>2, <1>3, <2>1, FinishType DEF TypeInv
<1> QED
  BY <1>5, <1>6 DEF CheckpointStep

(* What a fork copies is a sequence of the messages there are.             *)
LEMMA CopiedType ==
  ASSUME TypeInv, NEW id \in CheckpointId, NEW q \in InOrder(Until(id))
  PROVE  [i \in DOMAIN q |-> q[i].what] \in Seq(1..Len(said))
<1>1. saves[id].s \in Session
  BY DEF TypeInv, StoreTyped
<1>2. Until(id) \subseteq messages[saves[id].s]
  BY DEF Until
<1>3. Until(id) \subseteq [what : 1..Len(said), at : 0..now]
  BY <1>1, <1>2 DEF TypeInv, MessagesTyped
<1>4. IsFiniteSet(Until(id))
  BY <1>1, <1>2, FS_Subset DEF TypeInv, MessagesTyped
<1>5. Cardinality(Until(id)) \in Nat
  BY <1>4, FS_CardinalityType
<1>6. q \in [1..Cardinality(Until(id)) -> Until(id)]
  BY DEF InOrder
<1>7. [i \in DOMAIN q |-> q[i].what] \in [1..Cardinality(Until(id)) -> 1..Len(said)]
  BY <1>3, <1>6
<1> QED
  BY <1>5, <1>7, IsASeq

ForkStep(c) ==
  \/ FindOrigin(c) \/ CreateFork(c) \/ ReadMessages(c)
  \/ RequireForMessage(c) \/ RequireForCheckpoint(c)

LEMMA ForkType ==
  ASSUME TypeInv, NEW c \in Client, ForkStep(c)
  PROVE  TypeInv'
<1> DEFINE s == call[c].s
<1>0. now \in Nat /\ Len(saves) \in Nat /\ Len(said) \in Nat
  BY Sizes DEF TypeInv
<1>1. /\ CallType(call[c], used, Len(saves), Len(said), now)
      /\ call[c] \in CallRecord(used, Len(saves), Len(said), now)
      /\ call[c].op = "fork" /\ call[c].from \in CheckpointId
      /\ call[c].pc \in {"origin", "create", "list", "copy", "require", "requireSaved"}
      /\ call[c].pc \notin {"origin", "create"} => s \in used /\ s # NoSession
  <2>1. call[c].pc \in {"origin", "create", "list", "copy", "require", "requireSaved"}
    BY DEF ForkStep, FindOrigin, CreateFork, ReadMessages, RequireForMessage, RequireForCheckpoint
  <2>2. call[c].op = "fork"
    BY <2>1, CallOK, PlaceTellsOp
  <2>3. call[c].from # 0 /\ call[c].from \in 0..Len(saves)
    BY <2>2, CallOK DEF CallType, CallRecord
  <2>4. call[c].pc \notin {"origin", "create"} => s \in used /\ s # NoSession
    BY <2>1, CallOK, StoreAssumption DEF TypeInv, StoreTyped
  <2> QED
    BY <1>0, <2>1, <2>2, <2>3, <2>4, CallOK DEF CheckpointId
<1>2. {"create", "list", "copy", "require", "requireSaved", "count", "record"}
        \subseteq Places \cap PcOf("fork")
  BY DEF PcOf, Places
<1>3. CASE FindOrigin(c)
  <2>1. CASE Origin(c) \in session
    <3>1. UNCHANGED <<now, keys, saves, used, history, calls, faults>>
      BY <1>3, <2>1 DEF FindOrigin, history
    <3>2. StoreTyped' /\ MessagesTyped'
      BY <3>1 DEF TypeInv, StoreTyped, MessagesTyped, CheckpointId, keys, history
    <3>3. CASE call[c].pc = "origin"
      <4>1. Goto(c, "create")
        BY <1>3, <2>1, <3>3 DEF FindOrigin
      <4>2. /\ [call[c] EXCEPT !.pc = "create"] \in CallRecord(used, Len(saves), Len(said), now)
            /\ [call[c] EXCEPT !.pc = "create"].pc = "create"
            /\ [call[c] EXCEPT !.pc = "create"].op = "fork"
            /\ [call[c] EXCEPT !.pc = "create"].s = s
            /\ [call[c] EXCEPT !.pc = "create"].from = call[c].from
        BY <1>1, <1>2 DEF CallRecord
      <4>3. s = NoSession /\ call[c].from # 0
        BY <1>1, <3>3 DEF CallType
      <4>4. CallType([call[c] EXCEPT !.pc = "create"], used, Len(saves), Len(said), now)
        BY <1>2, <4>2, <4>3 DEF CallType
      <4>5. CallsTyped'
        BY <3>1, <3>2, <4>1, <4>4, GotoType DEF history
      <4> QED
        BY <3>2, <4>5 DEF TypeInv
    <3>4. CASE call[c].pc = "list"
      <4>1. Goto(c, "copy")
        BY <1>3, <2>1, <3>4 DEF FindOrigin
      <4>2. CallType([call[c] EXCEPT !.pc = "copy"], used, Len(saves), Len(said), now)
        BY <1>1, <1>2, <3>4, GoesOn
      <4>3. CallsTyped'
        BY <3>1, <3>2, <4>1, <4>2, GotoType DEF history
      <4> QED
        BY <3>2, <4>3 DEF TypeInv
    <3> QED
      BY <1>3, <3>3, <3>4 DEF FindOrigin
  <2>2. CASE Origin(c) \notin session
    <3>1. Throw(c) /\ UNCHANGED <<now, keys, saves, used, said, doomed, calls, faults>>
      BY <1>3, <2>2 DEF FindOrigin
    <3> QED
      BY <3>1, ThrowType DEF TypeInv, StoreTyped
  <2> QED
    BY <2>1, <2>2
<1>4. CASE CreateFork(c)
  <2>1. PICK new \in Session \ used :
          /\ session' = session \cup {new} /\ used' = used \cup {new}
          /\ call' = [call EXCEPT ![c].s = new, ![c].pc = "list"]
    BY <1>4 DEF CreateFork
  <2>2. UNCHANGED <<now, counted, messages, recorded, index, versions, saves, history,
                    calls, faults>>
    BY <1>4 DEF CreateFork
  <2>3. StoreTyped' /\ MessagesTyped'
    BY <2>1, <2>2 DEF TypeInv, StoreTyped, MessagesTyped, CheckpointId, history
  <2>4. CallOf(c) /\ call'[c] = [call[c] EXCEPT !.s = new, !.pc = "list"]
    BY <1>1, <2>1 DEF TypeInv, CallsTyped, CallOf, CallRecord
  <2> DEFINE k == [call[c] EXCEPT !.s = new, !.pc = "list"]
  <2>5. /\ k \in CallRecord(used', Len(saves), Len(said), now)
        /\ k.pc = "list" /\ k.op = "fork" /\ k.s = new /\ k.from = call[c].from
    BY <1>1, <1>2, <2>1 DEF CallRecord
  <2>6. call[c].from # 0 /\ new # NoSession
    BY <1>1, StoreAssumption DEF CallType
  <2>7. CallType(k, used', Len(saves), Len(said), now)
    BY <1>2, <2>5, <2>6 DEF CallType
  <2>8. UNCHANGED <<saves, said, now>> /\ used \subseteq used'
    BY <2>1, <2>2 DEF history
  <2>9. CallsTyped'
    BY <1>0, <2>3, <2>4, <2>7, <2>8, CallsStep
  <2> QED
    BY <2>3, <2>9 DEF TypeInv
<1>5. CASE ReadMessages(c)
  <2>1. PICK q \in InOrder(Until(call[c].from)) :
          call' = [call EXCEPT ![c].todo = [i \in DOMAIN q |-> q[i].what],
                     ![c].pc = IF q = <<>> THEN "requireSaved" ELSE "require"]
    BY <1>5 DEF ReadMessages
  <2> DEFINE todo == [i \in DOMAIN q |-> q[i].what]
             p == IF q = <<>> THEN "requireSaved" ELSE "require"
             k == [call[c] EXCEPT !.todo = todo, !.pc = p]
  <2>2. UNCHANGED <<now, keys, saves, used, history, calls, faults>>
    BY <1>5 DEF ReadMessages
  <2>3. StoreTyped' /\ MessagesTyped'
    BY <2>2 DEF TypeInv, StoreTyped, MessagesTyped, CheckpointId, keys, history
  <2>4. CallOf(c) /\ call'[c] = k
    BY <1>1, <2>1 DEF TypeInv, CallsTyped, CallOf, CallRecord
  <2>5. todo \in Seq(1..Len(said))
    BY <1>1, CopiedType
  <2>6. p \in Places \cap PcOf("fork") /\ (p = "require" => q # <<>>)
    BY <1>2
  <2>7. p = "require" => todo # <<>>
    <3>1. q \in [1..Cardinality(Until(call[c].from)) -> Until(call[c].from)]
      BY DEF InOrder
    <3>2. todo = <<>> => DOMAIN q = {}
      OBVIOUS
    <3>3. DOMAIN q = {} => q = <<>>
      BY <3>1
    <3> QED
      BY <2>6, <3>2, <3>3
  <2>8. k \in CallRecord(used, Len(saves), Len(said), now) /\ k.pc = p /\ k.op = "fork"
        /\ k.s = s /\ k.from = call[c].from /\ k.todo = todo
    <3> HIDE DEF todo, p
    <3> QED
      BY <1>1, <2>5, <2>6 DEF CallRecord
  <2>9. CallType(k, used, Len(saves), Len(said), now)
    <3>1. s # NoSession /\ call[c].from # 0 /\ p \in {"require", "requireSaved"}
      BY <1>1, <1>5 DEF ReadMessages, CallType
    <3> HIDE DEF k, todo, p
    <3> QED
      BY <2>6, <2>7, <2>8, <3>1 DEF CallType
  <2>10. CallsTyped'
    <3> HIDE DEF k
    <3>1. UNCHANGED <<saves, said, now, used>>
      BY <2>2 DEF history
    <3> QED
      BY <1>0, <2>3, <2>4, <2>9, <3>1, CallsStep
  <2> QED
    BY <2>3, <2>10 DEF TypeInv
<1>6. CASE RequireForMessage(c)
  <2>1. CASE s \in session
    <3>1. UNCHANGED <<now, keys, saves, used, history, calls, faults>>
      BY <1>6, <2>1 DEF RequireForMessage, history
    <3>2. StoreTyped' /\ MessagesTyped'
      BY <3>1 DEF TypeInv, StoreTyped, MessagesTyped, CheckpointId, keys, history
    <3> DEFINE k == [call[c] EXCEPT !.at = now, !.pc = "count"]
    <3>3. CallOf(c) /\ call'[c] = k
      BY <1>1, <1>6, <2>1 DEF RequireForMessage, TypeInv, CallsTyped, CallOf, CallRecord
    <3>4. k \in CallRecord(used, Len(saves), Len(said), now) /\ k.pc = "count" /\ k.op = "fork"
          /\ k.s = s /\ k.from = call[c].from /\ k.todo = call[c].todo
      <4>1. now \in 0..now /\ "count" \in Places
        BY <1>0, <1>2
      <4>2. call[c].op = "fork" /\ call[c] \in CallRecord(used, Len(saves), Len(said), now)
        BY <1>1
      <4> QED
        BY <4>1, <4>2 DEF CallRecord
    <3>5. CallType(k, used, Len(saves), Len(said), now)
      <4>1. s # NoSession /\ call[c].from # 0 /\ call[c].todo # <<>>
        BY <1>1, <1>6 DEF RequireForMessage, CallType
      <4> QED
        BY <1>2, <3>4, <4>1 DEF CallType
    <3>6. UNCHANGED <<saves, said, now, used>>
      BY <3>1 DEF history
    <3>7. CallsTyped'
      BY <1>0, <3>2, <3>3, <3>5, <3>6, CallsStep
    <3> QED
      BY <3>2, <3>7 DEF TypeInv
  <2>2. CASE s \notin session
    <3>1. Throw(c) /\ UNCHANGED <<now, keys, saves, used, said, doomed, calls, faults>>
      BY <1>6, <2>2 DEF RequireForMessage
    <3> QED
      BY <3>1, ThrowType DEF TypeInv, StoreTyped
  <2> QED
    BY <2>1, <2>2
<1>7. CASE RequireForCheckpoint(c)
  <2>1. CASE s \in session
    <3>1. UNCHANGED <<now, keys, used, history, calls, faults>>
          /\ saves' = Append(saves, NewCheckpoint(s))
      BY <1>7, <2>1 DEF RequireForCheckpoint, history
    <3>2. s \in used
      BY <2>1 DEF TypeInv, StoreTyped
    <3>3. NewCheckpoint(s) \in Checkpoints /\ NewCheckpoint(s).s = s /\ NewCheckpoint(s).at = now
      BY <1>0, <3>2 DEF NewCheckpoint, Checkpoints, TypeInv, StoreTyped, MessagesTyped
    <3>4. StoreTyped' /\ Len(saves') = Len(saves) + 1
      BY <3>1, <3>2, <3>3, SavedType DEF history, keys, TypeInv, StoreTyped
    <3>5. MessagesTyped'
      BY <3>1 DEF TypeInv, MessagesTyped, keys, history
    <3> DEFINE k == [call[c] EXCEPT !.cp = Len(saves) + 1, !.pc = "record"]
    <3>6. CallOf(c) /\ call'[c] = k
      BY <1>1, <1>7, <2>1 DEF RequireForCheckpoint, TypeInv, CallsTyped, CallOf, CallRecord
    <3>7. call[c] \in CallRecord(used, Len(saves'), Len(said), now)
      <4>1. CallType(call[c], used, Len(saves'), Len(said), now)
        BY <1>0, <1>1, <3>4, CallTypeGrows
      <4> QED
        BY <4>1 DEF CallType
    <3>8. k \in CallRecord(used, Len(saves'), Len(said), now) /\ k.pc = "record"
          /\ k.op = "fork" /\ k.s = s /\ k.from = call[c].from /\ k.cp = Len(saves) + 1
      <4>1. Len(saves) + 1 \in 0..Len(saves') /\ "record" \in Places
        BY <1>0, <1>2, <3>4
      <4>2. call[c].op = "fork"
        BY <1>1
      <4> QED
        BY <3>7, <4>1, <4>2 DEF CallRecord
    <3>9. CallType(k, used, Len(saves'), Len(said), now)
      <4>1. s # NoSession /\ call[c].from # 0
        BY <1>1, <1>7 DEF RequireForCheckpoint, CallType
      <4> QED
        BY <1>0, <1>2, <3>8, <4>1 DEF CallType
    <3>10. UNCHANGED <<said, now, used>>
      BY <3>1 DEF history
    <3>11. CallsTyped'
      BY <1>0, <3>4, <3>6, <3>9, <3>10, CallsStep
    <3> QED
      BY <3>4, <3>5, <3>11 DEF TypeInv
  <2>2. CASE s \notin session
    <3>1. Throw(c) /\ UNCHANGED <<now, keys, saves, used, said, doomed, calls, faults>>
      BY <1>7, <2>2 DEF RequireForCheckpoint
    <3> QED
      BY <3>1, ThrowType DEF TypeInv, StoreTyped
  <2> QED
    BY <2>1, <2>2
<1> QED
  BY <1>3, <1>4, <1>5, <1>6, <1>7 DEF ForkStep

LEMMA TypeNext == TypeInv /\ [Next]_vars => TypeInv'
<1> SUFFICES ASSUME TypeInv, [Next]_vars PROVE TypeInv'
  OBVIOUS
<1>1. CASE UNCHANGED vars
  BY <1>1 DEF vars, keys, history, TypeInv, StoreTyped, MessagesTyped, CallsTyped, CheckpointId
<1>2. CASE Tick
  <2>1. now' = now + 1 /\ now' \in 0..MaxTime /\ now \in Nat /\ now' \in Nat
    BY <1>2, StoreAssumption DEF Tick, TypeInv, StoreTyped
  <2>2. Len(saves) \in Nat /\ Len(said) \in Nat
    BY Sizes DEF TypeInv
  <2>3. UNCHANGED <<keys, call, saves, used, history, calls, faults>>
    BY <1>2 DEF Tick
  <2>4. StoreTyped'
    <3>1. saves \in Seq(Checkpoints)
      BY DEF TypeInv, StoreTyped
    <3>2. ASSUME NEW i \in CheckpointId PROVE saves[i].at \in Nat
      <4>1. saves[i] \in Checkpoints
        BY <2>2, <3>1, LenProperties DEF CheckpointId
      <4> QED
        BY <4>1 DEF Checkpoints
    <3> QED
      BY <2>1, <2>3, <3>2 DEF TypeInv, StoreTyped, CheckpointId, keys, history
  <2>5. MessagesTyped'
    BY <2>1, <2>3, <2>4, MessagesGrow DEF keys, history
  <2>6. \A c \in Client : CallType(call[c], used, Len(saves), Len(said), now')
    BY <2>1, <2>2, CallOK, CallTypeGrows
  <2>7. CallsTyped'
    BY <2>3, <2>6 DEF TypeInv, CallsTyped, history
  <2> QED
    BY <2>4, <2>5, <2>7 DEF TypeInv
<1>3. ASSUME NEW c \in Client, Begin(c) \/ Continue(c) \/ CutShort(c)
      PROVE  TypeInv'
  <2>1. CASE Begin(c)
    BY <2>1, BeginType
  <2>2. CASE Continue(c)
    BY <2>2, DeleteType, MessageType, CheckpointType, ForkType
       DEF Continue, DeleteStep, MessageStep, CheckpointStep, ForkStep
  <2>3. CASE CutShort(c)
    <3>1. faults' \in 0..MaxFaults
      BY <2>3, StoreAssumption DEF CutShort, TypeInv, StoreTyped
    <3> QED
      BY <2>3, <3>1, ThrowType DEF CutShort
  <2> QED
    BY <1>3, <2>1, <2>2, <2>3
<1> QED
  BY <1>1, <1>2, <1>3 DEF Next

(* Ids, checkpoints and messages that keys and calls refer to exist, and   *)
(* no operation loses its thread: a deletion that goes on to an index has  *)
(* found one, and a copy that goes on has something to copy.               *)
THEOREM TypeCorrect == Spec => []TypeOK
BY TypeInit, TypeNext, TypeInvOK, PTL DEF Spec

-----------------------------------------------------------------------------
(* Indexes.  A checkpoint that is being saved is nobody else's: no index   *)
(* and no deletion knows its id before it is recorded and indexed.         *)
Saving(c) == call[c].op \in {"save", "fork"} /\ call[c].pc \in {"record", "index"}

SavingIsPrivate ==
  \A c \in Client : Saving(c) =>
    /\ saves[call[c].cp].s = call[c].s
    /\ call[c].pc = "index" <=> call[c].cp \in recorded
    /\ \A s \in Session : call[c].cp \notin index[s]
    /\ \A d \in Client : call[d].op = "delete" => call[c].cp \notin call[d].ids
    /\ \A d \in Client : Saving(d) /\ d # c => call[d].cp # call[c].cp

IndexedBySession == \A s \in Session : \A i \in index[s] : saves[i].s = s

(* What a deletion will delete is the session's and, once the index has    *)
(* been deleted, in no index.                                              *)
DeletesOwn ==
  \A c \in Client : call[c].op = "delete" =>
    /\ \A i \in call[c].ids : saves[i].s = call[c].s
    /\ call[c].pc \in {"versions", "records"} => call[c].ids \cap index[call[c].s] = {}

IndexInv == SavingIsPrivate /\ IndexedBySession /\ DeletesOwn /\ IndexedIsStored

LEMMA IndexInit == Init => IndexInv
BY DEF Init, IndexInv, SavingIsPrivate, IndexedBySession, DeletesOwn, IndexedIsStored, Saving,
       Idle

(* The fields of a call that goes on, and of one that is over.             *)
LEMMA GotoFields ==
  ASSUME TypeInv, NEW c \in Client, NEW p, Goto(c, p)
  PROVE  /\ CallOf(c) /\ call'[c].pc = p /\ call'[c].op = call[c].op
         /\ call'[c].s = call[c].s /\ call'[c].cp = call[c].cp /\ call'[c].ids = call[c].ids
BY CallOK DEF Goto, TypeInv, CallsTyped, CallOf, CallRecord

LEMMA CallFields ==
  ASSUME TypeInv, NEW c \in Client, NEW r, Call(c, r)
  PROVE  CallOf(c) /\ call'[c] = r
BY CallChanges DEF Call, TypeInv

LEMMA FinishFields ==
  ASSUME TypeInv, NEW c \in Client, Finish(c)
  PROVE  /\ CallOf(c) /\ call'[c].op = "none" /\ call'[c].pc = "idle"
         /\ call'[c].s = NoSession /\ call'[c].ids = {}
<1>1. CallOf(c) /\ call'[c] = Idle
  BY CallChanges DEF Finish, TypeInv
<1> QED
  BY <1>1 DEF Idle

LEMMA OthersStay ==
  ASSUME NEW c \in Client, CallOf(c), NEW d \in Client, d # c
  PROVE  call'[d] = call[d]
BY DEF CallOf

(* A step that touches no checkpoint and no index: the client whose step   *)
(* it is does not begin to save and collects nothing.                      *)
KeepsSaving(c) ==
  /\ UNCHANGED <<saves, recorded, index>> /\ CallOf(c)
  /\ Saving(c)' => /\ Saving(c) /\ call'[c].cp = call[c].cp /\ call'[c].s = call[c].s
                   /\ call'[c].pc = call[c].pc
  /\ call'[c].op = "delete" =>
       \/ call'[c].ids = {}
       \/ /\ call[c].op = "delete" /\ call'[c].ids = call[c].ids /\ call'[c].s = call[c].s
          /\ call'[c].pc \in {"versions", "records"} => call[c].pc \in {"versions", "records"}

LEMMA KeepsIndexInv ==
  ASSUME TypeInv, IndexInv, NEW c \in Client, KeepsSaving(c)
  PROVE  IndexInv'
<1>1. \A d \in Client : d # c => call'[d] = call[d]
  BY OthersStay DEF KeepsSaving
<1>2. \A d \in Client : Saving(d)' => /\ Saving(d) /\ call'[d].cp = call[d].cp
                                      /\ call'[d].s = call[d].s /\ call'[d].pc = call[d].pc
  BY <1>1 DEF KeepsSaving, Saving
<1>3. \A d \in Client : call'[d].op = "delete" =>
        \/ call'[d].ids = {}
        \/ call[d].op = "delete" /\ call'[d].ids = call[d].ids
  BY <1>1 DEF KeepsSaving
<1>4. SavingIsPrivate'
  BY <1>2, <1>3 DEF KeepsSaving, IndexInv, SavingIsPrivate
<1>5. DeletesOwn'
  BY <1>1 DEF KeepsSaving, IndexInv, DeletesOwn
<1> QED
  BY <1>4, <1>5 DEF KeepsSaving, IndexInv, IndexedBySession, IndexedIsStored

(* A checkpoint is made: its id is new.                                    *)
LEMMA MadeIndexInv ==
  ASSUME TypeInv, IndexInv, NEW c \in Client, NEW s \in used,
         saves' = Append(saves, NewCheckpoint(s)), UNCHANGED <<recorded, index>>, CallOf(c),
         call'[c].op \in {"save", "fork"}, call'[c].pc = "record", call'[c].s = s,
         call'[c].cp = Len(saves) + 1
  PROVE  IndexInv'
<1>0. Len(saves) \in Nat
  BY Sizes DEF TypeInv
<1>1. /\ \A i \in CheckpointId : saves'[i] = saves[i]
      /\ saves'[Len(saves) + 1].s = s
  <2>1. NewCheckpoint(s) \in Checkpoints
    BY Sizes DEF NewCheckpoint, Checkpoints, TypeInv, StoreTyped, MessagesTyped
  <2> QED
    BY <2>1, AppendProperties DEF TypeInv, StoreTyped, NewCheckpoint, CheckpointId
<1>2. Len(saves) + 1 \notin CheckpointId
  BY <1>0 DEF CheckpointId
<1>3. \A d \in Client : d # c => call'[d] = call[d]
  BY OthersStay
<1>4. \A d \in Client : call[d].cp \in 0..Len(saves) /\ call[d].ids \subseteq CheckpointId
        /\ (Saving(d) => call[d].cp \in CheckpointId)
  BY <1>0, CallOK DEF CallRecord, CallType, Saving, CheckpointId
<1>5. recorded \subseteq CheckpointId /\ \A r \in Session : index[r] \subseteq CheckpointId
  BY DEF TypeInv, StoreTyped
<1>6. SavingIsPrivate'
  <2> SUFFICES ASSUME NEW d \in Client, Saving(d)'
               PROVE  /\ saves'[call'[d].cp].s = call'[d].s
                      /\ call'[d].pc = "index" <=> call'[d].cp \in recorded
                      /\ \A r \in Session : call'[d].cp \notin index[r]
                      /\ \A e \in Client : call'[e].op = "delete" => call'[d].cp \notin call'[e].ids
                      /\ \A e \in Client : Saving(e)' /\ e # d => call'[e].cp # call'[d].cp
    BY DEF SavingIsPrivate
  <2>1. \A e \in Client : call'[e].op = "delete" => e # c /\ call'[e] = call[e]
    BY <1>3
  <2>2. CASE d = c
    BY <1>0, <1>1, <1>2, <1>3, <1>4, <1>5, <2>1, <2>2
  <2>3. CASE d # c
    <3>1. Saving(d) /\ call'[d] = call[d]
      BY <1>3, <2>3 DEF Saving
    <3>2. \A e \in Client : Saving(e)' /\ e # d => call'[e].cp # call'[d].cp
      BY <1>0, <1>2, <1>3, <1>4, <3>1 DEF IndexInv, SavingIsPrivate, Saving
    <3>3. saves'[call[d].cp] = saves[call[d].cp] /\ saves[call[d].cp].s = call[d].s
      BY <1>1, <1>4, <3>1 DEF IndexInv, SavingIsPrivate
    <3>4. /\ call[d].pc = "index" <=> call[d].cp \in recorded
          /\ \A r \in Session : call[d].cp \notin index[r]
          /\ \A e \in Client : call[e].op = "delete" => call[d].cp \notin call[e].ids
      BY <3>1 DEF IndexInv, SavingIsPrivate
    <3> QED
      BY <2>1, <3>1, <3>2, <3>3, <3>4
  <2> QED
    BY <2>2, <2>3
<1>7. IndexedBySession'
  BY <1>1, <1>5 DEF IndexInv, IndexedBySession
<1>8. DeletesOwn'
  <2>1. \A e \in Client : call'[e].op = "delete" => call'[e] = call[e]
    BY <1>3
  <2> SUFFICES ASSUME NEW e \in Client, call'[e].op = "delete"
               PROVE  /\ \A i \in call'[e].ids : saves'[i].s = call'[e].s
                      /\ call'[e].pc \in {"versions", "records"} =>
                           call'[e].ids \cap index'[call'[e].s] = {}
    BY DEF DeletesOwn
  <2>2. call'[e] = call[e] /\ call[e].op = "delete" /\ call[e].ids \subseteq CheckpointId
    BY <1>4, <2>1
  <2>3. \A i \in call[e].ids : saves[i].s = call[e].s
    BY <2>2 DEF IndexInv, DeletesOwn
  <2>4. call[e].pc \in {"versions", "records"} => call[e].ids \cap index[call[e].s] = {}
    BY <2>2 DEF IndexInv, DeletesOwn
  <2> QED
    BY <1>1, <2>2, <2>3, <2>4
<1> QED
  BY <1>6, <1>7, <1>8 DEF IndexInv, IndexedIsStored

LEMMA IndexNext == TypeInv /\ TypeInv' /\ IndexInv /\ [Next]_vars => IndexInv'
<1> SUFFICES ASSUME TypeInv, TypeInv', IndexInv, [Next]_vars PROVE IndexInv'
  OBVIOUS
<1>1. CASE UNCHANGED vars \/ Tick
  <2>1. UNCHANGED <<saves, recorded, index, call>>
    BY <1>1 DEF vars, Tick, keys
  <2> QED
    BY <2>1 DEF IndexInv, SavingIsPrivate, IndexedBySession, DeletesOwn, IndexedIsStored, Saving
<1>2. ASSUME NEW c \in Client, Begin(c) \/ Continue(c) \/ CutShort(c)
      PROVE  IndexInv'
  <2>0. /\ CallType(call[c], used, Len(saves), Len(said), now)
        /\ call[c] \in CallRecord(used, Len(saves), Len(said), now)
    BY CallOK
  <2>1. CASE CreateSession(c)
    BY <2>1 DEF CreateSession, IndexInv, SavingIsPrivate, IndexedBySession, DeletesOwn,
                IndexedIsStored, Saving
  <2>2. ASSUME NEW s \in Session, UpdateSession(c, s) \/ DeleteSession(c, s) \/ AddMessage(c, s)
        PROVE  IndexInv'
    <3>1. CallOf(c) /\ call'[c].ids = {} /\ call'[c].pc \in {"write", "messages", "count"}
      <4>1. CASE UpdateSession(c, s)
        <5>1. CallOf(c) /\ call'[c] = [Idle EXCEPT !.op = "update", !.pc = "write", !.s = s]
          BY <4>1, CallFields DEF UpdateSession
        <5> QED
          BY <5>1 DEF Idle
      <4>2. CASE DeleteSession(c, s)
        <5>1. CallOf(c) /\ call'[c] = [Idle EXCEPT !.op = "delete", !.pc = "messages", !.s = s]
          BY <4>2, CallFields DEF DeleteSession
        <5> QED
          BY <5>1 DEF Idle
      <4>3. CASE AddMessage(c, s)
        <5>1. /\ CallOf(c)
              /\ call'[c] = [Idle EXCEPT !.op = "add", !.pc = "count", !.s = s,
                                         !.todo = <<Len(said) + 1>>, !.at = now]
          BY <4>3, CallFields DEF AddMessage
        <5> QED
          BY <5>1 DEF Idle
      <4> QED
        BY <2>2, <4>1, <4>2, <4>3
    <3>3. UNCHANGED <<saves, recorded, index>>
      BY <2>2 DEF UpdateSession, DeleteSession, AddMessage, keys
    <3> QED
      BY <3>1, <3>3, KeepsIndexInv DEF KeepsSaving, Saving
  <2>3. ASSUME NEW id \in recorded, Fork(c, id)
        PROVE  IndexInv'
    <3>1. CallOf(c) /\ call'[c] = [Idle EXCEPT !.op = "fork", !.pc = "origin", !.from = id]
      BY <2>3, CallFields DEF Fork
    <3>2. call'[c].ids = {} /\ call'[c].pc = "origin"
      BY <3>1 DEF Idle
    <3>3. UNCHANGED <<saves, recorded, index>>
      BY <2>3 DEF Fork, keys
    <3> QED
      BY <3>1, <3>2, <3>3, KeepsIndexInv DEF KeepsSaving, Saving
  <2>4. ASSUME NEW s \in Session, SaveCheckpoint(c, s)
        PROVE  IndexInv'
    <3>1. /\ CallOf(c)
          /\ call'[c] = [Idle EXCEPT !.op = "save", !.pc = "record", !.s = s,
                                     !.cp = Len(saves) + 1]
      BY <2>4, CallFields DEF SaveCheckpoint
    <3>2. /\ call'[c].op = "save" /\ call'[c].pc = "record" /\ call'[c].s = s
          /\ call'[c].cp = Len(saves) + 1
      BY <3>1 DEF Idle
    <3>3. s \in used /\ saves' = Append(saves, NewCheckpoint(s)) /\ UNCHANGED <<recorded, index>>
      BY <2>4 DEF SaveCheckpoint, TypeInv, StoreTyped, keys
    <3> QED
      BY <3>1, <3>2, <3>3, MadeIndexInv
  <2>5. CASE RequireForCheckpoint(c) /\ call[c].s \in session
    <3>1. /\ call' = [call EXCEPT ![c].cp = Len(saves) + 1, ![c].pc = "record"]
          /\ saves' = Append(saves, NewCheckpoint(call[c].s)) /\ UNCHANGED <<recorded, index>>
          /\ call[c].pc = "requireSaved"
      BY <2>5 DEF RequireForCheckpoint, keys
    <3>2. CallOf(c) /\ call'[c] = [call[c] EXCEPT !.cp = Len(saves) + 1, !.pc = "record"]
      BY <2>0, <3>1 DEF TypeInv, CallsTyped, CallOf, CallRecord
    <3>3. /\ call'[c].op = "fork" /\ call'[c].pc = "record" /\ call'[c].s = call[c].s
          /\ call'[c].cp = Len(saves) + 1
      <4>1. call[c].op = "fork"
        BY <2>0, <3>1, PlaceTellsOp
      <4> QED
        BY <2>0, <3>2, <4>1 DEF CallRecord
    <3> QED
      BY <2>5, <3>1, <3>2, <3>3, MadeIndexInv DEF TypeInv, StoreTyped
  <2>6. CASE RecordCheckpoint(c)
    <3>1. /\ Goto(c, "index") /\ call[c].pc = "record" /\ recorded' = recorded \cup {call[c].cp}
          /\ UNCHANGED <<saves, index>>
      BY <2>6 DEF RecordCheckpoint
    <3>2. Saving(c)
      BY <2>0, <3>1, PlaceTellsOp DEF Saving
    <3>3. \A d \in Client : d # c => call'[d] = call[d]
      BY <3>1, GotoFields, OthersStay
    <3>4. /\ call'[c].pc = "index" /\ call'[c].op = call[c].op /\ call'[c].s = call[c].s
          /\ call'[c].cp = call[c].cp
      BY <3>1, GotoFields
    <3>5. SavingIsPrivate'
      BY <3>1, <3>2, <3>3, <3>4 DEF IndexInv, SavingIsPrivate, Saving
    <3>6. DeletesOwn'
      BY <3>1, <3>2, <3>3, <3>4 DEF IndexInv, DeletesOwn, Saving
    <3> QED
      BY <3>1, <3>5, <3>6 DEF IndexInv, IndexedBySession, IndexedIsStored
  <2>7. CASE IndexCheckpoint(c)
    <3>1. /\ Goto(c, "version") /\ call[c].pc = "index" /\ Saving(c)
          /\ index' = [index EXCEPT ![call[c].s] = @ \cup {call[c].cp}]
          /\ UNCHANGED <<saves, recorded>>
      BY <2>7 DEF IndexCheckpoint, Saving
    <3>2. \A d \in Client : d # c => call'[d] = call[d]
      BY <3>1, GotoFields, OthersStay
    <3>3. call'[c].pc = "version" /\ call'[c].op = call[c].op
      BY <3>1, GotoFields
    <3>4. \A r \in Session : index'[r] \subseteq index[r] \cup {call[c].cp}
          /\ (r # call[c].s => index'[r] = index[r])
      BY <3>1 DEF TypeInv, StoreTyped
    <3>5. call[c].cp \in recorded /\ saves[call[c].cp].s = call[c].s
      BY <3>1 DEF IndexInv, SavingIsPrivate
    <3>6. SavingIsPrivate'
      BY <3>1, <3>2, <3>3, <3>4 DEF IndexInv, SavingIsPrivate, Saving
    <3>7. IndexedBySession' /\ IndexedIsStored'
      BY <3>1, <3>4, <3>5 DEF IndexInv, IndexedBySession, IndexedIsStored
    <3>8. DeletesOwn'
      <4> SUFFICES ASSUME NEW d \in Client, call'[d].op = "delete"
                   PROVE  /\ \A i \in call'[d].ids : saves'[i].s = call'[d].s
                          /\ call'[d].pc \in {"versions", "records"} =>
                               call'[d].ids \cap index'[call'[d].s] = {}
        BY DEF DeletesOwn
      <4>1. d # c /\ call'[d] = call[d]
        BY <3>1, <3>2, <3>3 DEF Saving
      <4>2. call[d].s \in Session \cup {NoSession}
        BY CallOK DEF TypeInv, StoreTyped
      <4>3. call[c].cp \notin call[d].ids
        BY <3>1, <4>1 DEF IndexInv, SavingIsPrivate
      <4>4. call[d].s \in Session => index'[call[d].s] \subseteq index[call[d].s] \cup {call[c].cp}
        BY <3>4
      <4>5. call[d].pc \in {"versions", "records"} => call[d].s \in Session
        BY CallOK DEF TypeInv, StoreTyped
      <4> QED
        BY <3>1, <4>1, <4>3, <4>4, <4>5 DEF IndexInv, DeletesOwn
    <3> QED
      BY <3>6, <3>7, <3>8 DEF IndexInv
  <2>8. CASE CollectCheckpoints(c)
    <3> DEFINE s == call[c].s
               i == index[s]
    <3>1. /\ call[c].pc = "collect" /\ call[c].op = "delete" /\ s \in Session
          /\ UNCHANGED <<saves, recorded, index>>
      BY <2>0, <2>8, CallOK, PlaceTellsOp DEF CollectCheckpoints, keys, TypeInv, StoreTyped
    <3>2. /\ CallOf(c) /\ call'[c].ids = i /\ call'[c].s = s /\ call'[c].op = "delete"
          /\ call'[c].pc = IF i = {} THEN "versions" ELSE "index"
      BY <2>0, <2>8, <3>1 DEF CollectCheckpoints, TypeInv, CallsTyped, CallOf, CallRecord
    <3>3. \A d \in Client : d # c => call'[d] = call[d]
      BY <3>2, OthersStay
    <3>4. SavingIsPrivate'
      BY <3>1, <3>2, <3>3 DEF IndexInv, SavingIsPrivate, Saving
    <3>5. DeletesOwn'
      <4> SUFFICES ASSUME NEW d \in Client, call'[d].op = "delete"
                   PROVE  /\ \A j \in call'[d].ids : saves'[j].s = call'[d].s
                          /\ call'[d].pc \in {"versions", "records"} =>
                               call'[d].ids \cap index'[call'[d].s] = {}
        BY DEF DeletesOwn
      <4>1. CASE d = c
        BY <3>1, <3>2, <4>1 DEF IndexInv, IndexedBySession
      <4>2. CASE d # c
        BY <3>1, <3>3, <4>2 DEF IndexInv, DeletesOwn
      <4> QED
        BY <4>1, <4>2
    <3> QED
      BY <3>1, <3>4, <3>5 DEF IndexInv, IndexedBySession, IndexedIsStored
  <2>9. CASE DeleteIndex(c)
    <3> DEFINE s == call[c].s
    <3>1. /\ Goto(c, "versions") /\ call[c].op = "delete" /\ call[c].pc = "index" /\ s \in Session
          /\ index' = [index EXCEPT ![s] = {}] /\ UNCHANGED <<saves, recorded>>
      BY <2>9, CallOK DEF DeleteIndex, TypeInv, StoreTyped
    <3>2. \A d \in Client : d # c => call'[d] = call[d]
      BY <3>1, GotoFields, OthersStay
    <3>3. call'[c].pc = "versions" /\ call'[c].op = "delete" /\ call'[c].ids = call[c].ids
          /\ call'[c].s = s
      BY <3>1, GotoFields
    <3>4. \A r \in Session : index'[r] \subseteq index[r] /\ index'[s] = {}
      BY <3>1 DEF TypeInv, StoreTyped
    <3>5. SavingIsPrivate'
      BY <3>1, <3>2, <3>3, <3>4 DEF IndexInv, SavingIsPrivate, Saving
    <3>6. DeletesOwn'
      <4> SUFFICES ASSUME NEW d \in Client, call'[d].op = "delete"
                   PROVE  /\ \A j \in call'[d].ids : saves'[j].s = call'[d].s
                          /\ call'[d].pc \in {"versions", "records"} =>
                               call'[d].ids \cap index'[call'[d].s] = {}
        BY DEF DeletesOwn
      <4>1. CASE d = c
        BY <3>1, <3>3, <3>4, <4>1 DEF IndexInv, DeletesOwn
      <4>2. CASE d # c
        <5>1. call'[d] = call[d]
          BY <3>2, <4>2
        <5>2. call[d].pc \in {"versions", "records"} => call[d].s \in Session
          BY CallOK DEF TypeInv, StoreTyped
        <5> QED
          BY <3>1, <3>4, <5>1, <5>2 DEF IndexInv, DeletesOwn
      <4> QED
        BY <4>1, <4>2
    <3> QED
      BY <3>1, <3>4, <3>5, <3>6 DEF IndexInv, IndexedBySession, IndexedIsStored
  <2>10. CASE DeleteRecord(c)
    <3>1. PICK id \in call[c].ids :
            /\ recorded' = recorded \ {id}
            /\ IF call[c].ids = {id} THEN Finish(c)
               ELSE call' = [call EXCEPT ![c].ids = @ \ {id}]
      BY <2>10 DEF DeleteRecord
    <3>2. /\ call[c].pc = "records" /\ call[c].op = "delete" /\ UNCHANGED <<saves, index>>
          /\ call[c].s \in Session
      BY <2>0, <2>10, CallOK, PlaceTellsOp DEF DeleteRecord, TypeInv, StoreTyped
    <3>3. /\ CallOf(c) /\ ~ Saving(c)' /\ call'[c].ids \subseteq call[c].ids
          /\ call'[c].op = "delete" => call'[c].s = call[c].s
      <4>1. CASE call[c].ids = {id}
        BY <3>1, <4>1, FinishFields DEF Saving
      <4>2. CASE call[c].ids # {id}
        <5>1. CallOf(c) /\ call'[c] = [call[c] EXCEPT !.ids = @ \ {id}]
          BY <2>0, <3>1, <4>2 DEF TypeInv, CallsTyped, CallOf, CallRecord
        <5> QED
          BY <2>0, <3>2, <5>1 DEF CallRecord, Saving
      <4> QED
        BY <4>1, <4>2
    <3>4. \A d \in Client : d # c => call'[d] = call[d]
      BY <3>3, OthersStay
    <3>5. saves[id].s = call[c].s /\ id \notin index[call[c].s]
      BY <3>1, <3>2 DEF IndexInv, DeletesOwn
    <3>6. \A r \in Session : id \notin index[r]
      BY <3>5 DEF IndexInv, IndexedBySession
    <3>7. \A d \in Client : Saving(d) => call[d].cp # id
      BY <3>1, <3>2 DEF IndexInv, SavingIsPrivate
    <3>8. SavingIsPrivate'
      <4>1. \A d \in Client : Saving(d)' => d # c /\ Saving(d) /\ call'[d] = call[d]
        BY <3>3, <3>4 DEF Saving
      <4>2. \A d \in Client : call'[d].op = "delete" =>
              call[d].op = "delete" /\ call'[d].ids \subseteq call[d].ids
        BY <3>2, <3>3, <3>4
      <4> QED
        BY <3>1, <3>2, <3>7, <4>1, <4>2 DEF IndexInv, SavingIsPrivate
    <3>9. DeletesOwn'
      BY <3>2, <3>3, <3>4 DEF IndexInv, DeletesOwn
    <3> QED
      BY <3>1, <3>2, <3>6, <3>8, <3>9 DEF IndexInv, IndexedBySession, IndexedIsStored
  <2>11. CASE Finish(c) /\ UNCHANGED <<saves, recorded, index>>
    BY <2>11, FinishFields, KeepsIndexInv DEF KeepsSaving, Saving
  <2>12. ASSUME NEW p \in {"create", "copy", "counter", "collect", "records", "push", "read", "write"},
                Goto(c, p), UNCHANGED <<saves, recorded, index>>,
                p = "records" => call[c].pc = "versions"
         PROVE  IndexInv'
    BY <2>12, GotoFields, KeepsIndexInv DEF KeepsSaving, Saving
  <2>13. CASE CreateFork(c) \/ ReadMessages(c) \/ (RequireForMessage(c) /\ call[c].s \in session)
              \/ (WriteSession(c) /\ call[c].op = "fork")
    <3>1. UNCHANGED <<saves, recorded, index>>
      BY <2>13 DEF CreateFork, ReadMessages, RequireForMessage, WriteSession, keys
    <3>2. call[c].op = "fork"
      BY <2>0, <2>13, PlaceTellsOp
         DEF CreateFork, ReadMessages, RequireForMessage, WriteSession
    <3>3. CallOf(c) /\ call'[c].op = "fork"
          /\ call'[c].pc \in {"list", "require", "requireSaved", "count"}
      <4>1. CASE CreateFork(c)
        <5>1. PICK new \in Session \ used : call' = [call EXCEPT ![c].s = new, ![c].pc = "list"]
          BY <4>1 DEF CreateFork
        <5>2. CallOf(c) /\ call'[c] = [call[c] EXCEPT !.s = new, !.pc = "list"]
          BY <2>0, <5>1 DEF TypeInv, CallsTyped, CallOf, CallRecord
        <5> QED
          BY <2>0, <3>2, <5>2 DEF CallRecord
      <4>2. CASE ReadMessages(c)
        <5>1. PICK q \in InOrder(Until(call[c].from)) :
                call' = [call EXCEPT ![c].todo = [i \in DOMAIN q |-> q[i].what],
                           ![c].pc = IF q = <<>> THEN "requireSaved" ELSE "require"]
          BY <4>2 DEF ReadMessages
        <5> DEFINE todo == [i \in DOMAIN q |-> q[i].what]
                   p == IF q = <<>> THEN "requireSaved" ELSE "require"
        <5>2. CallOf(c) /\ call'[c] = [call[c] EXCEPT !.todo = todo, !.pc = p]
          BY <2>0, <5>1 DEF TypeInv, CallsTyped, CallOf, CallRecord
        <5>3. p \in {"require", "requireSaved"}
          OBVIOUS
        <5> HIDE DEF todo, p
        <5> QED
          BY <2>0, <3>2, <5>2, <5>3 DEF CallRecord
      <4>3. CASE RequireForMessage(c) /\ call[c].s \in session
        BY <2>0, <3>2, <4>3 DEF RequireForMessage, TypeInv, CallsTyped, CallOf, CallRecord
      <4>4. CASE WriteSession(c)
        <5>1. call' = [call EXCEPT ![c].todo = Tail(call[c].todo),
                ![c].pc = IF Tail(call[c].todo) = <<>> THEN "requireSaved" ELSE "require"]
          BY <3>2, <4>4 DEF WriteSession
        <5>2. CallOf(c)
              /\ call'[c] = [call[c] EXCEPT !.todo = Tail(call[c].todo),
                   !.pc = IF Tail(call[c].todo) = <<>> THEN "requireSaved" ELSE "require"]
          BY <2>0, <5>1 DEF TypeInv, CallsTyped, CallOf, CallRecord
        <5> QED
          BY <2>0, <3>2, <5>2 DEF CallRecord
      <4> QED
        BY <2>13, <4>1, <4>2, <4>3, <4>4
    <3> QED
      BY <3>1, <3>3, KeepsIndexInv DEF KeepsSaving, Saving
  <2>14. CASE Begin(c)
    BY <2>1, <2>2, <2>3, <2>4, <2>14 DEF Begin
  <2>15. CASE CutShort(c)
    BY <2>11, <2>15 DEF CutShort, Throw, keys
  <2>16. CASE WriteSession(c) \/ ReadSession(c)
    <3>1. CASE WriteSession(c)
      BY <2>11, <2>13, <3>1 DEF WriteSession
    <3>2. CASE ReadSession(c)
      <4>1. Goto(c, "write") \/ Finish(c)
        BY <3>2 DEF ReadSession, Throw
      <4>2. UNCHANGED <<saves, recorded, index>>
        BY <3>2 DEF ReadSession, keys
      <4> QED
        BY <2>11, <2>12, <4>1, <4>2
    <3> QED
      BY <2>16, <3>1, <3>2
  <2>17. CASE DeleteMessages(c) \/ DeleteCounter(c) \/ DeleteVersions(c)
    <3>1. UNCHANGED <<saves, recorded, index>>
      BY <2>17 DEF DeleteMessages, DeleteCounter, DeleteVersions
    <3>2. Finish(c) \/ \E p \in {"counter", "collect", "records"} :
                         Goto(c, p) /\ (p = "records" => call[c].pc = "versions")
      BY <2>17 DEF DeleteMessages, DeleteCounter, DeleteVersions
    <3> QED
      BY <2>11, <2>12, <3>1, <3>2
  <2>18. CASE CountMessage(c) \/ PushMessage(c) \/ VersionCheckpoint(c)
    <3>1. UNCHANGED <<saves, recorded, index>>
      BY <2>18 DEF CountMessage, PushMessage, VersionCheckpoint
    <3>2. Finish(c) \/ \E p \in {"push", "read"} : Goto(c, p)
      BY <2>18 DEF CountMessage, PushMessage, VersionCheckpoint
    <3> QED
      BY <2>11, <2>12, <3>1, <3>2
  <2>19. CASE FindOrigin(c) \/ (RequireForMessage(c) /\ call[c].s \notin session)
              \/ (RequireForCheckpoint(c) /\ call[c].s \notin session)
    <3>1. UNCHANGED <<saves, recorded, index>>
      BY <2>19 DEF FindOrigin, RequireForMessage, RequireForCheckpoint, keys
    <3>2. Finish(c) \/ \E p \in {"create", "copy"} : Goto(c, p)
      BY <2>19 DEF FindOrigin, RequireForMessage, RequireForCheckpoint, Throw
    <3> QED
      BY <2>11, <2>12, <3>1, <3>2
  <2> QED
    BY <1>2, <2>5, <2>6, <2>7, <2>8, <2>9, <2>10, <2>13, <2>14, <2>15, <2>16, <2>17, <2>18, <2>19
       DEF Continue
<1> QED
  BY <1>1, <1>2 DEF Next

LEMMA IndexAlways == Spec => [](TypeInv /\ IndexInv)
<1>1. Init => TypeInv /\ IndexInv
  BY TypeInit, IndexInit
<1>2. (TypeInv /\ IndexInv) /\ [Next]_vars => (TypeInv /\ IndexInv)'
  BY TypeNext, IndexNext
<1> QED
  BY <1>1, <1>2, PTL DEF Spec

(* No index names a checkpoint whose record is missing, whatever runs at   *)
(* the same time and wherever an operation is cut short: the record is     *)
(* written before the index and deleted after it.                          *)
THEOREM Indexed == Spec => []IndexedIsStored
<1>1. TypeInv /\ IndexInv => IndexedIsStored
  BY DEF IndexInv
<1> QED
  BY <1>1, IndexAlways, PTL

-----------------------------------------------------------------------------
(* Deletions.  Of a session without faults, every recorded checkpoint is   *)
(* in the index or still being saved, so that a deletion that begins when  *)
(* nobody works on the session finds all there is; nobody else can begin   *)
(* to work on it, and the deletion takes away what it has found.           *)
RecordedOf(s) == {i \in recorded : saves[i].s = s}

AllIndexed(s) ==
  \A i \in RecordedOf(s) : i \in index[s] \/ \E c \in Client : Saving(c) /\ call[c].cp = i

DeletionAt(c, s) ==
  /\ call[c].op = "delete"
  /\ call[c].pc # "messages" => messages[s] = {}
  /\ call[c].pc \notin {"messages", "counter"} => s \notin counted
  /\ call[c].pc \in {"messages", "counter", "collect"} => RecordedOf(s) \subseteq index[s]
  /\ call[c].pc \in {"index", "versions", "records"} => RecordedOf(s) \subseteq call[c].ids
  /\ call[c].pc \in {"versions", "records"} => index[s] = {}
  /\ call[c].pc = "records" => versions[s] = {}

Deleted(s) ==
  /\ s \notin session
  /\ \A c \in Client : call[c].s = s => DeletionAt(c, s)
  /\ \A c, d \in Client : call[c].s = s /\ call[d].s = s => c = d
  /\ Busy(s) \/ ~ Remains(s)

LeftFor(s) ==
  /\ s \in used \ (excused \cup doomed) => AllIndexed(s)
  /\ s \in doomed \ excused => Deleted(s)

DeletesDoomed == \A c \in Client : call[c].op = "delete" => call[c].s \in doomed

LeftInv == DeletesDoomed /\ \A s \in Session : LeftFor(s)

LEMMA LeftInit == Init => LeftInv
BY DEF Init, LeftInv, DeletesDoomed, LeftFor, Idle

(* A step leaves a session alone that its client does not work on.         *)
Kept(r) ==
  /\ r \in session' => r \in session
  /\ r \in counted' => r \in counted
  /\ messages'[r] = messages[r] /\ index'[r] = index[r] /\ versions'[r] = versions[r]
  /\ RecordedOf(r)' \subseteq RecordedOf(r)
  /\ r \in used' => r \in used
  /\ r \in excused => r \in excused'
  /\ r \in doomed' <=> r \in doomed

LEMMA Elsewhere ==
  ASSUME TypeInv, IndexInv, LeftInv, NEW c \in Client, CallOf(c), NEW r \in Session,
         call[c].s # r, call'[c].s # r, Kept(r)
  PROVE  LeftFor(r)'
<1>1. \A d \in Client : d # c => call'[d] = call[d]
  BY OthersStay
<1>2. ASSUME r \in used \ (excused \cup doomed)
      PROVE  AllIndexed(r)'
  <2> SUFFICES ASSUME NEW i \in RecordedOf(r)'
               PROVE  i \in index'[r] \/ \E d \in Client : Saving(d)' /\ call'[d].cp = i
    BY DEF AllIndexed
  <2>1. i \in RecordedOf(r)
    BY DEF Kept
  <2>2. AllIndexed(r)
    BY <1>2 DEF LeftInv, LeftFor
  <2>3. CASE i \in index[r]
    BY <2>3 DEF Kept
  <2>4. ASSUME NEW d \in Client, Saving(d), call[d].cp = i
        PROVE  Saving(d)' /\ call'[d].cp = i
    <3>1. call[d].s = r
      BY <2>1, <2>4 DEF IndexInv, SavingIsPrivate, RecordedOf
    <3> QED
      BY <1>1, <2>4, <3>1 DEF Saving
  <2> QED
    BY <2>1, <2>2, <2>3, <2>4 DEF AllIndexed
<1>3. ASSUME r \in doomed \ excused
      PROVE  Deleted(r)'
  <2>1. Deleted(r)
    BY <1>3 DEF LeftInv, LeftFor
  <2>2. \A d \in Client : call'[d].s = r => d # c /\ call'[d] = call[d]
    BY <1>1
  <2>3. \A d \in Client : call'[d].s = r => DeletionAt(d, r)'
    BY <2>1, <2>2 DEF Deleted, DeletionAt, Kept
  <2>4. \A d, e \in Client : call'[d].s = r /\ call'[e].s = r => d = e
    BY <2>1, <2>2 DEF Deleted
  <2>5. Busy(r) => Busy(r)'
    BY <1>1 DEF Busy
  <2>6. Remains(r)' => Remains(r)
    BY DEF Remains, Kept, RecordedOf
  <2> QED
    BY <2>1, <2>3, <2>4, <2>5, <2>6 DEF Deleted, Kept
<1> QED
  BY <1>2, <1>3 DEF LeftFor, Kept

(* Operations other than deleteSession on a session: what they record is   *)
(* indexed or about to be.                                                 *)
LEMMA AtWork ==
  ASSUME TypeInv, IndexInv, LeftInv, NEW c \in Client, CallOf(c), NEW r \in Session,
         r \in used', r \in excused => r \in excused', UNCHANGED doomed,
         r \in doomed \ excused' => r \in session \/ (call[c].s = r /\ call[c].op # "delete"),
         index[r] \subseteq index'[r],
         \A i \in RecordedOf(r)' :
           \/ i \in RecordedOf(r) /\ ~ (Saving(c) /\ call[c].cp = i)
           \/ i \in index'[r] \/ (Saving(c)' /\ call'[c].cp = i)
           \/ r \in excused'
  PROVE  LeftFor(r)'
<1>1. \A d \in Client : d # c => call'[d] = call[d]
  BY OthersStay
<1>2. r \in doomed => r \in excused'
  BY DEF LeftInv, LeftFor, Deleted, DeletionAt
<1>3. ASSUME r \notin excused', r \notin doomed
      PROVE  AllIndexed(r)'
  <2> SUFFICES ASSUME NEW i \in RecordedOf(r)'
               PROVE  i \in index'[r] \/ \E d \in Client : Saving(d)' /\ call'[d].cp = i
    BY DEF AllIndexed
  <2>1. CASE i \in RecordedOf(r) /\ ~ (Saving(c) /\ call[c].cp = i)
    <3>1. r \in used
      <4>1. i \in CheckpointId /\ saves[i].s = r
        BY <2>1 DEF RecordedOf, TypeInv, StoreTyped
      <4> QED
        BY <4>1 DEF TypeInv, StoreTyped
    <3>2. i \in index[r] \/ \E d \in Client : Saving(d) /\ call[d].cp = i
      BY <1>3, <2>1, <3>1 DEF LeftInv, LeftFor, AllIndexed
    <3>3. ASSUME NEW d \in Client, Saving(d), call[d].cp = i
          PROVE  Saving(d)' /\ call'[d].cp = i
      BY <1>1, <2>1, <3>3 DEF Saving
    <3> QED
      BY <3>2, <3>3
  <2> QED
    BY <1>3, <2>1
<1> QED
  BY <1>2, <1>3 DEF LeftFor

(* deleteSession.                                                          *)
LEMMA DeleteLeft ==
  ASSUME TypeInv, TypeInv', IndexInv, LeftInv, NEW c \in Client, DeleteStep(c)
  PROVE  LeftInv'
<1>0. PICK s : s = call[c].s
  OBVIOUS
<1>1. /\ call[c] \in CallRecord(used, Len(saves), Len(said), now)
      /\ call[c].pc \in {"messages", "counter", "collect", "index", "versions", "records"}
      /\ call[c].op = "delete" /\ s \in used /\ s \in Session /\ s # NoSession /\ s \in doomed
  <2>1. call[c].pc \in {"messages", "counter", "collect", "index", "versions", "records"}
        /\ (call[c].pc = "index" => call[c].op = "delete")
    BY DEF DeleteStep, DeleteMessages, DeleteCounter, CollectCheckpoints, DeleteIndex,
           DeleteVersions, DeleteRecord
  <2>2. call[c].op = "delete" /\ s \in used /\ call[c] \in CallRecord(used, Len(saves), Len(said), now)
    BY <1>0, <2>1, CallOK, PlaceTellsOp
  <2> QED
    BY <1>0, <2>1, <2>2, StoreAssumption DEF LeftInv, DeletesDoomed, TypeInv, StoreTyped
<1> USE <1>0
<1>2. UNCHANGED <<session, used, saves, said, excused, doomed>>
  BY DEF DeleteStep, DeleteMessages, DeleteCounter, CollectCheckpoints, DeleteIndex,
         DeleteVersions, DeleteRecord, history, keys
<1>3. /\ CallOf(c)
      /\ \/ call'[c].s = s /\ call'[c].op = "delete"
         \/ call'[c].s = NoSession /\ call'[c].op = "none"
  <2>1. CASE Finish(c)
    BY <2>1, FinishFields
  <2>2. ASSUME NEW p, Goto(c, p)
        PROVE  CallOf(c) /\ call'[c].s = s /\ call'[c].op = "delete"
    BY <1>1, <2>2, GotoFields
  <2>3. CASE CollectCheckpoints(c)
    BY <1>1, <2>3 DEF CollectCheckpoints, TypeInv, CallsTyped, CallOf, CallRecord
  <2>4. CASE DeleteRecord(c) /\ ~ Finish(c)
    <3>1. PICK id : call' = [call EXCEPT ![c].ids = @ \ {id}]
      BY <2>4 DEF DeleteRecord
    <3> QED
      BY <1>1, <3>1 DEF TypeInv, CallsTyped, CallOf, CallRecord
  <2> QED
    BY <2>1, <2>2, <2>3, <2>4
       DEF DeleteStep, DeleteMessages, DeleteCounter, DeleteIndex, DeleteVersions
<1>4. \A d \in Client : d # c => call'[d] = call[d]
  BY <1>3, OthersStay
<1>5. DeletesDoomed'
  BY <1>1, <1>2, <1>3, <1>4 DEF LeftInv, DeletesDoomed
<1>6. ASSUME NEW r \in Session, r # s
      PROVE  LeftFor(r)'
  <2>1. Kept(r)
    BY <1>1, <1>2, <1>6 DEF Kept, RecordedOf, DeleteStep, DeleteMessages, DeleteCounter,
         CollectCheckpoints, DeleteIndex, DeleteVersions, DeleteRecord, keys, TypeInv, StoreTyped,
         MessagesTyped
  <2> QED
    BY <1>3, <1>6, <2>1, StoreAssumption, Elsewhere
<1>7. ASSUME s \notin excused
      PROVE  Deleted(s)'
  <2>1. Deleted(s)
    BY <1>1, <1>7 DEF LeftInv, LeftFor
  <2>2. DeletionAt(c, s)
    BY <2>1 DEF Deleted
  <2>3. \A d \in Client : call'[d].s = s => d = c
    BY <1>4, <2>1 DEF Deleted
  <2>4. s \notin session'
    BY <1>2, <2>1 DEF Deleted
  <2>5. /\ messages'[s] \subseteq messages[s] /\ index'[s] \subseteq index[s]
        /\ versions'[s] \subseteq versions[s]
    BY <1>0, <1>1 DEF DeleteStep, DeleteMessages, DeleteCounter, CollectCheckpoints, DeleteIndex,
         DeleteVersions, DeleteRecord, keys, TypeInv, StoreTyped, MessagesTyped
  <2>12. RecordedOf(s)' \subseteq RecordedOf(s)
    <3>1. recorded' \subseteq recorded
      BY DEF DeleteStep, DeleteMessages, DeleteCounter, CollectCheckpoints, DeleteIndex,
           DeleteVersions, DeleteRecord, keys
    <3> QED
      BY <1>2, <3>1 DEF RecordedOf
  <2>6. CASE DeleteMessages(c)
    <3>1. Goto(c, "counter") /\ messages'[s] = {} /\ UNCHANGED <<index, recorded>>
          /\ call[c].pc = "messages"
      BY <1>1, <2>6 DEF DeleteMessages, TypeInv, MessagesTyped
    <3>2. DeletionAt(c, s)' /\ call'[c].s = s
      BY <1>1, <2>2, <2>5, <2>12, <3>1, GotoFields DEF DeletionAt
    <3> QED
      BY <2>3, <2>4, <3>2 DEF Deleted, Busy
  <2>7. CASE DeleteCounter(c)
    <3>1. Goto(c, "collect") /\ s \notin counted' /\ UNCHANGED <<index, recorded, messages>>
          /\ call[c].pc = "counter"
      BY <2>7 DEF DeleteCounter
    <3>2. DeletionAt(c, s)' /\ call'[c].s = s
      BY <1>1, <2>2, <2>5, <2>12, <3>1, GotoFields DEF DeletionAt
    <3> QED
      BY <2>3, <2>4, <3>2 DEF Deleted, Busy
  <2>8. CASE CollectCheckpoints(c)
    <3>1. /\ call'[c].ids = index[s] /\ call'[c].s = s /\ call'[c].op = "delete"
          /\ call'[c].pc = IF index[s] = {} THEN "versions" ELSE "index"
          /\ call[c].pc = "collect" /\ UNCHANGED keys
      BY <1>1, <2>8 DEF CollectCheckpoints, TypeInv, CallsTyped, CallRecord
    <3>2. RecordedOf(s)' \subseteq index[s] /\ messages'[s] = {} /\ s \notin counted'
      BY <2>2, <2>5, <2>12, <3>1 DEF DeletionAt, keys
    <3>3. DeletionAt(c, s)'
      BY <3>1, <3>2 DEF DeletionAt, keys
    <3> QED
      BY <2>3, <2>4, <3>1, <3>3 DEF Deleted, Busy
  <2>9. CASE DeleteIndex(c)
    <3>1. Goto(c, "versions") /\ index'[s] = {} /\ UNCHANGED <<counted, recorded, messages>>
          /\ call[c].pc = "index"
      BY <1>1, <2>9 DEF DeleteIndex, TypeInv, StoreTyped
    <3>2. DeletionAt(c, s)' /\ call'[c].s = s
      BY <1>1, <2>2, <2>5, <2>12, <3>1, GotoFields DEF DeletionAt
    <3> QED
      BY <2>3, <2>4, <3>2 DEF Deleted, Busy
  <2>10. CASE DeleteVersions(c)
    <3>1. /\ versions'[s] = {} /\ UNCHANGED <<counted, recorded, messages, index>>
          /\ call[c].pc = "versions"
          /\ IF call[c].ids = {} THEN Finish(c) ELSE Goto(c, "records")
      BY <1>1, <2>10 DEF DeleteVersions, TypeInv, StoreTyped
    <3>2. /\ RecordedOf(s)' \subseteq call[c].ids /\ messages'[s] = {} /\ s \notin counted'
          /\ index'[s] = {}
      BY <2>2, <2>5, <2>12, <3>1 DEF DeletionAt
    <3>3. CASE call[c].ids = {}
      <4>1. call'[c].s = NoSession
        BY <3>1, <3>3, FinishFields
      <4>2. ~ Remains(s)'
        BY <2>4, <3>1, <3>2, <3>3 DEF Remains, RecordedOf
      <4> QED
        BY <1>1, <2>3, <2>4, <4>1, <4>2 DEF Deleted
    <3>4. CASE call[c].ids # {}
      <4>1. Goto(c, "records")
        BY <3>1, <3>4
      <4>2. DeletionAt(c, s)' /\ call'[c].s = s
        BY <1>1, <3>1, <3>2, <4>1, GotoFields DEF DeletionAt
      <4> QED
        BY <2>3, <2>4, <4>2 DEF Deleted, Busy
    <3> QED
      BY <3>3, <3>4
  <2>11. CASE DeleteRecord(c)
    <3>1. PICK id \in call[c].ids :
            /\ recorded' = recorded \ {id}
            /\ IF call[c].ids = {id} THEN Finish(c)
               ELSE call' = [call EXCEPT ![c].ids = @ \ {id}]
      BY <2>11 DEF DeleteRecord
    <3>2. call[c].pc = "records" /\ UNCHANGED <<counted, messages, index, versions, saves>>
      BY <2>11 DEF DeleteRecord
    <3>3. /\ RecordedOf(s) \subseteq call[c].ids /\ messages'[s] = {} /\ s \notin counted'
          /\ index'[s] = {} /\ versions'[s] = {}
      BY <2>2, <3>2 DEF DeletionAt
    <3>4. RecordedOf(s)' \subseteq call[c].ids \ {id}
      BY <3>1, <3>2, <3>3 DEF RecordedOf
    <3>5. CASE call[c].ids = {id}
      <4>1. call'[c].s = NoSession
        BY <3>1, <3>5, FinishFields
      <4>2. ~ Remains(s)'
        BY <2>4, <3>3, <3>4, <3>5 DEF Remains, RecordedOf
      <4> QED
        BY <1>1, <2>3, <2>4, <4>1, <4>2 DEF Deleted
    <3>6. CASE call[c].ids # {id}
      <4>1. /\ call'[c].ids = call[c].ids \ {id} /\ call'[c].s = s /\ call'[c].op = "delete"
            /\ call'[c].pc = "records"
        BY <1>1, <3>1, <3>2, <3>6 DEF TypeInv, CallsTyped, CallRecord
      <4>2. DeletionAt(c, s)'
        BY <3>3, <3>4, <4>1 DEF DeletionAt
      <4> QED
        BY <2>3, <2>4, <4>1, <4>2 DEF Deleted, Busy
    <3> QED
      BY <3>5, <3>6
  <2> QED
    BY <2>6, <2>7, <2>8, <2>9, <2>10, <2>11 DEF DeleteStep
<1>8. LeftFor(s)'
  BY <1>1, <1>2, <1>7 DEF LeftFor
<1> QED
  BY <1>5, <1>6, <1>8 DEF LeftInv


LEMMA WorkLeft ==
  ASSUME TypeInv, IndexInv, LeftInv, NEW c \in Client, CallOf(c), NEW s,
         UNCHANGED doomed, excused \subseteq excused',
         call[c].s \in {s, NoSession}, call'[c].s \in {s, NoSession}, call'[c].op # "delete",
         session' \subseteq session \cup {s}, counted' \subseteq counted \cup {s},
         used' \subseteq used \cup {s},
         \A r \in Session : r # s =>
           /\ messages'[r] = messages[r] /\ index'[r] = index[r] /\ versions'[r] = versions[r]
           /\ RecordedOf(r)' \subseteq RecordedOf(r),
         s \in Session =>
           /\ s \in used' /\ index[s] \subseteq index'[s]
           /\ s \in doomed \ excused' => s \in session \/ (call[c].s = s /\ call[c].op # "delete")
           /\ \A i \in RecordedOf(s)' :
                \/ i \in RecordedOf(s) /\ ~ (Saving(c) /\ call[c].cp = i)
                \/ i \in index'[s] \/ (Saving(c)' /\ call'[c].cp = i)
                \/ s \in excused'
  PROVE  LeftInv'
<1>1. DeletesDoomed'
  BY OthersStay DEF LeftInv, DeletesDoomed
<1>2. ASSUME NEW r \in Session, r # s
      PROVE  LeftFor(r)'
  <2>1. Kept(r)
    BY <1>2 DEF Kept
  <2>2. call[c].s # r /\ call'[c].s # r
    BY <1>2, StoreAssumption
  <2> QED
    BY <2>1, <2>2, Elsewhere
<1>3. ASSUME s \in Session
      PROVE  LeftFor(s)'
  <2>1. s \in excused => s \in excused'
    OBVIOUS
  <2> QED
    BY <1>3, <2>1, AtWork
<1> QED
  BY <1>1, <1>2, <1>3 DEF LeftInv

(* A step that touches no checkpoint and no index.                         *)
LEMMA PlainLeft ==
  ASSUME TypeInv, IndexInv, LeftInv, NEW c \in Client, CallOf(c), NEW s,
         UNCHANGED <<saves, recorded, index, doomed, used>>, excused \subseteq excused',
         call[c].s \in {s, NoSession}, call'[c].s \in {s, NoSession}, call'[c].op # "delete",
         session' \subseteq session \cup {s}, counted' \subseteq counted \cup {s},
         \A r \in Session : r # s => messages'[r] = messages[r] /\ versions'[r] = versions[r],
         s \in Session =>
           /\ s \in used
           /\ s \in doomed \ excused' => s \in session \/ (call[c].s = s /\ call[c].op # "delete")
           /\ Saving(c) => s \in excused'
  PROVE  LeftInv'
<1>1. \A r \in Session : RecordedOf(r)' = RecordedOf(r)
  BY DEF RecordedOf
<1>2. \A r \in Session : r # s =>
           /\ messages'[r] = messages[r] /\ index'[r] = index[r] /\ versions'[r] = versions[r]
           /\ RecordedOf(r)' \subseteq RecordedOf(r)
  BY <1>1
<1>3. s \in Session =>
           /\ s \in used' /\ index[s] \subseteq index'[s]
           /\ s \in doomed \ excused' => s \in session \/ (call[c].s = s /\ call[c].op # "delete")
           /\ \A i \in RecordedOf(s)' :
                \/ i \in RecordedOf(s) /\ ~ (Saving(c) /\ call[c].cp = i)
                \/ i \in index'[s] \/ (Saving(c)' /\ call'[c].cp = i)
                \/ s \in excused'
  BY <1>1
<1>4. used' \subseteq used \cup {s} /\ UNCHANGED doomed
  OBVIOUS
<1> QED
  BY <1>2, <1>3, <1>4, WorkLeft


(* A checkpoint that is made is not recorded yet.                          *)
LEMMA MadeRecords ==
  ASSUME TypeInv, NEW s \in used, saves' = Append(saves, NewCheckpoint(s)), UNCHANGED recorded
  PROVE  \A r \in Session : RecordedOf(r)' = RecordedOf(r)
<1>1. NewCheckpoint(s) \in Checkpoints
  BY Sizes DEF NewCheckpoint, Checkpoints, TypeInv, StoreTyped, MessagesTyped
<1>2. \A i \in CheckpointId : saves'[i] = saves[i]
  BY <1>1, AppendProperties DEF TypeInv, StoreTyped, CheckpointId
<1> QED
  BY <1>2 DEF RecordedOf, TypeInv, StoreTyped

LEMMA DeleteBegins ==
  ASSUME TypeInv, IndexInv, LeftInv, NEW c \in Client, NEW s \in Session, DeleteSession(c, s)
  PROVE  LeftInv'
<1>1. CallOf(c) /\ call'[c] = [Idle EXCEPT !.op = "delete", !.pc = "messages", !.s = s]
  BY CallFields DEF DeleteSession
<1>2. call'[c].op = "delete" /\ call'[c].pc = "messages" /\ call'[c].s = s
  BY <1>1 DEF Idle
<1>3. /\ call[c].s = NoSession /\ s # NoSession /\ s \in used
      /\ UNCHANGED <<counted, messages, recorded, index, versions, saves, used>>
      /\ session' = session \ {s} /\ doomed' = doomed \cup {s}
      /\ excused' = IF Busy(s) THEN excused \cup {s} ELSE excused
  BY StoreAssumption DEF DeleteSession, Call, Idle
<1>4. \A d \in Client : d # c => call'[d] = call[d]
  BY <1>1, OthersStay
<1>5. DeletesDoomed'
  BY <1>2, <1>3, <1>4 DEF LeftInv, DeletesDoomed
<1>6. \A r \in Session : RecordedOf(r)' = RecordedOf(r)
  BY <1>3 DEF RecordedOf
<1>7. ASSUME NEW r \in Session, r # s
      PROVE  LeftFor(r)'
  <2>1. Kept(r)
    BY <1>3, <1>6, <1>7 DEF Kept
  <2>2. call[c].s # r /\ call'[c].s # r
    BY <1>2, <1>3, <1>7, StoreAssumption
  <2> QED
    BY <1>1, <2>1, <2>2, Elsewhere
<1>8. ASSUME s \notin excused'
      PROVE  Deleted(s)'
  <2>1. ~ Busy(s) /\ s \notin excused
    BY <1>3, <1>8
  <2>2. \A d \in Client : call'[d].s = s => d = c
    BY <1>4, <2>1 DEF Busy
  <2>3. RecordedOf(s) \subseteq index[s]
    <3>1. CASE s \in doomed
      BY <2>1, <3>1 DEF LeftInv, LeftFor, Deleted, Remains, RecordedOf
    <3>2. CASE s \notin doomed
      <4>1. AllIndexed(s)
        BY <1>3, <2>1, <3>2 DEF LeftInv, LeftFor
      <4>2. ASSUME NEW i \in RecordedOf(s), NEW d \in Client, Saving(d), call[d].cp = i
            PROVE  FALSE
        BY <2>1, <4>2 DEF IndexInv, SavingIsPrivate, RecordedOf, Busy
      <4> QED
        BY <4>1, <4>2 DEF AllIndexed
    <3> QED
      BY <3>1, <3>2
  <2>4. DeletionAt(c, s)'
    BY <1>2, <1>3, <1>6, <2>3 DEF DeletionAt
  <2>5. Busy(s)' /\ s \notin session'
    BY <1>2, <1>3 DEF Busy
  <2> QED
    BY <2>2, <2>4, <2>5 DEF Deleted
<1>9. LeftFor(s)'
  BY <1>3, <1>8 DEF LeftFor
<1> QED
  BY <1>5, <1>7, <1>9 DEF LeftInv

LEMMA BeginLeft ==
  ASSUME TypeInv, IndexInv, LeftInv, NEW c \in Client, Begin(c)
  PROVE  LeftInv'
<1>1. CASE CreateSession(c)
  <2>1. PICK s \in Session \ used : session' = session \cup {s} /\ used' = used \cup {s}
    BY <1>1 DEF CreateSession
  <2>2. /\ UNCHANGED <<counted, messages, recorded, index, versions, call, saves, excused, doomed>>
        /\ call[c] = Idle
    BY <1>1 DEF CreateSession, history
  <2>3. CallOf(c) /\ call'[c].s = NoSession /\ call[c].s = NoSession /\ call'[c].op # "delete"
        /\ ~ Saving(c)
    BY <2>2 DEF CallOf, Idle, TypeInv, CallsTyped, Saving
  <2>4. \A r \in Session : RecordedOf(r)' = RecordedOf(r)
    BY <2>2 DEF RecordedOf
  <2>5. /\ session' \subseteq session \cup {s} /\ counted' \subseteq counted \cup {s}
        /\ used' \subseteq used \cup {s} /\ UNCHANGED doomed /\ excused \subseteq excused'
    BY <2>1, <2>2
  <2>6. \A r \in Session : r # s =>
           /\ messages'[r] = messages[r] /\ index'[r] = index[r] /\ versions'[r] = versions[r]
           /\ RecordedOf(r)' \subseteq RecordedOf(r)
    BY <2>2, <2>4
  <2>7. /\ s \in used' /\ index[s] \subseteq index'[s] /\ s \notin doomed
        /\ \A i \in RecordedOf(s)' : i \in RecordedOf(s) /\ ~ (Saving(c) /\ call[c].cp = i)
    BY <2>1, <2>2, <2>3, <2>4 DEF TypeInv, StoreTyped
  <2> QED
    BY <2>3, <2>5, <2>6, <2>7, WorkLeft
<1>2. ASSUME NEW s \in Session, UpdateSession(c, s) \/ AddMessage(c, s)
      PROVE  LeftInv'
  <2>1. CallOf(c) /\ call'[c].s = s /\ call'[c].op # "delete"
    <3>1. CASE UpdateSession(c, s)
      <4>1. CallOf(c) /\ call'[c] = [Idle EXCEPT !.op = "update", !.pc = "write", !.s = s]
        BY <3>1, CallFields DEF UpdateSession
      <4> QED
        BY <4>1 DEF Idle
    <3>2. CASE AddMessage(c, s)
      <4>1. /\ CallOf(c)
            /\ call'[c] = [Idle EXCEPT !.op = "add", !.pc = "count", !.s = s,
                                       !.todo = <<Len(said) + 1>>, !.at = now]
        BY <3>2, CallFields DEF AddMessage
      <4> QED
        BY <4>1 DEF Idle
    <3> QED
      BY <1>2, <3>1, <3>2
  <2>2. call[c] = Idle /\ s \in session /\ UNCHANGED <<keys, saves, used, excused, doomed>>
    BY <1>2 DEF UpdateSession, AddMessage, Call, history
  <2>3. call[c].s = NoSession /\ ~ Saving(c) /\ s \in used
    BY <2>2 DEF Idle, Saving, TypeInv, StoreTyped
  <2>4. UNCHANGED <<session, counted, messages, recorded, index, versions, saves, used, excused,
                    doomed>>
    BY <2>2 DEF keys
  <2>5. /\ session' \subseteq session \cup {s} /\ counted' \subseteq counted \cup {s}
        /\ excused \subseteq excused' /\ UNCHANGED <<saves, recorded, index, doomed, used>>
        /\ \A r \in Session : r # s => messages'[r] = messages[r] /\ versions'[r] = versions[r]
    BY <2>4
  <2>6. call[c].s \in {s, NoSession} /\ call'[c].s \in {s, NoSession}
    BY <2>1, <2>3
  <2>7. /\ s \in used
        /\ s \in doomed \ excused' => s \in session \/ (call[c].s = s /\ call[c].op # "delete")
        /\ Saving(c) => s \in excused'
    BY <2>2, <2>3
  <2> QED
    BY <2>1, <2>5, <2>6, <2>7, PlainLeft
<1>3. ASSUME NEW s \in Session, SaveCheckpoint(c, s)
      PROVE  LeftInv'
  <2>1. /\ CallOf(c)
        /\ call'[c] = [Idle EXCEPT !.op = "save", !.pc = "record", !.s = s, !.cp = Len(saves) + 1]
    BY <1>3, CallFields DEF SaveCheckpoint
  <2>2. call'[c].s = s /\ call'[c].op # "delete"
    BY <2>1 DEF Idle
  <2>3. /\ UNCHANGED <<session, counted, messages, recorded, index, versions, used, excused, doomed>>
        /\ saves' = Append(saves, NewCheckpoint(s)) /\ call[c] = Idle /\ s \in session
    BY <1>3 DEF SaveCheckpoint, Call, keys, history
  <2>4. call[c].s = NoSession /\ ~ Saving(c) /\ s \in used
    BY <2>3 DEF Idle, Saving, TypeInv, StoreTyped
  <2>5. \A r \in Session : RecordedOf(r)' = RecordedOf(r)
    BY <2>3, <2>4, MadeRecords DEF SaveCheckpoint
  <2>6. \A r \in Session : r # s =>
           /\ messages'[r] = messages[r] /\ index'[r] = index[r] /\ versions'[r] = versions[r]
           /\ RecordedOf(r)' \subseteq RecordedOf(r)
    BY <2>3, <2>5
  <2>7. /\ s \in used' /\ index[s] \subseteq index'[s]
        /\ s \in doomed \ excused' => s \in session \/ (call[c].s = s /\ call[c].op # "delete")
        /\ \A i \in RecordedOf(s)' :
             \/ i \in RecordedOf(s) /\ ~ (Saving(c) /\ call[c].cp = i)
             \/ i \in index'[s] \/ (Saving(c)' /\ call'[c].cp = i)
             \/ s \in excused'
    BY <2>3, <2>4, <2>5
  <2>8. /\ session' \subseteq session \cup {s} /\ counted' \subseteq counted \cup {s}
        /\ used' \subseteq used \cup {s} /\ UNCHANGED doomed /\ excused \subseteq excused'
    BY <2>3
  <2>9. call[c].s \in {s, NoSession} /\ call'[c].s \in {s, NoSession}
    BY <2>2, <2>4
  <2> QED
    BY <2>1, <2>2, <2>6, <2>7, <2>8, <2>9, WorkLeft
<1>4. ASSUME NEW id \in recorded, Fork(c, id)
      PROVE  LeftInv'
  <2>1. CallOf(c) /\ call'[c] = [Idle EXCEPT !.op = "fork", !.pc = "origin", !.from = id]
    BY <1>4, CallFields DEF Fork
  <2>2. call'[c].s = NoSession /\ call'[c].op # "delete"
    BY <2>1 DEF Idle
  <2>3. /\ UNCHANGED <<session, counted, messages, recorded, index, versions, saves, used, excused,
                       doomed>>
        /\ call[c].s = NoSession /\ NoSession \notin Session
    BY <1>4, StoreAssumption DEF Fork, Call, keys, history, Idle
  <2> HIDE <1>4
  <2> QED
    BY <2>1, <2>2, <2>3, PlainLeft
<1> QED
  BY <1>1, <1>2, <1>3, <1>4, DeleteBegins DEF Begin


(* A step of a call on its own session, other than of a deletion.          *)
LEMMA StayLeft ==
  ASSUME TypeInv, IndexInv, LeftInv, NEW c \in Client, CallOf(c),
         UNCHANGED <<saves, recorded, index, doomed, used>>, excused \subseteq excused',
         call'[c].s \in {call[c].s, NoSession}, call'[c].op # "delete",
         session' \subseteq session \cup {call[c].s}, counted' \subseteq counted \cup {call[c].s},
         \A r \in Session : r # call[c].s => messages'[r] = messages[r] /\ versions'[r] = versions[r],
         call[c].op = "delete" \/ Saving(c) => call[c].s \in excused'
  PROVE  LeftInv'
<1>1. PICK s : s = call[c].s
  OBVIOUS
<1>2. s \in Session => s \in used
  BY <1>1, CallOK, StoreAssumption
<1>3. call[c].s \in {s, NoSession} /\ call'[c].s \in {s, NoSession}
  BY <1>1
<1>4. /\ session' \subseteq session \cup {s} /\ counted' \subseteq counted \cup {s}
      /\ \A r \in Session : r # s => messages'[r] = messages[r] /\ versions'[r] = versions[r]
  BY <1>1
<1>5. s \in Session =>
        /\ s \in used
        /\ s \in doomed \ excused' => s \in session \/ (call[c].s = s /\ call[c].op # "delete")
        /\ Saving(c) => s \in excused'
  BY <1>1, <1>2
<1> QED
  BY <1>3, <1>4, <1>5, PlainLeft

LEMMA ThrowLeft ==
  ASSUME TypeInv, IndexInv, LeftInv, NEW c \in Client, Throw(c), UNCHANGED <<keys, saves, used, doomed>>
  PROVE  LeftInv'
<1>1. CallOf(c) /\ call'[c].s = NoSession /\ call'[c].op # "delete"
  BY FinishFields DEF Throw
<1>2. /\ UNCHANGED <<session, counted, messages, recorded, index, versions, saves, used, doomed>>
      /\ excused \subseteq excused' /\ call[c].s \in excused'
  BY DEF Throw, keys
<1> QED
  BY <1>1, <1>2, StayLeft

LEMMA MessageLeft ==
  ASSUME TypeInv, IndexInv, LeftInv, NEW c \in Client, MessageStep(c) \/ VersionCheckpoint(c)
  PROVE  LeftInv'
<1>1. call[c].op # "delete" /\ ~ Saving(c) /\ call[c].s \in Session
  <2>1. call[c].pc \in {"count", "push", "read", "write", "version"}
    BY DEF MessageStep, CountMessage, PushMessage, ReadSession, WriteSession, VersionCheckpoint
  <2>2. call[c].op # "delete" /\ call[c].s \in used
    BY <2>1, CallOK, PlaceTellsOp
  <2> QED
    BY <2>1, <2>2 DEF Saving, TypeInv, StoreTyped
<1>2. ASSUME NEW p, Goto(c, p)
      PROVE  CallOf(c) /\ call'[c].s = call[c].s /\ call'[c].op # "delete"
  BY <1>1, <1>2, GotoFields
<1>3. ASSUME Finish(c)
      PROVE  CallOf(c) /\ call'[c].s = NoSession /\ call'[c].op # "delete"
  BY <1>3, FinishFields
<1>4. CASE CountMessage(c)
  <2>1. /\ Goto(c, "push") /\ counted' = counted \cup {call[c].s}
        /\ UNCHANGED <<session, messages, recorded, index, versions, saves, used, excused, doomed>>
    BY <1>4 DEF CountMessage, history
  <2> QED
    BY <1>1, <1>2, <2>1, StayLeft
<1>5. CASE PushMessage(c)
  <2>1. /\ Goto(c, "read")
        /\ \A r \in Session : r # call[c].s => messages'[r] = messages[r]
        /\ UNCHANGED <<session, counted, recorded, index, versions, saves, used, excused, doomed>>
    BY <1>5 DEF PushMessage, history, TypeInv, MessagesTyped
  <2> QED
    BY <1>1, <1>2, <2>1, StayLeft
<1>6. CASE ReadSession(c)
  <2>1. UNCHANGED <<keys, saves, used, doomed>>
    BY <1>6 DEF ReadSession
  <2>2. CASE Throw(c)
    BY <2>1, <2>2, ThrowLeft
  <2>3. CASE Goto(c, "write") /\ UNCHANGED excused
    <3>1. UNCHANGED <<session, counted, messages, recorded, index, versions, saves, used, excused,
                      doomed>>
      BY <2>1, <2>3 DEF keys
    <3> QED
      BY <1>1, <1>2, <2>3, <3>1, StayLeft
  <2> QED
    BY <1>6, <2>2, <2>3 DEF ReadSession
<1>7. CASE WriteSession(c)
  <2>1. /\ session' = session \cup {call[c].s}
        /\ UNCHANGED <<counted, messages, recorded, index, versions, saves, used, excused, doomed>>
    BY <1>7 DEF WriteSession, history
  <2>2. CallOf(c) /\ call'[c].s \in {call[c].s, NoSession} /\ call'[c].op # "delete"
    <3>1. CASE call[c].op # "fork"
      BY <1>3, <1>7, <3>1 DEF WriteSession
    <3>2. CASE call[c].op = "fork"
      <4>1. call' = [call EXCEPT ![c].todo = Tail(call[c].todo),
                       ![c].pc = IF Tail(call[c].todo) = <<>> THEN "requireSaved" ELSE "require"]
        BY <1>7, <3>2 DEF WriteSession
      <4> QED
        BY <1>1, <4>1, CallOK DEF TypeInv, CallsTyped, CallOf, CallRecord
    <3> QED
      BY <3>1, <3>2
  <2> QED
    BY <1>1, <2>1, <2>2, StayLeft
<1>8. CASE VersionCheckpoint(c)
  <2>1. /\ Finish(c)
        /\ \A r \in Session : r # call[c].s => versions'[r] = versions[r]
        /\ UNCHANGED <<session, counted, messages, recorded, index, saves, used, excused, doomed>>
    BY <1>8 DEF VersionCheckpoint, history, TypeInv, StoreTyped
  <2> QED
    BY <1>1, <1>3, <2>1, StayLeft
<1> QED
  BY <1>4, <1>5, <1>6, <1>7, <1>8 DEF MessageStep

LEMMA SavedLeft ==
  ASSUME TypeInv, IndexInv, LeftInv, NEW c \in Client, RecordCheckpoint(c) \/ IndexCheckpoint(c)
  PROVE  LeftInv'
<1>0. PICK s : s = call[c].s
  OBVIOUS
<1>1. /\ call[c].op \in {"save", "fork"} /\ Saving(c) /\ s \in Session /\ s \in used
      /\ saves[call[c].cp].s = s
  <2>1. call[c].pc \in {"record", "index"}
        /\ (call[c].pc = "index" => call[c].op \in {"save", "fork"})
    BY DEF RecordCheckpoint, IndexCheckpoint
  <2>2. call[c].op \in {"save", "fork"} /\ call[c].s \in used
    BY <2>1, CallOK, PlaceTellsOp
  <2> QED
    BY <1>0, <2>1, <2>2 DEF Saving, TypeInv, StoreTyped, IndexInv, SavingIsPrivate
<1>2. ASSUME NEW p, Goto(c, p)
      PROVE  /\ CallOf(c) /\ call'[c].s = s /\ call'[c].op = call[c].op
             /\ call'[c].pc = p /\ call'[c].cp = call[c].cp
  BY <1>0, <1>2, GotoFields
<1>3. /\ UNCHANGED <<session, counted, messages, versions, saves, used, excused, doomed>>
      /\ CallOf(c) /\ call'[c].s = s /\ call'[c].op # "delete" /\ call'[c].cp = call[c].cp
  BY <1>1, <1>2 DEF RecordCheckpoint, IndexCheckpoint, history
<1>4. /\ session' \subseteq session \cup {s} /\ counted' \subseteq counted \cup {s}
      /\ used' \subseteq used \cup {s} /\ UNCHANGED doomed /\ excused \subseteq excused'
      /\ call[c].s \in {s, NoSession} /\ call'[c].s \in {s, NoSession}
      /\ s \in used' /\ (s \in doomed \ excused' =>
                           s \in session \/ (call[c].s = s /\ call[c].op # "delete"))
  BY <1>0, <1>1, <1>3
<1>5. /\ \A r \in Session : r # s => RecordedOf(r)' \subseteq RecordedOf(r) /\ index'[r] = index[r]
      /\ index[s] \subseteq index'[s]
      /\ \A i \in RecordedOf(s)' :
           \/ i \in RecordedOf(s) /\ ~ (Saving(c) /\ call[c].cp = i)
           \/ i \in index'[s] \/ (Saving(c)' /\ call'[c].cp = i)
           \/ s \in excused'
  <2>1. CASE RecordCheckpoint(c)
    <3>1. recorded' = recorded \cup {call[c].cp} /\ index' = index /\ Goto(c, "index")
      BY <2>1 DEF RecordCheckpoint
    <3>2. Saving(c)' /\ call'[c].cp = call[c].cp
      BY <1>1, <1>2, <3>1 DEF Saving
    <3> QED
      BY <1>1, <1>3, <3>1, <3>2 DEF RecordedOf
  <2>2. CASE IndexCheckpoint(c)
    <3>1. recorded' = recorded /\ index' = [index EXCEPT ![s] = @ \cup {call[c].cp}]
      BY <1>0, <2>2 DEF IndexCheckpoint
    <3>2. /\ index'[s] = index[s] \cup {call[c].cp}
          /\ \A r \in Session : r # s => index'[r] = index[r]
      BY <1>1, <3>1 DEF TypeInv, StoreTyped
    <3>3. \A r \in Session : RecordedOf(r)' = RecordedOf(r)
      BY <1>3, <3>1 DEF RecordedOf
    <3>4. ASSUME NEW i \in RecordedOf(s)'
          PROVE  (i \in RecordedOf(s) /\ ~ (Saving(c) /\ call[c].cp = i)) \/ i \in index'[s]
      <4>1. i \in RecordedOf(s)
        BY <1>1, <3>3
      <4>2. call[c].cp = i => i \in index'[s]
        BY <3>2
      <4> QED
        BY <4>1, <4>2
    <3> QED
      BY <3>2, <3>3, <3>4
  <2> QED
    BY <2>1, <2>2
<1>6. \A r \in Session : r # s =>
        /\ messages'[r] = messages[r] /\ index'[r] = index[r] /\ versions'[r] = versions[r]
        /\ RecordedOf(r)' \subseteq RecordedOf(r)
  BY <1>3, <1>5
<1> QED
  BY <1>3, <1>4, <1>5, <1>6, WorkLeft


LEMMA ForkLeft ==
  ASSUME TypeInv, IndexInv, LeftInv, NEW c \in Client, ForkStep(c)
  PROVE  LeftInv'
<1>1. /\ call[c] \in CallRecord(used, Len(saves), Len(said), now)
      /\ call[c].op = "fork" /\ call[c].op # "delete" /\ ~ Saving(c)
      /\ call[c].pc \notin {"origin", "create"} => call[c].s \in used
      /\ call[c].pc \in {"origin", "create"} => call[c].s = NoSession
  <2>1. call[c].pc \in {"origin", "create", "list", "copy", "require", "requireSaved"}
    BY DEF ForkStep, FindOrigin, CreateFork, ReadMessages, RequireForMessage, RequireForCheckpoint
  <2>2. CallType(call[c], used, Len(saves), Len(said), now)
    BY CallOK
  <2>3. call[c].op = "fork"
    BY <2>1, <2>2, PlaceTellsOp
  <2> QED
    BY <2>1, <2>2, <2>3, CallOK DEF Saving, CallType
<1>2. CASE Throw(c) /\ UNCHANGED <<keys, saves, used, doomed>>
  BY <1>2, ThrowLeft
<1>3. ASSUME CallOf(c), call'[c].s = call[c].s, call'[c].op = "fork",
             UNCHANGED <<keys, saves, used, excused, doomed>>
      PROVE  LeftInv'
  <2>1. UNCHANGED <<session, counted, messages, recorded, index, versions, saves, used, excused,
                    doomed>>
    BY <1>3 DEF keys
  <2> QED
    BY <1>1, <1>3, <2>1, StayLeft
<1>4. CASE FindOrigin(c)
  <2>1. CASE Origin(c) \in session
    <3>1. /\ \E p : Goto(c, p)
          /\ UNCHANGED <<keys, saves, used, excused, doomed>>
      BY <1>4, <2>1 DEF FindOrigin
    <3> QED
      BY <1>1, <1>3, <3>1, GotoFields
  <2>2. CASE Origin(c) \notin session
    BY <1>2, <1>4, <2>2 DEF FindOrigin
  <2> QED
    BY <2>1, <2>2
<1>5. CASE ReadMessages(c)
  <2>1. PICK todo, p : call' = [call EXCEPT ![c].todo = todo, ![c].pc = p]
    BY <1>5 DEF ReadMessages
  <2>2. CallOf(c) /\ call'[c].s = call[c].s /\ call'[c].op = "fork"
    BY <1>1, <2>1 DEF TypeInv, CallsTyped, CallOf, CallRecord
  <2>3. UNCHANGED <<keys, saves, used, excused, doomed>>
    BY <1>5 DEF ReadMessages, history
  <2> QED
    BY <1>3, <2>2, <2>3
<1>6. CASE RequireForMessage(c)
  <2>1. CASE call[c].s \in session
    <3>1. /\ call' = [call EXCEPT ![c].at = now, ![c].pc = "count"]
          /\ UNCHANGED <<keys, saves, used, excused, doomed>>
      BY <1>6, <2>1 DEF RequireForMessage
    <3>2. CallOf(c) /\ call'[c].s = call[c].s /\ call'[c].op = "fork"
      BY <1>1, <3>1 DEF TypeInv, CallsTyped, CallOf, CallRecord
    <3> QED
      BY <1>3, <3>1, <3>2
  <2>2. CASE call[c].s \notin session
    BY <1>2, <1>6, <2>2 DEF RequireForMessage
  <2> QED
    BY <2>1, <2>2
<1>7. CASE RequireForCheckpoint(c)
  <2>1. CASE call[c].s \in session
    <3>0. PICK s : s = call[c].s
      OBVIOUS
    <3>1. /\ call' = [call EXCEPT ![c].cp = Len(saves) + 1, ![c].pc = "record"]
          /\ saves' = Append(saves, NewCheckpoint(s)) /\ s \in used /\ s \in session
          /\ UNCHANGED <<session, counted, messages, recorded, index, versions, used, excused, doomed>>
      BY <1>7, <2>1, <3>0 DEF RequireForCheckpoint, keys, TypeInv, StoreTyped
    <3>2. CallOf(c) /\ call'[c].s = s /\ call'[c].op # "delete"
      BY <1>1, <3>0, <3>1 DEF TypeInv, CallsTyped, CallOf, CallRecord
    <3>3. \A r \in Session : RecordedOf(r)' = RecordedOf(r)
      BY <3>1, MadeRecords
    <3>4. /\ session' \subseteq session \cup {s} /\ counted' \subseteq counted \cup {s}
          /\ used' \subseteq used \cup {s} /\ UNCHANGED doomed /\ excused \subseteq excused'
          /\ call[c].s \in {s, NoSession} /\ call'[c].s \in {s, NoSession}
      BY <3>0, <3>1, <3>2
    <3>5. \A r \in Session : r # s =>
            /\ messages'[r] = messages[r] /\ index'[r] = index[r] /\ versions'[r] = versions[r]
            /\ RecordedOf(r)' \subseteq RecordedOf(r)
      BY <3>1, <3>3
    <3>6. s \in Session =>
            /\ s \in used' /\ index[s] \subseteq index'[s]
            /\ s \in doomed \ excused' => s \in session \/ (call[c].s = s /\ call[c].op # "delete")
            /\ \A i \in RecordedOf(s)' :
                 \/ i \in RecordedOf(s) /\ ~ (Saving(c) /\ call[c].cp = i)
                 \/ i \in index'[s] \/ (Saving(c)' /\ call'[c].cp = i)
                 \/ s \in excused'
      BY <1>1, <3>1, <3>3
    <3> QED
      BY <3>2, <3>4, <3>5, <3>6, WorkLeft
  <2>2. CASE call[c].s \notin session
    BY <1>2, <1>7, <2>2 DEF RequireForCheckpoint
  <2> QED
    BY <2>1, <2>2
<1>8. CASE CreateFork(c)
  <2>1. PICK s \in Session \ used :
          /\ session' = session \cup {s} /\ used' = used \cup {s}
          /\ call' = [call EXCEPT ![c].s = s, ![c].pc = "list"]
    BY <1>8 DEF CreateFork
  <2>2. /\ UNCHANGED <<counted, messages, recorded, index, versions, saves, excused, doomed>>
        /\ call[c].s = NoSession
    BY <1>1, <1>8 DEF CreateFork, history
  <2>3. CallOf(c) /\ call'[c].s = s /\ call'[c].op # "delete"
    BY <1>1, <2>1 DEF TypeInv, CallsTyped, CallOf, CallRecord
  <2>4. \A r \in Session : RecordedOf(r)' = RecordedOf(r)
    BY <2>2 DEF RecordedOf
  <2>5. /\ session' \subseteq session \cup {s} /\ counted' \subseteq counted \cup {s}
        /\ used' \subseteq used \cup {s} /\ UNCHANGED doomed /\ excused \subseteq excused'
        /\ call[c].s \in {s, NoSession} /\ call'[c].s \in {s, NoSession}
    BY <2>1, <2>2, <2>3
  <2>6. \A r \in Session : r # s =>
          /\ messages'[r] = messages[r] /\ index'[r] = index[r] /\ versions'[r] = versions[r]
          /\ RecordedOf(r)' \subseteq RecordedOf(r)
    BY <2>2, <2>4
  <2>7. s \in Session =>
          /\ s \in used' /\ index[s] \subseteq index'[s]
          /\ s \in doomed \ excused' => s \in session \/ (call[c].s = s /\ call[c].op # "delete")
          /\ \A i \in RecordedOf(s)' :
               \/ i \in RecordedOf(s) /\ ~ (Saving(c) /\ call[c].cp = i)
               \/ i \in index'[s] \/ (Saving(c)' /\ call'[c].cp = i)
               \/ s \in excused'
    BY <1>1, <2>1, <2>2, <2>4 DEF TypeInv, StoreTyped
  <2> QED
    BY <2>3, <2>5, <2>6, <2>7, WorkLeft
<1> QED
  BY <1>4, <1>5, <1>6, <1>7, <1>8 DEF ForkStep

LEMMA LeftNext == TypeInv /\ TypeInv' /\ IndexInv /\ LeftInv /\ [Next]_vars => LeftInv'
<1> SUFFICES ASSUME TypeInv, TypeInv', IndexInv, LeftInv, [Next]_vars PROVE LeftInv'
  OBVIOUS
<1>1. CASE UNCHANGED vars \/ Tick
  <2>1. UNCHANGED <<keys, call, saves, used, excused, doomed>>
    BY <1>1 DEF vars, Tick, history
  <2>2. UNCHANGED <<session, counted, messages, recorded, index, versions>>
    BY <2>1 DEF keys
  <2>3. \A r \in Session : RecordedOf(r)' = RecordedOf(r)
    BY <2>1, <2>2 DEF RecordedOf
  <2>4. DeletesDoomed'
    BY <2>1 DEF LeftInv, DeletesDoomed
  <2>5. ASSUME NEW r \in Session
        PROVE  LeftFor(r)'
    BY <2>1, <2>2, <2>3 DEF LeftInv, LeftFor, AllIndexed, Deleted, DeletionAt, Saving, Busy, Remains,
         RecordedOf
  <2> QED
    BY <2>4, <2>5 DEF LeftInv
<1>2. ASSUME NEW c \in Client, Begin(c) \/ Continue(c) \/ CutShort(c)
      PROVE  LeftInv'
  <2>1. CASE CutShort(c)
    BY <2>1, ThrowLeft DEF CutShort
  <2>2. CASE Continue(c)
    <3>1. DeleteStep(c) \/ MessageStep(c) \/ CheckpointStep(c) \/ ForkStep(c)
      BY <2>2 DEF Continue, DeleteStep, MessageStep, CheckpointStep, ForkStep
    <3> QED
      BY <3>1, DeleteLeft, MessageLeft, SavedLeft, ForkLeft DEF CheckpointStep
  <2> QED
    BY <1>2, <2>1, <2>2, BeginLeft
<1> QED
  BY <1>1, <1>2 DEF Next

LEMMA LeftAlways == Spec => [](TypeInv /\ LeftInv)
<1>1. Init => LeftInv
  BY LeftInit
<1>2. (TypeInv /\ IndexInv) /\ (TypeInv /\ IndexInv)' /\ LeftInv /\ [Next]_vars => LeftInv'
  BY LeftNext
<1> QED
  BY <1>1, <1>2, IndexAlways, PTL DEF Spec

(* A deleted session is gone with everything in it, unless an operation on *)
(* it was cut short or had not finished when the deletion began.           *)
THEOREM Leftovers == Spec => []LeftoversHaveCause
<1>1. TypeInv /\ LeftInv => LeftoversHaveCause
  BY DEF TypeInv, StoreTyped, LeftInv, LeftFor, LeftoversHaveCause, Deleted
<1> QED
  BY <1>1, LeftAlways, PTL

-----------------------------------------------------------------------------
(* Forks.  The numbers of messages that a call has yet to push, in order.  *)
RestOf(k) ==
  IF k.pc \in {"require", "count", "push"} THEN k.todo
  ELSE IF k.op = "fork" /\ k.pc \in {"read", "write"} THEN Tail(k.todo)
  ELSE <<>>
Rest(c) == RestOf(call[c])

Elements(q) == {q[i] : i \in DOMAIN q}
What(s) == {m.what : m \in messages[s]}

\* A fork whose session exists and which has not read what it will copy.
Uncopied(c) == call[c].op = "fork" /\ call[c].pc \in {"list", "copy"}

(* No message is in a session twice or about to be, and a fork's session   *)
(* is its own.                                                             *)
MessagesOnce == \A s \in Session : \A m, n \in messages[s] : m.what = n.what => m = n

RestOnce ==
  \A c \in Client :
    /\ \A i, j \in DOMAIN Rest(c) : Rest(c)[i] = Rest(c)[j] => i = j
    /\ call[c].s \in Session => Elements(Rest(c)) \cap What(call[c].s) = {}
    /\ \A d \in Client : d # c /\ call[d].s = call[c].s =>
         Elements(Rest(c)) \cap Elements(Rest(d)) = {}

OneFork ==
  \A c, d \in Client :
    call[c].op = "fork" /\ call[d].op = "fork" /\ call[c].s \in Session /\ call[c].s = call[d].s
    => c = d

OnceInv == MessagesOnce /\ RestOnce /\ OneFork

(* Messages come from a session itself or from the sessions it descends    *)
(* from, which were created before it.                                     *)
SessionsDescend(older) ==
  /\ \A s \in Session \ used : messages[s] = {}
  /\ \A s \in used :
       /\ older[s] \subseteq used \ {s}
       /\ \A r \in older[s] : older[r] \subseteq older[s]
       /\ \A m \in messages[s] : said[m.what] \in older[s] \cup {s}

CallDescends(older, c) ==
  call[c].s \in Session =>
    /\ call[c].op # "fork" => \A x \in Elements(Rest(c)) : said[x] = call[c].s
    /\ call[c].op = "fork" => /\ Origin(c) \in older[call[c].s]
                              /\ \A x \in Elements(Rest(c)) : said[x] \in older[call[c].s]
    /\ Uncopied(c) => \A m \in messages[call[c].s] : said[m.what] = call[c].s

Lineage(older) == SessionsDescend(older) /\ \A c \in Client : CallDescends(older, c)

LineageInv == \E older \in [Session -> SUBSET Session] : Lineage(older)

(* What a checkpoint has seen stays, until its session is deleted.         *)
SeenStays ==
  \A i \in CheckpointId :
    saves[i].s \notin doomed => saves[i].seen \subseteq {m.what : m \in Until(i)}

(* What a fork has copied and what it has yet to copy are together what    *)
(* its checkpoint has seen and perhaps later messages of the origin, and   *)
(* they are copied in the order of the origin.                             *)
CopiedWhat(c) == {m.what : m \in Copied(c)}

CopyInv(c) ==
  /\ saves[call[c].from].seen \subseteq CopiedWhat(c) \cup Elements(Rest(c))
  /\ CopiedWhat(c) \cup Elements(Rest(c)) \subseteq {m.what : m \in Until(call[c].from)}
  /\ \A k, l \in Until(call[c].from) : k.at < l.at =>
       /\ \A m, n \in Copied(c) : m.what = k.what /\ n.what = l.what => m.at <= n.at
       /\ l.what \in CopiedWhat(c) => k.what \notin Elements(Rest(c))
       /\ \A i, j \in DOMAIN Rest(c) : Rest(c)[i] = k.what /\ Rest(c)[j] = l.what => i < j
  /\ call[c].pc \in {"count", "push"} => \A m \in Copied(c) : m.at <= call[c].at

Copying(c) ==
  /\ call[c].op = "fork" /\ call[c].s \in Session /\ ~Uncopied(c)
  /\ {call[c].s, Origin(c)} \cap doomed = {}

CopiesInOrder == \A c \in Client : Copying(c) => CopyInv(c)

ForkInv == OnceInv /\ LineageInv /\ SeenStays /\ CopiesInOrder

LEMMA ForkInit == Init => ForkInv
<1> SUFFICES ASSUME Init PROVE ForkInv
  OBVIOUS
<1>1. \A c \in Client : /\ call[c] = Idle /\ call[c].op = "none" /\ call[c].s = NoSession
                        /\ call[c].pc = "idle" /\ Rest(c) = <<>>
  BY DEF Init, Idle, Rest, RestOf
<1>2. Elements(<<>>) = {}
  BY DEF Elements
<1>3. OnceInv
  BY <1>1, <1>2 DEF OnceInv, MessagesOnce, RestOnce, OneFork, Init
<1>4. LineageInv
  <2> DEFINE older == [s \in Session |-> {}]
  <2>1. older \in [Session -> SUBSET Session]
    OBVIOUS
  <2>2. SessionsDescend(older)
    BY DEF SessionsDescend, Init
  <2>3. \A c \in Client : CallDescends(older, c)
    BY <1>1, StoreAssumption DEF CallDescends
  <2> QED
    BY <2>1, <2>2, <2>3 DEF LineageInv, Lineage
<1>5. SeenStays
  BY DEF Init, SeenStays, CheckpointId
<1>6. CopiesInOrder
  BY <1>1 DEF CopiesInOrder, Copying
<1> QED
  BY <1>3, <1>4, <1>5, <1>6 DEF ForkInv

(* What every step keeps: ids, checkpoints and messages are not taken      *)
(* back.                                                                   *)
Grows ==
  /\ used \subseteq used' /\ doomed \subseteq doomed'
  /\ Len(said) <= Len(said') /\ \A i \in 1..Len(said) : said'[i] = said[i]
  /\ \A i \in CheckpointId : i \in CheckpointId' /\ saves'[i] = saves[i]

LEMMA Appends ==
  ASSUME NEW S, NEW q \in Seq(S), NEW e \in S, NEW p, p = Append(q, e)
  PROVE  /\ Len(q) \in Nat /\ Len(p) = Len(q) + 1
         /\ \A i \in 1..Len(q) : i \in 1..Len(p) /\ p[i] = q[i]
         /\ p[Len(q) + 1] = e
BY AppendProperties, LenProperties

LEMMA NewCheckpointType ==
  ASSUME TypeInv, NEW s \in used
  PROVE  NewCheckpoint(s) \in Checkpoints
BY Sizes DEF NewCheckpoint, Checkpoints, TypeInv, StoreTyped, MessagesTyped

LEMMA StepGrows ==
  ASSUME TypeInv, [Next]_vars
  PROVE  Grows
<1>0. said \in Seq(Session) /\ saves \in Seq(Checkpoints) /\ Len(said) \in Nat /\ Len(saves) \in Nat
  BY LenProperties DEF TypeInv, StoreTyped
<1>1. CASE UNCHANGED <<used, doomed, said, saves>>
  BY <1>0, <1>1 DEF Grows, CheckpointId
<1>2. ASSUME NEW c \in Client, CreateSession(c) \/ CreateFork(c)
      PROVE  Grows
  <2>1. used \subseteq used' /\ UNCHANGED <<doomed, said, saves>>
    BY <1>2 DEF CreateSession, CreateFork, history
  <2> QED
    BY <1>0, <2>1 DEF Grows, CheckpointId
<1>3. ASSUME NEW c \in Client, NEW s \in Session, DeleteSession(c, s)
      PROVE  Grows
  BY <1>0, <1>3 DEF Grows, CheckpointId, DeleteSession
<1>4. ASSUME NEW c \in Client, NEW s \in Session, AddMessage(c, s)
      PROVE  Grows
  <2>1. said' = Append(said, s) /\ UNCHANGED <<used, doomed, saves>>
    BY <1>4 DEF AddMessage
  <2> QED
    BY <1>0, <2>1, Appends DEF Grows, CheckpointId
<1>5. ASSUME NEW s \in used, saves' = Append(saves, NewCheckpoint(s)),
             UNCHANGED <<used, doomed, said>>
      PROVE  Grows
  BY <1>0, <1>5, NewCheckpointType, Appends DEF Grows, CheckpointId
<1>6. ASSUME NEW c \in Client, NEW s \in Session, SaveCheckpoint(c, s)
      PROVE  Grows
  <2>1. s \in used
    BY <1>6 DEF SaveCheckpoint, TypeInv, StoreTyped
  <2> QED
    BY <1>5, <1>6, <2>1 DEF SaveCheckpoint, history
<1>7. ASSUME NEW c \in Client, RequireForCheckpoint(c)
      PROVE  Grows
  <2>1. UNCHANGED <<used, doomed, said>>
    BY <1>7 DEF RequireForCheckpoint, Throw
  <2>2. \/ UNCHANGED saves
        \/ call[c].s \in used /\ saves' = Append(saves, NewCheckpoint(call[c].s))
    BY <1>7 DEF RequireForCheckpoint, TypeInv, StoreTyped
  <2> QED
    BY <1>1, <1>5, <2>1, <2>2
<1>8. ASSUME NEW c \in Client, NEW s \in Session, UpdateSession(c, s) PROVE Grows
  BY <1>1, <1>8 DEF UpdateSession, history
<1>9. ASSUME NEW c \in Client, NEW id \in recorded, Fork(c, id) PROVE Grows
  BY <1>1, <1>9 DEF Fork, history
<1>10. ASSUME NEW c \in Client, DeleteStep(c) PROVE Grows
  BY <1>1, <1>10 DEF DeleteStep, DeleteMessages, DeleteCounter, CollectCheckpoints, DeleteIndex,
     DeleteVersions, DeleteRecord, history
<1>11. ASSUME NEW c \in Client, MessageStep(c) \/ CheckpointStep(c) PROVE Grows
  BY <1>1, <1>11 DEF MessageStep, CheckpointStep, CountMessage, PushMessage, ReadSession, WriteSession,
     RecordCheckpoint, IndexCheckpoint, VersionCheckpoint, history
<1>12. ASSUME NEW c \in Client, FindOrigin(c) \/ ReadMessages(c) \/ RequireForMessage(c) PROVE Grows
  BY <1>1, <1>12 DEF FindOrigin, ReadMessages, RequireForMessage, history
<1>13. ASSUME NEW c \in Client, CutShort(c) PROVE Grows
  BY <1>1, <1>13 DEF CutShort
<1>14. CASE Tick \/ UNCHANGED vars
  BY <1>1, <1>14 DEF Tick, vars, history
<1> QED
  BY <1>2, <1>3, <1>4, <1>6, <1>7, <1>8, <1>9, <1>10, <1>11, <1>12, <1>13, <1>14
     DEF Next, Begin, Continue, DeleteStep, MessageStep, CheckpointStep


(* Most steps leave messages alone, and each call's pushes to come: they   *)
(* end the call, or take it further.                                       *)
Ended(d) == Rest(d)' = <<>> /\ ~ (call'[d].op = "fork" /\ call'[d].s \in Session)

GoesOnAt(d) ==
  /\ Rest(d)' = Rest(d) /\ (Uncopied(d)' <=> Uncopied(d))
  /\ call'[d].op = call[d].op /\ call'[d].s = call[d].s /\ call'[d].from = call[d].from
  /\ call'[d].pc \in {"count", "push"} =>
       call'[d].at = now' \/ (call[d].pc \in {"count", "push"} /\ call'[d].at = call[d].at)

QuietAt(d) == Ended(d) \/ GoesOnAt(d)

LEMMA SameIsQuiet ==
  ASSUME NEW d \in Client, call'[d] = call[d]
  PROVE  QuietAt(d)
BY DEF QuietAt, GoesOnAt, Rest, RestOf, Uncopied

LEMMA OthersQuiet ==
  ASSUME NEW c \in Client, CallOf(c), QuietAt(c)
  PROVE  \A d \in Client : QuietAt(d)
BY OthersStay, SameIsQuiet

(* A call that works on no session, or is not a fork, and has no pushes to *)
(* come.                                                                   *)
LEMMA IdleEnded ==
  ASSUME NEW d \in Client, call'[d].pc \notin {"require", "count", "push"},
         call'[d].op # "fork"
  PROVE  Ended(d)
BY DEF Ended, Rest, RestOf

LEMMA FinishQuiet ==
  ASSUME TypeInv, NEW c \in Client, Finish(c)
  PROVE  \A d \in Client : QuietAt(d)
<1>1. CallOf(c) /\ call'[c].op = "none" /\ call'[c].pc = "idle"
  BY FinishFields
<1> QED
  BY <1>1, IdleEnded, OthersQuiet DEF QuietAt

LEMMA CallQuiet ==
  ASSUME TypeInv, NEW c \in Client, NEW r, Call(c, r),
         r.pc \notin {"require", "count", "push"},
         r.op # "fork" \/ (r.pc = "origin" /\ r.s \notin Session)
  PROVE  \A d \in Client : QuietAt(d)
<1>1. CallOf(c) /\ call'[c] = r
  BY CallFields
<1>2. Ended(c)
  BY <1>1 DEF Ended, Rest, RestOf
<1> QED
  BY <1>1, <1>2, OthersQuiet DEF QuietAt

LEMMA GotoKeeps ==
  ASSUME TypeInv, NEW c \in Client, NEW p, Goto(c, p)
  PROVE  /\ CallOf(c) /\ call'[c].pc = p /\ call'[c].op = call[c].op /\ call'[c].s = call[c].s
         /\ call'[c].todo = call[c].todo /\ call'[c].at = call[c].at
         /\ call'[c].from = call[c].from
BY CallOK DEF Goto, TypeInv, CallsTyped, CallOf, CallRecord

LEMMA GotoQuiet ==
  ASSUME TypeInv, NEW c \in Client, NEW p, Goto(c, p),
         \/ p \notin {"require", "count", "push"} /\ call[c].op # "fork"
         \/ call[c].pc = "count" /\ p = "push"
         \/ call[c].pc = "read" /\ p = "write"
         \/ call[c].pc = "record" /\ p = "index"
         \/ call[c].pc = "index" /\ p = "version"
         \/ call[c].pc = "list" /\ p = "copy"
         \/ call[c].pc = "origin" /\ p = "create"
  PROVE  \A d \in Client : QuietAt(d)
<1>1. /\ CallOf(c) /\ call'[c].pc = p /\ call'[c].op = call[c].op /\ call'[c].s = call[c].s
      /\ call'[c].todo = call[c].todo /\ call'[c].at = call[c].at
      /\ call'[c].from = call[c].from
  BY GotoKeeps
<1>2. CASE p \notin {"require", "count", "push"} /\ call[c].op # "fork"
  BY <1>1, <1>2, IdleEnded, OthersQuiet DEF QuietAt
<1>3. CASE call[c].pc = "origin" /\ p = "create"
  <2>1. call[c].s = NoSession
    BY <1>3, CallOK DEF CallType
  <2>2. Ended(c)
    BY <1>1, <1>3, <2>1, StoreAssumption DEF Ended, Rest, RestOf
  <2> QED
    BY <1>1, <2>2, OthersQuiet DEF QuietAt
<1>4. CASE \/ call[c].pc = "count" /\ p = "push"
           \/ call[c].pc = "read" /\ p = "write"
           \/ call[c].pc = "record" /\ p = "index"
           \/ call[c].pc = "index" /\ p = "version"
           \/ call[c].pc = "list" /\ p = "copy"
  <2>1. GoesOnAt(c)
    BY <1>1, <1>4 DEF GoesOnAt, Rest, RestOf, Uncopied
  <2> QED
    BY <1>1, <2>1, OthersQuiet DEF QuietAt
<1> QED
  BY <1>2, <1>3, <1>4

(* The others: a message is added, a fork gets its session, it reads what  *)
(* it copies, a message is pushed, messages are deleted.                   *)
Loud(c) ==
  \/ \E s \in Session : AddMessage(c, s)
  \/ CreateFork(c) \/ ReadMessages(c) \/ PushMessage(c) \/ DeleteMessages(c)

Quiet == UNCHANGED messages /\ \A d \in Client : QuietAt(d)

LEMMA LoudOrQuiet ==
  ASSUME TypeInv, [Next]_vars
  PROVE  Quiet \/ \E c \in Client : Loud(c)
<1>1. CASE Tick \/ UNCHANGED vars
  <2>1. UNCHANGED <<messages, call>>
    BY <1>1 DEF Tick, vars, keys
  <2> QED
    BY <2>1, SameIsQuiet DEF Quiet
<1>2. ASSUME NEW c \in Client, Begin(c)
      PROVE  Quiet \/ Loud(c)
  <2>1. CASE CreateSession(c)
    BY <2>1, SameIsQuiet DEF CreateSession, Quiet
  <2>2. ASSUME NEW s \in Session, UpdateSession(c, s)
        PROVE  Quiet
    <3> DEFINE r == [Idle EXCEPT !.op = "update", !.pc = "write", !.s = s]
    <3>1. Call(c, r) /\ UNCHANGED messages
      BY <2>2 DEF UpdateSession, keys
    <3>2. r.pc = "write" /\ r.op = "update"
      BY DEF Idle
    <3> QED
      BY <3>1, <3>2, CallQuiet DEF Quiet
  <2>3. ASSUME NEW s \in Session, DeleteSession(c, s)
        PROVE  Quiet
    <3> DEFINE r == [Idle EXCEPT !.op = "delete", !.pc = "messages", !.s = s]
    <3>1. Call(c, r) /\ UNCHANGED messages
      BY <2>3 DEF DeleteSession
    <3>2. r.pc = "messages" /\ r.op = "delete"
      BY DEF Idle
    <3> QED
      BY <3>1, <3>2, CallQuiet DEF Quiet
  <2>4. ASSUME NEW s \in Session, SaveCheckpoint(c, s)
        PROVE  Quiet
    <3> DEFINE r == [Idle EXCEPT !.op = "save", !.pc = "record", !.s = s, !.cp = Len(saves) + 1]
    <3>1. Call(c, r) /\ UNCHANGED messages
      BY <2>4 DEF SaveCheckpoint, keys
    <3>2. r.pc = "record" /\ r.op = "save"
      BY DEF Idle
    <3> QED
      BY <3>1, <3>2, CallQuiet DEF Quiet
  <2>5. ASSUME NEW id \in recorded, Fork(c, id)
        PROVE  Quiet
    <3> DEFINE r == [Idle EXCEPT !.op = "fork", !.pc = "origin", !.from = id]
    <3>1. Call(c, r) /\ UNCHANGED messages
      BY <2>5 DEF Fork, keys
    <3>2. r.pc = "origin" /\ r.op = "fork" /\ r.s \notin Session
      BY StoreAssumption DEF Idle
    <3> QED
      BY <3>1, <3>2, CallQuiet DEF Quiet
  <2> QED
    BY <1>2, <2>1, <2>2, <2>3, <2>4, <2>5 DEF Begin, Loud
<1>3. ASSUME NEW c \in Client, DeleteStep(c)
      PROVE  Quiet \/ Loud(c)
  <2>1. call[c].op = "delete"
    BY <1>3, CallOK, PlaceTellsOp DEF DeleteStep, DeleteMessages, DeleteCounter,
       CollectCheckpoints, DeleteIndex, DeleteVersions, DeleteRecord
  <2>2. CASE DeleteMessages(c)
    BY <2>2 DEF Loud
  <2>3. CASE DeleteCounter(c) \/ DeleteIndex(c)
    BY <2>1, <2>3, GotoQuiet DEF DeleteCounter, DeleteIndex, Quiet
  <2>4. CASE DeleteVersions(c)
    BY <2>1, <2>4, GotoQuiet, FinishQuiet DEF DeleteVersions, Quiet
  <2>5. CASE CollectCheckpoints(c) \/ DeleteRecord(c)
    <3>1. UNCHANGED messages
      BY <2>5 DEF CollectCheckpoints, DeleteRecord, keys
    <3>2. CASE Finish(c)
      BY <3>1, <3>2, FinishQuiet DEF Quiet
    <3>3. CASE ~Finish(c)
      <4>1. /\ CallOf(c) /\ call'[c].op = "delete"
            /\ call'[c].pc \notin {"require", "count", "push"}
        <5>1. CASE CollectCheckpoints(c)
          <6> DEFINE i == index[call[c].s]
                     p == IF i = {} THEN "versions" ELSE "index"
          <6>1. call' = [call EXCEPT ![c].ids = i, ![c].pc = p]
            BY <5>1 DEF CollectCheckpoints
          <6>2. p \notin {"require", "count", "push"}
            OBVIOUS
          <6> HIDE DEF i, p
          <6> QED
            BY <2>1, <6>1, <6>2, CallOK DEF TypeInv, CallsTyped, CallOf, CallRecord
        <5>2. CASE DeleteRecord(c)
          <6>1. PICK id : call' = [call EXCEPT ![c].ids = @ \ {id}]
            BY <3>3, <5>2 DEF DeleteRecord
          <6>2. call[c].pc = "records"
            BY <5>2 DEF DeleteRecord
          <6> QED
            BY <2>1, <6>1, <6>2, CallOK DEF TypeInv, CallsTyped, CallOf, CallRecord
        <5> QED
          BY <2>5, <5>1, <5>2
      <4> QED
        BY <3>1, <4>1, IdleEnded, OthersQuiet DEF QuietAt, Quiet
    <3> QED
      BY <3>2, <3>3
  <2> QED
    BY <1>3, <2>2, <2>3, <2>4, <2>5 DEF DeleteStep
<1>4. ASSUME NEW c \in Client, MessageStep(c)
      PROVE  Quiet \/ Loud(c)
  <2>1. CASE CountMessage(c)
    BY <2>1, GotoQuiet DEF CountMessage, Quiet
  <2>2. CASE PushMessage(c)
    BY <2>2 DEF Loud
  <2>3. CASE ReadSession(c)
    BY <2>3, GotoQuiet, FinishQuiet DEF ReadSession, Throw, Quiet, keys
  <2>4. CASE WriteSession(c)
    <3>1. UNCHANGED messages
      BY <2>4 DEF WriteSession
    <3>2. CASE call[c].op # "fork"
      BY <2>4, <3>1, <3>2, FinishQuiet DEF WriteSession, Quiet
    <3>3. CASE call[c].op = "fork"
      <4> DEFINE rest == Tail(call[c].todo)
      <4>1. /\ CallOf(c) /\ call'[c].op = "fork" /\ call'[c].s = call[c].s
            /\ call'[c].from = call[c].from /\ call'[c].todo = rest
            /\ call'[c].pc = IF rest = <<>> THEN "requireSaved" ELSE "require"
        <5> DEFINE p == IF rest = <<>> THEN "requireSaved" ELSE "require"
        <5>1. call' = [call EXCEPT ![c].todo = rest, ![c].pc = p]
          BY <2>4, <3>3 DEF WriteSession
        <5> HIDE DEF rest, p
        <5>2. CallOf(c) /\ call'[c] = [call[c] EXCEPT !.todo = rest, !.pc = p]
          BY <5>1, CallOK DEF TypeInv, CallsTyped, CallOf, CallRecord
        <5>3. call[c] \in CallRecord(used, Len(saves), Len(said), now)
          BY CallOK
        <5>4. /\ call'[c].op = "fork" /\ call'[c].s = call[c].s
              /\ call'[c].from = call[c].from /\ call'[c].todo = rest /\ call'[c].pc = p
          BY <3>3, <5>2, <5>3 DEF CallRecord
        <5> QED
          BY <5>2, <5>4 DEF p
      <4>2. GoesOnAt(c)
        BY <2>4, <3>3, <4>1 DEF WriteSession, GoesOnAt, Rest, RestOf, Uncopied
      <4> QED
        BY <3>1, <4>1, <4>2, OthersQuiet DEF QuietAt, Quiet
    <3> QED
      BY <3>2, <3>3
  <2> QED
    BY <1>4, <2>1, <2>2, <2>3, <2>4 DEF MessageStep
<1>5. ASSUME NEW c \in Client, CheckpointStep(c)
      PROVE  Quiet
  BY <1>5, GotoQuiet, FinishQuiet DEF CheckpointStep, RecordCheckpoint, IndexCheckpoint,
     VersionCheckpoint, Quiet
<1>6. ASSUME NEW c \in Client, ForkStep(c)
      PROVE  Quiet \/ Loud(c)
  <2>1. call[c].op = "fork" \/ Loud(c)
    BY <1>6, CallOK, PlaceTellsOp DEF ForkStep, FindOrigin, CreateFork, ReadMessages,
       RequireForMessage, RequireForCheckpoint, Loud
  <2>2. CASE CreateFork(c) \/ ReadMessages(c)
    BY <2>2 DEF Loud
  <2>3. CASE FindOrigin(c)
    BY <2>3, GotoQuiet, FinishQuiet DEF FindOrigin, Throw, Quiet, keys
  <2>4. CASE RequireForMessage(c)
    <3>1. UNCHANGED <<messages, now>>
      BY <2>4 DEF RequireForMessage, keys
    <3>2. CASE Finish(c)
      BY <3>1, <3>2, FinishQuiet DEF Quiet
    <3>3. CASE ~Finish(c)
      <4>1. /\ CallOf(c) /\ call'[c].op = call[c].op /\ call'[c].s = call[c].s
            /\ call'[c].from = call[c].from /\ call'[c].todo = call[c].todo
            /\ call'[c].pc = "count" /\ call'[c].at = now /\ call[c].pc = "require"
        <5>1. call' = [call EXCEPT ![c].at = now, ![c].pc = "count"] /\ call[c].pc = "require"
          BY <2>4, <3>3 DEF RequireForMessage, Throw
        <5> QED
          BY <5>1, CallOK DEF TypeInv, CallsTyped, CallOf, CallRecord
      <4>2. GoesOnAt(c)
        BY <3>1, <4>1 DEF GoesOnAt, Rest, RestOf, Uncopied
      <4> QED
        BY <3>1, <4>1, <4>2, OthersQuiet DEF QuietAt, Quiet
    <3> QED
      BY <3>2, <3>3
  <2>5. CASE RequireForCheckpoint(c)
    <3>1. UNCHANGED messages
      BY <2>5 DEF RequireForCheckpoint, keys
    <3>2. CASE Finish(c)
      BY <3>1, <3>2, FinishQuiet DEF Quiet
    <3>3. CASE ~Finish(c)
      <4>1. /\ CallOf(c) /\ call'[c].op = call[c].op /\ call'[c].s = call[c].s
            /\ call'[c].from = call[c].from /\ call'[c].pc = "record"
            /\ call[c].pc = "requireSaved"
        <5>1. /\ call' = [call EXCEPT ![c].cp = Len(saves) + 1, ![c].pc = "record"]
              /\ call[c].pc = "requireSaved"
          BY <2>5, <3>3 DEF RequireForCheckpoint, Throw
        <5> QED
          BY <5>1, CallOK DEF TypeInv, CallsTyped, CallOf, CallRecord
      <4>2. GoesOnAt(c)
        BY <3>1, <4>1 DEF GoesOnAt, Rest, RestOf, Uncopied
      <4> QED
        BY <3>1, <4>1, <4>2, OthersQuiet DEF QuietAt, Quiet
    <3> QED
      BY <3>2, <3>3
  <2> QED
    BY <1>6, <2>2, <2>3, <2>4, <2>5 DEF ForkStep
<1>7. ASSUME NEW c \in Client, CutShort(c)
      PROVE  Quiet
  BY <1>7, FinishQuiet DEF CutShort, Throw, Quiet, keys
<1> QED
  BY <1>1, <1>2, <1>3, <1>4, <1>5, <1>6, <1>7
     DEF Next, Continue, DeleteStep, MessageStep, CheckpointStep, ForkStep

(* The numbers in a session and in what is to be pushed exist.             *)
LEMMA RestTyped ==
  ASSUME TypeInv, NEW d \in Client
  PROVE  /\ Rest(d) \in Seq(1..Len(said))
         /\ Elements(Rest(d)) \subseteq 1..Len(said)
<1>1. call[d].todo \in Seq(1..Len(said))
  BY CallOK DEF CallRecord
<1>2. call[d].op = "fork" /\ call[d].pc \in {"read", "write"} => call[d].todo # <<>>
  BY CallOK DEF CallType
<1>3. Rest(d) \in Seq(1..Len(said))
  BY <1>1, <1>2, EmptySeq, HeadTailProperties DEF Rest, RestOf
<1>4. \A i \in DOMAIN Rest(d) : Rest(d)[i] \in 1..Len(said)
  BY <1>3, LenProperties
<1> QED
  BY <1>3, <1>4 DEF Elements

LEMMA WhatTyped ==
  ASSUME TypeInv, NEW s \in Session
  PROVE  /\ What(s) \subseteq 1..Len(said)
         /\ \A m \in messages[s] : m.what \in 1..Len(said) /\ m.at \in Nat /\ m.at <= now
BY Sizes DEF TypeInv, MessagesTyped, What

LEMMA NoElements == Elements(<<>>) = {}
BY DEF Elements

(* A call that ends or goes on while messages at most go.                  *)
LEMMA OnceKept ==
  ASSUME OnceInv, \A d \in Client : QuietAt(d),
         \A s \in Session : messages'[s] \subseteq messages[s]
  PROVE  OnceInv'
<1>1. MessagesOnce'
  BY DEF OnceInv, MessagesOnce
<1>2. \A s \in Session : What(s)' \subseteq What(s)
  BY DEF What
<1>3. ASSUME NEW d \in Client
      PROVE  Rest(d)' = <<>> \/ (Rest(d)' = Rest(d) /\ call'[d].s = call[d].s)
  BY DEF QuietAt, Ended, GoesOnAt
<1>4. RestOnce'
  <2> SUFFICES ASSUME NEW c \in Client
               PROVE  /\ \A i, j \in DOMAIN Rest(c)' : Rest(c)'[i] = Rest(c)'[j] => i = j
                      /\ call'[c].s \in Session => Elements(Rest(c)') \cap What(call[c].s)' = {}
                      /\ \A d \in Client : d # c /\ call'[d].s = call'[c].s =>
                           Elements(Rest(c)') \cap Elements(Rest(d)') = {}
    BY DEF RestOnce, What, Elements
  <2>1. CASE Rest(c)' = <<>>
    BY <2>1, NoElements
  <2>2. CASE Rest(c)' = Rest(c) /\ call'[c].s = call[c].s
    <3>1. \A i, j \in DOMAIN Rest(c)' : Rest(c)'[i] = Rest(c)'[j] => i = j
      BY <2>2 DEF OnceInv, RestOnce
    <3>2. call'[c].s \in Session => Elements(Rest(c)') \cap What(call[c].s)' = {}
      <4>1. call[c].s \in Session => Elements(Rest(c)) \cap What(call[c].s) = {}
        BY <2>2 DEF OnceInv, RestOnce
      <4> QED
        BY <2>2, <4>1 DEF What
    <3>3. ASSUME NEW d \in Client, d # c, call'[d].s = call'[c].s
          PROVE  Elements(Rest(c)') \cap Elements(Rest(d)') = {}
      <4>1. CASE Rest(d)' = <<>>
        BY <4>1, NoElements
      <4>2. CASE Rest(d)' = Rest(d) /\ call'[d].s = call[d].s
        BY <2>2, <3>3, <4>2 DEF OnceInv, RestOnce
      <4> QED
        BY <1>3, <4>1, <4>2
    <3> QED
      BY <3>1, <3>2, <3>3
  <2> QED
    BY <1>3, <2>1, <2>2
<1>5. OneFork'
  <2>1. ASSUME NEW d \in Client, call'[d].op = "fork", call'[d].s \in Session
        PROVE  call[d].op = "fork" /\ call[d].s = call'[d].s
    BY <2>1 DEF QuietAt, Ended, GoesOnAt
  <2> QED
    BY <2>1 DEF OnceInv, OneFork
<1> QED
  BY <1>1, <1>4, <1>5 DEF OnceInv

(* A call that takes over something to push, or pushes.                    *)
LEMMA OnceStep ==
  ASSUME OnceInv, NEW c \in Client, CallOf(c), MessagesOnce',
         \A i, j \in DOMAIN Rest(c)' : Rest(c)'[i] = Rest(c)'[j] => i = j,
         call'[c].s \in Session => Elements(Rest(c)') \cap What(call[c].s)' = {},
         \A d \in Client : d # c =>
           /\ call[d].s \in Session => Elements(Rest(d)) \cap What(call[d].s)' = {}
           /\ call[d].s = call'[c].s => Elements(Rest(c)') \cap Elements(Rest(d)) = {}
           /\ call'[c].op = "fork" /\ call'[c].s \in Session /\ call[d].op = "fork" =>
                call[d].s # call'[c].s
  PROVE  OnceInv'
<1>1. \A d \in Client : d # c => call'[d] = call[d] /\ Rest(d)' = Rest(d)
  BY OthersStay DEF Rest
<1>2. RestOnce'
  <2> SUFFICES ASSUME NEW e \in Client
               PROVE  /\ \A i, j \in DOMAIN Rest(e)' : Rest(e)'[i] = Rest(e)'[j] => i = j
                      /\ call'[e].s \in Session => Elements(Rest(e)') \cap What(call[e].s)' = {}
                      /\ \A d \in Client : d # e /\ call'[d].s = call'[e].s =>
                           Elements(Rest(e)') \cap Elements(Rest(d)') = {}
    BY DEF RestOnce, What, Elements
  <2>1. CASE e = c
    BY <1>1, <2>1
  <2>2. CASE e # c
    <3>1. call'[e] = call[e] /\ Rest(e)' = Rest(e)
      BY <1>1, <2>2
    <3>2. \A i, j \in DOMAIN Rest(e) : Rest(e)[i] = Rest(e)[j] => i = j
      BY DEF OnceInv, RestOnce
    <3>3. ASSUME NEW d \in Client, d # e, call'[d].s = call'[e].s
          PROVE  Elements(Rest(e)') \cap Elements(Rest(d)') = {}
      <4>1. CASE d = c
        BY <2>2, <3>1, <3>3, <4>1
      <4>2. CASE d # c
        BY <1>1, <3>1, <3>3, <4>2 DEF OnceInv, RestOnce
      <4> QED
        BY <4>1, <4>2
    <3>4. call'[e].s \in Session => Elements(Rest(e)') \cap What(call[e].s)' = {}
      BY <2>2, <3>1 DEF What
    <3> QED
      BY <3>1, <3>2, <3>3, <3>4
  <2> QED
    BY <2>1, <2>2
<1>3. OneFork'
  BY <1>1 DEF OnceInv, OneFork
<1> QED
  BY <1>2, <1>3 DEF OnceInv

(* What a call works on and comes from exists.                             *)
LEMMA CallKnown ==
  ASSUME TypeInv, NEW c \in Client, call[c].s \in Session
  PROVE  /\ call[c].s \in used /\ call[c].s # NoSession
         /\ call[c].op = "fork" => call[c].from \in CheckpointId /\ Origin(c) \in used
<1>1. call[c].s \in used /\ call[c].s # NoSession
  BY CallOK, StoreAssumption
<1>2. call[c].op = "fork" => call[c].from # 0 /\ call[c].from \in 0..Len(saves)
  BY CallOK DEF CallType, CallRecord
<1> QED
  BY <1>1, <1>2, Sizes DEF CheckpointId, Origin, TypeInv, StoreTyped

(* A session that is created descends from all there are, as far as one    *)
(* can tell.                                                               *)
Longer(older, more) ==
  /\ more \in [Session -> SUBSET Session]
  /\ \A s \in used : more[s] = older[s]
  /\ \A s \in Session \ used : more[s] = used

LEMMA SessionsGrow ==
  ASSUME TypeInv, TypeInv', Grows, NEW older, SessionsDescend(older), NEW more, Longer(older, more),
         \A s \in Session \ used : messages'[s] = messages[s],
         \A s \in used : \A m \in messages'[s] :
           m \in messages[s] \/ said'[m.what] \in older[s] \cup {s}
  PROVE  SessionsDescend(more)'
<1>1. used \subseteq Session /\ used' \subseteq Session
  BY DEF TypeInv, StoreTyped
<1>2. \A s \in Session \ used' : messages'[s] = {}
  BY <1>1 DEF SessionsDescend, Grows
<1>3. ASSUME NEW s \in used', s \in used
      PROVE  /\ more[s] \subseteq used' \ {s}
             /\ \A r \in more[s] : more[r] \subseteq more[s]
             /\ \A m \in messages'[s] : said'[m.what] \in more[s] \cup {s}
  <2>1. older[s] \subseteq used \ {s} /\ \A r \in older[s] : older[r] \subseteq older[s]
    BY <1>3 DEF SessionsDescend
  <2>2. more[s] \subseteq used' \ {s} /\ \A r \in more[s] : more[r] \subseteq more[s]
    BY <1>3, <2>1 DEF Longer, Grows
  <2>3. ASSUME NEW m \in messages[s]
        PROVE  said'[m.what] \in older[s] \cup {s}
    <3>1. said[m.what] \in older[s] \cup {s}
      BY <1>3 DEF SessionsDescend
    <3>2. m.what \in 1..Len(said)
      BY <1>1, <1>3, WhatTyped
    <3> QED
      BY <3>1, <3>2 DEF Grows
  <2> QED
    BY <1>3, <2>2, <2>3 DEF Longer
<1>4. ASSUME NEW s \in used', s \notin used
      PROVE  /\ more[s] \subseteq used' \ {s}
             /\ \A r \in more[s] : more[r] \subseteq more[s]
             /\ \A m \in messages'[s] : said'[m.what] \in more[s] \cup {s}
  <2>1. more[s] = used /\ messages'[s] = {}
    BY <1>1, <1>4 DEF Longer, SessionsDescend
  <2>2. \A r \in used : more[r] \subseteq used
    BY DEF Longer, SessionsDescend
  <2> QED
    BY <1>4, <2>1, <2>2 DEF Grows
<1> QED
  BY <1>2, <1>3, <1>4 DEF SessionsDescend

(* A call that ends or goes on, when nothing is pushed into its session    *)
(* that was said elsewhere.                                                *)
LEMMA CallGrows ==
  ASSUME TypeInv, Grows, NEW older, NEW more, Longer(older, more),
         NEW d \in Client, CallDescends(older, d), QuietAt(d),
         Uncopied(d) /\ call[d].s \in Session =>
           \A m \in messages'[call[d].s] : m \in messages[call[d].s] \/ said'[m.what] = call[d].s
  PROVE  CallDescends(more, d)'
<1>1. CASE Ended(d)
  BY <1>1, NoElements DEF Ended, CallDescends, Uncopied
<1>2. CASE GoesOnAt(d)
  <2> SUFFICES ASSUME call[d].s \in Session
               PROVE  CallDescends(more, d)'
    BY <1>2 DEF GoesOnAt, CallDescends
  <2>1. call[d].s \in used /\ (call[d].op = "fork" => call[d].from \in CheckpointId)
    BY CallKnown
  <2>2. more[call[d].s] = older[call[d].s]
    BY <2>1 DEF Longer
  <2>3. call[d].op = "fork" => Origin(d)' = Origin(d)
    BY <1>2, <2>1 DEF GoesOnAt, Grows, Origin
  <2>4. \A x \in Elements(Rest(d)) : said'[x] = said[x]
    BY RestTyped DEF Grows
  <2>5. Elements(Rest(d))' = Elements(Rest(d))
    BY <1>2 DEF GoesOnAt, Elements
  <2>6. \A m \in messages[call[d].s] : said'[m.what] = said[m.what]
    BY WhatTyped DEF Grows
  <2>7. /\ call[d].op # "fork" => \A x \in Elements(Rest(d)) : said'[x] = call[d].s
        /\ call[d].op = "fork" =>
             /\ Origin(d)' \in more[call[d].s]
             /\ \A x \in Elements(Rest(d)) : said'[x] \in more[call[d].s]
        /\ Uncopied(d) => \A m \in messages'[call[d].s] : said'[m.what] = call[d].s
    BY <2>2, <2>3, <2>4, <2>6 DEF CallDescends
  <2> QED
    BY <1>2, <2>5, <2>7 DEF GoesOnAt, CallDescends
<1> QED
  BY <1>1, <1>2 DEF QuietAt

(* A checkpoint is made of a session as it is, and only the messages of a  *)
(* session that is being deleted go.                                       *)
LEMMA SavesStep ==
  ASSUME TypeInv, [Next]_vars
  PROVE  \/ UNCHANGED saves
         \/ \E s \in used : saves' = Append(saves, NewCheckpoint(s)) /\ UNCHANGED <<messages, now>>
<1>1. CASE Tick \/ UNCHANGED vars
  BY <1>1 DEF Tick, vars
<1>2. ASSUME NEW c \in Client, Begin(c), ~ UNCHANGED saves
      PROVE  \E s \in used : saves' = Append(saves, NewCheckpoint(s)) /\ UNCHANGED <<messages, now>>
  <2>1. PICK s \in Session : SaveCheckpoint(c, s)
    BY <1>2 DEF Begin, CreateSession, UpdateSession, DeleteSession, AddMessage, Fork
  <2> QED
    BY <2>1 DEF SaveCheckpoint, TypeInv, StoreTyped, keys
<1>3. ASSUME NEW c \in Client, Continue(c), ~ UNCHANGED saves
      PROVE  \E s \in used : saves' = Append(saves, NewCheckpoint(s)) /\ UNCHANGED <<messages, now>>
  <2>1. ~ (DeleteStep(c) \/ MessageStep(c) \/ CheckpointStep(c))
    BY <1>3 DEF DeleteStep, DeleteMessages, DeleteCounter, CollectCheckpoints, DeleteIndex,
       DeleteVersions, DeleteRecord, MessageStep, CountMessage, PushMessage, ReadSession,
       WriteSession, CheckpointStep, RecordCheckpoint, IndexCheckpoint, VersionCheckpoint
  <2>2. RequireForCheckpoint(c)
    BY <1>3, <2>1 DEF Continue, DeleteStep, MessageStep, CheckpointStep, FindOrigin, CreateFork,
       ReadMessages, RequireForMessage
  <2> QED
    BY <1>3, <2>2 DEF RequireForCheckpoint, TypeInv, StoreTyped, keys
<1>4. ASSUME NEW c \in Client, CutShort(c)
      PROVE  UNCHANGED saves
  BY <1>4 DEF CutShort
<1> QED
  BY <1>1, <1>2, <1>3, <1>4 DEF Next

LEMMA DeletedIsDoomed ==
  ASSUME TypeInv, DeletesDoomed, NEW c \in Client, DeleteMessages(c)
  PROVE  call[c].s \in doomed /\ call[c].s \in Session
         /\ messages' = [messages EXCEPT ![call[c].s] = {}]
<1>1. call[c].pc = "messages"
  BY DEF DeleteMessages
<1>2. call[c].op = "delete" /\ call[c].s \in used
  BY <1>1, CallOK, PlaceTellsOp
<1> QED
  BY <1>2 DEF DeletesDoomed, DeleteMessages, TypeInv, StoreTyped

LEMMA MessagesStay ==
  ASSUME TypeInv, DeletesDoomed, [Next]_vars, Grows
  PROVE  \A s \in Session : s \notin doomed' => messages[s] \subseteq messages'[s]
<1>1. CASE Quiet
  BY <1>1 DEF Quiet
<1>2. ASSUME NEW c \in Client, Loud(c)
      PROVE  \A s \in Session : s \notin doomed' => messages[s] \subseteq messages'[s]
  <2>1. CASE UNCHANGED messages
    BY <2>1
  <2>2. CASE PushMessage(c)
    BY <2>2 DEF PushMessage, TypeInv, MessagesTyped
  <2>3. CASE DeleteMessages(c)
    BY <2>3, DeletedIsDoomed DEF TypeInv, MessagesTyped, Grows
  <2> QED
    BY <1>2, <2>1, <2>2, <2>3 DEF Loud, AddMessage, CreateFork, ReadMessages, keys
<1> QED
  BY <1>1, <1>2, LoudOrQuiet

LEMMA SeenKept ==
  ASSUME TypeInv, Grows, DeletesDoomed, SeenStays, [Next]_vars
  PROVE  SeenStays'
<1>1. ASSUME NEW i \in CheckpointId, saves'[i].s \notin doomed'
      PROVE  saves'[i].seen \subseteq {m.what : m \in Until(i)'}
  <2>1. saves'[i] = saves[i] /\ saves[i].s \notin doomed /\ saves[i].s \in Session
    BY <1>1 DEF Grows, TypeInv, StoreTyped
  <2>2. saves[i].seen \subseteq {m.what : m \in Until(i)}
    BY <2>1 DEF SeenStays
  <2>3. messages[saves[i].s] \subseteq messages'[saves[i].s]
    BY <1>1, <2>1, MessagesStay
  <2>4. Until(i) \subseteq Until(i)'
    BY <2>1, <2>3 DEF Until
  <2> QED
    BY <2>1, <2>2, <2>4
<1>2. CASE UNCHANGED saves
  BY <1>1, <1>2 DEF SeenStays, CheckpointId
<1>3. ASSUME NEW s \in used, saves' = Append(saves, NewCheckpoint(s)), UNCHANGED <<messages, now>>
      PROVE  SeenStays'
  <2>1. NewCheckpoint(s) \in Checkpoints /\ s \in Session
    BY NewCheckpointType DEF TypeInv, StoreTyped
  <2>2. /\ Len(saves) \in Nat /\ Len(saves') = Len(saves) + 1
        /\ saves'[Len(saves) + 1] = NewCheckpoint(s)
    BY <1>3, <2>1, Appends DEF TypeInv, StoreTyped
  <2>3. \A i \in CheckpointId' : i \in CheckpointId \/ i = Len(saves) + 1
    BY <2>2 DEF CheckpointId
  <2>4. \A m \in messages[s] : m.at <= now
    BY <2>1, WhatTyped
  <2>5. ASSUME NEW i \in CheckpointId', i = Len(saves) + 1
        PROVE  saves'[i].seen \subseteq {m.what : m \in Until(i)'}
    <3>1. saves'[i].s = s /\ saves'[i].at = now /\ saves'[i].seen = {m.what : m \in messages[s]}
      BY <2>2, <2>5 DEF NewCheckpoint
    <3>2. messages[s] \subseteq Until(i)'
      BY <1>3, <2>4, <3>1 DEF Until
    <3> QED
      BY <3>1, <3>2
  <2> QED
    BY <1>1, <2>3, <2>5 DEF SeenStays
<1> QED
  BY <1>2, <1>3, SavesStep

(* A fork that goes on, when others push only messages of their own into   *)
(* its session and only new ones into the session it comes from.           *)
Undisturbed(d) ==
  /\ messages[call[d].s] \subseteq messages'[call[d].s]
  /\ \A m \in messages'[call[d].s] : m \in messages[call[d].s] \/ said'[m.what] = call[d].s
  /\ messages[Origin(d)] \subseteq messages'[Origin(d)]
  /\ \A m \in messages'[Origin(d)] : m \in messages[Origin(d)] \/ m.what \notin What(Origin(d))

LEMMA CopyingBefore ==
  ASSUME TypeInv, Grows, NEW d \in Client, QuietAt(d), Copying(d)'
  PROVE  /\ Copying(d) /\ GoesOnAt(d)
         /\ call[d].from \in CheckpointId /\ Origin(d)' = Origin(d)
         /\ call[d].s \in Session /\ Origin(d) \in Session
<1>1. GoesOnAt(d) /\ call[d].op = "fork" /\ call[d].s \in Session /\ ~Uncopied(d)
  BY DEF Copying, QuietAt, Ended, GoesOnAt
<1>2. call[d].from \in CheckpointId /\ Origin(d) \in Session
  BY <1>1, CallKnown DEF TypeInv, StoreTyped
<1>3. Origin(d)' = Origin(d)
  BY <1>1, <1>2 DEF Grows, Origin, GoesOnAt
<1> QED
  BY <1>1, <1>2, <1>3 DEF Copying, Grows, GoesOnAt

LEMMA CopyKept ==
  ASSUME TypeInv, TypeInv', Grows, CopiesInOrder, NEW d \in Client, QuietAt(d), Copying(d)',
         Undisturbed(d)
  PROVE  CopyInv(d)'
<1> DEFINE s == call[d].s
           o == Origin(d)
           i == call[d].from
<1>1. /\ Copying(d) /\ GoesOnAt(d) /\ i \in CheckpointId /\ Origin(d)' = o
      /\ s \in Session /\ o \in Session
  BY CopyingBefore
<1>2. CopyInv(d)
  BY <1>1 DEF CopiesInOrder
<1>3. call'[d].s = s /\ call'[d].from = i /\ Rest(d)' = Rest(d) /\ saves'[i] = saves[i]
  BY <1>1 DEF GoesOnAt, Grows
<1>4. \A m \in messages[s] : said'[m.what] = said[m.what]
  BY <1>1, WhatTyped DEF Grows
<1>5. Copied(d)' = Copied(d)
  BY <1>3, <1>4 DEF Copied, Undisturbed
<1>6. /\ Until(i) \subseteq Until(call[d].from)'
      /\ \A k \in Until(call[d].from)' : k \in Until(i) \/ k.what \notin What(o)
  BY <1>3 DEF Until, Undisturbed, Origin
<1>7. CopiedWhat(d)' = CopiedWhat(d) /\ Elements(Rest(d))' = Elements(Rest(d))
  BY <1>3, <1>5 DEF CopiedWhat, Elements
<1>8. {m.what : m \in Until(i)} \subseteq What(o)
  BY DEF Until, What, Origin
<1>9. CopiedWhat(d) \cup Elements(Rest(d)) \subseteq {m.what : m \in Until(i)}
  BY <1>2 DEF CopyInv
<1>10. \A m \in Copied(d) : m.what \in What(o)
  BY <1>8, <1>9 DEF CopiedWhat
<1>11. \A j \in DOMAIN Rest(d) : Rest(d)[j] \in What(o)
  BY <1>8, <1>9 DEF Elements
<1>12. ASSUME NEW k \in Until(call[d].from)', NEW l \in Until(call[d].from)', k.at < l.at
       PROVE  /\ \A m, n \in Copied(d) : m.what = k.what /\ n.what = l.what => m.at <= n.at
              /\ l.what \in CopiedWhat(d) => k.what \notin Elements(Rest(d))
              /\ \A j, h \in DOMAIN Rest(d) : Rest(d)[j] = k.what /\ Rest(d)[h] = l.what => j < h
  <2>1. CASE k \in Until(i) /\ l \in Until(i)
    BY <1>2, <1>12, <2>1 DEF CopyInv
  <2>2. CASE k.what \notin What(o)
    BY <1>8, <1>9, <1>10, <1>11, <2>2
  <2>3. CASE l.what \notin What(o)
    BY <1>8, <1>9, <1>10, <1>11, <2>3
  <2> QED
    BY <1>6, <2>1, <2>2, <2>3
<1>13. call'[d].pc \in {"count", "push"} => \A m \in Copied(d) : m.at <= call'[d].at
  <2>1. CASE call'[d].at = now'
    <3>1. \A m \in messages'[s] : m.at \in 0..now'
      BY <1>1 DEF TypeInv, MessagesTyped
    <3> QED
      BY <2>1, <3>1 DEF Copied, Undisturbed
  <2>2. CASE call[d].pc \in {"count", "push"} /\ call'[d].at = call[d].at
    BY <1>2, <2>2 DEF CopyInv
  <2> QED
    BY <1>1, <2>1, <2>2 DEF GoesOnAt
<1>14. /\ saves[i].seen \subseteq CopiedWhat(d) \cup Elements(Rest(d))
       /\ CopiedWhat(d) \cup Elements(Rest(d)) \subseteq {m.what : m \in Until(call[d].from)'}
  BY <1>2, <1>6, <1>9 DEF CopyInv
<1> HIDE DEF s, o
<1> QED
  BY <1>3, <1>5, <1>7, <1>12, <1>13, <1>14 DEF CopyInv

LEMMA LongerExists ==
  ASSUME TypeInv, NEW older \in [Session -> SUBSET Session]
  PROVE  \E more : Longer(older, more)
<1> DEFINE more == [s \in Session |-> IF s \in used THEN older[s] ELSE used]
<1>1. used \subseteq Session
  BY DEF TypeInv, StoreTyped
<1>2. \A s \in Session : more[s] \in SUBSET Session
  BY <1>1
<1>3. Longer(older, more)
  BY <1>1, <1>2 DEF Longer
<1> QED
  BY <1>3

ForkFacts == TypeInv /\ TypeInv' /\ Grows /\ OnceInv /\ LineageInv /\ SeenStays /\ CopiesInOrder

(* Calls end or go on and messages stay or are deleted.                    *)
LEMMA CalmForks ==
  ASSUME ForkFacts, \A d \in Client : QuietAt(d),
         \A s \in Session : messages'[s] \subseteq messages[s]
                            /\ (s \notin doomed' => messages'[s] = messages[s])
  PROVE  OnceInv' /\ LineageInv' /\ CopiesInOrder'
<1> USE DEF ForkFacts
<1>1. OnceInv'
  BY OnceKept
<1>2. LineageInv'
  <2>1. PICK older \in [Session -> SUBSET Session] : Lineage(older)
    BY DEF LineageInv
  <2>2. PICK more : Longer(older, more)
    BY LongerExists
  <2>3. SessionsDescend(more)'
    <3>1. used \subseteq Session
      BY DEF TypeInv, StoreTyped
    <3>2. \A s \in Session \ used : messages'[s] = messages[s]
      BY <2>1 DEF Lineage, SessionsDescend
    <3> QED
      BY <2>1, <2>2, <3>1, <3>2, SessionsGrow DEF Lineage
  <2>4. \A d \in Client : CallDescends(more, d)'
    BY <2>1, <2>2, CallGrows DEF Lineage
  <2> QED
    BY <2>2, <2>3, <2>4 DEF LineageInv, Lineage, Longer
<1>3. ASSUME NEW d \in Client, Copying(d)'
      PROVE  CopyInv(d)'
  <2>1. Copying(d) /\ GoesOnAt(d) /\ call[d].s \in Session /\ Origin(d) \in Session
        /\ Origin(d)' = Origin(d)
    BY <1>3, CopyingBefore
  <2>2. call[d].s \notin doomed' /\ Origin(d) \notin doomed'
    BY <1>3, <2>1 DEF Copying, GoesOnAt
  <2>3. Undisturbed(d)
    BY <2>1, <2>2 DEF Undisturbed
  <2> QED
    BY <1>3, <2>3, CopyKept
<1> QED
  BY <1>1, <1>2, <1>3 DEF CopiesInOrder

(* The calls of the others, when c's step changes no call but its own.     *)
LEMMA OthersCopy ==
  ASSUME ForkFacts, NEW c \in Client, CallOf(c),
         \A d \in Client : d # c /\ Copying(d) /\ GoesOnAt(d) => Undisturbed(d),
         Copying(c)' => CopyInv(c)'
  PROVE  CopiesInOrder'
<1> USE DEF ForkFacts
<1>1. ASSUME NEW d \in Client, d # c, Copying(d)'
      PROVE  CopyInv(d)'
  <2>1. QuietAt(d)
    BY <1>1, OthersStay, SameIsQuiet
  <2>2. Undisturbed(d)
    BY <1>1, <2>1, CopyingBefore
  <2> QED
    BY <1>1, <2>1, <2>2, CopyKept
<1> QED
  BY <1>1 DEF CopiesInOrder

LEMMA OthersDescend ==
  ASSUME ForkFacts, NEW c \in Client, CallOf(c), NEW older, NEW more,
         Lineage(older), Longer(older, more), more \in [Session -> SUBSET Session],
         SessionsDescend(more)', CallDescends(more, c)',
         \A d \in Client : d # c /\ Uncopied(d) /\ call[d].s \in Session =>
           \A m \in messages'[call[d].s] : m \in messages[call[d].s] \/ said'[m.what] = call[d].s
  PROVE  LineageInv'
<1> USE DEF ForkFacts
<1>1. ASSUME NEW d \in Client, d # c
      PROVE  CallDescends(more, d)'
  <2>1. QuietAt(d)
    BY <1>1, OthersStay, SameIsQuiet
  <2> QED
    BY <1>1, <2>1, CallGrows DEF Lineage
<1> QED
  BY <1>1 DEF LineageInv, Lineage

(* A message is added: nobody has its number.                              *)
LEMMA AddForks ==
  ASSUME ForkFacts, NEW c \in Client, NEW s \in Session, AddMessage(c, s)
  PROVE  OnceInv' /\ LineageInv' /\ CopiesInOrder'
<1> USE DEF ForkFacts
<1> DEFINE n == Len(said) + 1
           k == [Idle EXCEPT !.op = "add", !.pc = "count", !.s = s, !.todo = <<n>>, !.at = now]
<1>1. Call(c, k) /\ said' = Append(said, s) /\ UNCHANGED <<messages, used, saves, doomed>>
      /\ s \in used
  BY DEF AddMessage, keys, TypeInv, StoreTyped
<1>2. CallOf(c) /\ call'[c] = k
  BY <1>1, CallFields
<1>3. k.op = "add" /\ k.pc = "count" /\ k.s = s /\ k.todo = <<n>>
  BY DEF Idle
<1>4. Len(said) \in Nat /\ said'[n] = s
  BY <1>1, Appends DEF TypeInv, StoreTyped
<1>5. Rest(c)' = <<n>> /\ ~Uncopied(c)' /\ ~Copying(c)'
  BY <1>2, <1>3 DEF Rest, RestOf, Uncopied, Copying
<1>6. Elements(Rest(c)') = {n} /\ Elements(Rest(c))' = {n}
  BY <1>5 DEF Elements
<1>7. n \notin 1..Len(said)
  BY <1>4
<1>8. call'[c].s = s /\ call'[c].op = "add"
  BY <1>2, <1>3
<1> HIDE DEF k
<1>9. OnceInv'
  <2>1. MessagesOnce'
    BY <1>1 DEF OnceInv, MessagesOnce
  <2>2. What(s)' = What(s) /\ n \notin What(s)
    BY <1>1, <1>7, WhatTyped DEF What
  <2>3. What(call[c].s)' = What(s)
    BY <1>1, <1>8 DEF What
  <2>4. ASSUME NEW d \in Client, d # c
        PROVE  /\ call[d].s \in Session => Elements(Rest(d)) \cap What(call[d].s)' = {}
               /\ n \notin Elements(Rest(d))
    <3>1. n \notin Elements(Rest(d))
      BY <1>7, RestTyped
    <3>2. call'[d] = call[d]
      BY <1>2, <2>4, OthersStay
    <3>3. What(call[d].s)' = What(call[d].s)
      BY <1>1, <3>2 DEF What
    <3> QED
      BY <3>1, <3>3 DEF OnceInv, RestOnce
  <2>5. \A i, j \in DOMAIN Rest(c)' : Rest(c)'[i] = Rest(c)'[j] => i = j
    BY <1>5
  <2> HIDE DEF n
  <2> QED
    BY <1>2, <1>6, <1>8, <2>1, <2>2, <2>3, <2>4, <2>5, OnceStep
<1>10. LineageInv'
  <2>1. PICK older \in [Session -> SUBSET Session] : Lineage(older)
    BY DEF LineageInv
  <2>2. PICK more : Longer(older, more)
    BY LongerExists
  <2>3. SessionsDescend(more)'
    <3>1. used \subseteq Session
      BY DEF TypeInv, StoreTyped
    <3> QED
      BY <1>1, <2>1, <2>2, <3>1, SessionsGrow DEF Lineage
  <2>4. CallDescends(more, c)'
    BY <1>4, <1>5, <1>6, <1>8 DEF CallDescends
  <2> QED
    BY <1>1, <1>2, <2>1, <2>2, <2>3, <2>4, OthersDescend DEF Longer
<1>11. CopiesInOrder'
  <2>1. \A d \in Client : Undisturbed(d)
    BY <1>1 DEF Undisturbed
  <2> QED
    BY <1>2, <1>5, <2>1, OthersCopy
<1> QED
  BY <1>9, <1>10, <1>11

(* A fork gets a session that nobody else has, with nothing in it.         *)
LEMMA CreateForks ==
  ASSUME ForkFacts, NEW c \in Client, CreateFork(c)
  PROVE  OnceInv' /\ LineageInv' /\ CopiesInOrder'
<1> USE DEF ForkFacts
<1>1. PICK new \in Session \ used : call' = [call EXCEPT ![c].s = new, ![c].pc = "list"]
                                    /\ used' = used \cup {new}
  BY DEF CreateFork
<1>2. UNCHANGED <<messages, said, saves>>
  BY DEF CreateFork, history
<1>3. call[c].op = "fork" /\ call[c].pc = "create" /\ call[c].from \in CheckpointId
  <2>1. call[c].op = "fork" /\ call[c].pc = "create"
    BY CallOK, PlaceTellsOp DEF CreateFork
  <2>2. call[c].from # 0 /\ call[c].from \in 0..Len(saves)
    BY <2>1, CallOK DEF CallType, CallRecord
  <2> QED
    BY <2>1, <2>2, Sizes DEF CheckpointId
<1>4. /\ CallOf(c) /\ call'[c].s = new /\ call'[c].pc = "list" /\ call'[c].op = "fork"
      /\ call'[c].from = call[c].from
  BY <1>1, <1>3, CallOK DEF TypeInv, CallsTyped, CallOf, CallRecord
<1>5. Rest(c)' = <<>> /\ Uncopied(c)' /\ ~Copying(c)' /\ Elements(Rest(c)') = {}
      /\ Elements(Rest(c))' = {}
  BY <1>4 DEF Rest, RestOf, Uncopied, Copying, Elements
<1>6. \A d \in Client : call[d].s # new
  BY CallOK, StoreAssumption
<1>7. OnceInv'
  <2>1. MessagesOnce'
    BY <1>2 DEF OnceInv, MessagesOnce
  <2>2. ASSUME NEW d \in Client, d # c
        PROVE  call[d].s \in Session => Elements(Rest(d)) \cap What(call[d].s)' = {}
    <3>1. What(call[d].s)' = What(call[d].s)
      BY <1>2, <1>4, <2>2, OthersStay DEF What
    <3> QED
      BY <3>1 DEF OnceInv, RestOnce
  <2> QED
    BY <1>4, <1>5, <1>6, <2>1, <2>2, OnceStep
<1>8. LineageInv'
  <2>1. PICK older \in [Session -> SUBSET Session] : Lineage(older)
    BY DEF LineageInv
  <2>2. PICK more : Longer(older, more)
    BY LongerExists
  <2>3. SessionsDescend(more)'
    <3>1. used \subseteq Session
      BY DEF TypeInv, StoreTyped
    <3> QED
      BY <1>2, <2>1, <2>2, <3>1, SessionsGrow DEF Lineage
  <2>4. CallDescends(more, c)'
    <3>1. messages'[new] = {}
      BY <1>1, <1>2, <2>1 DEF Lineage, SessionsDescend
    <3>2. Origin(c)' \in used
      BY <1>2, <1>3, <1>4 DEF Origin, TypeInv, StoreTyped
    <3>3. more[new] = used
      BY <1>1, <2>2 DEF Longer
    <3> QED
      BY <1>4, <1>5, <3>1, <3>2, <3>3 DEF CallDescends
  <2> QED
    BY <1>2, <1>4, <2>1, <2>2, <2>3, <2>4, OthersDescend DEF Longer
<1>9. CopiesInOrder'
  <2>1. \A d \in Client : Undisturbed(d)
    BY <1>2 DEF Undisturbed
  <2> QED
    BY <1>4, <1>5, <2>1, OthersCopy
<1> QED
  BY <1>7, <1>8, <1>9

(* The messages that are read: all there are, each once, by their times.   *)
LEMMA ReadInOrder ==
  ASSUME NEW ms, IsFiniteSet(ms), NEW q \in InOrder(ms)
  PROVE  /\ DOMAIN q = 1..Cardinality(ms) /\ Cardinality(ms) \in Nat
         /\ \A i \in DOMAIN q : q[i] \in ms
         /\ \A i, j \in DOMAIN q : q[i] = q[j] => i = j
         /\ \A m \in ms : \E i \in DOMAIN q : q[i] = m
         /\ \A i, j \in DOMAIN q : q[i].at < q[j].at /\ q[i].at \in Nat /\ q[j].at \in Nat => i < j
<1> DEFINE n == Cardinality(ms)
<1>1. n \in Nat
  BY FS_CardinalityType
<1>2. q \in [1..n -> ms] /\ \A i, j \in 1..n : i < j => q[i] # q[j] /\ q[i].at <= q[j].at
  BY DEF InOrder
<1>3. \A i, j \in 1..n : q[i] = q[j] => i = j
  BY <1>1, <1>2
<1>4. \A i, j \in 1..n : q[i].at < q[j].at /\ q[i].at \in Nat /\ q[j].at \in Nat => i < j
  BY <1>1, <1>2
<1>5. \A m \in ms : \E i \in 1..n : q[i] = m
  <2> DEFINE got == {q[i] : i \in 1..n}
  <2>1. q \in Bijection(1..n, got)
    BY <1>2, <1>3 DEF Bijection, Injection, Surjection, IsInjective
  <2>2. IsFiniteSet(1..n) /\ Cardinality(1..n) = n
    BY <1>1, FS_Interval
  <2>3. IsFiniteSet(got) /\ Cardinality(got) = n
    BY <2>1, <2>2, FS_Bijection DEF ExistsBijection
  <2>4. got \subseteq ms
    BY <1>2
  <2>5. got = ms
    BY <2>3, <2>4, FS_Subset
  <2> QED
    BY <2>5
<1> QED
  BY <1>1, <1>2, <1>3, <1>4, <1>5

(* The fork reads what it copies.                                          *)
LEMMA ReadForks ==
  ASSUME ForkFacts, NEW c \in Client, ReadMessages(c)
  PROVE  OnceInv' /\ LineageInv' /\ CopiesInOrder'
<1> USE DEF ForkFacts
<1> DEFINE s == call[c].s
           o == Origin(c)
           from == call[c].from
<1>1. PICK q \in InOrder(Until(from)) :
        call' = [call EXCEPT ![c].todo = [i \in DOMAIN q |-> q[i].what],
                   ![c].pc = IF q = <<>> THEN "requireSaved" ELSE "require"]
  BY DEF ReadMessages
<1>2. UNCHANGED <<messages, said, saves, used, doomed>>
  BY DEF ReadMessages, keys, history
<1>3. call[c].op = "fork" /\ call[c].pc = "copy" /\ s \in used /\ s \in Session
  <2>1. call[c].pc = "copy"
    BY DEF ReadMessages
  <2>2. call[c].op = "fork" /\ s \in used
    BY <2>1, CallOK, PlaceTellsOp
  <2> QED
    BY <2>1, <2>2 DEF TypeInv, StoreTyped
<1>4. from \in CheckpointId /\ o \in used /\ o \in Session /\ Uncopied(c)
  BY <1>3, CallKnown DEF TypeInv, StoreTyped, Uncopied
<1>5. /\ CallOf(c) /\ call'[c].s = s /\ call'[c].op = "fork" /\ call'[c].from = from
      /\ call'[c].todo = [i \in DOMAIN q |-> q[i].what]
      /\ call'[c].pc = IF q = <<>> THEN "requireSaved" ELSE "require"
  <2> DEFINE todo == [i \in DOMAIN q |-> q[i].what]
             p == IF q = <<>> THEN "requireSaved" ELSE "require"
  <2>1. call' = [call EXCEPT ![c].todo = todo, ![c].pc = p]
    BY <1>1
  <2> HIDE DEF todo, p
  <2>2. CallOf(c) /\ call'[c] = [call[c] EXCEPT !.todo = todo, !.pc = p]
    BY <2>1, CallOK DEF TypeInv, CallsTyped, CallOf, CallRecord
  <2>3. call[c] \in CallRecord(used, Len(saves), Len(said), now)
    BY CallOK
  <2>4. /\ call'[c].op = "fork" /\ call'[c].s = s
        /\ call'[c].from = from /\ call'[c].todo = todo /\ call'[c].pc = p
    BY <1>3, <2>2, <2>3 DEF CallRecord
  <2> QED
    BY <2>2, <2>4 DEF todo, p
<1>6. /\ \A i \in DOMAIN q : q[i] \in Until(from)
      /\ \A i, j \in DOMAIN q : q[i] = q[j] => i = j
      /\ \A m \in Until(from) : \E i \in DOMAIN q : q[i] = m
      /\ \A i, j \in DOMAIN q : q[i].at < q[j].at => i < j
  <2>1. Until(from) \subseteq messages[o]
    BY DEF Until, Origin
  <2>2. IsFiniteSet(Until(from))
    BY <1>4, <2>1, FS_Subset DEF TypeInv, MessagesTyped
  <2>3. \A m \in Until(from) : m.at \in Nat
    BY <1>4, <2>1, WhatTyped
  <2> QED
    BY <2>2, <2>3, ReadInOrder
<1>7. \A m, n \in messages[o] : m.what = n.what => m = n
  BY <1>4 DEF OnceInv, MessagesOnce
<1>8. Until(from) \subseteq messages[o]
  BY DEF Until, Origin
<1>9. \A i \in DOMAIN Rest(c)' : i \in DOMAIN q /\ Rest(c)'[i] = q[i].what
  BY <1>5 DEF Rest, RestOf
<1>10. /\ Elements(Rest(c)') = {m.what : m \in Until(from)}
       /\ Elements(Rest(c))' = {m.what : m \in Until(from)}
  <2>1. CASE q = <<>>
    <3>1. Rest(c)' = <<>> /\ DOMAIN q = {}
      BY <1>5, <2>1 DEF Rest, RestOf
    <3>2. Until(from) = {}
      BY <1>6, <3>1
    <3> QED
      BY <3>1, <3>2 DEF Elements
  <2>2. CASE q # <<>>
    <3>1. Rest(c)' = [i \in DOMAIN q |-> q[i].what]
      BY <1>5, <2>2 DEF Rest, RestOf
    <3>2. {q[i].what : i \in DOMAIN q} = {m.what : m \in Until(from)}
      BY <1>6
    <3>3. Elements([i \in DOMAIN q |-> q[i].what]) = {q[i].what : i \in DOMAIN q}
      BY DEF Elements
    <3>4. Elements(Rest(c)') = Elements(Rest(c))'
      BY DEF Elements
    <3> QED
      BY <3>1, <3>2, <3>3, <3>4
  <2> QED
    BY <2>1, <2>2
<1>11. PICK older \in [Session -> SUBSET Session] : Lineage(older)
  BY DEF LineageInv
<1>12. /\ o \in older[s] /\ older[o] \subseteq older[s] /\ s \notin older[s]
       /\ \A m \in messages[s] : said[m.what] = s
       /\ \A m \in messages[o] : said[m.what] \in older[s]
  <2>1. o \in older[s] /\ \A m \in messages[s] : said[m.what] = s
    BY <1>3, <1>4, <1>11 DEF Lineage, CallDescends
  <2>2. older[o] \subseteq older[s] /\ s \notin older[s]
    BY <1>3, <1>11, <2>1 DEF Lineage, SessionsDescend
  <2>3. \A m \in messages[o] : said[m.what] \in older[o] \cup {o}
    BY <1>4, <1>11 DEF Lineage, SessionsDescend
  <2> QED
    BY <2>1, <2>2, <2>3
<1>13. \A x \in Elements(Rest(c)') : said[x] \in older[s] /\ said[x] # s
  BY <1>8, <1>10, <1>12
<1> HIDE DEF s, o, from
<1>14. OnceInv'
  <2>1. MessagesOnce'
    BY <1>2 DEF OnceInv, MessagesOnce
  <2>2. \A i, j \in DOMAIN Rest(c)' : Rest(c)'[i] = Rest(c)'[j] => i = j
    BY <1>6, <1>7, <1>8, <1>9
  <2>3. Elements(Rest(c)') \cap What(call[c].s)' = {}
    <3>1. What(call[c].s)' = {m.what : m \in messages[s]}
      BY <1>2, <1>5 DEF What
    <3> QED
      BY <1>12, <1>13, <3>1
  <2>4. ASSUME NEW d \in Client, d # c
        PROVE  /\ call[d].s \in Session => Elements(Rest(d)) \cap What(call[d].s)' = {}
               /\ call[d].s = s => Elements(Rest(c)') \cap Elements(Rest(d)) = {}
               /\ call[d].op = "fork" => call[d].s # s
    <3>1. What(call[d].s)' = What(call[d].s)
      BY <1>2, <1>5, <2>4, OthersStay DEF What
    <3>2. call[d].op = "fork" => call[d].s # s
      BY <1>3, <2>4 DEF OnceInv, OneFork, s
    <3>3. call[d].s = s => \A x \in Elements(Rest(d)) : said[x] = s
      BY <1>3, <1>11, <3>2 DEF Lineage, CallDescends
    <3> QED
      BY <1>13, <3>1, <3>2, <3>3 DEF OnceInv, RestOnce
  <2> QED
    BY <1>5, <2>1, <2>2, <2>3, <2>4, OnceStep
<1>15. LineageInv'
  <2>1. PICK more : Longer(older, more)
    BY LongerExists
  <2>2. SessionsDescend(more)'
    <3>1. used \subseteq Session
      BY DEF TypeInv, StoreTyped
    <3> QED
      BY <1>2, <1>11, <2>1, <3>1, SessionsGrow DEF Lineage
  <2>3. CallDescends(more, c)'
    <3>1. ~Uncopied(c)'
      BY <1>5 DEF Uncopied
    <3>2. Origin(c)' = o
      BY <1>2, <1>5 DEF Origin, o, from
    <3>3. more[s] = older[s]
      BY <1>3, <2>1 DEF Longer
    <3> QED
      BY <1>2, <1>5, <1>10, <1>12, <1>13, <3>1, <3>2, <3>3 DEF CallDescends
  <2> QED
    BY <1>2, <1>5, <1>11, <2>1, <2>2, <2>3, OthersDescend DEF Longer
<1>16. CopiesInOrder'
  <2>1. \A d \in Client : Undisturbed(d)
    BY <1>2 DEF Undisturbed
  <2>2. ASSUME Copying(c)'
        PROVE  CopyInv(c)'
    <3>1. o \notin doomed
      BY <1>2, <1>5, <2>2 DEF Copying, Origin, o, from
    <3>2. saves[from].seen \subseteq {m.what : m \in Until(from)}
      BY <1>4, <3>1 DEF SeenStays, Origin, o, from
    <3>3. Copied(c)' = {} /\ CopiedWhat(c)' = {}
      BY <1>2, <1>5, <1>12 DEF Copied, CopiedWhat
    <3>4. Until(call[c].from)' = Until(from)
      BY <1>2, <1>5 DEF Until
    <3>5. ASSUME NEW k \in Until(from), NEW l \in Until(from), k.at < l.at,
                 NEW i \in DOMAIN Rest(c)', NEW j \in DOMAIN Rest(c)',
                 Rest(c)'[i] = k.what, Rest(c)'[j] = l.what
          PROVE  i < j
      <4>1. i \in DOMAIN q /\ j \in DOMAIN q /\ q[i].what = k.what /\ q[j].what = l.what
        BY <1>9, <3>5
      <4>2. q[i] = k /\ q[j] = l
        BY <1>6, <1>7, <1>8, <4>1
      <4> QED
        BY <1>6, <3>5, <4>1, <4>2
    <3>6. call'[c].pc \notin {"count", "push"}
      BY <1>5
    <3> QED
      BY <1>2, <1>5, <1>10, <3>2, <3>3, <3>4, <3>5, <3>6 DEF CopyInv
  <2> QED
    BY <1>5, <2>1, <2>2, OthersCopy
<1> QED
  BY <1>14, <1>15, <1>16

(* A message is pushed: by addMessage, or by a fork, into its own session. *)
LEMMA PushForks ==
  ASSUME ForkFacts, NEW c \in Client, PushMessage(c)
  PROVE  OnceInv' /\ LineageInv' /\ CopiesInOrder'
<1> USE DEF ForkFacts
<1> DEFINE s == call[c].s
           x == Head(call[c].todo)
           new == [what |-> x, at |-> call[c].at]
<1>1. /\ Goto(c, "read") /\ call[c].pc = "push" /\ messages' = [messages EXCEPT ![s] = @ \cup {new}]
      /\ UNCHANGED <<said, saves, used, doomed>>
  BY DEF PushMessage, history
<1>2. /\ CallOf(c) /\ call'[c].pc = "read" /\ call'[c].op = call[c].op /\ call'[c].s = s
      /\ call'[c].todo = call[c].todo /\ call'[c].from = call[c].from
  BY <1>1, GotoKeeps
<1>3. /\ call[c].op \in {"add", "fork"} /\ s \in used /\ s \in Session
      /\ call[c].todo \in Seq(1..Len(said)) /\ call[c].todo # <<>> /\ call[c].at \in Nat
  <2>1. call[c].op \in {"add", "fork"} /\ s \in used
    BY <1>1, CallOK, PlaceTellsOp
  <2>2. call[c].todo \in Seq(1..Len(said)) /\ call[c].todo # <<>> /\ call[c].at \in Nat
    BY <1>1, CallOK, Sizes DEF CallType, CallRecord, TypeInv
  <2> QED
    BY <2>1, <2>2 DEF TypeInv, StoreTyped
<1>4. Rest(c) = call[c].todo
  BY <1>1 DEF Rest, RestOf
<1>5. Rest(c)' = IF call[c].op = "fork" THEN Tail(call[c].todo) ELSE <<>>
  BY <1>2 DEF Rest, RestOf
<1>6. /\ 1 \in DOMAIN Rest(c) /\ Rest(c)[1] = x
      /\ \A i \in DOMAIN Rest(c)' : i \in Nat /\ i + 1 \in DOMAIN Rest(c) /\ i + 1 # 1
                                    /\ Rest(c)'[i] = Rest(c)[i + 1]
      /\ call[c].op = "fork" => \A j \in DOMAIN Rest(c) : j # 1 =>
           j - 1 \in DOMAIN Rest(c)' /\ Rest(c)'[j - 1] = Rest(c)[j]
      /\ DOMAIN Rest(c) \subseteq Nat
  <2> DEFINE q == call[c].todo
  <2>1. /\ Len(q) \in Nat /\ Len(q) >= 1 /\ DOMAIN q = 1..Len(q) /\ q[1] = x
        /\ DOMAIN Tail(q) = 1..(Len(q) - 1) /\ \A i \in 1..(Len(q) - 1) : Tail(q)[i] = q[i + 1]
    <3>1. q \in Seq(1..Len(said)) /\ q # <<>>
      BY <1>3
    <3>2. Len(q) \in Nat /\ Len(q) # 0 /\ DOMAIN q = 1..Len(q)
      BY <3>1, LenProperties, EmptySeq
    <3>3. /\ Tail(q) \in Seq(1..Len(said)) /\ Len(Tail(q)) = Len(q) - 1
          /\ \A i \in 1..Len(Tail(q)) : Tail(q)[i] = q[i + 1]
      BY <3>1, HeadTailProperties
    <3>5. q[1] = x
      BY <3>1
    <3>4. DOMAIN Tail(q) = 1..Len(Tail(q))
      BY <3>3, LenProperties
    <3> QED
      BY <3>2, <3>3, <3>4, <3>5
  <2>2. CASE call[c].op = "fork"
    <3>1. Rest(c) = q /\ Rest(c)' = Tail(q)
      BY <1>4, <1>5, <2>2
    <3> HIDE DEF q
    <3> QED
      BY <2>1, <3>1
  <2>3. CASE call[c].op # "fork"
    <3>1. Rest(c) = q /\ Rest(c)' = <<>>
      BY <1>4, <1>5, <2>3
    <3> HIDE DEF q
    <3> QED
      BY <2>1, <2>3, <3>1
  <2> QED
    BY <2>2, <2>3
<1>7. \A i, j \in DOMAIN Rest(c) : Rest(c)[i] = Rest(c)[j] => i = j
  BY DEF OnceInv, RestOnce
<1>8. x \in Elements(Rest(c)) /\ x \notin Elements(Rest(c)') /\ Elements(Rest(c)') \subseteq Elements(Rest(c))
      /\ (call[c].op = "fork" => Elements(Rest(c)) = Elements(Rest(c)') \cup {x})
  BY <1>6, <1>7 DEF Elements
<1>9. Elements(Rest(c))' = Elements(Rest(c)')
  BY DEF Elements
<1>10. x \notin What(s) /\ \A r \in Session : r # s => messages'[r] = messages[r]
  BY <1>1, <1>3, <1>8 DEF OnceInv, RestOnce, TypeInv, MessagesTyped
<1>11. messages'[s] = messages[s] \cup {new} /\ new.what = x /\ new.at = call[c].at
  BY <1>1, <1>3 DEF TypeInv, MessagesTyped
<1>12. ASSUME NEW d \in Client, d # c
       PROVE  /\ x \notin Elements(Rest(d)) \/ call[d].s # s
              /\ call'[d] = call[d]
              /\ call[c].op = "fork" /\ call[d].op = "fork" => call[d].s # s
  <2>1. call'[d] = call[d]
    BY <1>2, <1>12, OthersStay
  <2>2. call[d].s = s => Elements(Rest(c)) \cap Elements(Rest(d)) = {}
    BY <1>12 DEF OnceInv, RestOnce
  <2>3. call[c].op = "fork" /\ call[d].op = "fork" => call[d].s # s
    BY <1>3, <1>12 DEF OnceInv, OneFork
  <2> QED
    BY <1>8, <2>1, <2>2, <2>3
<1>13. PICK older \in [Session -> SUBSET Session] : Lineage(older)
  BY DEF LineageInv
<1>14. /\ call[c].op = "add" => said[x] = s
       /\ call[c].op = "fork" => said[x] \in older[s] /\ said[x] # s /\ Origin(c) # s
  <2>1. call[c].op = "add" => said[x] = s
    BY <1>3, <1>8, <1>13 DEF Lineage, CallDescends
  <2>2. call[c].op = "fork" => said[x] \in older[s] /\ Origin(c) \in older[s]
    BY <1>3, <1>8, <1>13 DEF Lineage, CallDescends
  <2>3. s \notin older[s]
    BY <1>3, <1>13 DEF Lineage, SessionsDescend
  <2> QED
    BY <2>1, <2>2, <2>3
<1> HIDE DEF s, x, new
<1>15. OnceInv'
  <2>1. MessagesOnce'
    <3>1. ASSUME NEW r \in Session, NEW m \in messages'[r], NEW n \in messages'[r], m.what = n.what
          PROVE  m = n
      <4>1. CASE r # s
        BY <1>10, <3>1, <4>1 DEF OnceInv, MessagesOnce
      <4>2. CASE r = s
        <5>1. \A k \in messages[s] : k.what # x
          BY <1>10 DEF What
        <5> QED
          BY <1>11, <3>1, <4>2, <5>1 DEF OnceInv, MessagesOnce
      <4> QED
        BY <4>1, <4>2
    <3> QED
      BY <3>1 DEF MessagesOnce
  <2>2. \A i, j \in DOMAIN Rest(c)' : Rest(c)'[i] = Rest(c)'[j] => i = j
    BY <1>6, <1>7
  <2>3. Elements(Rest(c)') \cap What(call[c].s)' = {}
    <3>1. What(call[c].s)' = What(s) \cup {x}
      BY <1>2, <1>11 DEF What
    <3>2. Elements(Rest(c)) \cap What(s) = {}
      BY <1>3 DEF OnceInv, RestOnce, s
    <3> QED
      BY <1>8, <3>1, <3>2
  <2>4. ASSUME NEW d \in Client, d # c
        PROVE  /\ call[d].s \in Session => Elements(Rest(d)) \cap What(call[d].s)' = {}
               /\ call[d].s = s => Elements(Rest(c)') \cap Elements(Rest(d)) = {}
               /\ call[c].op = "fork" /\ call[d].op = "fork" => call[d].s # s
    <3>1. call'[d] = call[d] /\ (call[c].op = "fork" /\ call[d].op = "fork" => call[d].s # s)
      BY <1>12, <2>4
    <3>2. call[d].s = s => Elements(Rest(c)) \cap Elements(Rest(d)) = {}
      BY <2>4 DEF OnceInv, RestOnce, s
    <3>3. call[d].s \in Session => Elements(Rest(d)) \cap What(call[d].s) = {}
      BY DEF OnceInv, RestOnce
    <3>4. CASE call[d].s = s
      <4>1. What(call[d].s)' = What(call[d].s) \cup {x}
        BY <1>11, <3>1, <3>4 DEF What
      <4>2. x \notin Elements(Rest(d))
        BY <1>8, <3>2, <3>4
      <4>3. Elements(Rest(c)') \cap Elements(Rest(d)) = {}
        BY <1>8, <3>2, <3>4
      <4>4. call[d].s \in Session => Elements(Rest(d)) \cap What(call[d].s)' = {}
        BY <3>3, <4>1, <4>2
      <4> QED
        BY <3>1, <4>3, <4>4
    <3>5. CASE call[d].s # s
      <4>1. call[d].s \in Session => What(call[d].s)' = What(call[d].s)
        BY <1>10, <3>1, <3>5 DEF What
      <4> QED
        BY <3>1, <3>3, <3>5, <4>1
    <3> QED
      BY <3>4, <3>5
  <2> QED
    BY <1>2, <2>1, <2>2, <2>3, <2>4, OnceStep
<1>16. LineageInv'
  <2>1. PICK more : Longer(older, more)
    BY LongerExists
  <2>2. SessionsDescend(more)'
    <3>1. used \subseteq Session
      BY DEF TypeInv, StoreTyped
    <3>2. \A r \in Session \ used : messages'[r] = messages[r]
      BY <1>3, <1>10
    <3>3. \A r \in used : \A m \in messages'[r] :
            m \in messages[r] \/ said'[m.what] \in older[r] \cup {r}
      BY <1>1, <1>3, <1>10, <1>11, <1>14, <3>1
    <3> QED
      BY <1>13, <2>1, <3>2, <3>3, SessionsGrow DEF Lineage
  <2>3. CallDescends(more, c)'
    <3>1. ~Uncopied(c)'
      BY <1>2 DEF Uncopied
    <3>2. more[s] = older[s]
      BY <1>3, <2>1 DEF Longer
    <3>3. Origin(c)' = Origin(c)
      BY <1>1, <1>2 DEF Origin
    <3>4. /\ call[c].op # "fork" => \A y \in Elements(Rest(c)) : said[y] = s
          /\ call[c].op = "fork" => /\ Origin(c) \in older[s]
                                    /\ \A y \in Elements(Rest(c)) : said[y] \in older[s]
      BY <1>3, <1>13 DEF Lineage, CallDescends, s
    <3> QED
      BY <1>1, <1>2, <1>8, <1>9, <3>1, <3>2, <3>3, <3>4 DEF CallDescends
  <2>4. ASSUME NEW d \in Client, d # c, Uncopied(d), call[d].s \in Session,
               NEW m \in messages'[call[d].s]
        PROVE  m \in messages[call[d].s] \/ said'[m.what] = call[d].s
    <3>1. call[d].op = "fork"
      BY <2>4 DEF Uncopied
    <3>2. call[d].s = s => said[x] = s
      BY <1>3, <1>12, <1>14, <2>4, <3>1
    <3> QED
      BY <1>1, <1>10, <1>11, <2>4, <3>2
  <2> QED
    BY <1>2, <1>13, <2>1, <2>2, <2>3, <2>4, OthersDescend DEF Longer
<1>17. ASSUME NEW d \in Client, d # c, Copying(d)
       PROVE  Undisturbed(d)
  <2>1. call[d].op = "fork" /\ call[d].s \in Session /\ Origin(d) \in Session
    BY <1>17, CallKnown DEF Copying, TypeInv, StoreTyped
  <2>2. call[d].s = s => said[x] = s
    BY <1>3, <1>12, <1>14, <1>17, <2>1
  <2> QED
    BY <1>1, <1>10, <1>11, <2>1, <2>2 DEF Undisturbed
<1>18. ASSUME Copying(c)'
       PROVE  CopyInv(c)'
  <2> DEFINE i == call[c].from
  <2>1. call[c].op = "fork" /\ Copying(c) /\ Origin(c) \in Session /\ Origin(c) # s
    <3>1. call[c].op = "fork" /\ call[c].pc = "push" /\ Origin(c)' = Origin(c)
      BY <1>1, <1>2, <1>18 DEF Copying, Origin
    <3>2. Origin(c) \in Session /\ Origin(c) # s
      BY <1>3, <1>14, <3>1, CallKnown DEF TypeInv, StoreTyped, s
    <3> QED
      BY <1>1, <1>2, <1>3, <1>18, <3>1, <3>2 DEF Copying, Uncopied, s
  <2>2. CopyInv(c)
    BY <2>1 DEF CopiesInOrder
  <2>3. Until(call[c].from)' = Until(i)
    BY <1>1, <1>2, <1>10, <2>1 DEF Until, Origin
  <2>4. Copied(c)' = Copied(c) \cup {new}
    BY <1>1, <1>2, <1>11, <1>14, <2>1 DEF Copied, s
  <2>5. CopiedWhat(c)' = CopiedWhat(c) \cup {x}
    BY <1>11, <2>4 DEF CopiedWhat
  <2>6. Elements(Rest(c)) = Elements(Rest(c)') \cup {x}
    BY <1>8, <2>1
  <2>7. CopiedWhat(c)' \cup Elements(Rest(c))' = CopiedWhat(c) \cup Elements(Rest(c))
    BY <1>9, <2>5, <2>6
  <2>8. ASSUME NEW k \in Until(i), NEW l \in Until(i), k.at < l.at
        PROVE  /\ \A m, n \in Copied(c)' : m.what = k.what /\ n.what = l.what => m.at <= n.at
               /\ l.what \in CopiedWhat(c)' => k.what \notin Elements(Rest(c)')
               /\ \A j, h \in DOMAIN Rest(c)' :
                    Rest(c)'[j] = k.what /\ Rest(c)'[h] = l.what => j < h
    <3>1. /\ \A m, n \in Copied(c) : m.what = k.what /\ n.what = l.what => m.at <= n.at
          /\ l.what \in CopiedWhat(c) => k.what \notin Elements(Rest(c))
          /\ \A j, h \in DOMAIN Rest(c) : Rest(c)[j] = k.what /\ Rest(c)[h] = l.what => j < h
      BY <2>2, <2>8 DEF CopyInv
    <3>2. \A m \in Copied(c) : m.at <= call[c].at
      BY <1>1, <2>2 DEF CopyInv
    <3>3. ASSUME NEW m \in Copied(c)', NEW n \in Copied(c)', m.what = k.what, n.what = l.what
          PROVE  m.at <= n.at
      <4>1. CASE m \in Copied(c) /\ n \in Copied(c)
        BY <3>1, <3>3, <4>1
      <4>2. CASE m \in Copied(c) /\ n = new
        BY <1>11, <3>2, <4>2
      <4>3. CASE m = new /\ n \in Copied(c)
        <5>1. l.what \in CopiedWhat(c) /\ k.what = x
          BY <1>11, <3>3, <4>3 DEF CopiedWhat
        <5> QED
          BY <1>8, <3>1, <5>1
      <4>4. CASE m = new /\ n = new
        BY <1>3, <1>11, <4>4
      <4> QED
        BY <2>4, <3>3, <4>1, <4>2, <4>3, <4>4
    <3>4. ASSUME l.what \in CopiedWhat(c)', k.what \in Elements(Rest(c)')
          PROVE  FALSE
      <4>1. CASE l.what \in CopiedWhat(c)
        BY <1>8, <3>1, <3>4, <4>1
      <4>2. CASE l.what = x
        <5>1. PICK j \in DOMAIN Rest(c)' : Rest(c)'[j] = k.what
          BY <3>4 DEF Elements
        <5>2. j + 1 \in DOMAIN Rest(c) /\ Rest(c)[j + 1] = k.what /\ j \in Nat
          BY <1>6, <5>1
        <5>3. j + 1 < 1
          BY <1>6, <3>1, <4>2, <5>2
        <5> QED
          BY <5>2, <5>3
      <4> QED
        BY <2>5, <3>4, <4>1, <4>2
    <3>5. ASSUME NEW j \in DOMAIN Rest(c)', NEW h \in DOMAIN Rest(c)',
                 Rest(c)'[j] = k.what, Rest(c)'[h] = l.what
          PROVE  j < h
      <4>1. j + 1 < h + 1 /\ j \in Nat /\ h \in Nat
        BY <1>6, <3>1, <3>5
      <4> QED
        BY <4>1
    <3> QED
      BY <3>3, <3>4, <3>5
  <2>9. call'[c].pc \notin {"count", "push"}
    BY <1>2
  <2>10. /\ saves[i].seen \subseteq CopiedWhat(c) \cup Elements(Rest(c))
         /\ CopiedWhat(c) \cup Elements(Rest(c)) \subseteq {m.what : m \in Until(i)}
    BY <2>2 DEF CopyInv
  <2> QED
    BY <1>1, <1>2, <1>9, <2>3, <2>7, <2>8, <2>9, <2>10 DEF CopyInv
<1>19. CopiesInOrder'
  BY <1>2, <1>17, <1>18, OthersCopy
<1> QED
  BY <1>15, <1>16, <1>19

LEMMA ForkNext ==
  TypeInv /\ TypeInv' /\ DeletesDoomed /\ ForkInv /\ [Next]_vars => ForkInv'
<1> SUFFICES ASSUME TypeInv, TypeInv', DeletesDoomed, ForkInv, [Next]_vars PROVE ForkInv'
  OBVIOUS
<1>1. Grows
  BY StepGrows
<1>2. ForkFacts
  BY <1>1 DEF ForkInv, ForkFacts
<1>3. SeenStays'
  BY <1>1, SeenKept DEF ForkInv
<1>4. CASE Quiet
  BY <1>2, <1>3, <1>4, CalmForks DEF Quiet, ForkInv
<1>5. ASSUME NEW c \in Client, DeleteMessages(c)
      PROVE  OnceInv' /\ LineageInv' /\ CopiesInOrder'
  <2>1. call[c].s \in doomed /\ call[c].s \in Session
        /\ messages' = [messages EXCEPT ![call[c].s] = {}]
    BY <1>5, DeletedIsDoomed
  <2>2. call[c].op = "delete" /\ Goto(c, "counter")
    BY <1>5, CallOK, PlaceTellsOp DEF DeleteMessages
  <2>3. \A d \in Client : QuietAt(d)
    BY <2>2, GotoQuiet
  <2>4. \A s \in Session : messages'[s] \subseteq messages[s]
                           /\ (s \notin doomed' => messages'[s] = messages[s])
    BY <1>1, <2>1 DEF Grows, TypeInv, MessagesTyped
  <2> QED
    BY <1>2, <2>3, <2>4, CalmForks
<1>6. ASSUME NEW c \in Client, Loud(c)
      PROVE  OnceInv' /\ LineageInv' /\ CopiesInOrder'
  BY <1>2, <1>5, <1>6, AddForks, CreateForks, ReadForks, PushForks DEF Loud
<1> QED
  BY <1>3, <1>4, <1>6, LoudOrQuiet DEF ForkInv

(* A fork that has nothing left to copy has what its checkpoint saw, and   *)
(* in order.                                                               *)
LEMMA ForkInvOK == TypeInv /\ ForkInv => ForkIsPrefix
<1> SUFFICES ASSUME TypeInv, ForkInv, NEW c \in Client, call[c].op = "fork",
                    call[c].pc \in {"requireSaved", "record", "index", "version"},
                    {call[c].s, Origin(c)} \cap doomed = {}
             PROVE  LET mine == Copied(c)
                        origin == Until(call[c].from)
                    IN  /\ saves[call[c].from].seen \subseteq {m.what : m \in mine}
                        /\ {m.what : m \in mine} \subseteq {m.what : m \in origin}
                        /\ \A m, n \in mine : m.what = n.what => m = n
                        /\ \A m, n \in mine, k, l \in origin :
                             m.what = k.what /\ n.what = l.what /\ k.at < l.at => m.at <= n.at
  BY DEF ForkIsPrefix
<1>1. call[c].s \in Session
  BY CallOK DEF TypeInv, StoreTyped
<1>2. CopyInv(c)
  BY <1>1 DEF ForkInv, CopiesInOrder, Copying, Uncopied
<1>3. Elements(Rest(c)) = {}
  BY NoElements DEF Rest, RestOf
<1>4. \A m, n \in Copied(c) : m.what = n.what => m = n
  BY <1>1 DEF ForkInv, OnceInv, MessagesOnce, Copied
<1> QED
  BY <1>2, <1>3, <1>4 DEF CopyInv, CopiedWhat

(* The session that fork returns has every message its checkpoint's        *)
(* session had when the checkpoint was saved, none that was added in a     *)
(* later millisecond, each once, and in order except within one            *)
(* millisecond, unless somebody deletes one of the two meanwhile: with any *)
(* number of clients that add messages, fork forks and delete sessions.    *)
THEOREM Forks == Spec => []ForkIsPrefix
<1>1. Init => ForkInv
  BY ForkInit
<1>2. TypeInv /\ TypeInv' /\ DeletesDoomed /\ ForkInv /\ [Next]_vars => ForkInv'
  BY ForkNext
<1>3. TypeInv /\ ForkInv => ForkIsPrefix
  BY ForkInvOK
<1>4. TypeInv /\ LeftInv => TypeInv /\ DeletesDoomed
  BY DEF LeftInv
<1> QED
  BY <1>1, <1>2, <1>3, <1>4, LeftAlways, PTL DEF Spec
=============================================================================
