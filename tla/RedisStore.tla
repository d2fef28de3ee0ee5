----------------------------- MODULE RedisStore -----------------------------
(***************************************************************************)
(* The Redis checkpoint store.  Every operation is a sequence of commands, *)
(* which Redis executes one at a time and among which those of other       *)
(* clients may come; an operation is cut short when a command fails or its *)
(* process dies.                                                           *)
(*                                                                         *)
(* Left out: what sessions and messages contain, the ids of messages, and  *)
(* namespaces (there is one).  Updates of a session write the whole record *)
(* back: all that is left of it here is that the key exists afterwards.    *)
(* An operation that finds at its first command that there is nothing to   *)
(* work on throws or returns and changes nothing, so none begins.          *)
(***************************************************************************)
EXTENDS Naturals, Sequences, FiniteSets

CONSTANTS
  Session,    \* ids that crypto.randomUUID may give
  NoSession,
  Client,     \* callers of the store, one operation at a time each
  MaxTime,    \* bound: the clock
  MaxCalls,   \* bound: operations other than createSession
  MaxFaults   \* bound: operations that are cut short

ASSUME StoreAssumption ==
  /\ NoSession \notin Session
  /\ {MaxTime, MaxCalls, MaxFaults} \subseteq Nat

VARIABLES
  now,       \* Date.now()
  session,   \* the keys session:<id>
  counted,   \* the keys message:counter:<id>
  messages,  \* the sorted sets messages:<id>: of records [what, at]
  recorded,  \* the keys checkpoint:<id>, by position in saves
  index,     \* the sorted sets checkpoints:<id>:<namespace>
  versions,  \* the hashes versions:<id>:<namespace>
  call,      \* what a client does: records
             \*   [op, pc, s, todo, at, cp, ids, from]
  saves,     \* the checkpoints that were made: records [s, at, seen]; seen is
             \*   history: what the session's messages were
  used,      \* session ids given away
  said,      \* history: the session a message was first added to
  excused,   \* history: sessions with an operation that was cut short, or
             \*   that had not finished when a deletion began
  doomed,    \* history: sessions whose deletion has begun
  calls, faults \* bounds

keys == <<session, counted, messages, recorded, index, versions>>
history == <<said, excused, doomed>>
vars == <<now, keys, call, saves, used, history, calls, faults>>

Idle == [op |-> "none", pc |-> "idle", s |-> NoSession, todo |-> <<>>, at |-> 0,
         cp |-> 0, ids |-> {}, from |-> 0]

\* The operation goes on with p.
Goto(c, p) == call' = [call EXCEPT ![c].pc = p]
Finish(c) == call' = [call EXCEPT ![c] = Idle]

\* A call that has not returned works on session s.
Busy(s) == \E c \in Client : call[c].s = s

\* A client calls the store; r is the operation after its first command.
Call(c, r) ==
  /\ call[c] = Idle /\ calls < MaxCalls
  /\ call' = [call EXCEPT ![c] = r]
  /\ calls' = calls + 1

\* The operation throws: what it did stays done.
Throw(c) ==
  /\ Finish(c)
  /\ excused' = excused \cup {call[c].s}

Init ==
  /\ now = 0
  /\ session = {} /\ counted = {} /\ recorded = {}
  /\ messages = [s \in Session |-> {}]
  /\ index = [s \in Session |-> {}] /\ versions = [s \in Session |-> {}]
  /\ call = [c \in Client |-> Idle]
  /\ saves = <<>> /\ used = {}
  /\ said = <<>> /\ excused = {} /\ doomed = {}
  /\ calls = 0 /\ faults = 0

Tick ==
  /\ now < MaxTime
  /\ now' = now + 1
  /\ UNCHANGED <<keys, call, saves, used, history, calls, faults>>

-----------------------------------------------------------------------------
(* Sessions.                                                               *)

\* createSession is one command.
CreateSession(c) ==
  /\ call[c] = Idle
  /\ \E s \in Session \ used : session' = session \cup {s} /\ used' = used \cup {s}
  /\ UNCHANGED <<now, counted, messages, recorded, index, versions, call, saves,
                 history, calls, faults>>

\* updateSession has read the record.
UpdateSession(c, s) ==
  /\ s \in session
  /\ Call(c, [Idle EXCEPT !.op = "update", !.pc = "write", !.s = s])
  /\ UNCHANGED <<now, keys, saves, used, history, faults>>

\* updateSession writes it back, and addMessage or fork go on.
WriteSession(c) ==
  /\ call[c].pc = "write"
  /\ session' = session \cup {call[c].s}
  /\ IF call[c].op # "fork" THEN Finish(c)
     ELSE LET rest == Tail(call[c].todo)
          IN  call' = [call EXCEPT ![c].todo = rest,
                         ![c].pc = IF rest = <<>> THEN "requireSaved" ELSE "require"]
  /\ UNCHANGED <<now, counted, messages, recorded, index, versions, saves, used,
                 history, calls, faults>>

\* deleteSession has deleted the session's key.
DeleteSession(c, s) ==
  /\ s \in used
  /\ Call(c, [Idle EXCEPT !.op = "delete", !.pc = "messages", !.s = s])
  /\ session' = session \ {s}
  /\ excused' = IF Busy(s) THEN excused \cup {s} ELSE excused
  /\ doomed' = doomed \cup {s}
  /\ UNCHANGED <<now, counted, messages, recorded, index, versions, saves, used,
                 said, faults>>

DeleteMessages(c) ==
  /\ call[c].pc = "messages"
  /\ messages' = [messages EXCEPT ![call[c].s] = {}]
  /\ Goto(c, "counter")
  /\ UNCHANGED <<now, session, counted, recorded, index, versions, saves, used,
                 history, calls, faults>>

DeleteCounter(c) ==
  /\ call[c].pc = "counter"
  /\ counted' = counted \ {call[c].s}
  /\ Goto(c, "collect")
  /\ UNCHANGED <<now, session, messages, recorded, index, versions, saves, used,
                 history, calls, faults>>

\* Mutant of CollectCheckpoints: only the newest id is read, zRange(key, -1, -1).
CollectNewest(c) ==
  /\ call[c].pc = "collect"
  /\ LET ids == {i \in index[call[c].s] : \A j \in index[call[c].s] : i >= j}
     IN  call' = [call EXCEPT ![c].ids = ids,
                    ![c].pc = IF ids = {} THEN "versions" ELSE "index"]
  /\ UNCHANGED <<now, keys, saves, used, history, calls, faults>>

\* Mutant of CollectCheckpoints: the index itself is not deleted.
CollectKeepsIndex(c) ==
  /\ call[c].pc = "collect"
  /\ call' = [call EXCEPT ![c].ids = index[call[c].s], ![c].pc = "versions"]
  /\ UNCHANGED <<now, keys, saves, used, history, calls, faults>>

\* Mutant of CollectCheckpoints: it goes on as if it had found the key.
CollectUnchecked(c) ==
  /\ call[c].pc = "collect"
  /\ call' = [call EXCEPT ![c].ids = index[call[c].s], ![c].pc = "index"]
  /\ UNCHANGED <<now, keys, saves, used, history, calls, faults>>

\* zRange(key, 0, -1) of the index that the scan finds, if it does.
CollectCheckpoints(c) ==
  /\ call[c].pc = "collect"
  /\ LET ids == index[call[c].s]
     IN  call' = [call EXCEPT ![c].ids = ids,
                    ![c].pc = IF ids = {} THEN "versions" ELSE "index"]
  /\ UNCHANGED <<now, keys, saves, used, history, calls, faults>>

DeleteIndex(c) ==
  /\ call[c].pc = "index" /\ call[c].op = "delete"
  /\ index' = [index EXCEPT ![call[c].s] = {}]
  /\ Goto(c, "versions")
  /\ UNCHANGED <<now, session, counted, messages, recorded, versions, saves, used,
                 history, calls, faults>>

DeleteVersions(c) ==
  /\ call[c].pc = "versions"
  /\ versions' = [versions EXCEPT ![call[c].s] = {}]
  /\ IF call[c].ids = {} THEN Finish(c) ELSE Goto(c, "records")
  /\ UNCHANGED <<now, session, counted, messages, recorded, index, saves, used,
                 history, calls, faults>>

\* The records go one by one.
DeleteRecord(c) ==
  /\ call[c].pc = "records"
  /\ \E id \in call[c].ids :
       /\ recorded' = recorded \ {id}
       /\ IF call[c].ids = {id} THEN Finish(c)
          ELSE call' = [call EXCEPT ![c].ids = @ \ {id}]
  /\ UNCHANGED <<now, session, counted, messages, index, versions, saves, used,
                 history, calls, faults>>

-----------------------------------------------------------------------------
(* Messages.                                                               *)

\* addMessage has found the session and read the clock.
AddMessage(c, s) ==
  /\ s \in session
  /\ Call(c, [Idle EXCEPT !.op = "add", !.pc = "count", !.s = s,
                          !.todo = <<Len(said) + 1>>, !.at = now])
  /\ said' = Append(said, s)
  /\ UNCHANGED <<now, keys, saves, used, excused, doomed, faults>>

CountMessage(c) ==
  /\ call[c].pc = "count"
  /\ counted' = counted \cup {call[c].s}
  /\ Goto(c, "push")
  /\ UNCHANGED <<now, session, messages, recorded, index, versions, saves, used,
                 history, calls, faults>>

PushMessage(c) ==
  /\ call[c].pc = "push"
  /\ messages' = [messages EXCEPT ![call[c].s] =
                    @ \cup {[what |-> Head(call[c].todo), at |-> call[c].at]}]
  /\ Goto(c, "read")
  /\ UNCHANGED <<now, session, counted, recorded, index, versions, saves, used,
                 history, calls, faults>>

\* addMessage updates the session, whose record is read again.
ReadSession(c) ==
  /\ call[c].pc = "read"
  /\ IF call[c].s \in session
     THEN Goto(c, "write") /\ UNCHANGED excused
     ELSE Throw(c)
  /\ UNCHANGED <<now, keys, saves, used, said, doomed, calls, faults>>

-----------------------------------------------------------------------------
(* Checkpoints.                                                            *)

\* The checkpoint that is made when its session was found.
NewCheckpoint(s) == [s |-> s, at |-> now, seen |-> {m.what : m \in messages[s]}]

SaveCheckpoint(c, s) ==
  /\ s \in session
  /\ Call(c, [Idle EXCEPT !.op = "save", !.pc = "record", !.s = s,
                          !.cp = Len(saves) + 1])
  /\ saves' = Append(saves, NewCheckpoint(s))
  /\ UNCHANGED <<now, keys, used, history, faults>>

RecordCheckpoint(c) ==
  /\ call[c].pc = "record"
  /\ recorded' = recorded \cup {call[c].cp}
  /\ Goto(c, "index")
  /\ UNCHANGED <<now, session, counted, messages, index, versions, saves, used,
                 history, calls, faults>>

IndexCheckpoint(c) ==
  /\ call[c].pc = "index" /\ call[c].op \in {"save", "fork"}
  /\ index' = [index EXCEPT ![call[c].s] = @ \cup {call[c].cp}]
  /\ Goto(c, "version")
  /\ UNCHANGED <<now, session, counted, messages, recorded, versions, saves, used,
                 history, calls, faults>>

VersionCheckpoint(c) ==
  /\ call[c].pc = "version"
  /\ versions' = [versions EXCEPT ![call[c].s] = @ \cup {call[c].cp}]
  /\ Finish(c)
  /\ UNCHANGED <<now, session, counted, messages, recorded, index, saves, used,
                 history, calls, faults>>

-----------------------------------------------------------------------------
(* fork: a new session with the messages up to a checkpoint, and a copy of *)
(* the checkpoint.                                                         *)

\* getCheckpoint has found it.
Fork(c, id) ==
  /\ id \in recorded
  /\ Call(c, [Idle EXCEPT !.op = "fork", !.pc = "origin", !.from = id])
  /\ UNCHANGED <<now, keys, saves, used, history, faults>>

\* The session that the call's checkpoint was made in.
Origin(c) == saves[call[c].from].s

\* getSession, and requireSession in getMessages.
FindOrigin(c) ==
  /\ call[c].pc \in {"origin", "list"}
  /\ IF Origin(c) \in session
     THEN /\ Goto(c, IF call[c].pc = "origin" THEN "create" ELSE "copy")
          /\ UNCHANGED excused
     ELSE Throw(c)
  /\ UNCHANGED <<now, keys, saves, used, said, doomed, calls, faults>>

CreateFork(c) ==
  /\ call[c].pc = "create"
  /\ \E s \in Session \ used :
       /\ session' = session \cup {s} /\ used' = used \cup {s}
       /\ call' = [call EXCEPT ![c].s = s, ![c].pc = "list"]
  /\ UNCHANGED <<now, counted, messages, recorded, index, versions, saves, history,
                 calls, faults>>

\* Mutant of Until: before is createdAt itself.
UntilExclusive(id) == {m \in messages[saves[id].s] : m.at < saves[id].at}

\* zRangeByScore(key, 0, before - 1) where before is createdAt + 1.
Until(id) == {m \in messages[saves[id].s] : m.at <= saves[id].at}

\* Orders in which Redis may return them: by score, and members with the same
\* score by their bytes, which begin with the message's content.
InOrder(ms) ==
  {q \in [1..Cardinality(ms) -> ms] :
     \A i, j \in 1..Cardinality(ms) : i < j => q[i] # q[j] /\ q[i].at <= q[j].at}

ReadMessages(c) ==
  /\ call[c].pc = "copy"
  /\ \E q \in InOrder(Until(call[c].from)) :
       call' = [call EXCEPT ![c].todo = [i \in DOMAIN q |-> q[i].what],
                  ![c].pc = IF q = <<>> THEN "requireSaved" ELSE "require"]
  /\ UNCHANGED <<now, keys, saves, used, history, calls, faults>>

\* requireSession of addMessage.
RequireForMessage(c) ==
  /\ call[c].pc = "require"
  /\ IF call[c].s \in session
     THEN /\ call' = [call EXCEPT ![c].at = now, ![c].pc = "count"]
          /\ UNCHANGED excused
     ELSE Throw(c)
  /\ UNCHANGED <<now, keys, saves, used, said, doomed, calls, faults>>

\* requireSession of saveCheckpoint.
RequireForCheckpoint(c) ==
  /\ call[c].pc = "requireSaved"
  /\ IF call[c].s \in session
     THEN /\ call' = [call EXCEPT ![c].cp = Len(saves) + 1, ![c].pc = "record"]
          /\ saves' = Append(saves, NewCheckpoint(call[c].s))
          /\ UNCHANGED excused
     ELSE Throw(c) /\ UNCHANGED saves
  /\ UNCHANGED <<now, keys, used, said, doomed, calls, faults>>

-----------------------------------------------------------------------------
\* A command fails or the client's process dies.
CutShort(c) ==
  /\ call[c] # Idle /\ faults < MaxFaults
  /\ faults' = faults + 1
  /\ Throw(c)
  /\ UNCHANGED <<now, keys, saves, used, said, doomed, calls>>

Begin(c) ==
  \/ CreateSession(c)
  \/ \E s \in Session : \/ UpdateSession(c, s) \/ DeleteSession(c, s)
                        \/ AddMessage(c, s) \/ SaveCheckpoint(c, s)
  \/ \E id \in recorded : Fork(c, id)

Continue(c) ==
  \/ WriteSession(c) \/ ReadSession(c)
  \/ DeleteMessages(c) \/ DeleteCounter(c) \/ CollectCheckpoints(c)
  \/ DeleteIndex(c) \/ DeleteVersions(c) \/ DeleteRecord(c)
  \/ CountMessage(c) \/ PushMessage(c)
  \/ RecordCheckpoint(c) \/ IndexCheckpoint(c) \/ VersionCheckpoint(c)
  \/ FindOrigin(c) \/ CreateFork(c) \/ ReadMessages(c)
  \/ RequireForMessage(c) \/ RequireForCheckpoint(c)

Next == Tick \/ \E c \in Client : Begin(c) \/ Continue(c) \/ CutShort(c)

Spec == Init /\ [][Next]_vars

-----------------------------------------------------------------------------
CheckpointId == 1..Len(saves)

\* Types: besides, a deletion that is to delete an index or records has found
\* some (deleteSession), and a session that has keys was once created.
TypeOK ==
  /\ now \in 0..MaxTime /\ calls \in 0..MaxCalls /\ faults \in 0..MaxFaults
  /\ session \subseteq used /\ counted \subseteq used /\ used \subseteq Session
  /\ messages \in [Session -> SUBSET [what : 1..Len(said), at : 0..now]]
  /\ recorded \subseteq CheckpointId
  /\ index \in [Session -> SUBSET CheckpointId]
  /\ versions \in [Session -> SUBSET CheckpointId]
  /\ \A i \in CheckpointId : saves[i].s \in Session /\ saves[i].at \in 0..now
  /\ \A c \in Client :
       /\ call[c].s \in used \cup {NoSession}
       /\ call[c].at \in 0..now /\ call[c].cp \in 0..Len(saves)
       /\ call[c].ids \subseteq CheckpointId /\ call[c].from \in 0..Len(saves)
       /\ call[c].op = "delete" /\ call[c].pc \in {"index", "records"}
            => call[c].ids # {}
       /\ call[c].pc \in {"require", "count", "push"} => call[c].todo # <<>>
  /\ said \in Seq(Session)
  /\ excused \subseteq used \cup {NoSession} /\ doomed \subseteq used

\* Every checkpoint id in an index has its record: saveCheckpoint writes the
\* record first and deleteSession deletes the index first, so that
\* getLatestCheckpoint, which reads only the newest id, never reports that
\* there is no checkpoint because of an id whose record is missing, whatever
\* runs at the same time and wherever an operation is cut short.
IndexedIsStored == \A s \in Session : index[s] \subseteq recorded

\* What is kept under a session's id.
Remains(s) ==
  \/ s \in session \/ s \in counted
  \/ messages[s] # {} \/ index[s] # {} \/ versions[s] # {}
  \/ \E id \in recorded : saves[id].s = s

\* A deleted session is gone with everything in it, unless an operation on it
\* was cut short or had not finished when the deletion began: updateSession
\* and addMessage then bring the session back, and messages and checkpoints
\* are written that nothing deletes any more.
LeftoversHaveCause ==
  \A s \in doomed : Remains(s) => Busy(s) \/ s \in excused

\* The messages that a fork took over.
Copied(c) ==
  {m \in messages[call[c].s] : said[m.what] # call[c].s}

\* The session that fork returns has every message its checkpoint's session
\* had when the checkpoint was saved, none that was added in a later
\* millisecond, each once, and in order except within one millisecond, unless
\* somebody deletes one of the two sessions meanwhile.
ForkIsPrefix ==
  \A c \in Client :
    LET mine == Copied(c)
        origin == Until(call[c].from)
    IN  call[c].op = "fork" /\ call[c].pc \in {"requireSaved", "record", "index", "version"}
        /\ {call[c].s, Origin(c)} \cap doomed = {}
        => /\ saves[call[c].from].seen \subseteq {m.what : m \in mine}
           /\ {m.what : m \in mine} \subseteq {m.what : m \in origin}
           /\ \A m, n \in mine : m.what = n.what => m = n
           /\ \A m, n \in mine, k, l \in origin :
                m.what = k.what /\ n.what = l.what /\ k.at < l.at => m.at <= n.at
=============================================================================
