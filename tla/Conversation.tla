---------------------------- MODULE Conversation ----------------------------
(***************************************************************************)
(* The operations of an agent on its list of messages: pruning, the two    *)
(* compaction strategies and the fallback of a compaction that failed, and *)
(* the conversion of messages to what a checkpoint store keeps and back.   *)
(*                                                                         *)
(* A message is its role, the ids of the tool calls it makes and of the    *)
(* tool results it holds, in order, which of those results were replaced   *)
(* by "[pruned]", and what kind of text it has.  Wording is left out, and  *)
(* so are the token counts that decide when a window is pruned or          *)
(* compacted.                                                              *)
(***************************************************************************)
EXTENDS Naturals, SequencesExt

CONSTANTS
  ProtectedPairs,  \* DEFAULTS.contextWindow.protectedRecentPairs
  RecentBuffer,    \* DEFAULTS.compaction.recentMessagesBuffer
  WindowSize       \* config.windowSize of SlidingWindowCompactionStrategy

ASSUME WindowAssumption ==
  ProtectedPairs \in Nat /\ RecentBuffer \in Nat \ {0} /\ WindowSize \in Nat \ {0}

Text == {"none", "prompt", "input", "memory", "note", "answer", "summary"}

Message ==
  [role : {"system", "user", "assistant", "tool"}, text : Text,
   uses : Seq(Nat), results : Seq(Nat), pruned : SUBSET Nat]

TextMessage(role, text) ==
  [role |-> role, uses |-> <<>>, results |-> <<>>, pruned |-> {}, text |-> text]
CallMessage(ids) ==
  [role |-> "assistant", uses |-> ids, results |-> <<>>, pruned |-> {}, text |-> "none"]
ResultMessage(ids) ==
  [role |-> "user", uses |-> <<>>, results |-> ids, pruned |-> {}, text |-> "none"]

UseIds(ms) == UNION {ToSet(ms[i].uses) : i \in DOMAIN ms}
ResultIds(ms) == UNION {ToSet(ms[i].results) : i \in DOMAIN ms}

\* The calls that are not followed at once by their results, and the results
\* that do not follow their calls.
Orphans(ms) ==
  {c \in UseIds(ms) \cup ResultIds(ms) :
     ~ \E i \in DOMAIN ms : /\ i + 1 \in DOMAIN ms
                            /\ c \in ToSet(ms[i].uses)
                            /\ c \in ToSet(ms[i + 1].results)}

LastN(ms, n) == SubSeq(ms, (IF Len(ms) > n THEN Len(ms) - n ELSE 0) + 1, Len(ms))

\* The elements of s that are in S, in their order.  A function and not
\* SelectSeq, so that it can be reasoned about.
Filter(s, S) ==
  LET f[n \in 0..Len(s)] ==
        IF n = 0 THEN <<>>
        ELSE IF s[n] \in S THEN Append(f[n-1], s[n]) ELSE f[n-1]
  IN  f[Len(s)]

-----------------------------------------------------------------------------
(* Pruning.                                                                *)

\* findToolCallPairs: the results whose calls are there, in their order.
ToolCallPairs(ms) ==
  SelectSeq(FlattenSeq([i \in DOMAIN ms |-> ms[i].results]), LAMBDA c : c \in UseIds(ms))

\* Everything but the newest pairs; one pair is always prunable.
PrunablePairs(ms) ==
  LET pairs == ToolCallPairs(ms)
      protected == IF Len(pairs) <= ProtectedPairs THEN Len(pairs) - 1 ELSE ProtectedPairs
  IN  IF pairs = <<>> THEN {} ELSE ToSet(SubSeq(pairs, 1, Len(pairs) - protected))

IsLastUser(ms, i) ==
  ms[i].role = "user" /\ \A j \in DOMAIN ms : ms[j].role = "user" => j <= i

\* A pair that touches the first message or the last user message is spared.
PrunableIds(ms) ==
  {c \in PrunablePairs(ms) :
     \A i \in DOMAIN ms :
       c \in ToSet(ms[i].uses) \cup ToSet(ms[i].results) => i # 1 /\ ~IsLastUser(ms, i)}

\* pruneMessages.  It returns the array it was given when nothing is pruned.
Prune(ms) ==
  [i \in DOMAIN ms |->
     [ms[i] EXCEPT !.pruned = @ \cup (PrunableIds(ms) \cap ToSet(ms[i].results))]]

-----------------------------------------------------------------------------
(* Compaction.                                                             *)

\* DefaultCompactionStrategy: a summary takes the place of the middle.
Summarize(ms) ==
  IF Len(ms) <= RecentBuffer + 1 THEN ms
  ELSE <<ms[1], TextMessage("user", "summary")>> \o LastN(ms, RecentBuffer)

\* The fallback of ContextWindowManager.compact when the strategy throws.  The
\* default strategy only throws when it has to ask the provider.
HardTruncate(ms) ==
  IF Len(ms) <= RecentBuffer + 1 THEN ms ELSE <<ms[1]>> \o LastN(ms, RecentBuffer)

\* findBrokenToolIds.
BrokenToolIds(ms) == (UseIds(ms) \ ResultIds(ms)) \cup (ResultIds(ms) \ UseIds(ms))

\* Mutant of Slide: messages with half a pair are kept.
SlideAnywhere(ms) ==
  IF Len(ms) <= WindowSize + 1 THEN ms ELSE <<ms[1]>> \o LastN(ms, WindowSize)

\* hasBrokenTool: a message with a call or a result whose other half is cut
\* off.
HasBrokenTool(m, broken) == (ToSet(m.uses) \cup ToSet(m.results)) \cap broken # {}

\* SlidingWindowCompactionStrategy with preserveSystemMessage.
Slide(ms) ==
  IF Len(ms) <= WindowSize + 1 THEN ms
  ELSE LET window == LastN(ms, WindowSize)
           whole == {m \in Message : ~HasBrokenTool(m, BrokenToolIds(window))}
       IN  <<ms[1]>> \o Filter(window, whole)

-----------------------------------------------------------------------------
(* What a checkpoint store keeps.                                          *)

\* Results are stored with the role "tool".
Payload(m) ==
  IF m.role = "user" /\ m.results # <<>> THEN [m EXCEPT !.role = "tool", !.text = "none"] ELSE m

\* System messages and memory snapshots are not stored, and neither are user
\* messages without text and results.
Durable ==
  {m \in Message : \/ m.role \in {"assistant", "tool"}
                   \/ m.role = "user" /\ m.text \notin {"none", "memory"}}

\* toCheckpointPayloads.
ToStored(ms) == Filter([i \in DOMAIN ms |-> Payload(ms[i])], Durable)

Loaded(m) == IF m.role = "tool" THEN [m EXCEPT !.role = "user"] ELSE m

\* A stored answer without text and calls is not loaded.
Loadable == {m \in Message : m.text # "none" \/ m.uses # <<>> \/ m.results # <<>>}

\* convertCheckpointMessages.
FromStored(ms) == Filter([i \in DOMAIN ms |-> Loaded(ms[i])], Loadable)

=============================================================================
