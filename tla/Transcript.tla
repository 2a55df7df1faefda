----------------------------- MODULE Transcript -----------------------------
(***************************************************************************)
(* Provider transcripts (runtime/conversation): what makes a sequence of   *)
(* transcript items valid, and how a transcript that outgrew its budget is *)
(* compacted.                                                              *)
(*                                                                         *)
(* An item keeps what continuity and compaction look at: its kind and      *)
(* role, the provider call identifiers it opens (an output) or answers (a  *)
(* tool result), and its size in tokens.  Content is left out, except for  *)
(* the version of the context a context diff carries and the run the item  *)
(* comes from, by which the properties recognise it.                       *)
(***************************************************************************)
EXTENDS Integers, SequencesExt

CONSTANTS
    NoCall,         \* the empty provider call identifier
    Budget,         \* the tokens a transcript may have before it is compacted
    LargeItem,      \* the tokens above which an item is shortened
    PreserveRecent  \* the number of items compaction leaves alone

ASSUME BudgetAssumption ==
    /\ Budget \in Nat \ {0}
    /\ LargeItem \in Nat \ {0}
    /\ PreserveRecent \in Nat

Ids(item) == Range(item.calls) \ {NoCall}
IsOutput(item) == item.kind = "output"
IsResult(item) == item.kind = "tool_result"

-----------------------------------------------------------------------------
(* Continuity.                                                             *)

\* The calls open before an item: opened by an output, no result yet.
openBefore(items, i) ==
    {c \in UNION {Range(items[j].calls) : j \in 1 .. i - 1} :
       \E j \in 1 .. i - 1 :
         /\ IsOutput(items[j])
         /\ c \in Range(items[j].calls)
         /\ \A k \in j + 1 .. i - 1 : IsResult(items[k]) => c \notin Range(items[k].calls)}

\* An output opens calls that have an identifier and are not open; a result
\* answers an open call; while a call is open, nothing else may follow; and at
\* the end none is.
continuous(items) ==
    /\ \A i \in DOMAIN items :
         CASE IsOutput(items[i]) /\ items[i].calls # <<>> ->
                /\ NoCall \notin Range(items[i].calls)
                /\ IsInjective(items[i].calls)
                /\ Range(items[i].calls) \cap openBefore(items, i) = {}
           [] IsResult(items[i]) -> Range(items[i].calls) \subseteq openBefore(items, i)
           [] OTHER -> openBefore(items, i) = {}
    /\ openBefore(items, Len(items) + 1) = {}

\* (The bound variable makes TLC compute the sequence once.)
ValidateContinuity(items) == \E transcript \in {items} : continuous(transcript)

-----------------------------------------------------------------------------
(* Compaction.                                                             *)

estimateItemsTokens(items) ==
    LET tokens[n \in 0 .. Len(items)] == IF n = 0 THEN 0 ELSE tokens[n - 1] + items[n].size
    IN  tokens[Len(items)]

\* The index behind the group that starts at an item: an output that opens
\* calls, the further such outputs, and all of their results, or one item.
toolCallResultGroupEnd(items, start) ==
    LET opens(i) == IsOutput(items[i]) /\ Ids(items[i]) # {}
        callIDs(to) == UNION {Ids(items[i]) : i \in start .. to}
        \* the outputs up to calls, followed by their results up to end
        complete(calls, end) ==
          /\ \A i \in start .. calls : opens(i)
          /\ \A i \in calls + 1 .. end : /\ IsResult(items[i])
                                         /\ Ids(items[i]) \subseteq callIDs(calls)
          /\ callIDs(calls) = UNION {Ids(items[i]) : i \in calls + 1 .. end}
        closes(end) == \E calls \in start .. end - 1 : complete(calls, end)
        matching == /\ start < Len(items)
                    /\ IsResult(items[start + 1])
                    /\ Ids(items[start + 1]) # {}
                    /\ Ids(items[start + 1]) \subseteq Ids(items[start])
    IN  IF ~opens(start) THEN start + 1
        ELSE IF \E end \in start + 1 .. Len(items) : closes(end)
             THEN 1 + CHOOSE end \in start + 1 .. Len(items) :
                        closes(end) /\ \A e \in start + 1 .. end - 1 : ~closes(e)
        ELSE IF matching THEN start + 2
        ELSE start + 1

\* Context and instructions stay, and so does a result without its call.
\* A plausible slip: context is dropped as well.
groupDroppable_Context(items) ==
    (\E i \in DOMAIN items : IsResult(items[i])) => Len(items) > 1

groupDroppable(items) ==
    /\ \A i \in DOMAIN items : ~(items[i].kind = "input" /\ items[i].role = "developer")
    /\ (\E i \in DOMAIN items : IsResult(items[i])) => Len(items) > 1

\* The groups of a transcript, each from start up to, not including, end; the
\* next one starts where a group ends.  (A group's end is the argument, so that
\* TLC computes it once.)
groupEnds(items) ==
    [i \in 1 .. Len(items) + 1 |-> IF i > Len(items) THEN i ELSE toolCallResultGroupEnd(items, i)]

groupsEndingAt(end) ==
    LET start[n \in 1 .. Len(end)] == IF n = 1 THEN 1 ELSE end[start[n - 1]]
    IN  {[start |-> i, end |-> end[i]] : i \in Range(start) \ {Len(end)}}

transcriptGroups(items) == UNION {groupsEndingAt(end) : end \in {groupEnds(items)}}

compactionNotice ==
    [kind |-> "input", role |-> "developer", calls |-> <<>>, size |-> 1,
     context |-> 0, by |-> "compaction"]

\* The oldest droppable groups before the items to preserve go, until the rest
\* fits; a notice takes the place of the first one.
omittedIndices(items, groups) ==
    LET droppable(g) == /\ g.end <= Max({Len(items) - PreserveRecent, 0}) + 1
                        /\ groupDroppable(SubSeq(items, g.start, g.end - 1))
        indices(g) == g.start .. g.end - 1
        without(omitted) == [i \in DOMAIN items |-> [size |-> IF i \in omitted THEN 0 ELSE items[i].size]]
        dropped(candidates) ==
          {g \in candidates :
             \E rest \in {without(UNION {indices(h) : h \in {h \in candidates : h.start < g.start}})} :
               estimateItemsTokens(rest) > Budget}
    IN  UNION {UNION {indices(g) : g \in dropped(candidates)} :
                 candidates \in {{g \in groups : droppable(g)}}}

omitOldItems(items, omitted) ==
    LET kept(i) == IF i \notin omitted THEN <<items[i]>>
                   ELSE IF i = Min(omitted) THEN <<compactionNotice>> ELSE <<>>
        upTo[n \in 0 .. Len(items)] == IF n = 0 THEN <<>> ELSE upTo[n - 1] \o kept(n)
    IN  upTo[Len(items)]

\* Large results, answers and context diffs are replaced by a short remark; what
\* a diff said is gone with it.  The messages of the user stay as they are.
compactLargeItems(items) ==
    LET shortened(item) ==
          /\ item.size > LargeItem
          /\ \/ IsResult(item)
             \/ IsOutput(item) /\ item.calls = <<>>
             \/ item.kind = "input" /\ item.role = "developer" /\ item.context # 0
    IN  [i \in DOMAIN items |->
           IF shortened(items[i]) THEN [items[i] EXCEPT !.size = 1, !.context = 0] ELSE items[i]]

\* What becomes of a transcript: within its budget it stays as it is, else old
\* items are left out, and if that is not enough the large ones shortened.  The
\* result is the one member of a set, which TLC computes once.
CompactTranscript(items) ==
    IF estimateItemsTokens(items) <= Budget THEN {items}
    ELSE {IF estimateItemsTokens(rest) <= Budget THEN rest ELSE compactLargeItems(rest) :
            rest \in {omitOldItems(items, omitted) :
              omitted \in {omittedIndices(items, groups) :
                groups \in {transcriptGroups(items)}}}}
=============================================================================
