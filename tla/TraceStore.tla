----------------------------- MODULE TraceStore -----------------------------
(***************************************************************************)
(* Retrieval traces in the in-memory store, as Go slices: a slice is an    *)
(* array and a length, and copying it shares the array.  buildTrace makes  *)
(* CandidateIDs and SelectedIDs the same slice                             *)
(* (internal/services/retrieval/service.go), the evaluation recorder keeps *)
(* both (internal/services/evaluation/recorder.go), and DeleteByMemoryID   *)
(* filters the stored ones in place                                        *)
(* (internal/adapters/storage/memory/trace_store.go).                      *)
(***************************************************************************)
EXTENDS Lists, Functions

CONSTANTS
    Traces,     \* ids of the traces that may be saved
    Memories,   \* ids of memories
    Rankings    \* the rankings a retrieval may return: sequences of Memories

ASSUME RankingsAreDuplicateFree ==
    \A ids \in Rankings : ids \in Seq(Memories) /\ IsInjective(ids)

VARIABLES
    array,       \* the array behind CandidateIDs and SelectedIDs of each trace
    candidates,  \* length of CandidateIDs in the store
    selected,    \* length of SelectedIDs in the store
    scores,      \* keys of the Scores map, shared with the recorder
    returned,    \* what the retrieval returned; <<>> before it ran
    saved,       \* traces that were saved
    erased       \* kept for the property: the memories DeleteByMemoryID was
                 \* called for after each trace was saved

traceVars == <<array, candidates, selected, scores, returned, saved, erased>>

TraceInit ==
    /\ array      = [t \in Traces |-> <<>>]
    /\ candidates = [t \in Traces |-> 0]
    /\ selected   = [t \in Traces |-> 0]
    /\ scores     = [t \in Traces |-> {}]
    /\ returned   = [t \in Traces |-> <<>>]
    /\ saved      = {}
    /\ erased     = [t \in Traces |-> {}]

Slice(a, n) == SubSeq(a, 1, n)

\* buildTrace, SaveTrace and Record, of what was ranked some time before: a
\* memory erased in between is in the trace all the same.
BuildTrace(t, ids) ==
    /\ t \notin saved
    /\ saved'      = saved \cup {t}
    /\ array'      = [array EXCEPT ![t] = ids]
    /\ candidates' = [candidates EXCEPT ![t] = Len(ids)]
    /\ selected'   = [selected EXCEPT ![t] = Len(ids)]
    /\ scores'     = [scores EXCEPT ![t] = ToSet(ids)]
    /\ returned'   = [returned EXCEPT ![t] = ids]
    /\ erased'     = [erased EXCEPT ![t] = {}]

\* Mutant: an id that is kept stays where it was read.
KeptInPlace(last, i, m) ==
    IF last.cells[i] = m THEN last ELSE [last EXCEPT !.kept = @ + 1]

\* removeString reads the ids of a slice one by one and appends those it keeps
\* to a slice of length 0 of the same array: it overwrites what it has read, and
\* leaves what lies behind.
KeptInFront(last, i, m) ==
    LET v == last.cells[i]
    IN  IF v = m THEN last
        ELSE [cells |-> [last.cells EXCEPT ![last.kept + 1] = v], kept |-> last.kept + 1]

\* The array and how many are kept, after each of the first n ids.
RemoveString(a, n, m) ==
    LET after[i \in 0 .. n] ==
            IF i = 0 THEN [cells |-> a, kept |-> 0] ELSE KeptInFront(after[i - 1], i, m)
    IN  after[n]

\* CandidateIDs are filtered first; SelectedIDs, with their own length, over
\* what that has left in the array.
DeleteByMemoryID(m) ==
    LET first(t) == RemoveString(array[t], candidates[t], m)
        second(t) == RemoveString(first(t).cells, selected[t], m)
    IN  /\ candidates' = [t \in Traces |-> first(t).kept]
        /\ selected'   = [t \in Traces |-> second(t).kept]
        /\ array'      = [t \in Traces |-> second(t).cells]
        /\ scores'     = [t \in Traces |-> scores[t] \ {m}]
        /\ erased'     = [t \in Traces |-> erased[t] \cup {m}]
        /\ UNCHANGED <<returned, saved>>

TraceNext == \/ \E t \in Traces, ids \in Rankings : BuildTrace(t, ids)
             \/ \E m \in Memories : DeleteByMemoryID(m)

TraceSpec == TraceInit /\ [][TraceNext]_traceVars

-----------------------------------------------------------------------------
(* Properties. *)

CandidateIDs(t) == Slice(array[t], candidates[t])
SelectedIDs(t)  == Slice(array[t], selected[t])
Remaining(t)    == Without(returned[t], erased[t])

\* Of the memories that are erased once a trace is saved, in whatever order, none
\* stays in a list or a score of it, and the candidates are those returned, in
\* their order, without them, in spite of the two filters that work on one array
\* (DeleteByMemoryID, removeString).  What was erased before the trace was saved
\* may be in it: nothing looks at the memories again.
TracesForgetAndExplain ==
    \A t \in Traces :
        /\ CandidateIDs(t) = Remaining(t)
        /\ erased[t] \cap (ToSet(SelectedIDs(t)) \cup scores[t]) = {}
=============================================================================
