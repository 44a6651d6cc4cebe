--------------------------- MODULE InspectorCalls ---------------------------
(***************************************************************************)
(* The locks and caches of the documents of an Inspector, and the bound    *)
(* calls that take them.                                                   *)
(*                                                                         *)
(* Every call of the frontend runs on a goroutine of its own.  pdfcpu is   *)
(* not safe for concurrent reads, so a call holds its document's pdfMu     *)
(* while it is inside pdfcpu; results that are built once per document are *)
(* guarded by further mutexes, taken inside pdfMu, except the one of the   *)
(* image walk, which is taken outside it.  DiffDocuments holds the pdfMu   *)
(* of two documents.  Close takes none of them: it drops the document from *)
(* the map and cancels its context, which the long walks look at.          *)
(*                                                                         *)
(* A call is the sequence of its steps on locks, caches and the context,   *)
(* written below as the code takes them; what it computes is left out.     *)
(***************************************************************************)
EXTENDS Naturals, FiniteSets, Sequences

CONSTANTS
    Threads,    \* goroutines that serve calls
    Docs,       \* documents the Inspector holds at the start
    Methods,    \* the calls of an instance, out of AllMethods
    Pages,      \* numbered pages of every document
    MaxCalls,   \* bound: calls served
    MaxCloses,  \* bound: documents closed
    Nobody      \* no thread

AllMethods ==
    {"object", "pages", "objects", "xref", "stream", "content", "reverse",
     "images", "structure", "validate", "plaintext", "render", "diff"}

ASSUME CallsAssumption ==
    /\ Methods \subseteq AllMethods
    /\ Pages \in Nat
    /\ MaxCalls \in Nat /\ MaxCloses \in Nat

ASSUME NobodyAssumption == Nobody \notin Threads

-----------------------------------------------------------------------------
(* Mutexes: those of a document (DocumentState), and diffLockOrderMu.      *)

Kinds == {"pdf", "page", "object", "xref", "stream", "image", "plain", "once"}

Mutexes == (Kinds \X Docs) \cup {<<"order", Nobody>>}

Order == <<"order", Nobody>>

\* Each cache is named by the mutex that guards it.
Caches == (Kinds \ {"pdf"}) \X Docs

(***************************************************************************)
(* Steps.  "find" is GetDocument.  "skip" jumps over n steps when the      *)
(* cache is filled.  "work" computes, inside pdfcpu when the step names a  *)
(* document; it may fail or panic, and the deferred unlocks run: the call  *)
(* ends, or goes on at the n-th next step when the code recovers there.    *)
(* "check" reads the document's context and "poll" the flag an AfterFunc   *)
(* sets from it; both end the call when the document is closed.            *)
(***************************************************************************)
Step(op, on, n) == [op |-> op, on |-> on, n |-> n]

Find(d) == Step("find", d, 0)
Lock(m) == Step("lock", m, 0)
Unlock(m) == Step("unlock", m, 0)
Skip(c, n) == Step("skip", c, n)
Work(d) == Step("work", d, 0)
WorkOr(d, n) == Step("work", d, n)
Fill(c) == Step("fill", c, 0)
Check(d) == Step("check", d, 0)
Poll(d) == Step("poll", d, 0)

Read == "file"          \* work outside pdfcpu: reading the file

ASSUME DocsAssumption == Docs \cap (Caches \cup {Read}) = {}

\* n times the steps s.
Repeat(s, n) == [i \in 1 .. n * Len(s) |-> s[((i - 1) % Len(s)) + 1]]

-----------------------------------------------------------------------------
(* The calls.                                                              *)

\* GetTreeRoot, GetChildren, GetObjectDetail, GetFontDetail, ...
Object(d) == <<Find(d), Lock(<<"pdf", d>>), Work(d)>>

\* GetObjectIndex, GetXRefTable, GetContentStream: checked, built and filled
\* under the cache's mutex.
Cached(d, k) ==
    <<Find(d), Lock(<<"pdf", d>>), Lock(<<k, d>>), Skip(<<k, d>>, 2), Work(d),
      Fill(<<k, d>>)>>

\* DocumentState.pageTree, for callers that hold pdfMu.
PageTree(d, rescue) ==
    <<Lock(<<"page", d>>), Skip(<<"page", d>>, 2), WorkOr(d, rescue),
      Fill(<<"page", d>>), Unlock(<<"page", d>>)>>

\* GetPageIndex, GetPageNode, PageRenderInfo
PageIndex(d) ==
    <<Find(d), Lock(<<"pdf", d>>)>> \o PageTree(d, 0) \o <<Work(d)>>

\* GetPageContentStream: the page's streams, then each as its own call.
PageContent(d) ==
    PageIndex(d) \o <<Unlock(<<"pdf", d>>)>> \o Cached(d, "stream")

\* GetReverseRefs: buildReverseRefsOnce, then the index is read.
ReverseRefs(d) ==
    <<Find(d), Lock(<<"once", d>>), Skip(<<"once", d>>, 4),
      Lock(<<"pdf", d>>), Step("once", <<"once", d>>, 0),
      Fill(<<"once", d>>), Unlock(<<"pdf", d>>), Unlock(<<"once", d>>),
      Lock(<<"pdf", d>>), Step("answer", <<"once", d>>, 0)>>

\* Fault: the walk looks at the context once.
PageWalkChecksOnce(d) ==
    <<Check(d)>>
      \o Repeat(<<Lock(<<"pdf", d>>), Work(d), Unlock(<<"pdf", d>>)>>, Pages)

\* One page after the other, each under pdfMu (imageWalker.build).
PageWalk(d) ==
    Repeat(<<Check(d), Lock(<<"pdf", d>>), Work(d), Unlock(<<"pdf", d>>)>>,
           Pages)

\* Fault: the pages are walked without pdfMu.
ImagesUnlocked(d) ==
    <<Find(d), Lock(<<"image", d>>), Skip(<<"image", d>>, 8 + 2 * Pages)>>
      \o <<Lock(<<"pdf", d>>)>> \o PageTree(d, 0) \o <<Unlock(<<"pdf", d>>)>>
      \o Repeat(<<Check(d), Work(d)>>, Pages) \o <<Fill(<<"image", d>>)>>

\* GetImageIndex, GetImagePages, GetImagePageGroups (imageTree).
Images(d) ==
    <<Find(d), Lock(<<"image", d>>), Skip(<<"image", d>>, 8 + 4 * Pages)>>
      \o <<Lock(<<"pdf", d>>)>> \o PageTree(d, 0) \o <<Unlock(<<"pdf", d>>)>>
      \o PageWalk(d) \o <<Fill(<<"image", d>>)>>

\* scanPageLocked: the stream cache is looked into.  A page pdfcpu cannot
\* read is marked and the scan goes on; a bug of our own panics.
ScanPage(d, rescue) ==
    <<Check(d), Lock(<<"pdf", d>>), Lock(<<"stream", d>>),
      Unlock(<<"stream", d>>), WorkOr(d, rescue), Unlock(<<"pdf", d>>)>>

\* buildStructure: the tree under one hold, then page by page.  When the
\* caller recovers, a panic takes it to the step after the last.
BuildStructure(d, recovers) ==
    LET len == 9 + 6 * Pages
        rescue(at) == IF recovers THEN len - at ELSE 0
    IN  <<Check(d), Lock(<<"pdf", d>>)>> \o PageTree(d, rescue(4))
          \o <<WorkOr(d, rescue(7)), Unlock(<<"pdf", d>>)>>
          \o [i \in 1 .. 6 * Pages |-> ScanPage(d, rescue(8 + i))[((i - 1) % 6) + 1]]

\* GetStructure
Structure(d) == <<Find(d)>> \o BuildStructure(d, FALSE)

\* Validate: a walk that fails degrades the rules that read it.
Validate(d) ==
    <<Find(d)>> \o BuildStructure(d, TRUE) \o <<Lock(<<"pdf", d>>), Work(d)>>

\* GetPlainText: chunks of the file, outside pdfcpu.
PlainText(d) ==
    <<Find(d), Lock(<<"plain", d>>), Skip(<<"plain", d>>, 6)>>
      \o Repeat(<<Poll(d), Work(Read)>>, 2)
      \o <<Poll(d), Fill(<<"plain", d>>)>>

\* GetImageData, GetImageBytes (renderImage)
Render(d) ==
    <<Find(d), Poll(d), Lock(<<"pdf", d>>), Poll(d), Work(d), Poll(d)>>

\* Fault: the two documents are locked without diffLockOrderMu.
DiffUnordered(l, r) ==
    <<Find(l), Find(r), Lock(<<"pdf", l>>)>>
      \o (IF l = r THEN <<>> ELSE <<Lock(<<"pdf", r>>)>>)
      \o <<Check(l), Check(r), Work(l), Poll(l), Work(r), Check(l), Check(r)>>

\* DiffDocuments
Diff(l, r) ==
    <<Find(l), Find(r), Lock(Order), Lock(<<"pdf", l>>)>>
      \o (IF l = r THEN <<>> ELSE <<Lock(<<"pdf", r>>)>>)
      \o <<Unlock(Order), Check(l), Check(r), Work(l), Poll(l), Work(r),
           Check(l), Check(r)>>

Program(method, d, e) ==
    CASE method = "object" -> Object(d)
      [] method = "pages" -> PageIndex(d)
      [] method = "objects" -> Cached(d, "object")
      [] method = "xref" -> Cached(d, "xref")
      [] method = "stream" -> Cached(d, "stream")
      [] method = "content" -> PageContent(d)
      [] method = "reverse" -> ReverseRefs(d)
      [] method = "images" -> Images(d)
      [] method = "structure" -> Structure(d)
      [] method = "validate" -> Validate(d)
      [] method = "plaintext" -> PlainText(d)
      [] method = "render" -> Render(d)
      [] method = "diff" -> Diff(d, e)

Programs == [c \in Methods \X Docs \X Docs |-> Program(c[1], c[2], c[3])]

-----------------------------------------------------------------------------
VARIABLES
    docs,     \* Inspector.documents
    closed,   \* documents whose closeCtx is cancelled
    holder,   \* the thread that holds each mutex
    cache,    \* "empty", "built", or "failed" (the reverse-reference Once)
    fills,    \* how often each cache was filled
    call,     \* the call each thread serves
    pc,       \* its next step; 0 when the thread is free
    flag,     \* the AfterFunc of the call has run
    late,     \* pdfcpu work of the call since its document was closed
    wrong,    \* a call answered from an index that was not built
    calls     \* bound: calls started

vars == <<docs, closed, holder, cache, fills, call, pc, flag, late, wrong,
          calls>>

NoCall == <<"none", Nobody, Nobody>>

Busy(t) == pc[t] # 0
Prog(t) == Programs[call[t]]
At(t) == Prog(t)[pc[t]]
Documents(t) == {call[t][2], call[t][3]}

TypeOK ==
    /\ docs \subseteq Docs /\ closed \subseteq Docs \ docs
    /\ holder \in [Mutexes -> Threads \cup {Nobody}]
    /\ cache \in [Caches -> {"empty", "built", "failed"}]
    /\ \A c \in Caches : fills[c] \in Nat
    /\ \A t \in Threads :
         /\ call[t] \in DOMAIN Programs \cup {NoCall}
         /\ pc[t] \in IF call[t] = NoCall THEN {0} ELSE 1 .. Len(Prog(t))
         /\ late[t] \in Nat
    /\ flag \in [Threads -> BOOLEAN] /\ wrong \in BOOLEAN
    /\ calls \in 0 .. MaxCalls

Init ==
    /\ docs = Docs /\ closed = {}
    /\ holder = [m \in Mutexes |-> Nobody]
    /\ cache = [c \in Caches |-> "empty"]
    /\ fills = [c \in Caches |-> 0]
    /\ call = [t \in Threads |-> NoCall]
    /\ pc = [t \in Threads |-> 0]
    /\ flag = [t \in Threads |-> FALSE]
    /\ late = [t \in Threads |-> 0]
    /\ wrong = FALSE
    /\ calls = 0

-----------------------------------------------------------------------------
\* What the deferred unlocks leave held.
Freed(t) == [m \in Mutexes |-> IF holder[m] = t THEN Nobody ELSE holder[m]]

\* The call returns, with or without an error.
Returns(t) ==
    /\ holder' = Freed(t)
    /\ pc' = [pc EXCEPT ![t] = 0]
    /\ call' = [call EXCEPT ![t] = NoCall]
    /\ flag' = [flag EXCEPT ![t] = FALSE]
    /\ late' = [late EXCEPT ![t] = 0]

\* The call goes on k steps further; after its last step it returns.
Goes(t, k) ==
    IF pc[t] + k > Len(Prog(t)) THEN Returns(t)
    ELSE /\ pc' = [pc EXCEPT ![t] = pc[t] + k]
         /\ UNCHANGED <<holder, call, flag, late>>

Serve(t, c) ==
    /\ ~ Busy(t) /\ calls < MaxCalls
    /\ c[1] # "diff" => c[2] = c[3]
    /\ call' = [call EXCEPT ![t] = c]
    /\ pc' = [pc EXCEPT ![t] = 1]
    /\ calls' = calls + 1
    /\ UNCHANGED <<docs, closed, holder, cache, fills, flag, late, wrong>>

GetDocument(t) ==
    /\ Busy(t) /\ At(t).op = "find"
    /\ IF At(t).on \in docs THEN Goes(t, 1) ELSE Returns(t)
    /\ UNCHANGED <<docs, closed, cache, fills, wrong, calls>>

Acquire(t) ==
    /\ Busy(t) /\ At(t).op = "lock"
    /\ holder[At(t).on] = Nobody
    /\ holder' = [holder EXCEPT ![At(t).on] = t]
    /\ pc' = [pc EXCEPT ![t] = pc[t] + 1]
    /\ UNCHANGED <<docs, closed, cache, fills, call, flag, late, wrong, calls>>

Release(t) ==
    /\ Busy(t) /\ At(t).op = "unlock"
    /\ IF pc[t] = Len(Prog(t)) THEN Returns(t)
       ELSE /\ holder' = [holder EXCEPT ![At(t).on] = Nobody]
            /\ pc' = [pc EXCEPT ![t] = pc[t] + 1]
            /\ UNCHANGED <<call, flag, late>>
    /\ UNCHANGED <<docs, closed, cache, fills, wrong, calls>>

LookUp(t) ==
    /\ Busy(t) /\ At(t).op = "skip"
    /\ Goes(t, IF cache[At(t).on] = "empty" THEN 1 ELSE 1 + At(t).n)
    /\ UNCHANGED <<docs, closed, cache, fills, wrong, calls>>

FillCache(t) ==
    /\ Busy(t) /\ At(t).op = "fill"
    /\ cache' = [cache EXCEPT ![At(t).on] = "built"]
    /\ fills' = [fills EXCEPT ![At(t).on] = @ + 1]
    /\ Goes(t, 1)
    /\ UNCHANGED <<docs, closed, wrong, calls>>

\* The work succeeds.
Works(t) ==
    /\ Busy(t) /\ At(t).op \in {"work", "once"}
    /\ pc[t] < Len(Prog(t))
    /\ pc' = [pc EXCEPT ![t] = pc[t] + 1]
    /\ late' = [late EXCEPT ![t] = IF At(t).on \in closed THEN @ + 1 ELSE @]
    /\ UNCHANGED <<docs, closed, holder, cache, fills, call, flag, wrong,
                   calls>>

\* The last work of a call succeeds, or work fails where nothing recovers:
\* the call returns.
Ends(t) ==
    /\ Busy(t) /\ At(t).op = "work" /\ At(t).n = 0
    /\ Returns(t)
    /\ UNCHANGED <<docs, closed, cache, fills, wrong, calls>>

\* Work fails and the caller recovers (buildValidateStructure).
Recovers(t) ==
    /\ Busy(t) /\ At(t).op = "work" /\ At(t).n > 0
    /\ holder' = Freed(t)
    /\ pc' = [pc EXCEPT ![t] = pc[t] + At(t).n]
    /\ UNCHANGED <<docs, closed, cache, fills, call, flag, late, wrong, calls>>

\* The build of the reverse references fails: the Once is done for good, and
\* the call goes on to read the index, or panics on.
OnceFails(t) ==
    /\ Busy(t) /\ At(t).op = "once"
    /\ cache' = [cache EXCEPT ![At(t).on] = "failed"]
    /\ \/ Goes(t, 2)
       \/ Returns(t)
    /\ UNCHANGED <<docs, closed, fills, wrong, calls>>

\* GetReverseRefs answers from the index, or says that there is none.
Answers(t) ==
    /\ Busy(t) /\ At(t).op = "answer"
    /\ wrong' = (wrong \/ cache[At(t).on] = "empty")
    /\ Returns(t)
    /\ UNCHANGED <<docs, closed, cache, fills, calls>>

\* docClosed
Checks(t) ==
    /\ Busy(t) /\ At(t).op = "check"
    /\ IF At(t).on \in closed THEN Returns(t) ELSE Goes(t, 1)
    /\ UNCHANGED <<docs, closed, cache, fills, wrong, calls>>

\* ctx.Err(), diffContext.stopped
Polls(t) ==
    /\ Busy(t) /\ At(t).op = "poll"
    /\ IF flag[t] THEN Returns(t) ELSE Goes(t, 1)
    /\ UNCHANGED <<docs, closed, cache, fills, wrong, calls>>

\* The AfterFunc of a call runs, on a goroutine of its own.
AfterFunc(t) ==
    /\ Busy(t) /\ ~ flag[t]
    /\ Documents(t) \cap closed # {}
    /\ flag' = [flag EXCEPT ![t] = TRUE]
    /\ UNCHANGED <<docs, closed, holder, cache, fills, call, pc, late, wrong,
                   calls>>

\* Inspector.Close takes the document from the map,
CloseDrops(d) ==
    /\ d \in docs
    /\ Cardinality(Docs \ docs) < MaxCloses
    /\ docs' = docs \ {d}
    /\ UNCHANGED <<closed, holder, cache, fills, call, pc, flag, late, wrong,
                   calls>>

\* and cancels its context (closeDocLocked).
CloseCancels(d) ==
    /\ d \notin docs /\ d \notin closed
    /\ closed' = closed \cup {d}
    /\ UNCHANGED <<docs, holder, cache, fills, call, pc, flag, late, wrong,
                   calls>>

-----------------------------------------------------------------------------
Next ==
    \/ \E t \in Threads, c \in DOMAIN Programs : Serve(t, c)
    \/ \E t \in Threads : GetDocument(t)
    \/ \E t \in Threads : Acquire(t)
    \/ \E t \in Threads : Release(t)
    \/ \E t \in Threads : LookUp(t)
    \/ \E t \in Threads : FillCache(t)
    \/ \E t \in Threads : Works(t)
    \/ \E t \in Threads : Ends(t)
    \/ \E t \in Threads : Recovers(t)
    \/ \E t \in Threads : OnceFails(t)
    \/ \E t \in Threads : Answers(t)
    \/ \E t \in Threads : Checks(t)
    \/ \E t \in Threads : Polls(t)
    \/ \E t \in Threads : AfterFunc(t)
    \/ \E d \in Docs : CloseDrops(d)
    \/ \E d \in Docs : CloseCancels(d)

Spec == Init /\ [][Next]_vars

-----------------------------------------------------------------------------
(* Properties.                                                             *)

\* t cannot go on because u holds the mutex it wants.
WaitsFor(t, u) == Busy(t) /\ At(t).op = "lock" /\ holder[At(t).on] = u

(***************************************************************************)
(* The lock order of DocumentState holds: calls never wait for each other  *)
(* in a circle, nor for themselves, in any mix of cached reads, walks over *)
(* the pages and diffs of the same two documents with swapped sides.       *)
(***************************************************************************)
NoWaitCycle ==
    \A ts \in (SUBSET Threads) \ {{}} :
        \E t \in ts : \A u \in ts : ~ WaitsFor(t, u)

(***************************************************************************)
(* A call inside pdfcpu holds the pdfMu of the document it works on, also  *)
(* in the walks that let go of it between pages.                           *)
(***************************************************************************)
PdfcpuGuarded ==
    \A t \in Threads :
        /\ Busy(t) /\ At(t).op = "work" /\ At(t).on \in Docs
             => holder[<<"pdf", At(t).on>>] = t
        /\ Busy(t) /\ At(t).op = "once"
             => holder[<<"pdf", At(t).on[2]>>] = t

(***************************************************************************)
(* Concurrent callers share one build: no cache of a document is filled    *)
(* twice, so no caller is left with a value another one replaced.          *)
(***************************************************************************)
BuiltOnce == \A c \in Caches : fills[c] <= 1

(***************************************************************************)
(* A close stops the page walks: after the document's context is cancelled *)
(* an image walk works on at most one more page, and a structure walk or   *)
(* a validation under at most one more hold of pdfMu, which covers the     *)
(* page tree and the structure tree.                                       *)
(***************************************************************************)
CloseStopsWalks ==
    \A t \in Threads :
        Busy(t) => /\ call[t][1] = "images" => late[t] <= 1
                   /\ call[t][1] \in {"structure", "validate"} => late[t] <= 2

(***************************************************************************)
(* GetReverseRefs never answers from an index nobody built: a build that   *)
(* failed or panicked is remembered (buildReverseRefsOnce).                *)
(***************************************************************************)
NoSilentEmptyIndex == ~ wrong

(***************************************************************************)
(* What a call reads from a cache is the one value built for the document. *)
(***************************************************************************)
CachesAreSound == BuiltOnce /\ NoSilentEmptyIndex

(***************************************************************************)
(* The calls keep their types, pdfcpu is only used under its lock, and a   *)
(* cache is built once and never read unbuilt.                             *)
(***************************************************************************)
CallsSound == TypeOK /\ PdfcpuGuarded /\ CachesAreSound

=============================================================================
