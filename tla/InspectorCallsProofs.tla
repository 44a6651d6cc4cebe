------------------------ MODULE InspectorCallsProofs ------------------------
(***************************************************************************)
(* The locks and caches of the bound calls, for any threads, documents,    *)
(* pages and mix of calls.                                                 *)
(*                                                                         *)
(* What a call may assume before each of its steps is written down as a    *)
(* note: the mutexes it holds, the caches it found empty or filled, and    *)
(* how often it may have worked on a closed document.  The programs are    *)
(* shown to follow their notes, step by step and jump by jump; that every  *)
(* call is where its note says is then an invariant of any interleaving.   *)
(***************************************************************************)
EXTENDS InspectorCalls, SequenceTheorems, TLAPS

Note(held, empty, ready, work) ==
    [held |-> held, empty |-> empty, ready |-> ready, late |-> work]

(* What a call holds and knows when it starts: nothing. *)
Nothing == Note({}, {}, {}, 0)

NoteSet == {n \in [held: SUBSET Mutexes, empty: SUBSET Caches, ready: SUBSET Caches, late: Nat] :
              n.empty \subseteq n.held}

(* The lock order: outer mutexes, then pdfMu, then inner ones. *)
Outer == {"image", "once", "plain", "order"}
Inner == {"page", "object", "xref", "stream"}

(* Mutex m may be waited for while those in held are held.  A second pdfMu   *)
(* is only taken under diffLockOrderMu.                                      *)
InLockOrder(m, held) ==
    /\ m \in Mutexes \ held
    /\ \A x \in held : x[1] \notin Inner
    /\ \A x \in held : x[1] = "pdf" => m[1] \in Inner \/ (m[1] = "pdf" /\ Order \in held)
    /\ \A x \in held : x[1] \in Outer => m[1] \notin Outer

(* Step s of a call on the documents ds may be taken with note a. *)
Allowed(s, a, ds) ==
    /\ s.n \in Nat
    /\ CASE s.op \in {"find", "check", "poll"} -> TRUE
         [] s.op = "lock" -> InLockOrder(s.on, a.held)
         [] s.op = "unlock" -> s.on \in a.held
         [] s.op = "work" -> s.on \in Docs => s.on \in ds /\ <<"pdf", s.on>> \in a.held
         [] s.op = "once" -> s.on \in a.empty /\ <<"pdf", s.on[2]>> \in a.held
         [] s.op = "skip" -> s.on \in Caches /\ s.on \in a.held
         [] s.op = "fill" -> s.on \in a.empty
         [] s.op = "answer" -> s.on \in a.ready
         [] OTHER -> FALSE

(* Step s goes on to the next one, whose note is b.  A check that passes on  *)
(* the only document of the call shows that it is open.                      *)
Passes(s, a, b, ds) ==
    /\ b.held = CASE s.op = "lock"   -> a.held \cup {s.on}
                  [] s.op = "unlock" -> a.held \ {s.on}
                  [] OTHER           -> a.held
    /\ b.empty \subseteq CASE s.op = "skip" -> a.empty \cup {s.on}
                           [] s.op = "fill" -> a.empty \ {s.on}
                           [] OTHER         -> a.empty
    /\ b.ready \subseteq IF s.op = "fill" THEN a.ready \cup {s.on} ELSE a.ready
    /\ IF s.op \in {"work", "once"} THEN a.late + 1 <= b.late
       ELSE a.late <= b.late \/ (s.op = "check" /\ ds = {s.on})

(* It goes on at a later step because the cache is filled, or because the    *)
(* build of the reverse references failed.                                   *)
Jumps(s, a, b) ==
    /\ b.held = a.held
    /\ b.empty \subseteq a.empty \ {s.on}
    /\ b.ready \subseteq a.ready \cup {s.on}
    /\ a.late <= b.late

(* It goes on where a panic was recovered. *)
Rescued(a, b) == b.held = {} /\ b.empty = {} /\ b.ready \subseteq a.ready /\ a.late <= b.late

(* The i-th step of the program p of a call on ds follows the notes. *)
Follows(p, notes, ds, i) ==
    /\ notes[i] \in NoteSet
    /\ Allowed(p[i], notes[i], ds)
    /\ i < Len(p) => Passes(p[i], notes[i], notes[i + 1], ds)
    /\ p[i].op = "lock" => i < Len(p)
    /\ p[i].op = "skip" /\ i + 1 + p[i].n <= Len(p) => Jumps(p[i], notes[i], notes[i + 1 + p[i].n])
    /\ p[i].op = "once" /\ i + 2 <= Len(p) => Jumps(p[i], notes[i], notes[i + 2])
    /\ p[i].op = "work" /\ p[i].n > 0 => i + p[i].n <= Len(p) /\ Rescued(notes[i], notes[i + p[i].n])

Disciplined(p, notes, ds) ==
    /\ Len(p) \in Nat /\ Len(p) >= 1 /\ notes[1] = Nothing
    /\ \A i \in 1..Len(p) : Follows(p, notes, ds, i)

-----------------------------------------------------------------------------
(* The notes of the calls.                                                 *)

(* Only mutexes are held. *)
Holds(held, work) == Note(held, {}, {}, work)

(* Cache c, whose mutex is held, was found empty. *)
Builds(held, c, work) == Note(held, {c}, {}, work)

ObjectNotes(d) == <<Nothing, Nothing, Holds({<<"pdf", d>>}, 0)>>

CachedNotes(d, k) ==
    LET both == {<<"pdf", d>>, <<k, d>>}
    IN  <<Nothing, Nothing, Holds({<<"pdf", d>>}, 0), Holds(both, 0), Builds(both, <<k, d>>, 0),
          Builds(both, <<k, d>>, 1)>>

PageIndexNotes(d) ==
    LET pdf == {<<"pdf", d>>}
        both == {<<"pdf", d>>, <<"page", d>>}
    IN  <<Nothing, Nothing, Holds(pdf, 0), Holds(both, 0), Builds(both, <<"page", d>>, 0),
          Builds(both, <<"page", d>>, 1), Holds(both, 1), Holds(pdf, 1)>>

PageContentNotes(d) ==
    LET pdf == {<<"pdf", d>>}
        page == {<<"pdf", d>>, <<"page", d>>}
        stream == {<<"pdf", d>>, <<"stream", d>>}
    IN  <<Nothing, Nothing, Holds(pdf, 0), Holds(page, 0), Builds(page, <<"page", d>>, 0),
          Builds(page, <<"page", d>>, 1), Holds(page, 1), Holds(pdf, 1), Holds(pdf, 2), Holds({}, 2), Holds({}, 2),
          Holds(pdf, 2), Holds(stream, 2), Builds(stream, <<"stream", d>>, 2), Builds(stream, <<"stream", d>>, 3)>>

ReverseRefsNotes(d) ==
    LET once == <<"once", d>>
        both == {once, <<"pdf", d>>}
    IN  <<Nothing, Nothing, Holds({once}, 0), Builds({once}, once, 0), Builds(both, once, 0),
          Builds(both, once, 1), Note(both, {}, {once}, 1), Note({once}, {}, {once}, 1),
          Note({}, {}, {once}, 1), Note({<<"pdf", d>>}, {}, {once}, 1)>>

(* The image walk: before the pages, and a page of it. *)
ImagesHeadNotes(d) ==
    LET image == <<"image", d>>
        both == {image, <<"pdf", d>>}
        all == {image, <<"pdf", d>>, <<"page", d>>}
    IN  <<Nothing, Nothing, Holds({image}, 0), Builds({image}, image, 0), Builds(both, image, 0),
          Builds(all, image, 0), Note(all, {image, <<"page", d>>}, {}, 0),
          Note(all, {image, <<"page", d>>}, {}, 1), Builds(all, image, 1), Builds(both, image, 1)>>

PageWalkNotes(d) ==
    LET image == <<"image", d>>
        both == {image, <<"pdf", d>>}
    IN  <<Builds({image}, image, 1), Builds({image}, image, 0), Builds(both, image, 0), Builds(both, image, 1)>>

ImagesNotes(d) ==
    [i \in 1..(11 + 4 * Pages) |->
        IF i <= 10 THEN ImagesHeadNotes(d)[i] ELSE PageWalkNotes(d)[((i - 11) % 4) + 1]]

(* BuildStructure: the trees under one hold of pdfMu, and the scan of a page. *)
TreeNotes(d) ==
    LET pdf == {<<"pdf", d>>}
        page == {<<"pdf", d>>, <<"page", d>>}
    IN  <<Nothing, Nothing, Holds(pdf, 0), Holds(page, 0), Builds(page, <<"page", d>>, 0),
          Builds(page, <<"page", d>>, 1), Holds(page, 1), Holds(pdf, 1), Holds(pdf, 2)>>

ScanNotes(d) ==
    LET pdf == {<<"pdf", d>>}
        stream == {<<"pdf", d>>, <<"stream", d>>}
    IN  <<Holds({}, 2), Holds({}, 0), Holds(pdf, 0), Holds(stream, 0), Holds(pdf, 0), Holds(pdf, 1)>>

(* BuildStructure inside a call that found the document first; what comes    *)
(* after the page scans starts like one more of them.                        *)
WalkNotes(d, i) ==
    IF i = 1 THEN Nothing
    ELSE IF i <= 10 THEN TreeNotes(d)[i - 1] ELSE ScanNotes(d)[((i - 11) % 6) + 1]

StructureNotes(d) == [i \in 1..(10 + 6 * Pages) |-> WalkNotes(d, i)]

ValidateNotes(d) ==
    [i \in 1..(12 + 6 * Pages) |-> IF i <= 11 + 6 * Pages THEN WalkNotes(d, i) ELSE Holds({<<"pdf", d>>}, 2)]

PlainTextNotes(d) ==
    LET plain == <<"plain", d>>
    IN  <<Nothing, Nothing, Holds({plain}, 0), Builds({plain}, plain, 0), Builds({plain}, plain, 0),
          Builds({plain}, plain, 1), Builds({plain}, plain, 1), Builds({plain}, plain, 2),
          Builds({plain}, plain, 2)>>

RenderNotes(d) ==
    LET pdf == {<<"pdf", d>>}
    IN  <<Nothing, Nothing, Nothing, Holds(pdf, 0), Holds(pdf, 0), Holds(pdf, 1)>>

DiffNotes(l, r) ==
    LET pl == <<"pdf", l>>
        pr == <<"pdf", r>>
    IN  IF l = r
        THEN <<Nothing, Nothing, Nothing, Holds({Order}, 0), Holds({Order, pl}, 0), Holds({pl}, 0), Holds({pl}, 0),
               Holds({pl}, 0), Holds({pl}, 1), Holds({pl}, 1), Holds({pl}, 2), Holds({pl}, 2)>>
        ELSE <<Nothing, Nothing, Nothing, Holds({Order}, 0), Holds({Order, pl}, 0), Holds({Order, pl, pr}, 0),
               Holds({pl, pr}, 0), Holds({pl, pr}, 0), Holds({pl, pr}, 0), Holds({pl, pr}, 1), Holds({pl, pr}, 1),
               Holds({pl, pr}, 2), Holds({pl, pr}, 2)>>

NotesOf(method, d, e) ==
    CASE method = "object" -> ObjectNotes(d)
      [] method = "pages" -> PageIndexNotes(d)
      [] method = "objects" -> CachedNotes(d, "object")
      [] method = "xref" -> CachedNotes(d, "xref")
      [] method = "stream" -> CachedNotes(d, "stream")
      [] method = "content" -> PageContentNotes(d)
      [] method = "reverse" -> ReverseRefsNotes(d)
      [] method = "images" -> ImagesNotes(d)
      [] method = "structure" -> StructureNotes(d)
      [] method = "validate" -> ValidateNotes(d)
      [] method = "plaintext" -> PlainTextNotes(d)
      [] method = "render" -> RenderNotes(d)
      [] method = "diff" -> DiffNotes(d, e)

(* The calls the frontend makes: only a diff names two documents. *)
Served == {c \in Methods \X Docs \X Docs : c[1] # "diff" => c[2] = c[3]}

Notes == [c \in Served |-> NotesOf(c[1], c[2], c[3])]

-----------------------------------------------------------------------------
(* The programs follow their notes: one lemma for each kind of step, then  *)
(* one for each program.                                                   *)

(* Each guarded cache has its mutex. *)
LEMMA CacheMutexes == Caches \subseteq Mutexes /\ Order \in Mutexes
BY DEF Caches, Mutexes, Order

(* The mutexes of a document are mutexes, and all but pdfMu guard a cache. *)
LEMMA DocMutexes ==
    ASSUME NEW d \in Docs, NEW k \in Kinds
    PROVE  <<k, d>> \in Mutexes /\ <<k, d>> # Order /\ (k # "pdf" => <<k, d>> \in Caches)
BY DEF Mutexes, Caches, Order, Kinds

(* Note a, field by field. *)
Says(a, held, empty, ready, work) ==
    a \in NoteSet /\ a.held = held /\ a.empty = empty /\ a.ready = ready /\ a.late = work

(* A note says what it was made of. *)
LEMMA NoteSays ==
    ASSUME NEW held \in SUBSET Mutexes, NEW empty \in SUBSET Caches, empty \subseteq held,
           NEW ready \in SUBSET Caches, NEW work \in Nat
    PROVE  Says(Note(held, empty, ready, work), held, empty, ready, work)
BY DEF Note, NoteSet, Says

(* How the notes before and after a step differ. *)
Same(a, b) == b.held = a.held /\ b.empty = a.empty /\ b.ready = a.ready
Waits(a, b) == Same(a, b) /\ a.late <= b.late
Worked(a, b) == Same(a, b) /\ a.late + 1 <= b.late
Takes(a, b, m) ==
    b.held = a.held \cup {m} /\ b.empty = a.empty /\ b.ready = a.ready /\ a.late <= b.late
Drops(a, b, m) ==
    b.held = a.held \ {m} /\ b.empty = a.empty /\ b.ready = a.ready /\ a.late <= b.late
FindsEmpty(a, b, c) ==
    b.held = a.held /\ b.empty = a.empty \cup {c} /\ b.ready = a.ready /\ a.late <= b.late
Filled(a, b, c) ==
    b.held = a.held /\ b.empty = a.empty \ {c} /\ b.ready \subseteq a.ready \cup {c} /\ a.late <= b.late

(* Finding a document, or looking whether it is closed, changes nothing. *)
LEMMA LookFollows ==
    ASSUME NEW p, NEW notes, NEW ds, NEW i \in Nat, NEW d, p[i] \in {Find(d), Check(d), Poll(d)},
           notes[i] \in NoteSet, i < Len(p) => Waits(notes[i], notes[i + 1])
    PROVE  Follows(p, notes, ds, i)
<1>1. p[i].op \in {"find", "check", "poll"} /\ p[i].n = 0
  BY DEF Find, Check, Poll, Step
<1>2. Allowed(p[i], notes[i], ds)
  BY <1>1 DEF Allowed
<1>3. i < Len(p) => Passes(p[i], notes[i], notes[i + 1], ds)
  BY <1>1 DEF Passes, Waits, Same
<1> QED
  BY <1>1, <1>2, <1>3 DEF Follows

(* A check of the only document of the call also shows that it is open. *)
LEMMA CheckFollows ==
    ASSUME NEW p, NEW notes, NEW i \in Nat, NEW d, p[i] = Check(d),
           notes[i] \in NoteSet, i < Len(p) => Same(notes[i], notes[i + 1])
    PROVE  Follows(p, notes, {d}, i)
<1>1. p[i].op = "check" /\ p[i].on = d /\ p[i].n = 0
  BY DEF Check, Step
<1>2. Allowed(p[i], notes[i], {d})
  BY <1>1 DEF Allowed
<1>3. i < Len(p) => Passes(p[i], notes[i], notes[i + 1], {d})
  BY <1>1 DEF Passes, Same
<1> QED
  BY <1>1, <1>2, <1>3 DEF Follows

(* Lock adds the mutex to what is held. *)
LEMMA LockFollows ==
    ASSUME NEW p, NEW notes, NEW ds, NEW i \in Nat, NEW m, p[i] = Lock(m), i < Len(p),
           notes[i] \in NoteSet, InLockOrder(m, notes[i].held), Takes(notes[i], notes[i + 1], m)
    PROVE  Follows(p, notes, ds, i)
<1>1. p[i].op = "lock" /\ p[i].on = m /\ p[i].n = 0
  BY DEF Lock, Step
<1>2. Allowed(p[i], notes[i], ds)
  BY <1>1 DEF Allowed
<1>3. Passes(p[i], notes[i], notes[i + 1], ds)
  <2>1. PICK a, b : a = notes[i] /\ b = notes[i + 1]
    OBVIOUS
  <2>2. Passes(p[i], a, b, ds)
    BY <1>1, <2>1 DEF Passes, Takes
  <2> QED
    BY <2>1, <2>2
<1> QED
  BY <1>1, <1>2, <1>3 DEF Follows

(* Unlock takes it away again. *)
LEMMA UnlockFollows ==
    ASSUME NEW p, NEW notes, NEW ds, NEW i \in Nat, NEW m, p[i] = Unlock(m),
           notes[i] \in NoteSet, m \in notes[i].held, i < Len(p) => Drops(notes[i], notes[i + 1], m)
    PROVE  Follows(p, notes, ds, i)
<1>1. p[i].op = "unlock" /\ p[i].on = m /\ p[i].n = 0
  BY DEF Unlock, Step
<1>2. Allowed(p[i], notes[i], ds)
  BY <1>1 DEF Allowed
<1>3. i < Len(p) => Passes(p[i], notes[i], notes[i + 1], ds)
  BY <1>1 DEF Passes, Drops
<1> QED
  BY <1>1, <1>2, <1>3 DEF Follows

(* Work counts once; where a panic is recovered, nothing is held. *)
LEMMA WorkFollows ==
    ASSUME NEW p, NEW notes, NEW ds, NEW i \in Nat, NEW d, NEW n \in Nat, p[i] = WorkOr(d, n),
           notes[i] \in NoteSet, d \in Docs => d \in ds /\ <<"pdf", d>> \in notes[i].held,
           i < Len(p) => Worked(notes[i], notes[i + 1]),
           n > 0 => i + n <= Len(p) /\ Rescued(notes[i], notes[i + n])
    PROVE  Follows(p, notes, ds, i)
<1>1. p[i].op = "work" /\ p[i].on = d /\ p[i].n = n
  BY DEF WorkOr, Step
<1>2. Allowed(p[i], notes[i], ds)
  BY <1>1 DEF Allowed
<1>3. i < Len(p) => Passes(p[i], notes[i], notes[i + 1], ds)
  BY <1>1 DEF Passes, Worked, Same
<1> QED
  BY <1>1, <1>2, <1>3 DEF Follows

(* Work outside pdfcpu needs no lock. *)
LEMMA FileWorkFollows ==
    ASSUME NEW p, NEW notes, NEW ds, NEW i \in Nat, p[i] = WorkOr(Read, 0),
           notes[i] \in NoteSet, i < Len(p) => Worked(notes[i], notes[i + 1])
    PROVE  Follows(p, notes, ds, i)
<1>1. p[i].op = "work" /\ p[i].on = Read /\ p[i].n = 0 /\ Read \notin Docs
  BY DocsAssumption DEF WorkOr, Step
<1>2. Allowed(p[i], notes[i], ds)
  BY <1>1 DEF Allowed
<1>3. i < Len(p) => Passes(p[i], notes[i], notes[i + 1], ds)
  BY <1>1 DEF Passes, Worked, Same
<1> QED
  BY <1>1, <1>2, <1>3 DEF Follows

(* A skip finds the cache empty, or jumps to where it is filled. *)
LEMMA SkipFollows ==
    ASSUME NEW p, NEW notes, NEW ds, NEW i \in Nat, NEW c \in Caches, NEW n \in Nat, p[i] = Skip(c, n),
           notes[i] \in NoteSet, c \in notes[i].held, i < Len(p) => FindsEmpty(notes[i], notes[i + 1], c),
           i + 1 + n <= Len(p) => Filled(notes[i], notes[i + 1 + n], c)
    PROVE  Follows(p, notes, ds, i)
<1>1. p[i].op = "skip" /\ p[i].on = c /\ p[i].n = n
  BY DEF Skip, Step
<1>2. Allowed(p[i], notes[i], ds)
  BY <1>1 DEF Allowed
<1>3. i < Len(p) => Passes(p[i], notes[i], notes[i + 1], ds)
  BY <1>1 DEF Passes, FindsEmpty
<1>4. i + 1 + n <= Len(p) => Jumps(p[i], notes[i], notes[i + 1 + n])
  BY <1>1 DEF Jumps, Filled
<1> QED
  BY <1>1, <1>2, <1>3, <1>4 DEF Follows

(* A fill is done once, by the call that found the cache empty. *)
LEMMA FillFollows ==
    ASSUME NEW p, NEW notes, NEW ds, NEW i \in Nat, NEW c, p[i] = Fill(c),
           notes[i] \in NoteSet, c \in notes[i].empty, i < Len(p) => Filled(notes[i], notes[i + 1], c)
    PROVE  Follows(p, notes, ds, i)
<1>1. p[i].op = "fill" /\ p[i].on = c /\ p[i].n = 0
  BY DEF Fill, Step
<1>2. Allowed(p[i], notes[i], ds)
  BY <1>1 DEF Allowed
<1>3. i < Len(p) => Passes(p[i], notes[i], notes[i + 1], ds)
  BY <1>1 DEF Passes, Filled
<1> QED
  BY <1>1, <1>2, <1>3 DEF Follows

(* The build of the reverse references, which may fail for good. *)
LEMMA OnceFollows ==
    ASSUME NEW p, NEW notes, NEW ds, NEW i \in Nat, NEW c, p[i] = Step("once", c, 0),
           notes[i] \in NoteSet, c \in notes[i].empty, <<"pdf", c[2]>> \in notes[i].held,
           i < Len(p) => Worked(notes[i], notes[i + 1]),
           i + 2 <= Len(p) => Filled(notes[i], notes[i + 2], c)
    PROVE  Follows(p, notes, ds, i)
<1>1. p[i].op = "once" /\ p[i].on = c /\ p[i].n = 0
  BY DEF Step
<1>2. Allowed(p[i], notes[i], ds)
  BY <1>1 DEF Allowed
<1>3. i < Len(p) => Passes(p[i], notes[i], notes[i + 1], ds)
  BY <1>1 DEF Passes, Worked, Same
<1>4. i + 2 <= Len(p) => Jumps(p[i], notes[i], notes[i + 2])
  BY <1>1 DEF Jumps, Filled
<1> QED
  BY <1>1, <1>2, <1>3, <1>4 DEF Follows

(* The answer, the last step of a call. *)
LEMMA AnswerFollows ==
    ASSUME NEW p, NEW notes, NEW ds, NEW i \in Nat, NEW c, p[i] = Step("answer", c, 0),
           notes[i] \in NoteSet, c \in notes[i].ready, ~(i < Len(p))
    PROVE  Follows(p, notes, ds, i)
<1>1. p[i].op = "answer" /\ p[i].on = c /\ p[i].n = 0
  BY DEF Step
<1>2. Allowed(p[i], notes[i], ds)
  BY <1>1 DEF Allowed
<1> QED
  BY <1>1, <1>2 DEF Follows

(* GetTreeRoot, GetChildren, GetObjectDetail, ... *)
LEMMA ObjectFollows ==
    ASSUME NEW d \in Docs
    PROVE  Disciplined(Object(d), ObjectNotes(d), {d})
<1>1. PICK p, n, pdf :
          /\ p = Object(d) /\ n = ObjectNotes(d) /\ pdf = <<"pdf", d>>
  OBVIOUS
<1>2. /\ Len(p) = 3 /\ p[1] = Find(d) /\ p[2] = Lock(pdf) /\ p[3] = WorkOr(d, 0)
  BY <1>1 DEF Object, Work, WorkOr
<1>3. /\ pdf \in Mutexes /\ pdf[1] = "pdf"
  BY <1>1, DocMutexes, CacheMutexes DEF Kinds, Order
<1>4. /\ n[1] = Nothing /\ Says(n[1], {}, {}, {}, 0) /\ Says(n[2], {}, {}, {}, 0)
      /\ Says(n[3], {pdf}, {}, {}, 0)
  BY <1>1, <1>3, NoteSays DEF ObjectNotes, Nothing, Holds
<1>5. /\ n[1] \in NoteSet /\ n[2] \in NoteSet /\ n[3] \in NoteSet
  BY <1>4 DEF Says
<1>6. /\ Waits(n[1], n[2]) /\ Takes(n[2], n[3], pdf) /\ pdf \in n[3].held
  BY <1>3, <1>4 DEF Says, Same, Waits, Worked, Takes, Drops, FindsEmpty, Filled
<1>7. /\ InLockOrder(pdf, n[2].held)
  BY <1>3, <1>4 DEF InLockOrder, Says, Inner, Outer
<1>8. Follows(p, n, {d}, 1)
  <2>1. /\ 1 < Len(p) /\ p[1] = Find(d) /\ n[1] \in NoteSet /\ Waits(n[1], n[2])
    BY <1>2, <1>5, <1>6
  <2> QED
    BY <2>1, LookFollows
<1>9. Follows(p, n, {d}, 2)
  <2>1. /\ 2 < Len(p) /\ p[2] = Lock(pdf) /\ n[2] \in NoteSet /\ Takes(n[2], n[3], pdf)
        /\ InLockOrder(pdf, n[2].held)
    BY <1>2, <1>5, <1>6, <1>7
  <2> QED
    BY <2>1, LockFollows
<1>10. Follows(p, n, {d}, 3)
  <2>1. /\ ~(3 < Len(p)) /\ p[3] = WorkOr(d, 0) /\ n[3] \in NoteSet /\ d \in {d} /\ <<"pdf", d>> \in n[3].held
    BY <1>1, <1>2, <1>5, <1>6
  <2> QED
    BY <2>1, WorkFollows
<1>11. \A i \in 1..Len(p) : Follows(p, n, {d}, i)
  <2> SUFFICES ASSUME NEW i \in 1..3 PROVE Follows(p, n, {d}, i)
    BY <1>2
  <2> QED
    BY <1>8, <1>9, <1>10
<1> QED
  BY <1>1, <1>2, <1>4, <1>11 DEF Disciplined

(* GetObjectIndex, GetXRefTable, GetContentStream *)
LEMMA CachedFollows ==
    ASSUME NEW d \in Docs, NEW k \in {"object", "xref", "stream"}
    PROVE  Disciplined(Cached(d, k), CachedNotes(d, k), {d})
<1>1. PICK p, n, pdf, own :
          /\ p = Cached(d, k) /\ n = CachedNotes(d, k) /\ pdf = <<"pdf", d>> /\ own = <<k, d>>
  OBVIOUS
<1>2. /\ Len(p) = 6 /\ p[1] = Find(d) /\ p[2] = Lock(pdf) /\ p[3] = Lock(own) /\ p[4] = Skip(own, 2)
      /\ p[5] = WorkOr(d, 0) /\ p[6] = Fill(own)
  BY <1>1 DEF Cached, Work, WorkOr
<1>3. /\ pdf \in Mutexes /\ pdf[1] = "pdf" /\ own \in Mutexes /\ own[1] = k /\ own \in Caches /\ pdf # own
  BY <1>1, DocMutexes, CacheMutexes DEF Kinds, Order
<1>4. /\ n[1] = Nothing /\ Says(n[1], {}, {}, {}, 0) /\ Says(n[2], {}, {}, {}, 0)
      /\ Says(n[3], {pdf}, {}, {}, 0) /\ Says(n[4], {pdf, own}, {}, {}, 0)
      /\ Says(n[5], {pdf, own}, {own}, {}, 0) /\ Says(n[6], {pdf, own}, {own}, {}, 1)
  BY <1>1, <1>3, NoteSays DEF CachedNotes, Nothing, Holds, Builds
<1>5. /\ n[1] \in NoteSet /\ n[2] \in NoteSet /\ n[3] \in NoteSet /\ n[4] \in NoteSet /\ n[5] \in NoteSet
      /\ n[6] \in NoteSet
  BY <1>4 DEF Says
<1>6. /\ Waits(n[1], n[2]) /\ Takes(n[2], n[3], pdf) /\ Takes(n[3], n[4], own) /\ FindsEmpty(n[4], n[5], own)
      /\ own \in n[4].held /\ Worked(n[5], n[6]) /\ pdf \in n[5].held /\ own \in n[6].empty
  BY <1>3, <1>4 DEF Says, Same, Waits, Worked, Takes, Drops, FindsEmpty, Filled
<1>7. /\ InLockOrder(pdf, n[2].held) /\ InLockOrder(own, n[3].held)
  BY <1>3, <1>4 DEF InLockOrder, Says, Inner, Outer
<1>8. Follows(p, n, {d}, 1)
  <2>1. /\ 1 < Len(p) /\ p[1] = Find(d) /\ n[1] \in NoteSet /\ Waits(n[1], n[2])
    BY <1>2, <1>5, <1>6
  <2> QED
    BY <2>1, LookFollows
<1>9. Follows(p, n, {d}, 2)
  <2>1. /\ 2 < Len(p) /\ p[2] = Lock(pdf) /\ n[2] \in NoteSet /\ Takes(n[2], n[3], pdf)
        /\ InLockOrder(pdf, n[2].held)
    BY <1>2, <1>5, <1>6, <1>7
  <2> QED
    BY <2>1, LockFollows
<1>10. Follows(p, n, {d}, 3)
  <2>1. /\ 3 < Len(p) /\ p[3] = Lock(own) /\ n[3] \in NoteSet /\ Takes(n[3], n[4], own)
        /\ InLockOrder(own, n[3].held)
    BY <1>2, <1>5, <1>6, <1>7
  <2> QED
    BY <2>1, LockFollows
<1>11. Follows(p, n, {d}, 4)
  <2>1. /\ 4 < Len(p) /\ p[4] = Skip(own, 2) /\ n[4] \in NoteSet /\ FindsEmpty(n[4], n[5], own)
        /\ own \in n[4].held /\ own \in Caches /\ ~(7 <= Len(p))
    BY <1>2, <1>3, <1>5, <1>6
  <2> QED
    BY <2>1, SkipFollows
<1>12. Follows(p, n, {d}, 5)
  <2>1. /\ 5 < Len(p) /\ p[5] = WorkOr(d, 0) /\ n[5] \in NoteSet /\ Worked(n[5], n[6])
        /\ d \in {d} /\ <<"pdf", d>> \in n[5].held
    BY <1>1, <1>2, <1>5, <1>6
  <2> QED
    BY <2>1, WorkFollows
<1>13. Follows(p, n, {d}, 6)
  <2>1. /\ ~(6 < Len(p)) /\ p[6] = Fill(own) /\ n[6] \in NoteSet /\ own \in n[6].empty
    BY <1>2, <1>5, <1>6
  <2> QED
    BY <2>1, FillFollows
<1>14. \A i \in 1..Len(p) : Follows(p, n, {d}, i)
  <2> SUFFICES ASSUME NEW i \in 1..6 PROVE Follows(p, n, {d}, i)
    BY <1>2
  <2> QED
    BY <1>8, <1>9, <1>10, <1>11, <1>12, <1>13
<1> QED
  BY <1>1, <1>2, <1>4, <1>14 DEF Disciplined

(* The steps of the calls. *)
Ops == {"find", "lock", "unlock", "skip", "work", "once", "fill", "answer", "check", "poll"}
Steps == [op: Ops, on: Docs \cup Mutexes \cup {Read}, n: Nat]

(* Every step is one of them. *)
LEMMA StepTypes ==
    ASSUME NEW d \in Docs \cup {Read}, NEW m \in Mutexes, NEW k \in Nat
    PROVE  /\ Find(d) \in Steps /\ Check(d) \in Steps /\ Poll(d) \in Steps
           /\ WorkOr(d, k) \in Steps /\ Work(d) \in Steps
           /\ Lock(m) \in Steps /\ Unlock(m) \in Steps /\ Skip(m, k) \in Steps /\ Fill(m) \in Steps
<1>1. \A op \in Ops, on \in Docs \cup Mutexes \cup {Read}, j \in Nat : Step(op, on, j) \in Steps
  BY DEF Step, Steps
<1>2. d \in Docs \cup Mutexes \cup {Read} /\ m \in Docs \cup Mutexes \cup {Read}
  OBVIOUS
<1>3. /\ Find(d) \in Steps /\ Check(d) \in Steps /\ Poll(d) \in Steps
      /\ WorkOr(d, k) \in Steps /\ Work(d) \in Steps
  BY <1>1, <1>2 DEF Ops, Find, Check, Poll, WorkOr, Work
<1>4. Lock(m) \in Steps /\ Unlock(m) \in Steps /\ Skip(m, k) \in Steps /\ Fill(m) \in Steps
  BY <1>1, <1>2 DEF Ops, Lock, Unlock, Skip, Fill
<1> QED
  BY <1>3, <1>4

(* The steps p are the j steps a and then the k steps b. *)
Joins(p, a, b, j, k) ==
    /\ p \in Seq(Steps) /\ Len(p) = j + k
    /\ \A i \in 1..(j + k) : p[i] = IF i <= j THEN a[i] ELSE b[i - j]

(* One sequence of steps after the other. *)
LEMMA Joined ==
    ASSUME NEW a \in Seq(Steps), NEW b \in Seq(Steps), NEW j, NEW k, Len(a) = j, Len(b) = k
    PROVE  Joins(a \o b, a, b, j, k)
BY ConcatProperties, Zenon DEF Joins

(* DocumentState.pageTree, step by step. *)
LEMMA PageTreeSteps ==
    ASSUME NEW d \in Docs, NEW k \in Nat
    PROVE  /\ PageTree(d, k) \in Seq(Steps) /\ Len(PageTree(d, k)) = 5
           /\ PageTree(d, k)[1] = Lock(<<"page", d>>) /\ PageTree(d, k)[2] = Skip(<<"page", d>>, 2)
           /\ PageTree(d, k)[3] = WorkOr(d, k) /\ PageTree(d, k)[4] = Fill(<<"page", d>>)
           /\ PageTree(d, k)[5] = Unlock(<<"page", d>>)
<1>1. <<"page", d>> \in Mutexes
  BY DocMutexes DEF Kinds
<1>2. /\ Lock(<<"page", d>>) \in Steps /\ Skip(<<"page", d>>, 2) \in Steps /\ WorkOr(d, k) \in Steps
      /\ Fill(<<"page", d>>) \in Steps /\ Unlock(<<"page", d>>) \in Steps
  BY <1>1, StepTypes
<1> QED
  BY <1>2 DEF PageTree

(* GetPageIndex, step by step. *)
LEMMA PageIndexSteps ==
    ASSUME NEW d \in Docs
    PROVE  /\ PageIndex(d) \in Seq(Steps) /\ Len(PageIndex(d)) = 8
           /\ PageIndex(d)[1] = Find(d) /\ PageIndex(d)[2] = Lock(<<"pdf", d>>)
           /\ PageIndex(d)[3] = Lock(<<"page", d>>) /\ PageIndex(d)[4] = Skip(<<"page", d>>, 2)
           /\ PageIndex(d)[5] = WorkOr(d, 0) /\ PageIndex(d)[6] = Fill(<<"page", d>>)
           /\ PageIndex(d)[7] = Unlock(<<"page", d>>) /\ PageIndex(d)[8] = WorkOr(d, 0)
<1>1. PICK a, b, c : a = <<Find(d), Lock(<<"pdf", d>>)>> /\ b = PageTree(d, 0) /\ c = <<Work(d)>>
  OBVIOUS
<1>2. <<"pdf", d>> \in Mutexes
  BY DocMutexes DEF Kinds
<1>3. /\ a \in Seq(Steps) /\ Len(a) = 2 /\ a[1] = Find(d) /\ a[2] = Lock(<<"pdf", d>>)
      /\ c \in Seq(Steps) /\ Len(c) = 1 /\ c[1] = WorkOr(d, 0)
  <2>1. Find(d) \in Steps /\ Lock(<<"pdf", d>>) \in Steps /\ Work(d) \in Steps /\ Work(d) = WorkOr(d, 0)
    BY <1>2, StepTypes DEF Work, WorkOr
  <2> QED
    BY <1>1, <2>1
<1>4. b \in Seq(Steps) /\ Len(b) = 5
  BY <1>1, PageTreeSteps
<1>5. PICK ab : ab = a \o b /\ Joins(ab, a, b, 2, 5)
  BY <1>3, <1>4, Joined
<1>6. ab \in Seq(Steps) /\ Len(ab) = 7
  BY <1>5 DEF Joins
<1>7. PICK p : p = ab \o c /\ Joins(p, ab, c, 7, 1)
  BY <1>3, <1>6, Joined
<1>8. p = PageIndex(d)
  BY <1>1, <1>5, <1>7 DEF PageIndex
<1>9. p \in Seq(Steps) /\ Len(p) = 8
  BY <1>7 DEF Joins
<1>10. p[1] = a[1] /\ p[2] = a[2] /\ p[8] = c[1]
  BY <1>5, <1>7 DEF Joins
<1>11. p[3] = b[1] /\ p[4] = b[2] /\ p[5] = b[3] /\ p[6] = b[4] /\ p[7] = b[5]
  BY SMTT(60), <1>5, <1>7 DEF Joins
<1> QED
  BY <1>1, <1>3, <1>8, <1>9, <1>10, <1>11, PageTreeSteps

(* GetPageIndex, GetPageNode, PageRenderInfo *)
LEMMA PageIndexFollows ==
    ASSUME NEW d \in Docs
    PROVE  Disciplined(PageIndex(d), PageIndexNotes(d), {d})
<1>1. PICK p, n, pdf, page :
          /\ p = PageIndex(d) /\ n = PageIndexNotes(d) /\ pdf = <<"pdf", d>> /\ page = <<"page", d>>
  OBVIOUS
<1>2. /\ Len(p) = 8 /\ p[1] = Find(d) /\ p[2] = Lock(pdf) /\ p[3] = Lock(page) /\ p[4] = Skip(page, 2)
      /\ p[5] = WorkOr(d, 0) /\ p[6] = Fill(page) /\ p[7] = Unlock(page) /\ p[8] = WorkOr(d, 0)
  BY <1>1, PageIndexSteps
<1>3. /\ pdf \in Mutexes /\ pdf[1] = "pdf" /\ page \in Mutexes /\ page[1] = "page" /\ page \in Caches
      /\ pdf # page
  BY <1>1, DocMutexes, CacheMutexes DEF Kinds, Order
<1>4. /\ n[1] = Nothing /\ Says(n[1], {}, {}, {}, 0) /\ Says(n[2], {}, {}, {}, 0)
      /\ Says(n[3], {pdf}, {}, {}, 0) /\ Says(n[4], {pdf, page}, {}, {}, 0)
      /\ Says(n[5], {pdf, page}, {page}, {}, 0) /\ Says(n[6], {pdf, page}, {page}, {}, 1)
      /\ Says(n[7], {pdf, page}, {}, {}, 1) /\ Says(n[8], {pdf}, {}, {}, 1)
  BY <1>1, <1>3, NoteSays DEF PageIndexNotes, Nothing, Holds, Builds
<1>5. /\ n[1] \in NoteSet /\ n[2] \in NoteSet /\ n[3] \in NoteSet /\ n[4] \in NoteSet /\ n[5] \in NoteSet
      /\ n[6] \in NoteSet /\ n[7] \in NoteSet /\ n[8] \in NoteSet
  BY <1>4 DEF Says
<1>6. /\ Waits(n[1], n[2]) /\ Takes(n[2], n[3], pdf) /\ Takes(n[3], n[4], page) /\ FindsEmpty(n[4], n[5], page)
      /\ page \in n[4].held /\ Filled(n[4], n[7], page) /\ Worked(n[5], n[6]) /\ pdf \in n[5].held
      /\ Filled(n[6], n[7], page) /\ page \in n[6].empty /\ Drops(n[7], n[8], page) /\ page \in n[7].held
      /\ pdf \in n[8].held
  BY <1>3, <1>4 DEF Says, Same, Waits, Worked, Takes, Drops, FindsEmpty, Filled
<1>7. /\ InLockOrder(pdf, n[2].held) /\ InLockOrder(page, n[3].held)
  BY <1>3, <1>4 DEF InLockOrder, Says, Inner, Outer
<1>8. Follows(p, n, {d}, 1)
  <2>1. /\ 1 < Len(p) /\ p[1] = Find(d) /\ n[1] \in NoteSet /\ Waits(n[1], n[2])
    BY <1>2, <1>5, <1>6
  <2> QED
    BY <2>1, LookFollows
<1>9. Follows(p, n, {d}, 2)
  <2>1. /\ 2 < Len(p) /\ p[2] = Lock(pdf) /\ n[2] \in NoteSet /\ Takes(n[2], n[3], pdf)
        /\ InLockOrder(pdf, n[2].held)
    BY <1>2, <1>5, <1>6, <1>7
  <2> QED
    BY <2>1, LockFollows
<1>10. Follows(p, n, {d}, 3)
  <2>1. /\ 3 < Len(p) /\ p[3] = Lock(page) /\ n[3] \in NoteSet /\ Takes(n[3], n[4], page)
        /\ InLockOrder(page, n[3].held)
    BY <1>2, <1>5, <1>6, <1>7
  <2> QED
    BY <2>1, LockFollows
<1>11. Follows(p, n, {d}, 4)
  <2>1. /\ 4 < Len(p) /\ p[4] = Skip(page, 2) /\ n[4] \in NoteSet /\ FindsEmpty(n[4], n[5], page)
        /\ page \in n[4].held /\ page \in Caches /\ Filled(n[4], n[7], page)
    BY <1>2, <1>3, <1>5, <1>6
  <2> QED
    BY <2>1, SkipFollows
<1>12. Follows(p, n, {d}, 5)
  <2>1. /\ 5 < Len(p) /\ p[5] = WorkOr(d, 0) /\ n[5] \in NoteSet /\ Worked(n[5], n[6])
        /\ d \in {d} /\ <<"pdf", d>> \in n[5].held
    BY <1>1, <1>2, <1>5, <1>6
  <2> QED
    BY <2>1, WorkFollows
<1>13. Follows(p, n, {d}, 6)
  <2>1. /\ 6 < Len(p) /\ p[6] = Fill(page) /\ n[6] \in NoteSet /\ Filled(n[6], n[7], page)
        /\ page \in n[6].empty
    BY <1>2, <1>5, <1>6
  <2> QED
    BY <2>1, FillFollows
<1>14. Follows(p, n, {d}, 7)
  <2>1. /\ 7 < Len(p) /\ p[7] = Unlock(page) /\ n[7] \in NoteSet /\ Drops(n[7], n[8], page)
        /\ page \in n[7].held
    BY <1>2, <1>5, <1>6
  <2> QED
    BY <2>1, UnlockFollows
<1>15. Follows(p, n, {d}, 8)
  <2>1. /\ ~(8 < Len(p)) /\ p[8] = WorkOr(d, 0) /\ n[8] \in NoteSet /\ d \in {d} /\ <<"pdf", d>> \in n[8].held
    BY <1>1, <1>2, <1>5, <1>6
  <2> QED
    BY <2>1, WorkFollows
<1>16. \A i \in 1..Len(p) : Follows(p, n, {d}, i)
  <2> SUFFICES ASSUME NEW i \in 1..8 PROVE Follows(p, n, {d}, i)
    BY <1>2
  <2> QED
    BY <1>8, <1>9, <1>10, <1>11, <1>12, <1>13, <1>14, <1>15
<1> QED
  BY <1>1, <1>2, <1>4, <1>16 DEF Disciplined

(* GetReverseRefs *)
LEMMA ReverseRefsFollows ==
    ASSUME NEW d \in Docs
    PROVE  Disciplined(ReverseRefs(d), ReverseRefsNotes(d), {d})
<1>1. PICK p, n, pdf, once :
          /\ p = ReverseRefs(d) /\ n = ReverseRefsNotes(d) /\ pdf = <<"pdf", d>> /\ once = <<"once", d>>
  OBVIOUS
<1>2. /\ Len(p) = 10 /\ p[1] = Find(d) /\ p[2] = Lock(once) /\ p[3] = Skip(once, 4) /\ p[4] = Lock(pdf)
      /\ p[5] = Step("once", once, 0) /\ p[6] = Fill(once) /\ p[7] = Unlock(pdf) /\ p[8] = Unlock(once)
      /\ p[9] = Lock(pdf) /\ p[10] = Step("answer", once, 0)
  BY <1>1 DEF ReverseRefs
<1>3. /\ pdf \in Mutexes /\ pdf[1] = "pdf" /\ once \in Mutexes /\ once[1] = "once" /\ once \in Caches
      /\ pdf # once
  BY <1>1, DocMutexes, CacheMutexes DEF Kinds, Order
<1>4. /\ n[1] = Nothing /\ Says(n[1], {}, {}, {}, 0) /\ Says(n[2], {}, {}, {}, 0)
      /\ Says(n[3], {once}, {}, {}, 0) /\ Says(n[4], {once}, {once}, {}, 0)
      /\ Says(n[5], {once, pdf}, {once}, {}, 0) /\ Says(n[6], {once, pdf}, {once}, {}, 1)
      /\ Says(n[7], {once, pdf}, {}, {once}, 1) /\ Says(n[8], {once}, {}, {once}, 1)
      /\ Says(n[9], {}, {}, {once}, 1) /\ Says(n[10], {pdf}, {}, {once}, 1)
  BY <1>1, <1>3, NoteSays DEF ReverseRefsNotes, Nothing, Holds, Builds
<1>5. /\ n[1] \in NoteSet /\ n[2] \in NoteSet /\ n[3] \in NoteSet /\ n[4] \in NoteSet /\ n[5] \in NoteSet
      /\ n[6] \in NoteSet /\ n[7] \in NoteSet /\ n[8] \in NoteSet /\ n[9] \in NoteSet /\ n[10] \in NoteSet
  BY <1>4 DEF Says
<1>6. /\ Waits(n[1], n[2]) /\ Takes(n[2], n[3], once) /\ FindsEmpty(n[3], n[4], once) /\ once \in n[3].held
      /\ Filled(n[3], n[8], once) /\ Takes(n[4], n[5], pdf) /\ Worked(n[5], n[6]) /\ once \in n[5].empty
      /\ Filled(n[5], n[7], once) /\ pdf \in n[5].held /\ Filled(n[6], n[7], once) /\ once \in n[6].empty
      /\ Drops(n[7], n[8], pdf) /\ pdf \in n[7].held /\ Drops(n[8], n[9], once) /\ once \in n[8].held
      /\ Takes(n[9], n[10], pdf) /\ once \in n[10].ready
  BY <1>3, <1>4 DEF Says, Same, Waits, Worked, Takes, Drops, FindsEmpty, Filled
<1>7. /\ InLockOrder(once, n[2].held) /\ InLockOrder(pdf, n[4].held) /\ InLockOrder(pdf, n[9].held)
  BY <1>3, <1>4 DEF InLockOrder, Says, Inner, Outer
<1>8. Follows(p, n, {d}, 1)
  <2>1. /\ 1 < Len(p) /\ p[1] = Find(d) /\ n[1] \in NoteSet /\ Waits(n[1], n[2])
    BY <1>2, <1>5, <1>6
  <2> QED
    BY <2>1, LookFollows
<1>9. Follows(p, n, {d}, 2)
  <2>1. /\ 2 < Len(p) /\ p[2] = Lock(once) /\ n[2] \in NoteSet /\ Takes(n[2], n[3], once)
        /\ InLockOrder(once, n[2].held)
    BY <1>2, <1>5, <1>6, <1>7
  <2> QED
    BY <2>1, LockFollows
<1>10. Follows(p, n, {d}, 3)
  <2>1. /\ 3 < Len(p) /\ p[3] = Skip(once, 4) /\ n[3] \in NoteSet /\ FindsEmpty(n[3], n[4], once)
        /\ once \in n[3].held /\ once \in Caches /\ Filled(n[3], n[8], once)
    BY <1>2, <1>3, <1>5, <1>6
  <2> QED
    BY <2>1, SkipFollows
<1>11. Follows(p, n, {d}, 4)
  <2>1. /\ 4 < Len(p) /\ p[4] = Lock(pdf) /\ n[4] \in NoteSet /\ Takes(n[4], n[5], pdf)
        /\ InLockOrder(pdf, n[4].held)
    BY <1>2, <1>5, <1>6, <1>7
  <2> QED
    BY <2>1, LockFollows
<1>12. Follows(p, n, {d}, 5)
  <2>1. /\ 5 < Len(p) /\ p[5] = Step("once", once, 0) /\ n[5] \in NoteSet /\ Worked(n[5], n[6])
        /\ once \in n[5].empty /\ <<"pdf", once[2]>> \in n[5].held /\ Filled(n[5], n[7], once)
    BY <1>1, <1>2, <1>5, <1>6
  <2> QED
    BY <2>1, OnceFollows
<1>13. Follows(p, n, {d}, 6)
  <2>1. /\ 6 < Len(p) /\ p[6] = Fill(once) /\ n[6] \in NoteSet /\ Filled(n[6], n[7], once)
        /\ once \in n[6].empty
    BY <1>2, <1>5, <1>6
  <2> QED
    BY <2>1, FillFollows
<1>14. Follows(p, n, {d}, 7)
  <2>1. /\ 7 < Len(p) /\ p[7] = Unlock(pdf) /\ n[7] \in NoteSet /\ Drops(n[7], n[8], pdf) /\ pdf \in n[7].held
    BY <1>2, <1>5, <1>6
  <2> QED
    BY <2>1, UnlockFollows
<1>15. Follows(p, n, {d}, 8)
  <2>1. /\ 8 < Len(p) /\ p[8] = Unlock(once) /\ n[8] \in NoteSet /\ Drops(n[8], n[9], once)
        /\ once \in n[8].held
    BY <1>2, <1>5, <1>6
  <2> QED
    BY <2>1, UnlockFollows
<1>16. Follows(p, n, {d}, 9)
  <2>1. /\ 9 < Len(p) /\ p[9] = Lock(pdf) /\ n[9] \in NoteSet /\ Takes(n[9], n[10], pdf)
        /\ InLockOrder(pdf, n[9].held)
    BY <1>2, <1>5, <1>6, <1>7
  <2> QED
    BY <2>1, LockFollows
<1>17. Follows(p, n, {d}, 10)
  <2>1. /\ ~(10 < Len(p)) /\ p[10] = Step("answer", once, 0) /\ n[10] \in NoteSet /\ once \in n[10].ready
    BY <1>2, <1>5, <1>6
  <2> QED
    BY <2>1, AnswerFollows
<1>18. \A i \in 1..Len(p) : Follows(p, n, {d}, i)
  <2> SUFFICES ASSUME NEW i \in 1..10 PROVE Follows(p, n, {d}, i)
    BY <1>2
  <2> QED
    BY <1>8, <1>9, <1>10, <1>11, <1>12, <1>13, <1>14, <1>15, <1>16, <1>17
<1> QED
  BY <1>1, <1>2, <1>4, <1>18 DEF Disciplined

(* GetImageData, GetImageBytes *)
LEMMA RenderFollows ==
    ASSUME NEW d \in Docs
    PROVE  Disciplined(Render(d), RenderNotes(d), {d})
<1>1. PICK p, n, pdf :
          /\ p = Render(d) /\ n = RenderNotes(d) /\ pdf = <<"pdf", d>>
  OBVIOUS
<1>2. /\ Len(p) = 6 /\ p[1] = Find(d) /\ p[2] = Poll(d) /\ p[3] = Lock(pdf) /\ p[4] = Poll(d)
      /\ p[5] = WorkOr(d, 0) /\ p[6] = Poll(d)
  BY <1>1 DEF Render, Work, WorkOr
<1>3. /\ pdf \in Mutexes /\ pdf[1] = "pdf"
  BY <1>1, DocMutexes, CacheMutexes DEF Kinds, Order
<1>4. /\ n[1] = Nothing /\ Says(n[1], {}, {}, {}, 0) /\ Says(n[2], {}, {}, {}, 0) /\ Says(n[3], {}, {}, {}, 0)
      /\ Says(n[4], {pdf}, {}, {}, 0) /\ Says(n[5], {pdf}, {}, {}, 0) /\ Says(n[6], {pdf}, {}, {}, 1)
  BY <1>1, <1>3, NoteSays DEF RenderNotes, Nothing, Holds
<1>5. /\ n[1] \in NoteSet /\ n[2] \in NoteSet /\ n[3] \in NoteSet /\ n[4] \in NoteSet /\ n[5] \in NoteSet
      /\ n[6] \in NoteSet
  BY <1>4 DEF Says
<1>6. /\ Waits(n[1], n[2]) /\ Waits(n[2], n[3]) /\ Takes(n[3], n[4], pdf) /\ Waits(n[4], n[5])
      /\ Worked(n[5], n[6]) /\ pdf \in n[5].held
  BY <1>3, <1>4 DEF Says, Same, Waits, Worked, Takes, Drops, FindsEmpty, Filled
<1>7. /\ InLockOrder(pdf, n[3].held)
  BY <1>3, <1>4 DEF InLockOrder, Says, Inner, Outer
<1>8. Follows(p, n, {d}, 1)
  <2>1. /\ 1 < Len(p) /\ p[1] = Find(d) /\ n[1] \in NoteSet /\ Waits(n[1], n[2])
    BY <1>2, <1>5, <1>6
  <2> QED
    BY <2>1, LookFollows
<1>9. Follows(p, n, {d}, 2)
  <2>1. /\ 2 < Len(p) /\ p[2] = Poll(d) /\ n[2] \in NoteSet /\ Waits(n[2], n[3])
    BY <1>2, <1>5, <1>6
  <2> QED
    BY <2>1, LookFollows
<1>10. Follows(p, n, {d}, 3)
  <2>1. /\ 3 < Len(p) /\ p[3] = Lock(pdf) /\ n[3] \in NoteSet /\ Takes(n[3], n[4], pdf)
        /\ InLockOrder(pdf, n[3].held)
    BY <1>2, <1>5, <1>6, <1>7
  <2> QED
    BY <2>1, LockFollows
<1>11. Follows(p, n, {d}, 4)
  <2>1. /\ 4 < Len(p) /\ p[4] = Poll(d) /\ n[4] \in NoteSet /\ Waits(n[4], n[5])
    BY <1>2, <1>5, <1>6
  <2> QED
    BY <2>1, LookFollows
<1>12. Follows(p, n, {d}, 5)
  <2>1. /\ 5 < Len(p) /\ p[5] = WorkOr(d, 0) /\ n[5] \in NoteSet /\ Worked(n[5], n[6])
        /\ d \in {d} /\ <<"pdf", d>> \in n[5].held
    BY <1>1, <1>2, <1>5, <1>6
  <2> QED
    BY <2>1, WorkFollows
<1>13. Follows(p, n, {d}, 6)
  <2>1. /\ ~(6 < Len(p)) /\ p[6] = Poll(d) /\ n[6] \in NoteSet
    BY <1>2, <1>5, <1>6
  <2> QED
    BY <2>1, LookFollows
<1>14. \A i \in 1..Len(p) : Follows(p, n, {d}, i)
  <2> SUFFICES ASSUME NEW i \in 1..6 PROVE Follows(p, n, {d}, i)
    BY <1>2
  <2> QED
    BY <1>8, <1>9, <1>10, <1>11, <1>12, <1>13
<1> QED
  BY <1>1, <1>2, <1>4, <1>14 DEF Disciplined

(* A function on 1..k whose values are steps is a sequence of k steps. *)
LEMMA StepSequence ==
    ASSUME NEW k \in Nat, NEW f \in [1..k -> Steps] PROVE f \in Seq(Steps) /\ Len(f) = k
OBVIOUS

(* The same steps over and over. *)
LEMMA RepeatSteps ==
    ASSUME NEW s \in Seq(Steps), NEW k \in {2, 4}, Len(s) = k, NEW n \in Nat
    PROVE  /\ Repeat(s, n) \in Seq(Steps) /\ Len(Repeat(s, n)) = n * k
           /\ \A i \in 1..(n * k) : Repeat(s, n)[i] = s[((i - 1) % k) + 1]
<1>1. PICK len \in Nat : len = n * k
  OBVIOUS
<1>2. \A i \in 1..len : ((i - 1) % k) + 1 \in 1..k
  OBVIOUS
<1>3. \A j \in 1..k : s[j] \in Steps
  OBVIOUS
<1>4. PICK f : f = [i \in 1..len |-> s[((i - 1) % k) + 1]]
  OBVIOUS
<1>5. f \in [1..len -> Steps] /\ \A i \in 1..len : f[i] = s[((i - 1) % k) + 1]
  BY <1>2, <1>3, <1>4
<1>6. f = Repeat(s, n)
  BY <1>1, <1>4 DEF Repeat
<1> QED
  BY <1>1, <1>5, <1>6, StepSequence

(* GetContentStream, step by step. *)
LEMMA CachedSteps ==
    ASSUME NEW d \in Docs, NEW k \in {"object", "xref", "stream"}
    PROVE  /\ Cached(d, k) \in Seq(Steps) /\ Len(Cached(d, k)) = 6
           /\ Cached(d, k)[1] = Find(d) /\ Cached(d, k)[2] = Lock(<<"pdf", d>>)
           /\ Cached(d, k)[3] = Lock(<<k, d>>) /\ Cached(d, k)[4] = Skip(<<k, d>>, 2)
           /\ Cached(d, k)[5] = WorkOr(d, 0) /\ Cached(d, k)[6] = Fill(<<k, d>>)
<1>1. <<"pdf", d>> \in Mutexes /\ <<k, d>> \in Mutexes
  BY DocMutexes DEF Kinds
<1>2. /\ Find(d) \in Steps /\ Lock(<<"pdf", d>>) \in Steps /\ Lock(<<k, d>>) \in Steps
      /\ Skip(<<k, d>>, 2) \in Steps /\ Work(d) \in Steps /\ Fill(<<k, d>>) \in Steps
  BY <1>1, StepTypes
<1>3. Work(d) = WorkOr(d, 0)
  BY DEF Work, WorkOr
<1> QED
  BY <1>2, <1>3 DEF Cached

(* GetPageContentStream, step by step. *)
LEMMA PageContentSteps ==
    ASSUME NEW d \in Docs
    PROVE  /\ Len(PageContent(d)) = 15 /\ PageContent(d)[1] = Find(d) /\ PageContent(d)[2] = Lock(<<"pdf", d>>)
           /\ PageContent(d)[3] = Lock(<<"page", d>>) /\ PageContent(d)[4] = Skip(<<"page", d>>, 2)
           /\ PageContent(d)[5] = WorkOr(d, 0) /\ PageContent(d)[6] = Fill(<<"page", d>>)
           /\ PageContent(d)[7] = Unlock(<<"page", d>>) /\ PageContent(d)[8] = WorkOr(d, 0)
           /\ PageContent(d)[9] = Unlock(<<"pdf", d>>) /\ PageContent(d)[10] = Find(d)
           /\ PageContent(d)[11] = Lock(<<"pdf", d>>) /\ PageContent(d)[12] = Lock(<<"stream", d>>)
           /\ PageContent(d)[13] = Skip(<<"stream", d>>, 2) /\ PageContent(d)[14] = WorkOr(d, 0)
           /\ PageContent(d)[15] = Fill(<<"stream", d>>)
<1>1. PICK a, b, c : a = PageIndex(d) /\ b = <<Unlock(<<"pdf", d>>)>> /\ c = Cached(d, "stream")
  OBVIOUS
<1>2. b \in Seq(Steps) /\ Len(b) = 1 /\ b[1] = Unlock(<<"pdf", d>>)
  <2>1. <<"pdf", d>> \in Mutexes
    BY DocMutexes DEF Kinds
  <2>2. Unlock(<<"pdf", d>>) \in Steps
    BY <2>1, StepTypes
  <2> QED
    BY <1>1, <2>2
<1>3. a \in Seq(Steps) /\ Len(a) = 8 /\ c \in Seq(Steps) /\ Len(c) = 6
  BY <1>1, PageIndexSteps, CachedSteps
<1>4. PICK ab : ab = a \o b
  OBVIOUS
<1>5. Joins(ab, a, b, 8, 1)
  BY <1>2, <1>3, <1>4, Joined
<1>6. ab \in Seq(Steps) /\ Len(ab) = 9
  BY <1>5 DEF Joins
<1>7. PICK p : p = ab \o c
  OBVIOUS
<1>8. Joins(p, ab, c, 9, 6)
  BY <1>3, <1>6, <1>7, Joined
<1>9. Len(p) = 15 /\ (\A i \in 10..15 : p[i] = c[i - 9]) /\ (\A i \in 1..9 : p[i] = ab[i])
  BY <1>8 DEF Joins
<1>10. (\A i \in 1..8 : ab[i] = a[i]) /\ (\A i \in 9..9 : ab[i] = b[i - 8])
  BY <1>5 DEF Joins
<1>11. /\ p[1] = a[1] /\ p[2] = a[2] /\ p[3] = a[3] /\ p[4] = a[4] /\ p[5] = a[5] /\ p[6] = a[6] /\ p[7] = a[7]
      /\ p[8] = a[8]
  BY <1>9, <1>10
<1>12. /\ p[9] = b[1]
  BY <1>9, <1>10
<1>13. /\ p[10] = c[1] /\ p[11] = c[2] /\ p[12] = c[3] /\ p[13] = c[4] /\ p[14] = c[5] /\ p[15] = c[6]
  BY <1>9
<1>14. p = PageContent(d)
  BY <1>1, <1>4, <1>7 DEF PageContent
<1>15. /\ c[1] = Find(d) /\ c[2] = Lock(<<"pdf", d>>) /\ c[3] = Lock(<<"stream", d>>)
       /\ c[4] = Skip(<<"stream", d>>, 2) /\ c[5] = WorkOr(d, 0) /\ c[6] = Fill(<<"stream", d>>)
  BY <1>1, CachedSteps
<1> QED
  BY <1>1, <1>2, <1>9, <1>11, <1>12, <1>13, <1>14, <1>15, PageIndexSteps

(* GetPlainText, step by step. *)
LEMMA PlainTextSteps ==
    ASSUME NEW d \in Docs
    PROVE  /\ Len(PlainText(d)) = 9 /\ PlainText(d)[1] = Find(d) /\ PlainText(d)[2] = Lock(<<"plain", d>>)
           /\ PlainText(d)[3] = Skip(<<"plain", d>>, 6) /\ PlainText(d)[4] = Poll(d)
           /\ PlainText(d)[5] = WorkOr(Read, 0) /\ PlainText(d)[6] = Poll(d)
           /\ PlainText(d)[7] = WorkOr(Read, 0) /\ PlainText(d)[8] = Poll(d)
           /\ PlainText(d)[9] = Fill(<<"plain", d>>)
<1>1. PICK a, s, b, c : /\ a = <<Find(d), Lock(<<"plain", d>>), Skip(<<"plain", d>>, 6)>>
                        /\ s = <<Poll(d), Work(Read)>> /\ b = Repeat(s, 2)
                        /\ c = <<Poll(d), Fill(<<"plain", d>>)>>
  OBVIOUS
<1>2. /\ Find(d) \in Steps /\ Lock(<<"plain", d>>) \in Steps /\ Skip(<<"plain", d>>, 6) \in Steps
      /\ Poll(d) \in Steps /\ Work(Read) \in Steps /\ Fill(<<"plain", d>>) \in Steps
  <2>1. <<"plain", d>> \in Mutexes
    BY DocMutexes DEF Kinds
  <2> QED
    BY <2>1, StepTypes
<1>3. /\ a \in Seq(Steps) /\ Len(a) = 3 /\ c \in Seq(Steps) /\ Len(c) = 2 /\ s \in Seq(Steps) /\ Len(s) = 2
      /\ a[1] = Find(d) /\ a[2] = Lock(<<"plain", d>>) /\ a[3] = Skip(<<"plain", d>>, 6)
      /\ s[1] = Poll(d) /\ s[2] = Work(Read) /\ c[1] = Poll(d) /\ c[2] = Fill(<<"plain", d>>)
  BY <1>1, <1>2
<1>4. b \in Seq(Steps) /\ Len(b) = 4 /\ b[1] = s[1] /\ b[2] = s[2] /\ b[3] = s[1] /\ b[4] = s[2]
  <2>1. b \in Seq(Steps) /\ Len(b) = 2 * 2 /\ \A i \in 1..(2 * 2) : b[i] = s[((i - 1) % 2) + 1]
    BY ZenonT(60), <1>1, <1>3, RepeatSteps
  <2> QED
    BY <2>1
<1>5. PICK ab : ab = a \o b
  OBVIOUS
<1>6. Joins(ab, a, b, 3, 4)
  BY <1>3, <1>4, <1>5, Joined
<1>7. ab \in Seq(Steps) /\ Len(ab) = 7
  BY <1>6 DEF Joins
<1>8. PICK p : p = ab \o c
  OBVIOUS
<1>9. Joins(p, ab, c, 7, 2)
  BY <1>3, <1>7, <1>8, Joined
<1>10. Len(p) = 9 /\ (\A i \in 8..9 : p[i] = c[i - 7]) /\ (\A i \in 1..7 : p[i] = ab[i])
  BY <1>9 DEF Joins
<1>11. (\A i \in 1..3 : ab[i] = a[i]) /\ (\A i \in 4..7 : ab[i] = b[i - 3])
  BY <1>6 DEF Joins
<1>12. /\ p[1] = a[1] /\ p[2] = a[2] /\ p[3] = a[3]
  BY <1>10, <1>11
<1>13. /\ p[4] = b[1] /\ p[5] = b[2] /\ p[6] = b[3] /\ p[7] = b[4]
  BY <1>10, <1>11
<1>14. /\ p[8] = c[1] /\ p[9] = c[2]
  BY <1>10
<1>15. p = PlainText(d)
  BY <1>1, <1>5, <1>8 DEF PlainText
<1>16. Work(Read) = WorkOr(Read, 0)
  BY DEF Work, WorkOr
<1> QED
  BY <1>3, <1>4, <1>10, <1>12, <1>13, <1>14, <1>15, <1>16

(* DiffDocuments, step by step: of one document with itself, *)
LEMMA DiffSelfSteps ==
    ASSUME NEW d \in Docs
    PROVE  /\ Len(Diff(d, d)) = 12 /\ Diff(d, d)[1] = Find(d) /\ Diff(d, d)[2] = Find(d)
           /\ Diff(d, d)[3] = Lock(Order) /\ Diff(d, d)[4] = Lock(<<"pdf", d>>) /\ Diff(d, d)[5] = Unlock(Order)
           /\ Diff(d, d)[6] = Check(d) /\ Diff(d, d)[7] = Check(d) /\ Diff(d, d)[8] = WorkOr(d, 0)
           /\ Diff(d, d)[9] = Poll(d) /\ Diff(d, d)[10] = WorkOr(d, 0) /\ Diff(d, d)[11] = Check(d)
           /\ Diff(d, d)[12] = Check(d)
<1>1. PICK a, b, c : /\ a = <<Find(d), Find(d), Lock(Order), Lock(<<"pdf", d>>)>> /\ b = <<>>
                     /\ c = <<Unlock(Order), Check(d), Check(d), Work(d), Poll(d), Work(d), Check(d), Check(d)>>
  OBVIOUS
<1>2. /\ Find(d) \in Steps /\ Lock(Order) \in Steps /\ Lock(<<"pdf", d>>) \in Steps /\ Unlock(Order) \in Steps
      /\ Check(d) \in Steps /\ Work(d) \in Steps /\ Poll(d) \in Steps
  <2>1. <<"pdf", d>> \in Mutexes /\ Order \in Mutexes
    BY DocMutexes, CacheMutexes DEF Kinds
  <2> QED
    BY <2>1, StepTypes
<1>3. /\ a \in Seq(Steps) /\ Len(a) = 4 /\ b \in Seq(Steps) /\ Len(b) = 0
      /\ a[1] = Find(d) /\ a[2] = Find(d) /\ a[3] = Lock(Order) /\ a[4] = Lock(<<"pdf", d>>)
  BY <1>1, <1>2
<1>4. /\ c \in Seq(Steps) /\ Len(c) = 8 /\ c[1] = Unlock(Order) /\ c[2] = Check(d) /\ c[3] = Check(d)
      /\ c[4] = WorkOr(d, 0) /\ c[5] = Poll(d) /\ c[6] = WorkOr(d, 0) /\ c[7] = Check(d) /\ c[8] = Check(d)
  <2>1. Work(d) = WorkOr(d, 0)
    BY DEF Work, WorkOr
  <2> QED
    BY <1>1, <1>2, <2>1
<1>5. PICK ab : ab = a \o b
  OBVIOUS
<1>6. Joins(ab, a, b, 4, 0)
  BY <1>3, <1>5, Joined
<1>7. ab \in Seq(Steps) /\ Len(ab) = 4
  BY <1>6 DEF Joins
<1>8. PICK p : p = ab \o c
  OBVIOUS
<1>9. Joins(p, ab, c, 4, 8)
  BY <1>4, <1>7, <1>8, Joined
<1>10. Len(p) = 12 /\ (\A i \in 5..12 : p[i] = c[i - 4]) /\ (\A i \in 1..4 : p[i] = ab[i])
  BY <1>9 DEF Joins
<1>11. (\A i \in 1..4 : ab[i] = a[i])
  BY <1>6 DEF Joins
<1>12. /\ p[1] = a[1] /\ p[2] = a[2] /\ p[3] = a[3] /\ p[4] = a[4]
  BY <1>10, <1>11
<1>13. /\ p[5] = c[1] /\ p[6] = c[2] /\ p[7] = c[3] /\ p[8] = c[4] /\ p[9] = c[5] /\ p[10] = c[6] /\ p[11] = c[7]
      /\ p[12] = c[8]
  BY <1>10
<1>14. p = Diff(d, d)
  BY <1>1, <1>5, <1>8 DEF Diff
<1> QED
  BY <1>3, <1>4, <1>10, <1>12, <1>13, <1>14

(* and of two documents. *)
LEMMA DiffOtherSteps ==
    ASSUME NEW l \in Docs, NEW r \in Docs, l # r
    PROVE  /\ Len(Diff(l, r)) = 13 /\ Diff(l, r)[1] = Find(l) /\ Diff(l, r)[2] = Find(r)
           /\ Diff(l, r)[3] = Lock(Order) /\ Diff(l, r)[4] = Lock(<<"pdf", l>>)
           /\ Diff(l, r)[5] = Lock(<<"pdf", r>>) /\ Diff(l, r)[6] = Unlock(Order) /\ Diff(l, r)[7] = Check(l)
           /\ Diff(l, r)[8] = Check(r) /\ Diff(l, r)[9] = WorkOr(l, 0) /\ Diff(l, r)[10] = Poll(l)
           /\ Diff(l, r)[11] = WorkOr(r, 0) /\ Diff(l, r)[12] = Check(l) /\ Diff(l, r)[13] = Check(r)
<1>1. PICK a, b, c : /\ a = <<Find(l), Find(r), Lock(Order), Lock(<<"pdf", l>>)>> /\ b = <<Lock(<<"pdf", r>>)>>
                     /\ c = <<Unlock(Order), Check(l), Check(r), Work(l), Poll(l), Work(r), Check(l), Check(r)>>
  OBVIOUS
<1>2. /\ Find(l) \in Steps /\ Find(r) \in Steps /\ Lock(Order) \in Steps /\ Lock(<<"pdf", l>>) \in Steps
      /\ Lock(<<"pdf", r>>) \in Steps /\ Unlock(Order) \in Steps /\ Check(l) \in Steps /\ Check(r) \in Steps
      /\ Work(l) \in Steps /\ Work(r) \in Steps /\ Poll(l) \in Steps
  <2>1. <<"pdf", l>> \in Mutexes /\ <<"pdf", r>> \in Mutexes /\ Order \in Mutexes
    BY DocMutexes, CacheMutexes DEF Kinds
  <2> QED
    BY <2>1, StepTypes
<1>3. /\ a \in Seq(Steps) /\ Len(a) = 4 /\ b \in Seq(Steps) /\ Len(b) = 1 /\ b[1] = Lock(<<"pdf", r>>)
      /\ a[1] = Find(l) /\ a[2] = Find(r) /\ a[3] = Lock(Order) /\ a[4] = Lock(<<"pdf", l>>)
  BY <1>1, <1>2
<1>4. /\ c \in Seq(Steps) /\ Len(c) = 8 /\ c[1] = Unlock(Order) /\ c[2] = Check(l) /\ c[3] = Check(r)
      /\ c[4] = WorkOr(l, 0) /\ c[5] = Poll(l) /\ c[6] = WorkOr(r, 0) /\ c[7] = Check(l) /\ c[8] = Check(r)
  <2>1. Work(l) = WorkOr(l, 0) /\ Work(r) = WorkOr(r, 0)
    BY DEF Work, WorkOr
  <2> QED
    BY <1>1, <1>2, <2>1
<1>5. PICK ab : ab = a \o b
  OBVIOUS
<1>6. Joins(ab, a, b, 4, 1)
  BY <1>3, <1>5, Joined
<1>7. ab \in Seq(Steps) /\ Len(ab) = 5
  BY <1>6 DEF Joins
<1>8. PICK p : p = ab \o c
  OBVIOUS
<1>9. Joins(p, ab, c, 5, 8)
  BY <1>4, <1>7, <1>8, Joined
<1>10. Len(p) = 13 /\ (\A i \in 6..13 : p[i] = c[i - 5]) /\ (\A i \in 1..5 : p[i] = ab[i])
  BY <1>9 DEF Joins
<1>11. (\A i \in 1..4 : ab[i] = a[i]) /\ (\A i \in 5..5 : ab[i] = b[i - 4])
  BY <1>6 DEF Joins
<1>12. /\ p[1] = a[1] /\ p[2] = a[2] /\ p[3] = a[3] /\ p[4] = a[4]
  BY <1>10, <1>11
<1>13. /\ p[5] = b[1]
  BY <1>10, <1>11
<1>14. /\ p[6] = c[1] /\ p[7] = c[2] /\ p[8] = c[3] /\ p[9] = c[4] /\ p[10] = c[5] /\ p[11] = c[6]
      /\ p[12] = c[7] /\ p[13] = c[8]
  BY <1>10
<1>15. p = Diff(l, r)
  BY <1>1, <1>5, <1>8 DEF Diff
<1> QED
  BY <1>3, <1>4, <1>10, <1>12, <1>13, <1>14, <1>15

(* GetPageContentStream *)
LEMMA PageContentFollows ==
    ASSUME NEW d \in Docs
    PROVE  Disciplined(PageContent(d), PageContentNotes(d), {d})
<1>1. PICK p, n, pdf, page, stream :
          /\ p = PageContent(d) /\ n = PageContentNotes(d) /\ pdf = <<"pdf", d>> /\ page = <<"page", d>>
          /\ stream = <<"stream", d>>
  OBVIOUS
<1>2. /\ Len(p) = 15 /\ p[1] = Find(d) /\ p[2] = Lock(pdf) /\ p[3] = Lock(page) /\ p[4] = Skip(page, 2)
      /\ p[5] = WorkOr(d, 0) /\ p[6] = Fill(page) /\ p[7] = Unlock(page) /\ p[8] = WorkOr(d, 0)
      /\ p[9] = Unlock(pdf) /\ p[10] = Find(d) /\ p[11] = Lock(pdf) /\ p[12] = Lock(stream)
      /\ p[13] = Skip(stream, 2) /\ p[14] = WorkOr(d, 0) /\ p[15] = Fill(stream)
  BY <1>1, PageContentSteps
<1>3. /\ pdf \in Mutexes /\ pdf[1] = "pdf" /\ page \in Mutexes /\ page[1] = "page" /\ page \in Caches
      /\ stream \in Mutexes /\ stream[1] = "stream" /\ stream \in Caches /\ pdf # page /\ pdf # stream
      /\ page # stream
  BY <1>1, DocMutexes, CacheMutexes DEF Kinds, Order
<1>4. /\ n[1] = Nothing /\ Says(n[1], {}, {}, {}, 0) /\ Says(n[2], {}, {}, {}, 0)
      /\ Says(n[3], {pdf}, {}, {}, 0) /\ Says(n[4], {pdf, page}, {}, {}, 0)
      /\ Says(n[5], {pdf, page}, {page}, {}, 0) /\ Says(n[6], {pdf, page}, {page}, {}, 1)
      /\ Says(n[7], {pdf, page}, {}, {}, 1) /\ Says(n[8], {pdf}, {}, {}, 1) /\ Says(n[9], {pdf}, {}, {}, 2)
      /\ Says(n[10], {}, {}, {}, 2) /\ Says(n[11], {}, {}, {}, 2) /\ Says(n[12], {pdf}, {}, {}, 2)
      /\ Says(n[13], {pdf, stream}, {}, {}, 2) /\ Says(n[14], {pdf, stream}, {stream}, {}, 2)
      /\ Says(n[15], {pdf, stream}, {stream}, {}, 3)
  BY <1>1, <1>3, NoteSays DEF PageContentNotes, PageIndexNotes, Nothing, Holds, Builds
<1>5. /\ n[1] \in NoteSet /\ n[2] \in NoteSet /\ n[3] \in NoteSet /\ n[4] \in NoteSet /\ n[5] \in NoteSet
      /\ n[6] \in NoteSet /\ n[7] \in NoteSet /\ n[8] \in NoteSet /\ n[9] \in NoteSet /\ n[10] \in NoteSet
      /\ n[11] \in NoteSet /\ n[12] \in NoteSet /\ n[13] \in NoteSet /\ n[14] \in NoteSet /\ n[15] \in NoteSet
  BY <1>4 DEF Says
<1>6. /\ Waits(n[1], n[2]) /\ Takes(n[2], n[3], pdf) /\ Takes(n[3], n[4], page) /\ FindsEmpty(n[4], n[5], page)
      /\ page \in n[4].held /\ Filled(n[4], n[7], page) /\ Worked(n[5], n[6]) /\ pdf \in n[5].held
      /\ Filled(n[6], n[7], page) /\ page \in n[6].empty /\ Drops(n[7], n[8], page) /\ page \in n[7].held
      /\ Worked(n[8], n[9]) /\ pdf \in n[8].held /\ Drops(n[9], n[10], pdf) /\ pdf \in n[9].held
      /\ Waits(n[10], n[11]) /\ Takes(n[11], n[12], pdf) /\ Takes(n[12], n[13], stream)
      /\ FindsEmpty(n[13], n[14], stream) /\ stream \in n[13].held /\ Worked(n[14], n[15]) /\ pdf \in n[14].held
      /\ stream \in n[15].empty
  BY <1>3, <1>4 DEF Says, Same, Waits, Worked, Takes, Drops, FindsEmpty, Filled
<1>7. /\ InLockOrder(pdf, n[2].held) /\ InLockOrder(page, n[3].held) /\ InLockOrder(pdf, n[11].held)
      /\ InLockOrder(stream, n[12].held)
  BY <1>3, <1>4 DEF InLockOrder, Says, Inner, Outer
<1>8. Follows(p, n, {d}, 1)
  <2>1. /\ 1 < Len(p) /\ p[1] = Find(d) /\ n[1] \in NoteSet /\ Waits(n[1], n[2])
    BY <1>2, <1>5, <1>6
  <2> QED
    BY <2>1, LookFollows
<1>9. Follows(p, n, {d}, 2)
  <2>1. /\ 2 < Len(p) /\ p[2] = Lock(pdf) /\ n[2] \in NoteSet /\ Takes(n[2], n[3], pdf)
        /\ InLockOrder(pdf, n[2].held)
    BY <1>2, <1>5, <1>6, <1>7
  <2> QED
    BY <2>1, LockFollows
<1>10. Follows(p, n, {d}, 3)
  <2>1. /\ 3 < Len(p) /\ p[3] = Lock(page) /\ n[3] \in NoteSet /\ Takes(n[3], n[4], page)
        /\ InLockOrder(page, n[3].held)
    BY <1>2, <1>5, <1>6, <1>7
  <2> QED
    BY <2>1, LockFollows
<1>11. Follows(p, n, {d}, 4)
  <2>1. /\ 4 < Len(p) /\ p[4] = Skip(page, 2) /\ n[4] \in NoteSet /\ FindsEmpty(n[4], n[5], page)
        /\ page \in n[4].held /\ page \in Caches /\ Filled(n[4], n[7], page)
    BY <1>2, <1>3, <1>5, <1>6
  <2> QED
    BY <2>1, SkipFollows
<1>12. Follows(p, n, {d}, 5)
  <2>1. /\ 5 < Len(p) /\ p[5] = WorkOr(d, 0) /\ n[5] \in NoteSet /\ Worked(n[5], n[6])
        /\ d \in {d} /\ <<"pdf", d>> \in n[5].held
    BY <1>1, <1>2, <1>5, <1>6
  <2> QED
    BY <2>1, WorkFollows
<1>13. Follows(p, n, {d}, 6)
  <2>1. /\ 6 < Len(p) /\ p[6] = Fill(page) /\ n[6] \in NoteSet /\ Filled(n[6], n[7], page)
        /\ page \in n[6].empty
    BY <1>2, <1>5, <1>6
  <2> QED
    BY <2>1, FillFollows
<1>14. Follows(p, n, {d}, 7)
  <2>1. /\ 7 < Len(p) /\ p[7] = Unlock(page) /\ n[7] \in NoteSet /\ Drops(n[7], n[8], page)
        /\ page \in n[7].held
    BY <1>2, <1>5, <1>6
  <2> QED
    BY <2>1, UnlockFollows
<1>15. Follows(p, n, {d}, 8)
  <2>1. /\ 8 < Len(p) /\ p[8] = WorkOr(d, 0) /\ n[8] \in NoteSet /\ Worked(n[8], n[9])
        /\ d \in {d} /\ <<"pdf", d>> \in n[8].held
    BY <1>1, <1>2, <1>5, <1>6
  <2> QED
    BY <2>1, WorkFollows
<1>16. Follows(p, n, {d}, 9)
  <2>1. /\ 9 < Len(p) /\ p[9] = Unlock(pdf) /\ n[9] \in NoteSet /\ Drops(n[9], n[10], pdf) /\ pdf \in n[9].held
    BY <1>2, <1>5, <1>6
  <2> QED
    BY <2>1, UnlockFollows
<1>17. Follows(p, n, {d}, 10)
  <2>1. /\ 10 < Len(p) /\ p[10] = Find(d) /\ n[10] \in NoteSet /\ Waits(n[10], n[11])
    BY <1>2, <1>5, <1>6
  <2> QED
    BY <2>1, LookFollows
<1>18. Follows(p, n, {d}, 11)
  <2>1. /\ 11 < Len(p) /\ p[11] = Lock(pdf) /\ n[11] \in NoteSet /\ Takes(n[11], n[12], pdf)
        /\ InLockOrder(pdf, n[11].held)
    BY <1>2, <1>5, <1>6, <1>7
  <2> QED
    BY <2>1, LockFollows
<1>19. Follows(p, n, {d}, 12)
  <2>1. /\ 12 < Len(p) /\ p[12] = Lock(stream) /\ n[12] \in NoteSet /\ Takes(n[12], n[13], stream)
        /\ InLockOrder(stream, n[12].held)
    BY <1>2, <1>5, <1>6, <1>7
  <2> QED
    BY <2>1, LockFollows
<1>20. Follows(p, n, {d}, 13)
  <2>1. /\ 13 < Len(p) /\ p[13] = Skip(stream, 2) /\ n[13] \in NoteSet /\ FindsEmpty(n[13], n[14], stream)
        /\ stream \in n[13].held /\ stream \in Caches /\ ~(16 <= Len(p))
    BY <1>2, <1>3, <1>5, <1>6
  <2> QED
    BY <2>1, SkipFollows
<1>21. Follows(p, n, {d}, 14)
  <2>1. /\ 14 < Len(p) /\ p[14] = WorkOr(d, 0) /\ n[14] \in NoteSet /\ Worked(n[14], n[15])
        /\ d \in {d} /\ <<"pdf", d>> \in n[14].held
    BY <1>1, <1>2, <1>5, <1>6
  <2> QED
    BY <2>1, WorkFollows
<1>22. Follows(p, n, {d}, 15)
  <2>1. /\ ~(15 < Len(p)) /\ p[15] = Fill(stream) /\ n[15] \in NoteSet /\ stream \in n[15].empty
    BY <1>2, <1>5, <1>6
  <2> QED
    BY <2>1, FillFollows
<1>23. \A i \in 1..Len(p) : Follows(p, n, {d}, i)
  <2> SUFFICES ASSUME NEW i \in 1..15 PROVE Follows(p, n, {d}, i)
    BY <1>2
  <2> QED
    BY <1>8, <1>9, <1>10, <1>11, <1>12, <1>13, <1>14, <1>15, <1>16, <1>17, <1>18, <1>19, <1>20, <1>21, <1>22
<1> QED
  BY <1>1, <1>2, <1>4, <1>23 DEF Disciplined

(* GetPlainText *)
LEMMA PlainTextFollows ==
    ASSUME NEW d \in Docs
    PROVE  Disciplined(PlainText(d), PlainTextNotes(d), {d})
<1>1. PICK p, n, plain :
          /\ p = PlainText(d) /\ n = PlainTextNotes(d) /\ plain = <<"plain", d>>
  OBVIOUS
<1>2. /\ Len(p) = 9 /\ p[1] = Find(d) /\ p[2] = Lock(plain) /\ p[3] = Skip(plain, 6) /\ p[4] = Poll(d)
      /\ p[5] = WorkOr(Read, 0) /\ p[6] = Poll(d) /\ p[7] = WorkOr(Read, 0) /\ p[8] = Poll(d)
      /\ p[9] = Fill(plain)
  BY <1>1, PlainTextSteps
<1>3. /\ plain \in Mutexes /\ plain[1] = "plain" /\ plain \in Caches
  BY <1>1, DocMutexes, CacheMutexes DEF Kinds, Order
<1>4. /\ n[1] = Nothing /\ Says(n[1], {}, {}, {}, 0) /\ Says(n[2], {}, {}, {}, 0)
      /\ Says(n[3], {plain}, {}, {}, 0) /\ Says(n[4], {plain}, {plain}, {}, 0)
      /\ Says(n[5], {plain}, {plain}, {}, 0) /\ Says(n[6], {plain}, {plain}, {}, 1)
      /\ Says(n[7], {plain}, {plain}, {}, 1) /\ Says(n[8], {plain}, {plain}, {}, 2)
      /\ Says(n[9], {plain}, {plain}, {}, 2)
  BY <1>1, <1>3, NoteSays DEF PlainTextNotes, Nothing, Holds, Builds
<1>5. /\ n[1] \in NoteSet /\ n[2] \in NoteSet /\ n[3] \in NoteSet /\ n[4] \in NoteSet /\ n[5] \in NoteSet
      /\ n[6] \in NoteSet /\ n[7] \in NoteSet /\ n[8] \in NoteSet /\ n[9] \in NoteSet
  BY <1>4 DEF Says
<1>6. /\ Waits(n[1], n[2]) /\ Takes(n[2], n[3], plain) /\ FindsEmpty(n[3], n[4], plain) /\ plain \in n[3].held
      /\ Waits(n[4], n[5]) /\ Worked(n[5], n[6]) /\ Waits(n[6], n[7]) /\ Worked(n[7], n[8]) /\ Waits(n[8], n[9])
      /\ plain \in n[9].empty
  BY <1>3, <1>4 DEF Says, Same, Waits, Worked, Takes, Drops, FindsEmpty, Filled
<1>7. /\ InLockOrder(plain, n[2].held)
  BY <1>3, <1>4 DEF InLockOrder, Says, Inner, Outer
<1>8. Follows(p, n, {d}, 1)
  <2>1. /\ 1 < Len(p) /\ p[1] = Find(d) /\ n[1] \in NoteSet /\ Waits(n[1], n[2])
    BY <1>2, <1>5, <1>6
  <2> QED
    BY <2>1, LookFollows
<1>9. Follows(p, n, {d}, 2)
  <2>1. /\ 2 < Len(p) /\ p[2] = Lock(plain) /\ n[2] \in NoteSet /\ Takes(n[2], n[3], plain)
        /\ InLockOrder(plain, n[2].held)
    BY <1>2, <1>5, <1>6, <1>7
  <2> QED
    BY <2>1, LockFollows
<1>10. Follows(p, n, {d}, 3)
  <2>1. /\ 3 < Len(p) /\ p[3] = Skip(plain, 6) /\ n[3] \in NoteSet /\ FindsEmpty(n[3], n[4], plain)
        /\ plain \in n[3].held /\ plain \in Caches /\ ~(10 <= Len(p))
    BY <1>2, <1>3, <1>5, <1>6
  <2> QED
    BY <2>1, SkipFollows
<1>11. Follows(p, n, {d}, 4)
  <2>1. /\ 4 < Len(p) /\ p[4] = Poll(d) /\ n[4] \in NoteSet /\ Waits(n[4], n[5])
    BY <1>2, <1>5, <1>6
  <2> QED
    BY <2>1, LookFollows
<1>12. Follows(p, n, {d}, 5)
  <2>1. /\ 5 < Len(p) /\ p[5] = WorkOr(Read, 0) /\ n[5] \in NoteSet /\ Worked(n[5], n[6])
    BY <1>2, <1>5, <1>6
  <2> QED
    BY <2>1, FileWorkFollows
<1>13. Follows(p, n, {d}, 6)
  <2>1. /\ 6 < Len(p) /\ p[6] = Poll(d) /\ n[6] \in NoteSet /\ Waits(n[6], n[7])
    BY <1>2, <1>5, <1>6
  <2> QED
    BY <2>1, LookFollows
<1>14. Follows(p, n, {d}, 7)
  <2>1. /\ 7 < Len(p) /\ p[7] = WorkOr(Read, 0) /\ n[7] \in NoteSet /\ Worked(n[7], n[8])
    BY <1>2, <1>5, <1>6
  <2> QED
    BY <2>1, FileWorkFollows
<1>15. Follows(p, n, {d}, 8)
  <2>1. /\ 8 < Len(p) /\ p[8] = Poll(d) /\ n[8] \in NoteSet /\ Waits(n[8], n[9])
    BY <1>2, <1>5, <1>6
  <2> QED
    BY <2>1, LookFollows
<1>16. Follows(p, n, {d}, 9)
  <2>1. /\ ~(9 < Len(p)) /\ p[9] = Fill(plain) /\ n[9] \in NoteSet /\ plain \in n[9].empty
    BY <1>2, <1>5, <1>6
  <2> QED
    BY <2>1, FillFollows
<1>17. \A i \in 1..Len(p) : Follows(p, n, {d}, i)
  <2> SUFFICES ASSUME NEW i \in 1..9 PROVE Follows(p, n, {d}, i)
    BY <1>2
  <2> QED
    BY <1>8, <1>9, <1>10, <1>11, <1>12, <1>13, <1>14, <1>15, <1>16
<1> QED
  BY <1>1, <1>2, <1>4, <1>17 DEF Disciplined

(* DiffDocuments, of a document with itself *)
LEMMA DiffSelfFollows ==
    ASSUME NEW d \in Docs
    PROVE  Disciplined(Diff(d, d), DiffNotes(d, d), {d})
<1>1. PICK p, n, pdf, order :
          /\ p = Diff(d, d) /\ n = DiffNotes(d, d) /\ pdf = <<"pdf", d>> /\ order = Order
  OBVIOUS
<1>2. /\ Len(p) = 12 /\ p[1] = Find(d) /\ p[2] = Find(d) /\ p[3] = Lock(order) /\ p[4] = Lock(pdf)
      /\ p[5] = Unlock(order) /\ p[6] = Check(d) /\ p[7] = Check(d) /\ p[8] = WorkOr(d, 0) /\ p[9] = Poll(d)
      /\ p[10] = WorkOr(d, 0) /\ p[11] = Check(d) /\ p[12] = Check(d)
  BY <1>1, DiffSelfSteps
<1>3. /\ pdf \in Mutexes /\ pdf[1] = "pdf" /\ order \in Mutexes /\ order[1] = "order" /\ pdf # order
  BY <1>1, DocMutexes, CacheMutexes DEF Kinds, Order
<1>4. /\ n[1] = Nothing /\ Says(n[1], {}, {}, {}, 0) /\ Says(n[2], {}, {}, {}, 0) /\ Says(n[3], {}, {}, {}, 0)
      /\ Says(n[4], {order}, {}, {}, 0) /\ Says(n[5], {order, pdf}, {}, {}, 0) /\ Says(n[6], {pdf}, {}, {}, 0)
      /\ Says(n[7], {pdf}, {}, {}, 0) /\ Says(n[8], {pdf}, {}, {}, 0) /\ Says(n[9], {pdf}, {}, {}, 1)
      /\ Says(n[10], {pdf}, {}, {}, 1) /\ Says(n[11], {pdf}, {}, {}, 2) /\ Says(n[12], {pdf}, {}, {}, 2)
  BY <1>1, <1>3, NoteSays DEF DiffNotes, Nothing, Holds
<1>5. /\ n[1] \in NoteSet /\ n[2] \in NoteSet /\ n[3] \in NoteSet /\ n[4] \in NoteSet /\ n[5] \in NoteSet
      /\ n[6] \in NoteSet /\ n[7] \in NoteSet /\ n[8] \in NoteSet /\ n[9] \in NoteSet /\ n[10] \in NoteSet
      /\ n[11] \in NoteSet /\ n[12] \in NoteSet
  BY <1>4 DEF Says
<1>6. /\ Waits(n[1], n[2]) /\ Waits(n[2], n[3]) /\ Takes(n[3], n[4], order) /\ Takes(n[4], n[5], pdf)
      /\ Drops(n[5], n[6], order) /\ order \in n[5].held /\ Waits(n[6], n[7]) /\ Waits(n[7], n[8])
      /\ Worked(n[8], n[9]) /\ pdf \in n[8].held /\ Waits(n[9], n[10]) /\ Worked(n[10], n[11])
      /\ pdf \in n[10].held /\ Waits(n[11], n[12])
  BY <1>3, <1>4 DEF Says, Same, Waits, Worked, Takes, Drops, FindsEmpty, Filled
<1>7. /\ InLockOrder(order, n[3].held) /\ InLockOrder(pdf, n[4].held)
  BY <1>1, <1>3, <1>4 DEF InLockOrder, Says, Inner, Outer
<1>8. Follows(p, n, {d}, 1)
  <2>1. /\ 1 < Len(p) /\ p[1] = Find(d) /\ n[1] \in NoteSet /\ Waits(n[1], n[2])
    BY <1>2, <1>5, <1>6
  <2> QED
    BY <2>1, LookFollows
<1>9. Follows(p, n, {d}, 2)
  <2>1. /\ 2 < Len(p) /\ p[2] = Find(d) /\ n[2] \in NoteSet /\ Waits(n[2], n[3])
    BY <1>2, <1>5, <1>6
  <2> QED
    BY <2>1, LookFollows
<1>10. Follows(p, n, {d}, 3)
  <2>1. /\ 3 < Len(p) /\ p[3] = Lock(order) /\ n[3] \in NoteSet /\ Takes(n[3], n[4], order)
        /\ InLockOrder(order, n[3].held)
    BY <1>2, <1>5, <1>6, <1>7
  <2> QED
    BY <2>1, LockFollows
<1>11. Follows(p, n, {d}, 4)
  <2>1. /\ 4 < Len(p) /\ p[4] = Lock(pdf) /\ n[4] \in NoteSet /\ Takes(n[4], n[5], pdf)
        /\ InLockOrder(pdf, n[4].held)
    BY <1>2, <1>5, <1>6, <1>7
  <2> QED
    BY <2>1, LockFollows
<1>12. Follows(p, n, {d}, 5)
  <2>1. /\ 5 < Len(p) /\ p[5] = Unlock(order) /\ n[5] \in NoteSet /\ Drops(n[5], n[6], order)
        /\ order \in n[5].held
    BY <1>2, <1>5, <1>6
  <2> QED
    BY <2>1, UnlockFollows
<1>13. Follows(p, n, {d}, 6)
  <2>1. /\ 6 < Len(p) /\ p[6] = Check(d) /\ n[6] \in NoteSet /\ Waits(n[6], n[7])
    BY <1>2, <1>5, <1>6
  <2> QED
    BY <2>1, LookFollows
<1>14. Follows(p, n, {d}, 7)
  <2>1. /\ 7 < Len(p) /\ p[7] = Check(d) /\ n[7] \in NoteSet /\ Waits(n[7], n[8])
    BY <1>2, <1>5, <1>6
  <2> QED
    BY <2>1, LookFollows
<1>15. Follows(p, n, {d}, 8)
  <2>1. /\ 8 < Len(p) /\ p[8] = WorkOr(d, 0) /\ n[8] \in NoteSet /\ Worked(n[8], n[9])
        /\ d \in {d} /\ <<"pdf", d>> \in n[8].held
    BY <1>1, <1>2, <1>5, <1>6
  <2> QED
    BY <2>1, WorkFollows
<1>16. Follows(p, n, {d}, 9)
  <2>1. /\ 9 < Len(p) /\ p[9] = Poll(d) /\ n[9] \in NoteSet /\ Waits(n[9], n[10])
    BY <1>2, <1>5, <1>6
  <2> QED
    BY <2>1, LookFollows
<1>17. Follows(p, n, {d}, 10)
  <2>1. /\ 10 < Len(p) /\ p[10] = WorkOr(d, 0) /\ n[10] \in NoteSet /\ Worked(n[10], n[11])
        /\ d \in {d} /\ <<"pdf", d>> \in n[10].held
    BY <1>1, <1>2, <1>5, <1>6
  <2> QED
    BY <2>1, WorkFollows
<1>18. Follows(p, n, {d}, 11)
  <2>1. /\ 11 < Len(p) /\ p[11] = Check(d) /\ n[11] \in NoteSet /\ Waits(n[11], n[12])
    BY <1>2, <1>5, <1>6
  <2> QED
    BY <2>1, LookFollows
<1>19. Follows(p, n, {d}, 12)
  <2>1. /\ ~(12 < Len(p)) /\ p[12] = Check(d) /\ n[12] \in NoteSet
    BY <1>2, <1>5, <1>6
  <2> QED
    BY <2>1, LookFollows
<1>20. \A i \in 1..Len(p) : Follows(p, n, {d}, i)
  <2> SUFFICES ASSUME NEW i \in 1..12 PROVE Follows(p, n, {d}, i)
    BY <1>2
  <2> QED
    BY <1>8, <1>9, <1>10, <1>11, <1>12, <1>13, <1>14, <1>15, <1>16, <1>17, <1>18, <1>19
<1> QED
  BY <1>1, <1>2, <1>4, <1>20 DEF Disciplined

(* DiffDocuments, of two documents *)
LEMMA DiffOtherFollows ==
    ASSUME NEW l \in Docs, NEW r \in Docs, l # r
    PROVE  Disciplined(Diff(l, r), DiffNotes(l, r), {l, r})
<1>1. PICK p, n, left, right, order :
          /\ p = Diff(l, r) /\ n = DiffNotes(l, r) /\ left = <<"pdf", l>> /\ right = <<"pdf", r>>
          /\ order = Order
  OBVIOUS
<1>2. /\ Len(p) = 13 /\ p[1] = Find(l) /\ p[2] = Find(r) /\ p[3] = Lock(order) /\ p[4] = Lock(left)
      /\ p[5] = Lock(right) /\ p[6] = Unlock(order) /\ p[7] = Check(l) /\ p[8] = Check(r) /\ p[9] = WorkOr(l, 0)
      /\ p[10] = Poll(l) /\ p[11] = WorkOr(r, 0) /\ p[12] = Check(l) /\ p[13] = Check(r)
  BY <1>1, DiffOtherSteps
<1>3. /\ left \in Mutexes /\ left[1] = "pdf" /\ right \in Mutexes /\ right[1] = "pdf" /\ order \in Mutexes
      /\ order[1] = "order" /\ left # right /\ left # order /\ right # order
  BY <1>1, DocMutexes, CacheMutexes DEF Kinds, Order
<1>4. /\ n[1] = Nothing /\ Says(n[1], {}, {}, {}, 0) /\ Says(n[2], {}, {}, {}, 0) /\ Says(n[3], {}, {}, {}, 0)
      /\ Says(n[4], {order}, {}, {}, 0) /\ Says(n[5], {order, left}, {}, {}, 0)
      /\ Says(n[6], {order, left, right}, {}, {}, 0) /\ Says(n[7], {left, right}, {}, {}, 0)
      /\ Says(n[8], {left, right}, {}, {}, 0) /\ Says(n[9], {left, right}, {}, {}, 0)
      /\ Says(n[10], {left, right}, {}, {}, 1) /\ Says(n[11], {left, right}, {}, {}, 1)
      /\ Says(n[12], {left, right}, {}, {}, 2) /\ Says(n[13], {left, right}, {}, {}, 2)
  BY <1>1, <1>3, NoteSays DEF DiffNotes, Nothing, Holds
<1>5. /\ n[1] \in NoteSet /\ n[2] \in NoteSet /\ n[3] \in NoteSet /\ n[4] \in NoteSet /\ n[5] \in NoteSet
      /\ n[6] \in NoteSet /\ n[7] \in NoteSet /\ n[8] \in NoteSet /\ n[9] \in NoteSet /\ n[10] \in NoteSet
      /\ n[11] \in NoteSet /\ n[12] \in NoteSet /\ n[13] \in NoteSet
  BY <1>4 DEF Says
<1>6. /\ Waits(n[1], n[2]) /\ Waits(n[2], n[3]) /\ Takes(n[3], n[4], order) /\ Takes(n[4], n[5], left)
      /\ Takes(n[5], n[6], right) /\ Drops(n[6], n[7], order) /\ order \in n[6].held /\ Waits(n[7], n[8])
      /\ Waits(n[8], n[9]) /\ Worked(n[9], n[10]) /\ left \in n[9].held /\ Waits(n[10], n[11])
      /\ Worked(n[11], n[12]) /\ right \in n[11].held /\ Waits(n[12], n[13])
  BY <1>3, <1>4 DEF Says, Same, Waits, Worked, Takes, Drops, FindsEmpty, Filled
<1>7. /\ InLockOrder(order, n[3].held) /\ InLockOrder(left, n[4].held) /\ InLockOrder(right, n[5].held)
  BY <1>1, <1>3, <1>4 DEF InLockOrder, Says, Inner, Outer
<1>8. Follows(p, n, {l, r}, 1)
  <2>1. /\ 1 < Len(p) /\ p[1] = Find(l) /\ n[1] \in NoteSet /\ Waits(n[1], n[2])
    BY <1>2, <1>5, <1>6
  <2> QED
    BY <2>1, LookFollows
<1>9. Follows(p, n, {l, r}, 2)
  <2>1. /\ 2 < Len(p) /\ p[2] = Find(r) /\ n[2] \in NoteSet /\ Waits(n[2], n[3])
    BY <1>2, <1>5, <1>6
  <2> QED
    BY <2>1, LookFollows
<1>10. Follows(p, n, {l, r}, 3)
  <2>1. /\ 3 < Len(p) /\ p[3] = Lock(order) /\ n[3] \in NoteSet /\ Takes(n[3], n[4], order)
        /\ InLockOrder(order, n[3].held)
    BY <1>2, <1>5, <1>6, <1>7
  <2> QED
    BY <2>1, LockFollows
<1>11. Follows(p, n, {l, r}, 4)
  <2>1. /\ 4 < Len(p) /\ p[4] = Lock(left) /\ n[4] \in NoteSet /\ Takes(n[4], n[5], left)
        /\ InLockOrder(left, n[4].held)
    BY <1>2, <1>5, <1>6, <1>7
  <2> QED
    BY <2>1, LockFollows
<1>12. Follows(p, n, {l, r}, 5)
  <2>1. /\ 5 < Len(p) /\ p[5] = Lock(right) /\ n[5] \in NoteSet /\ Takes(n[5], n[6], right)
        /\ InLockOrder(right, n[5].held)
    BY <1>2, <1>5, <1>6, <1>7
  <2> QED
    BY <2>1, LockFollows
<1>13. Follows(p, n, {l, r}, 6)
  <2>1. /\ 6 < Len(p) /\ p[6] = Unlock(order) /\ n[6] \in NoteSet /\ Drops(n[6], n[7], order)
        /\ order \in n[6].held
    BY <1>2, <1>5, <1>6
  <2> QED
    BY <2>1, UnlockFollows
<1>14. Follows(p, n, {l, r}, 7)
  <2>1. /\ 7 < Len(p) /\ p[7] = Check(l) /\ n[7] \in NoteSet /\ Waits(n[7], n[8])
    BY <1>2, <1>5, <1>6
  <2> QED
    BY <2>1, LookFollows
<1>15. Follows(p, n, {l, r}, 8)
  <2>1. /\ 8 < Len(p) /\ p[8] = Check(r) /\ n[8] \in NoteSet /\ Waits(n[8], n[9])
    BY <1>2, <1>5, <1>6
  <2> QED
    BY <2>1, LookFollows
<1>16. Follows(p, n, {l, r}, 9)
  <2>1. /\ 9 < Len(p) /\ p[9] = WorkOr(l, 0) /\ n[9] \in NoteSet /\ Worked(n[9], n[10])
        /\ l \in {l, r} /\ <<"pdf", l>> \in n[9].held
    BY <1>1, <1>2, <1>5, <1>6
  <2> QED
    BY <2>1, WorkFollows
<1>17. Follows(p, n, {l, r}, 10)
  <2>1. /\ 10 < Len(p) /\ p[10] = Poll(l) /\ n[10] \in NoteSet /\ Waits(n[10], n[11])
    BY <1>2, <1>5, <1>6
  <2> QED
    BY <2>1, LookFollows
<1>18. Follows(p, n, {l, r}, 11)
  <2>1. /\ 11 < Len(p) /\ p[11] = WorkOr(r, 0) /\ n[11] \in NoteSet /\ Worked(n[11], n[12])
        /\ r \in {l, r} /\ <<"pdf", r>> \in n[11].held
    BY <1>1, <1>2, <1>5, <1>6
  <2> QED
    BY <2>1, WorkFollows
<1>19. Follows(p, n, {l, r}, 12)
  <2>1. /\ 12 < Len(p) /\ p[12] = Check(l) /\ n[12] \in NoteSet /\ Waits(n[12], n[13])
    BY <1>2, <1>5, <1>6
  <2> QED
    BY <2>1, LookFollows
<1>20. Follows(p, n, {l, r}, 13)
  <2>1. /\ ~(13 < Len(p)) /\ p[13] = Check(r) /\ n[13] \in NoteSet
    BY <1>2, <1>5, <1>6
  <2> QED
    BY <2>1, LookFollows
<1>21. \A i \in 1..Len(p) : Follows(p, n, {l, r}, i)
  <2> SUFFICES ASSUME NEW i \in 1..13 PROVE Follows(p, n, {l, r}, i)
    BY <1>2
  <2> QED
    BY <1>8, <1>9, <1>10, <1>11, <1>12, <1>13, <1>14, <1>15, <1>16, <1>17, <1>18, <1>19, <1>20
<1> QED
  BY <1>1, <1>2, <1>4, <1>21 DEF Disciplined

(* One page of the image walk after the other. *)
LEMMA PageWalkSteps ==
    ASSUME NEW d \in Docs
    PROVE  /\ PageWalk(d) \in Seq(Steps) /\ Len(PageWalk(d)) = 4 * Pages
           /\ \A i \in 1..(4 * Pages) :
                /\ (i - 1) % 4 = 0 => PageWalk(d)[i] = Check(d)
                /\ (i - 1) % 4 = 1 => PageWalk(d)[i] = Lock(<<"pdf", d>>)
                /\ (i - 1) % 4 = 2 => PageWalk(d)[i] = WorkOr(d, 0)
                /\ (i - 1) % 4 = 3 => PageWalk(d)[i] = Unlock(<<"pdf", d>>)
<1>1. PICK s, w : s = <<Check(d), Lock(<<"pdf", d>>), Work(d), Unlock(<<"pdf", d>>)>> /\ w = Repeat(s, Pages)
  OBVIOUS
<1>2. Check(d) \in Steps /\ Lock(<<"pdf", d>>) \in Steps /\ Work(d) \in Steps /\ Unlock(<<"pdf", d>>) \in Steps
  <2>1. <<"pdf", d>> \in Mutexes
    BY DocMutexes DEF Kinds
  <2> QED
    BY <2>1, StepTypes
<1>3. s \in Seq(Steps) /\ Len(s) = 4
  BY <1>1, <1>2
<1>4. s[1] = Check(d) /\ s[2] = Lock(<<"pdf", d>>) /\ s[3] = WorkOr(d, 0) /\ s[4] = Unlock(<<"pdf", d>>)
  BY <1>1 DEF Work, WorkOr
<1>5. w \in Seq(Steps) /\ Len(w) = Pages * 4 /\ \A i \in 1..(Pages * 4) : w[i] = s[((i - 1) % 4) + 1]
  BY <1>1, <1>3, RepeatSteps, CallsAssumption
<1>6. Pages \in Nat /\ Pages * 4 = 4 * Pages
  BY CallsAssumption
<1>7. \A i \in 1..(4 * Pages) : /\ (i - 1) % 4 = 0 => w[i] = Check(d)
                                /\ (i - 1) % 4 = 1 => w[i] = Lock(<<"pdf", d>>)
                                /\ (i - 1) % 4 = 2 => w[i] = WorkOr(d, 0)
                                /\ (i - 1) % 4 = 3 => w[i] = Unlock(<<"pdf", d>>)
  BY <1>4, <1>5, <1>6
<1>8. w = PageWalk(d)
  BY <1>1 DEF PageWalk
<1> QED
  BY <1>5, <1>6, <1>7, <1>8

(* GetImageIndex, step by step. *)
LEMMA ImagesSteps ==
    ASSUME NEW d \in Docs
    PROVE  \E p : /\ p = Images(d) /\ Len(p) = 11 + 4 * Pages
                  /\ p[1] = Find(d) /\ p[2] = Lock(<<"image", d>>) /\ p[3] = Skip(<<"image", d>>, 8 + 4 * Pages)
                  /\ p[4] = Lock(<<"pdf", d>>) /\ p[5] = Lock(<<"page", d>>) /\ p[6] = Skip(<<"page", d>>, 2)
                  /\ p[7] = WorkOr(d, 0) /\ p[8] = Fill(<<"page", d>>) /\ p[9] = Unlock(<<"page", d>>)
                  /\ p[10] = Unlock(<<"pdf", d>>) /\ p[11 + 4 * Pages] = Fill(<<"image", d>>)
                  /\ \A i \in 11..(10 + 4 * Pages) :
                       /\ (i - 11) % 4 = 0 => p[i] = Check(d)
                       /\ (i - 11) % 4 = 1 => p[i] = Lock(<<"pdf", d>>)
                       /\ (i - 11) % 4 = 2 => p[i] = WorkOr(d, 0)
                       /\ (i - 11) % 4 = 3 => p[i] = Unlock(<<"pdf", d>>)
<1>1. PICK a, b, c, e, w, f :
          /\ a = <<Find(d), Lock(<<"image", d>>), Skip(<<"image", d>>, 8 + 4 * Pages)>>
          /\ b = <<Lock(<<"pdf", d>>)>> /\ c = PageTree(d, 0) /\ e = <<Unlock(<<"pdf", d>>)>>
          /\ w = PageWalk(d) /\ f = <<Fill(<<"image", d>>)>>
  OBVIOUS
<1>2. Pages \in Nat
  BY CallsAssumption
<1>3. PICK k \in Nat : k = 4 * Pages
  BY <1>2
<1>4. /\ Find(d) \in Steps /\ Lock(<<"image", d>>) \in Steps /\ Skip(<<"image", d>>, 8 + 4 * Pages) \in Steps
      /\ Lock(<<"pdf", d>>) \in Steps /\ Unlock(<<"pdf", d>>) \in Steps /\ Fill(<<"image", d>>) \in Steps
  <2>1. <<"pdf", d>> \in Mutexes /\ <<"image", d>> \in Mutexes
    BY DocMutexes DEF Kinds
  <2>2. 8 + 4 * Pages \in Nat
    BY <1>2
  <2> QED
    BY <2>1, <2>2, StepTypes
<1>5. /\ a \in Seq(Steps) /\ Len(a) = 3
      /\ a[1] = Find(d) /\ a[2] = Lock(<<"image", d>>) /\ a[3] = Skip(<<"image", d>>, 8 + 4 * Pages)
  BY <1>1, <1>4
<1>6. /\ b \in Seq(Steps) /\ Len(b) = 1 /\ b[1] = Lock(<<"pdf", d>>)
      /\ e \in Seq(Steps) /\ Len(e) = 1 /\ e[1] = Unlock(<<"pdf", d>>)
      /\ f \in Seq(Steps) /\ Len(f) = 1 /\ f[1] = Fill(<<"image", d>>)
  BY <1>1, <1>4
<1>7. c \in Seq(Steps) /\ Len(c) = 5
  BY <1>1, PageTreeSteps
<1>8. /\ w \in Seq(Steps) /\ Len(w) = k
      /\ \A i \in 1..k : /\ (i - 1) % 4 = 0 => w[i] = Check(d)
                         /\ (i - 1) % 4 = 1 => w[i] = Lock(<<"pdf", d>>)
                         /\ (i - 1) % 4 = 2 => w[i] = WorkOr(d, 0)
                         /\ (i - 1) % 4 = 3 => w[i] = Unlock(<<"pdf", d>>)
  BY <1>1, <1>3, PageWalkSteps
<1>9. PICK ab : ab = a \o b
  OBVIOUS
<1>10. Joins(ab, a, b, 3, 1)
  BY <1>5, <1>6, <1>9, Joined
<1>11. ab \in Seq(Steps) /\ Len(ab) = 4 /\ (\A i \in 1..3 : ab[i] = a[i]) /\ ab[4] = b[1]
  BY <1>10 DEF Joins
<1>12. PICK abc : abc = ab \o c
  OBVIOUS
<1>13. Joins(abc, ab, c, 4, 5)
  BY <1>7, <1>11, <1>12, Joined
<1>14. /\ abc \in Seq(Steps) /\ Len(abc) = 9 /\ (\A i \in 1..4 : abc[i] = ab[i])
       /\ \A i \in 5..9 : abc[i] = c[i - 4]
  BY <1>13 DEF Joins
<1>15. PICK head : head = abc \o e
  OBVIOUS
<1>16. Joins(head, abc, e, 9, 1)
  BY <1>6, <1>14, <1>15, Joined
<1>17. head \in Seq(Steps) /\ Len(head) = 10 /\ (\A i \in 1..9 : head[i] = abc[i]) /\ head[10] = e[1]
  BY <1>16 DEF Joins
<1>18. PICK walk : walk = head \o w
  OBVIOUS
<1>19. Joins(walk, head, w, 10, k)
  BY <1>8, <1>17, <1>18, Joined
<1>20. /\ walk \in Seq(Steps) /\ Len(walk) = 10 + k /\ (\A i \in 1..10 : walk[i] = head[i])
       /\ \A i \in 11..(10 + k) : walk[i] = w[i - 10]
  BY <1>3, <1>19 DEF Joins
<1>21. PICK p : p = walk \o f
  OBVIOUS
<1>22. Joins(p, walk, f, 10 + k, 1)
  BY <1>6, <1>20, <1>21, Joined
<1>23. Len(p) = 11 + k /\ (\A i \in 1..(10 + k) : p[i] = walk[i]) /\ p[11 + k] = f[1]
  BY <1>3, <1>22 DEF Joins
<1>24. p = Images(d)
  BY <1>1, <1>9, <1>12, <1>15, <1>18, <1>21 DEF Images
<1>25. \A i \in 1..10 : p[i] = head[i]
  BY SMTT(60), <1>3, <1>20, <1>23
<1>26. p[1] = a[1] /\ p[2] = a[2] /\ p[3] = a[3] /\ p[4] = b[1] /\ p[10] = e[1]
  BY <1>11, <1>14, <1>17, <1>25
<1>27. p[5] = c[1] /\ p[6] = c[2] /\ p[7] = c[3] /\ p[8] = c[4] /\ p[9] = c[5]
  BY <1>14, <1>17, <1>25
<1>28. ASSUME NEW i \in 11..(10 + k)
       PROVE  /\ (i - 11) % 4 = 0 => p[i] = Check(d)
              /\ (i - 11) % 4 = 1 => p[i] = Lock(<<"pdf", d>>)
              /\ (i - 11) % 4 = 2 => p[i] = WorkOr(d, 0)
              /\ (i - 11) % 4 = 3 => p[i] = Unlock(<<"pdf", d>>)
  <2>1. p[i] = w[i - 10]
    BY SMTT(60), <1>3, <1>20, <1>23
  <2>2. i - 10 \in 1..k /\ (i - 10) - 1 = i - 11
    BY <1>3
  <2> QED
    BY <1>8, <2>1, <2>2
<1>29. c[1] = Lock(<<"page", d>>) /\ c[2] = Skip(<<"page", d>>, 2) /\ c[3] = WorkOr(d, 0)
       /\ c[4] = Fill(<<"page", d>>) /\ c[5] = Unlock(<<"page", d>>)
  BY <1>1, PageTreeSteps
<1> WITNESS p
<1> QED
  BY <1>3, <1>5, <1>6, <1>23, <1>24, <1>26, <1>27, <1>28, <1>29

(* GetImageIndex, GetImagePages, GetImagePageGroups *)
LEMMA ImagesFollows ==
    ASSUME NEW d \in Docs
    PROVE  Disciplined(Images(d), ImagesNotes(d), {d})
<1>1. PICK n, pdf, page, image, k :
          /\ n = ImagesNotes(d) /\ pdf = <<"pdf", d>> /\ page = <<"page", d>> /\ image = <<"image", d>>
          /\ k = 4 * Pages
  OBVIOUS
<1>2. PICK p : /\ p = Images(d)
               /\ Len(p) = 11 + k /\ p[1] = Find(d) /\ p[2] = Lock(image) /\ p[3] = Skip(image, 8 + k)
               /\ p[4] = Lock(pdf) /\ p[5] = Lock(page) /\ p[6] = Skip(page, 2) /\ p[7] = WorkOr(d, 0)
               /\ p[8] = Fill(page) /\ p[9] = Unlock(page) /\ p[10] = Unlock(pdf) /\ p[11 + k] = Fill(image)
               /\ \A i \in 11..(10 + k) : /\ (i - 11) % 4 = 0 => p[i] = Check(d)
                                          /\ (i - 11) % 4 = 1 => p[i] = Lock(pdf)
                                          /\ (i - 11) % 4 = 2 => p[i] = WorkOr(d, 0)
                                          /\ (i - 11) % 4 = 3 => p[i] = Unlock(pdf)
  BY <1>1, ImagesSteps
<1>3. /\ pdf \in Mutexes /\ pdf[1] = "pdf" /\ page \in Mutexes /\ page[1] = "page" /\ page \in Caches
      /\ image \in Mutexes /\ image[1] = "image" /\ image \in Caches /\ pdf # page /\ pdf # image /\ page # image
  BY <1>1, DocMutexes DEF Kinds
<1>4. k \in Nat /\ k % 4 = 0
  BY <1>1, CallsAssumption
<1>5. /\ n[1] = Note({}, {}, {}, 0) /\ n[2] = Note({}, {}, {}, 0) /\ n[3] = Note({image}, {}, {}, 0)
      /\ n[4] = Note({image}, {image}, {}, 0) /\ n[5] = Note({image, pdf}, {image}, {}, 0)
      /\ n[6] = Note({image, pdf, page}, {image}, {}, 0)
      /\ n[7] = Note({image, pdf, page}, {image, page}, {}, 0)
      /\ n[8] = Note({image, pdf, page}, {image, page}, {}, 1)
      /\ n[9] = Note({image, pdf, page}, {image}, {}, 1) /\ n[10] = Note({image, pdf}, {image}, {}, 1)
  <2>1. \A i \in 1..10 : n[i] = ImagesHeadNotes(d)[i]
    BY <1>1, <1>4 DEF ImagesNotes
  <2> QED
    BY <1>1, <2>1 DEF ImagesHeadNotes, Nothing, Holds, Builds
<1>6. /\ n[1] = Nothing /\ Says(n[1], {}, {}, {}, 0) /\ Says(n[2], {}, {}, {}, 0)
      /\ Says(n[3], {image}, {}, {}, 0) /\ Says(n[4], {image}, {image}, {}, 0)
      /\ Says(n[5], {image, pdf}, {image}, {}, 0) /\ Says(n[6], {image, pdf, page}, {image}, {}, 0)
      /\ Says(n[7], {image, pdf, page}, {image, page}, {}, 0)
      /\ Says(n[8], {image, pdf, page}, {image, page}, {}, 1) /\ Says(n[9], {image, pdf, page}, {image}, {}, 1)
      /\ Says(n[10], {image, pdf}, {image}, {}, 1)
  BY <1>3, <1>5, NoteSays DEF Nothing
<1>7. ASSUME NEW i \in 11..(11 + k)
      PROVE  /\ (i - 11) % 4 = 0 => n[i] = Note({image}, {image}, {}, 1)
             /\ (i - 11) % 4 = 1 => n[i] = Note({image}, {image}, {}, 0)
             /\ (i - 11) % 4 = 2 => n[i] = Note({image, pdf}, {image}, {}, 0)
             /\ (i - 11) % 4 = 3 => n[i] = Note({image, pdf}, {image}, {}, 1)
  <2>1. n[i] = PageWalkNotes(d)[((i - 11) % 4) + 1]
    BY <1>1, <1>4 DEF ImagesNotes
  <2> QED
    BY <1>1, <2>1 DEF PageWalkNotes, Builds
<1>8. ASSUME NEW i \in 11..(11 + k)
      PROVE  /\ (i - 11) % 4 = 0 => Says(n[i], {image}, {image}, {}, 1)
             /\ (i - 11) % 4 = 1 => Says(n[i], {image}, {image}, {}, 0)
             /\ (i - 11) % 4 = 2 => Says(n[i], {image, pdf}, {image}, {}, 0)
             /\ (i - 11) % 4 = 3 => Says(n[i], {image, pdf}, {image}, {}, 1)
  <2>1. /\ Says(Note({image}, {image}, {}, 1), {image}, {image}, {}, 1)
        /\ Says(Note({image}, {image}, {}, 0), {image}, {image}, {}, 0)
        /\ Says(Note({image, pdf}, {image}, {}, 0), {image, pdf}, {image}, {}, 0)
        /\ Says(Note({image, pdf}, {image}, {}, 1), {image, pdf}, {image}, {}, 1)
    BY <1>3, NoteSays
  <2> QED
    BY <1>7, <2>1
<1>9. Says(n[11], {image}, {image}, {}, 1) /\ Says(n[11 + k], {image}, {image}, {}, 1)
  BY <1>4, <1>8
<1>10. /\ n[1] \in NoteSet /\ n[2] \in NoteSet /\ n[3] \in NoteSet /\ n[4] \in NoteSet /\ n[5] \in NoteSet
       /\ n[6] \in NoteSet /\ n[7] \in NoteSet /\ n[8] \in NoteSet /\ n[9] \in NoteSet /\ n[10] \in NoteSet
       /\ n[11] \in NoteSet /\ n[11 + k] \in NoteSet
  BY <1>6, <1>9 DEF Says
<1>11. /\ Waits(n[1], n[2]) /\ Takes(n[2], n[3], image) /\ FindsEmpty(n[3], n[4], image) /\ image \in n[3].held
       /\ Takes(n[4], n[5], pdf) /\ Takes(n[5], n[6], page) /\ FindsEmpty(n[6], n[7], page)
       /\ page \in n[6].held /\ Worked(n[7], n[8]) /\ pdf \in n[7].held /\ Filled(n[8], n[9], page)
       /\ page \in n[8].empty /\ Drops(n[9], n[10], page) /\ page \in n[9].held /\ Drops(n[10], n[11], pdf)
       /\ pdf \in n[10].held /\ Filled(n[6], n[9], page) /\ image \in n[11 + k].empty
  BY <1>3, <1>6, <1>9 DEF Says, Same, Waits, Worked, Takes, Drops, FindsEmpty, Filled
<1>12. /\ InLockOrder(image, n[2].held) /\ InLockOrder(pdf, n[4].held) /\ InLockOrder(page, n[5].held)
  BY <1>3, <1>6 DEF InLockOrder, Says, Inner, Outer
<1>13. Follows(p, n, {d}, 1)
  <2>1. /\ 1 < Len(p) /\ p[1] = Find(d) /\ n[1] \in NoteSet /\ Waits(n[1], n[2])
    BY <1>2, <1>4, <1>10, <1>11
  <2> QED
    BY <2>1, LookFollows
<1>14. Follows(p, n, {d}, 2)
  <2>1. /\ 2 < Len(p) /\ p[2] = Lock(image) /\ n[2] \in NoteSet /\ Takes(n[2], n[3], image)
        /\ InLockOrder(image, n[2].held)
    BY <1>2, <1>4, <1>10, <1>11, <1>12
  <2> QED
    BY <2>1, LockFollows
<1>15. Follows(p, n, {d}, 3)
  <2>1. /\ 3 < Len(p) /\ p[3] = Skip(image, 8 + k) /\ n[3] \in NoteSet /\ FindsEmpty(n[3], n[4], image)
        /\ image \in n[3].held /\ ~(3 + 1 + (8 + k) <= Len(p)) /\ image \in Caches /\ 8 + k \in Nat
    BY <1>2, <1>3, <1>4, <1>10, <1>11
  <2> QED
    BY <2>1, SkipFollows
<1>16. Follows(p, n, {d}, 4)
  <2>1. /\ 4 < Len(p) /\ p[4] = Lock(pdf) /\ n[4] \in NoteSet /\ Takes(n[4], n[5], pdf)
        /\ InLockOrder(pdf, n[4].held)
    BY <1>2, <1>4, <1>10, <1>11, <1>12
  <2> QED
    BY <2>1, LockFollows
<1>17. Follows(p, n, {d}, 5)
  <2>1. /\ 5 < Len(p) /\ p[5] = Lock(page) /\ n[5] \in NoteSet /\ Takes(n[5], n[6], page)
        /\ InLockOrder(page, n[5].held)
    BY <1>2, <1>4, <1>10, <1>11, <1>12
  <2> QED
    BY <2>1, LockFollows
<1>18. Follows(p, n, {d}, 6)
  <2>1. /\ 6 < Len(p) /\ p[6] = Skip(page, 2) /\ n[6] \in NoteSet /\ FindsEmpty(n[6], n[7], page)
        /\ page \in n[6].held /\ Filled(n[6], n[9], page) /\ page \in Caches
    BY <1>2, <1>3, <1>4, <1>10, <1>11
  <2> QED
    BY <2>1, SkipFollows
<1>19. Follows(p, n, {d}, 7)
  <2>1. /\ 7 < Len(p) /\ p[7] = WorkOr(d, 0) /\ n[7] \in NoteSet /\ Worked(n[7], n[8])
        /\ d \in {d} /\ <<"pdf", d>> \in n[7].held
    BY <1>1, <1>2, <1>4, <1>10, <1>11
  <2> QED
    BY <2>1, WorkFollows
<1>20. Follows(p, n, {d}, 8)
  <2>1. /\ 8 < Len(p) /\ p[8] = Fill(page) /\ n[8] \in NoteSet /\ Filled(n[8], n[9], page)
        /\ page \in n[8].empty
    BY <1>2, <1>4, <1>10, <1>11
  <2> QED
    BY <2>1, FillFollows
<1>21. Follows(p, n, {d}, 9)
  <2>1. /\ 9 < Len(p) /\ p[9] = Unlock(page) /\ n[9] \in NoteSet /\ Drops(n[9], n[10], page)
        /\ page \in n[9].held
    BY <1>2, <1>4, <1>10, <1>11
  <2> QED
    BY <2>1, UnlockFollows
<1>22. Follows(p, n, {d}, 10)
  <2>1. /\ 10 < Len(p) /\ p[10] = Unlock(pdf) /\ n[10] \in NoteSet /\ Drops(n[10], n[11], pdf)
        /\ pdf \in n[10].held
    BY <1>2, <1>4, <1>10, <1>11
  <2> QED
    BY <2>1, UnlockFollows
<1>23. Follows(p, n, {d}, 11 + k)
  <2>1. /\ ~(11 + k < Len(p)) /\ p[11 + k] = Fill(image) /\ n[11 + k] \in NoteSet /\ image \in n[11 + k].empty
        /\ 11 + k \in Nat
    BY <1>2, <1>4, <1>10, <1>11
  <2> QED
    BY <2>1, FillFollows
<1>24. ASSUME NEW i \in 11..(10 + k)
      PROVE  Follows(p, n, {d}, i)
  <2>1. i \in Nat /\ i < Len(p) /\ i \in 11..(11 + k) /\ i + 1 \in 11..(11 + k) /\ (i + 1) - 11 = (i - 11) + 1
    BY <1>2, <1>4
  <2>2. (i - 11) % 4 \in 0..3
    BY <2>1
  <2>3. CASE (i - 11) % 4 = 0
    <3>1. ((i + 1) - 11) % 4 = 1
      BY <2>1, <2>3
    <3>2. p[i] = Check(d)
      BY <1>2, <2>3
    <3>3. Says(n[i], {image}, {image}, {}, 1) /\ Says(n[i + 1], {image}, {image}, {}, 0)
      BY <1>8, <2>1, <2>3, <3>1
    <3>4. /\ n[i] \in NoteSet /\ Same(n[i], n[i + 1])
      BY <1>3, <3>3 DEF Says, Same, Worked, Takes, Drops
    <3> QED
      BY <2>1, <3>2, <3>4, CheckFollows
  <2>4. CASE (i - 11) % 4 = 1
    <3>1. ((i + 1) - 11) % 4 = 2
      BY <2>1, <2>4
    <3>2. p[i] = Lock(pdf)
      BY <1>2, <2>4
    <3>3. Says(n[i], {image}, {image}, {}, 0) /\ Says(n[i + 1], {image, pdf}, {image}, {}, 0)
      BY <1>8, <2>1, <2>4, <3>1
    <3>4. /\ n[i] \in NoteSet /\ Takes(n[i], n[i + 1], pdf)
      BY <1>3, <3>3 DEF Says, Same, Worked, Takes, Drops
    <3>5. InLockOrder(pdf, n[i].held)
      BY <1>3, <3>3 DEF InLockOrder, Says, Inner, Outer
    <3> QED
      BY <2>1, <3>2, <3>4, <3>5, LockFollows
  <2>5. CASE (i - 11) % 4 = 2
    <3>1. ((i + 1) - 11) % 4 = 3
      BY <2>1, <2>5
    <3>2. p[i] = WorkOr(d, 0)
      BY <1>2, <2>5
    <3>3. Says(n[i], {image, pdf}, {image}, {}, 0) /\ Says(n[i + 1], {image, pdf}, {image}, {}, 1)
      BY <1>8, <2>1, <2>5, <3>1
    <3>4. /\ n[i] \in NoteSet /\ Worked(n[i], n[i + 1]) /\ pdf \in n[i].held
      BY <1>3, <3>3 DEF Says, Same, Worked, Takes, Drops
    <3>5. d \in {d} /\ <<"pdf", d>> \in n[i].held
      BY <1>1, <3>4
    <3> QED
      BY <2>1, <3>2, <3>4, <3>5, WorkFollows
  <2>6. CASE (i - 11) % 4 = 3
    <3>1. ((i + 1) - 11) % 4 = 0
      BY <2>1, <2>6
    <3>2. p[i] = Unlock(pdf)
      BY <1>2, <2>6
    <3>3. Says(n[i], {image, pdf}, {image}, {}, 1) /\ Says(n[i + 1], {image}, {image}, {}, 1)
      BY <1>8, <2>1, <2>6, <3>1
    <3>4. /\ n[i] \in NoteSet /\ Drops(n[i], n[i + 1], pdf) /\ pdf \in n[i].held
      BY <1>3, <3>3 DEF Says, Same, Worked, Takes, Drops
    <3> QED
      BY <2>1, <3>2, <3>4, UnlockFollows
  <2> QED
    BY <2>2, <2>3, <2>4, <2>5, <2>6
<1>25. ASSUME NEW i \in 1..(11 + k)
      PROVE  Follows(p, n, {d}, i)
  <2>1. i \in 1..10 \/ i \in 11..(10 + k) \/ i = 11 + k
    BY <1>4
  <2>2. CASE i \in 1..10
    BY <2>2, <1>13, <1>14, <1>15, <1>16, <1>17, <1>18, <1>19, <1>20, <1>21, <1>22
  <2> QED
    BY <1>23, <1>24, <2>1, <2>2
<1>26. \A i \in 1..Len(p) : Follows(p, n, {d}, i)
  BY <1>2, <1>25
<1>27. Len(p) \in Nat /\ Len(p) >= 1
  BY <1>2, <1>4
<1> QED
  BY <1>1, <1>2, <1>6, <1>26, <1>27 DEF Disciplined

(* What a panic at step i of a structure walk skips, where it is recovered. *)
Rescue(recovers, i) == IF recovers THEN 11 + 6 * Pages - i ELSE 0

(* The scans of the pages. *)
Scans(d, recovers) ==
    [i \in 1..(6 * Pages) |->
        ScanPage(d, IF recovers THEN (9 + 6 * Pages) - (8 + i) ELSE 0)[((i - 1) % 6) + 1]]

(* They are w, one after the other. *)
Scanned(w, d, recovers) ==
    /\ w \in Seq(Steps) /\ Len(w) = 6 * Pages
    /\ \A i \in 1..(6 * Pages) : /\ (i - 1) % 6 = 0 => w[i] = Check(d)
                                 /\ (i - 1) % 6 = 1 => w[i] = Lock(<<"pdf", d>>)
                                 /\ (i - 1) % 6 = 2 => w[i] = Lock(<<"stream", d>>)
                                 /\ (i - 1) % 6 = 3 => w[i] = Unlock(<<"stream", d>>)
                                 /\ (i - 1) % 6 = 4 => w[i] = WorkOr(d, Rescue(recovers, i + 10))
                                 /\ (i - 1) % 6 = 5 => w[i] = Unlock(<<"pdf", d>>)

(* scanPageLocked for every page, step by step. *)
LEMMA ScanSteps ==
    ASSUME NEW d \in Docs, NEW recovers \in BOOLEAN PROVE Scanned(Scans(d, recovers), d, recovers)
<1>1. PICK w, k : w = Scans(d, recovers) /\ k = 6 * Pages
  OBVIOUS
<1>2. k \in Nat /\ Pages \in Nat
  BY <1>1, CallsAssumption
<1>3. ASSUME NEW i \in 1..k
      PROVE  /\ w[i] \in Steps
             /\ (i - 1) % 6 = 0 => w[i] = Check(d)
             /\ (i - 1) % 6 = 1 => w[i] = Lock(<<"pdf", d>>)
             /\ (i - 1) % 6 = 2 => w[i] = Lock(<<"stream", d>>)
             /\ (i - 1) % 6 = 3 => w[i] = Unlock(<<"stream", d>>)
             /\ (i - 1) % 6 = 4 => w[i] = WorkOr(d, Rescue(recovers, i + 10))
             /\ (i - 1) % 6 = 5 => w[i] = Unlock(<<"pdf", d>>)
  <2>1. PICK r : r = IF recovers THEN (9 + 6 * Pages) - (8 + i) ELSE 0
    OBVIOUS
  <2>2. r \in Nat /\ r = Rescue(recovers, i + 10)
    <3>1. (9 + 6 * Pages) - (8 + i) \in Nat /\ (9 + 6 * Pages) - (8 + i) = 11 + 6 * Pages - (i + 10)
      BY <1>1, <1>2
    <3> QED
      BY <2>1, <3>1 DEF Rescue
  <2>3. PICK m \in 0..5 : m = (i - 1) % 6
    OBVIOUS
  <2>4. PICK s : s = ScanPage(d, r)
    OBVIOUS
  <2>5. /\ s[1] = Check(d) /\ s[2] = Lock(<<"pdf", d>>) /\ s[3] = Lock(<<"stream", d>>)
        /\ s[4] = Unlock(<<"stream", d>>) /\ s[5] = WorkOr(d, r) /\ s[6] = Unlock(<<"pdf", d>>)
    BY <2>4 DEF ScanPage
  <2>6. w[i] = s[m + 1]
    BY <1>1, <2>1, <2>3, <2>4 DEF Scans
  <2>7. /\ Check(d) \in Steps /\ Lock(<<"pdf", d>>) \in Steps /\ Lock(<<"stream", d>>) \in Steps
        /\ Unlock(<<"stream", d>>) \in Steps /\ WorkOr(d, r) \in Steps /\ Unlock(<<"pdf", d>>) \in Steps
    <3>1. <<"pdf", d>> \in Mutexes /\ <<"stream", d>> \in Mutexes
      BY DocMutexes DEF Kinds
    <3> QED
      BY <2>2, <3>1, StepTypes
  <2>8. WorkOr(d, r) = WorkOr(d, Rescue(recovers, i + 10))
    BY <2>2
  <2> QED
    BY <2>3, <2>5, <2>6, <2>7, <2>8
<1>4. w = [i \in 1..k |-> w[i]]
  BY <1>1 DEF Scans
<1>5. w \in [1..k -> Steps]
  BY <1>3, <1>4
<1>6. w \in Seq(Steps) /\ Len(w) = k
  BY <1>2, <1>5, StepSequence
<1>7. Scanned(w, d, recovers)
  BY <1>1, <1>3, <1>6 DEF Scanned
<1> QED
  BY <1>1, <1>7

(* The steps of buildStructure, after one step of its caller. *)
Walks(p, d, recovers) ==
    /\ p[2] = Check(d) /\ p[3] = Lock(<<"pdf", d>>) /\ p[4] = Lock(<<"page", d>>) /\ p[5] = Skip(<<"page", d>>, 2)
    /\ p[6] = WorkOr(d, Rescue(recovers, 6)) /\ p[7] = Fill(<<"page", d>>) /\ p[8] = Unlock(<<"page", d>>)
    /\ p[9] = WorkOr(d, Rescue(recovers, 9)) /\ p[10] = Unlock(<<"pdf", d>>)
    /\ \A i \in 11..(10 + 6 * Pages) : /\ (i - 11) % 6 = 0 => p[i] = Check(d)
                                       /\ (i - 11) % 6 = 1 => p[i] = Lock(<<"pdf", d>>)
                                       /\ (i - 11) % 6 = 2 => p[i] = Lock(<<"stream", d>>)
                                       /\ (i - 11) % 6 = 3 => p[i] = Unlock(<<"stream", d>>)
                                       /\ (i - 11) % 6 = 4 => p[i] = WorkOr(d, Rescue(recovers, i))
                                       /\ (i - 11) % 6 = 5 => p[i] = Unlock(<<"pdf", d>>)

(* buildStructure, step by step. *)
LEMMA BuildStructureSteps ==
    ASSUME NEW d \in Docs, NEW recovers \in BOOLEAN
    PROVE  \E q : /\ q = <<Find(d)>> \o BuildStructure(d, recovers)
                  /\ q \in Seq(Steps) /\ Len(q) = 10 + 6 * Pages /\ q[1] = Find(d) /\ Walks(q, d, recovers)
<1>1. PICK a, b, c, f :
          /\ a = <<Check(d), Lock(<<"pdf", d>>)>> /\ b = PageTree(d, Rescue(recovers, 6))
          /\ c = <<WorkOr(d, Rescue(recovers, 9)), Unlock(<<"pdf", d>>)>> /\ f = <<Find(d)>>
  OBVIOUS
<1>2. Pages \in Nat
  BY CallsAssumption
<1>3. PICK k \in Nat : k = 6 * Pages
  BY <1>2
<1>4. PICK w : w = Scans(d, recovers)
  OBVIOUS
<1>5. Scanned(w, d, recovers)
  BY <1>4, ScanSteps
<1>6. w \in Seq(Steps) /\ Len(w) = k
  BY <1>3, <1>5 DEF Scanned
<1>7. Rescue(recovers, 6) \in Nat /\ Rescue(recovers, 9) \in Nat
  BY <1>2 DEF Rescue
<1>8. /\ Find(d) \in Steps /\ Check(d) \in Steps /\ Lock(<<"pdf", d>>) \in Steps /\ Unlock(<<"pdf", d>>) \in Steps
      /\ WorkOr(d, Rescue(recovers, 9)) \in Steps
  <2>1. <<"pdf", d>> \in Mutexes
    BY DocMutexes DEF Kinds
  <2> QED
    BY <1>7, <2>1, StepTypes
<1>9. /\ a \in Seq(Steps) /\ Len(a) = 2 /\ a[1] = Check(d) /\ a[2] = Lock(<<"pdf", d>>)
      /\ c \in Seq(Steps) /\ Len(c) = 2 /\ c[1] = WorkOr(d, Rescue(recovers, 9)) /\ c[2] = Unlock(<<"pdf", d>>)
      /\ f \in Seq(Steps) /\ Len(f) = 1 /\ f[1] = Find(d)
  BY <1>1, <1>8
<1>10. /\ b \in Seq(Steps) /\ Len(b) = 5 /\ b[1] = Lock(<<"page", d>>) /\ b[2] = Skip(<<"page", d>>, 2)
       /\ b[3] = WorkOr(d, Rescue(recovers, 6)) /\ b[4] = Fill(<<"page", d>>) /\ b[5] = Unlock(<<"page", d>>)
  BY <1>1, <1>7, PageTreeSteps
<1>11. PICK ab : ab = a \o b
  OBVIOUS
<1>12. Joins(ab, a, b, 2, 5)
  BY <1>9, <1>10, <1>11, Joined
<1>13. /\ ab \in Seq(Steps) /\ Len(ab) = 7 /\ (\A i \in 1..2 : ab[i] = a[i])
       /\ \A i \in 3..7 : ab[i] = b[i - 2]
  BY <1>12 DEF Joins
<1>14. PICK abc : abc = ab \o c
  OBVIOUS
<1>15. Joins(abc, ab, c, 7, 2)
  BY <1>9, <1>13, <1>14, Joined
<1>16. /\ abc \in Seq(Steps) /\ Len(abc) = 9 /\ (\A i \in 1..7 : abc[i] = ab[i])
       /\ \A i \in 8..9 : abc[i] = c[i - 7]
  BY <1>15 DEF Joins
<1>17. PICK build : build = abc \o w
  OBVIOUS
<1>18. Joins(build, abc, w, 9, k)
  BY <1>6, <1>16, <1>17, Joined
<1>19. /\ build \in Seq(Steps) /\ Len(build) = 9 + k /\ (\A i \in 1..9 : build[i] = abc[i])
       /\ \A i \in 10..(9 + k) : build[i] = w[i - 9]
  BY <1>3, <1>18 DEF Joins
<1>20. PICK q : q = f \o build
  OBVIOUS
<1>21. Joins(q, f, build, 1, 9 + k)
  BY <1>9, <1>19, <1>20, Joined
<1>22. q \in Seq(Steps) /\ Len(q) = 10 + k /\ q[1] = f[1] /\ \A i \in 2..(10 + k) : q[i] = build[i - 1]
  BY <1>3, <1>21 DEF Joins
<1>23. build = BuildStructure(d, recovers)
  <2>1. /\ Rescue(recovers, 6) = IF recovers THEN (9 + 6 * Pages) - 4 ELSE 0
        /\ Rescue(recovers, 9) = IF recovers THEN (9 + 6 * Pages) - 7 ELSE 0
    BY <1>2 DEF Rescue
  <2> QED
    BY <1>1, <1>4, <1>11, <1>14, <1>17, <2>1 DEF BuildStructure, Scans
<1>24. \A i \in 2..10 : q[i] = abc[i - 1]
  BY SMTT(60), <1>3, <1>19, <1>22
<1>25. q[2] = a[1] /\ q[3] = a[2] /\ q[9] = c[1] /\ q[10] = c[2]
  BY <1>13, <1>16, <1>24
<1>26. q[4] = b[1] /\ q[5] = b[2] /\ q[6] = b[3] /\ q[7] = b[4] /\ q[8] = b[5]
  BY <1>13, <1>16, <1>24
<1>27. ASSUME NEW i \in 11..(10 + k)
       PROVE  /\ (i - 11) % 6 = 0 => q[i] = Check(d)
              /\ (i - 11) % 6 = 1 => q[i] = Lock(<<"pdf", d>>)
              /\ (i - 11) % 6 = 2 => q[i] = Lock(<<"stream", d>>)
              /\ (i - 11) % 6 = 3 => q[i] = Unlock(<<"stream", d>>)
              /\ (i - 11) % 6 = 4 => q[i] = WorkOr(d, Rescue(recovers, i))
              /\ (i - 11) % 6 = 5 => q[i] = Unlock(<<"pdf", d>>)
  <2>1. PICK j \in 1..k : j = i - 10
    BY <1>3
  <2>2. q[i] = w[j] /\ i - 11 = j - 1 /\ i = j + 10
    BY SMTT(60), <1>3, <1>19, <1>22, <2>1
  <2> QED
    BY <1>3, <1>5, <2>1, <2>2 DEF Scanned
<1>28. Walks(q, d, recovers)
  BY <1>3, <1>9, <1>10, <1>25, <1>26, <1>27 DEF Walks
<1> WITNESS q
<1> QED
  BY <1>1, <1>3, <1>9, <1>20, <1>22, <1>23, <1>28

(* A panic in a structure walk: without a caller that recovers the call is   *)
(* over, with one it goes on with nothing held.                              *)
LEMMA WalkWorkFollows ==
    ASSUME NEW d, NEW recovers \in BOOLEAN, NEW p, NEW n, NEW k \in Nat, NEW i \in 1..(10 + k),
           NEW r, r = (IF recovers THEN 11 + k - i ELSE 0), p[i] = WorkOr(d, r), n[i] \in NoteSet, n[i].late <= 2,
           <<"pdf", d>> \in n[i].held, i < Len(p), Worked(n[i], n[i + 1]),
           recovers => Len(p) = 12 + k /\ Says(n[11 + k], {}, {}, {}, 2)
    PROVE  Follows(p, n, {d}, i)
<1>1. r \in Nat /\ (r > 0 => recovers /\ i + r = 11 + k)
  <2>1. CASE recovers
    <3>1. r = 11 + k - i
      BY <2>1
    <3>2. r \in Nat /\ i + r = 11 + k
      BY <3>1
    <3> QED
      BY <2>1, <3>2
  <2>2. CASE ~recovers
    BY <2>2
  <2> QED
    BY <2>1, <2>2
<1>2. r > 0 => i + r <= Len(p) /\ Rescued(n[i], n[i + r])
  <2> HAVE r > 0
  <2>1. Len(p) = 12 + k /\ Says(n[i + r], {}, {}, {}, 2)
    BY <1>1
  <2>2. Rescued(n[i], n[i + r])
    BY <2>1 DEF Rescued, Says
  <2> QED
    BY <1>1, <2>1, <2>2
<1>3. i \in Nat /\ d \in {d}
  OBVIOUS
<1> QED
  BY <1>1, <1>2, <1>3, WorkFollows

(* A call that builds the structure, with its notes; when it recovers from   *)
(* the walk, k steps long, two more steps come after it.                     *)
WalkCall(p, n, d, recovers, k) ==
    /\ k = 6 * Pages /\ p[1] = Find(d) /\ Walks(p, d, recovers)
    /\ Len(p) = IF recovers THEN 12 + k ELSE 10 + k
    /\ \A i \in 1..(11 + k) : i <= Len(p) => n[i] = WalkNotes(d, i)

(* buildStructure follows the notes, whatever comes after it. *)
LEMMA WalkFollows ==
    ASSUME NEW d \in Docs, NEW recovers \in BOOLEAN, NEW p, NEW n, NEW k \in Nat, WalkCall(p, n, d, recovers, k)
    PROVE  \A i \in 1..(10 + k) : Follows(p, n, {d}, i)
<1>1. PICK pdf, page, stream : pdf = <<"pdf", d>> /\ page = <<"page", d>> /\ stream = <<"stream", d>>
  OBVIOUS
<1>2. /\ p[1] = Find(d) /\ p[2] = Check(d) /\ p[3] = Lock(pdf) /\ p[4] = Lock(page) /\ p[5] = Skip(page, 2)
      /\ p[6] = WorkOr(d, Rescue(recovers, 6)) /\ p[7] = Fill(page) /\ p[8] = Unlock(page)
      /\ p[9] = WorkOr(d, Rescue(recovers, 9)) /\ p[10] = Unlock(pdf)
      /\ \A i \in 11..(10 + k) : /\ (i - 11) % 6 = 0 => p[i] = Check(d)
                                 /\ (i - 11) % 6 = 1 => p[i] = Lock(pdf)
                                 /\ (i - 11) % 6 = 2 => p[i] = Lock(stream)
                                 /\ (i - 11) % 6 = 3 => p[i] = Unlock(stream)
                                 /\ (i - 11) % 6 = 4 => p[i] = WorkOr(d, Rescue(recovers, i))
                                 /\ (i - 11) % 6 = 5 => p[i] = Unlock(pdf)
  BY <1>1 DEF WalkCall, Walks
<1>3. /\ pdf \in Mutexes /\ pdf[1] = "pdf" /\ page \in Mutexes /\ page[1] = "page" /\ page \in Caches
      /\ stream \in Mutexes /\ stream[1] = "stream" /\ pdf # page /\ pdf # stream
  BY <1>1, DocMutexes DEF Kinds
<1>4. /\ Len(p) \in Nat /\ 10 + k <= Len(p) /\ (10 + k < Len(p) <=> recovers) /\ k % 6 = 0
      /\ (recovers => Len(p) = 12 + k) /\ k = 6 * Pages
  BY CallsAssumption DEF WalkCall
<1>5. /\ n[1] = Note({}, {}, {}, 0) /\ n[2] = Note({}, {}, {}, 0) /\ n[3] = Note({}, {}, {}, 0)
      /\ n[4] = Note({pdf}, {}, {}, 0) /\ n[5] = Note({pdf, page}, {}, {}, 0)
      /\ n[6] = Note({pdf, page}, {page}, {}, 0) /\ n[7] = Note({pdf, page}, {page}, {}, 1)
      /\ n[8] = Note({pdf, page}, {}, {}, 1) /\ n[9] = Note({pdf}, {}, {}, 1) /\ n[10] = Note({pdf}, {}, {}, 2)
  <2>1. /\ n[1] = Nothing /\ \A i \in 2..10 : n[i] = TreeNotes(d)[i - 1]
    <3>1. \A i \in 1..10 : n[i] = WalkNotes(d, i)
      BY <1>4 DEF WalkCall
    <3> QED
      BY <3>1 DEF WalkNotes
  <2>2. PICK t : t = TreeNotes(d)
    OBVIOUS
  <2>3. /\ t[1] = Note({}, {}, {}, 0) /\ t[2] = Note({}, {}, {}, 0) /\ t[3] = Note({pdf}, {}, {}, 0)
        /\ t[4] = Note({pdf, page}, {}, {}, 0) /\ t[5] = Note({pdf, page}, {page}, {}, 0)
        /\ t[6] = Note({pdf, page}, {page}, {}, 1) /\ t[7] = Note({pdf, page}, {}, {}, 1)
        /\ t[8] = Note({pdf}, {}, {}, 1) /\ t[9] = Note({pdf}, {}, {}, 2)
    BY <1>1, <2>2 DEF TreeNotes, Nothing, Holds, Builds
  <2> QED
    BY <2>1, <2>2, <2>3 DEF Nothing
<1>6. /\ Says(n[1], {}, {}, {}, 0) /\ Says(n[2], {}, {}, {}, 0) /\ Says(n[3], {}, {}, {}, 0)
      /\ Says(n[4], {pdf}, {}, {}, 0) /\ Says(n[5], {pdf, page}, {}, {}, 0)
      /\ Says(n[6], {pdf, page}, {page}, {}, 0) /\ Says(n[7], {pdf, page}, {page}, {}, 1)
      /\ Says(n[8], {pdf, page}, {}, {}, 1) /\ Says(n[9], {pdf}, {}, {}, 1) /\ Says(n[10], {pdf}, {}, {}, 2)
  BY <1>3, <1>5, NoteSays
<1>7. ASSUME NEW i \in 11..(11 + k), i <= Len(p)
      PROVE  /\ (i - 11) % 6 = 0 => Says(n[i], {}, {}, {}, 2)
             /\ (i - 11) % 6 = 1 => Says(n[i], {}, {}, {}, 0)
             /\ (i - 11) % 6 = 2 => Says(n[i], {pdf}, {}, {}, 0)
             /\ (i - 11) % 6 = 3 => Says(n[i], {pdf, stream}, {}, {}, 0)
             /\ (i - 11) % 6 = 4 => Says(n[i], {pdf}, {}, {}, 0)
             /\ (i - 11) % 6 = 5 => Says(n[i], {pdf}, {}, {}, 1)
  <2>1. n[i] = ScanNotes(d)[((i - 11) % 6) + 1]
    BY <1>7 DEF WalkCall, WalkNotes
  <2>2. PICK t : t = ScanNotes(d)
    OBVIOUS
  <2>3. /\ t[1] = Note({}, {}, {}, 2) /\ t[2] = Note({}, {}, {}, 0) /\ t[3] = Note({pdf}, {}, {}, 0)
        /\ t[4] = Note({pdf, stream}, {}, {}, 0) /\ t[5] = Note({pdf}, {}, {}, 0)
        /\ t[6] = Note({pdf}, {}, {}, 1)
    BY <1>1, <2>2 DEF ScanNotes, Holds
  <2>4. /\ Says(Note({}, {}, {}, 2), {}, {}, {}, 2) /\ Says(Note({}, {}, {}, 0), {}, {}, {}, 0)
        /\ Says(Note({pdf}, {}, {}, 0), {pdf}, {}, {}, 0)
        /\ Says(Note({pdf, stream}, {}, {}, 0), {pdf, stream}, {}, {}, 0)
        /\ Says(Note({pdf}, {}, {}, 1), {pdf}, {}, {}, 1)
    BY <1>3, NoteSays
  <2> QED
    BY <2>1, <2>2, <2>3, <2>4
<1>8. /\ recovers => Says(n[11 + k], {}, {}, {}, 2)
      /\ 10 < Len(p) => Says(n[11], {}, {}, {}, 2)
  BY <1>4, <1>7
<1>9. /\ n[1] \in NoteSet /\ n[2] \in NoteSet /\ n[3] \in NoteSet /\ n[4] \in NoteSet /\ n[5] \in NoteSet
      /\ n[6] \in NoteSet /\ n[7] \in NoteSet /\ n[8] \in NoteSet /\ n[9] \in NoteSet /\ n[10] \in NoteSet
  BY <1>6 DEF Says
<1>10. /\ Waits(n[1], n[2]) /\ Same(n[2], n[3]) /\ Takes(n[3], n[4], pdf) /\ Takes(n[4], n[5], page)
       /\ FindsEmpty(n[5], n[6], page) /\ page \in n[5].held /\ Worked(n[6], n[7]) /\ pdf \in n[6].held
       /\ n[6].late <= 2 /\ Filled(n[7], n[8], page) /\ page \in n[7].empty /\ Drops(n[8], n[9], page)
       /\ page \in n[8].held /\ Worked(n[9], n[10]) /\ pdf \in n[9].held /\ n[9].late <= 2
       /\ (10 < Len(p) => Drops(n[10], n[11], pdf)) /\ pdf \in n[10].held /\ Filled(n[5], n[8], page)
  BY <1>3, <1>6, <1>8 DEF Says, Same, Waits, Worked, Takes, Drops, FindsEmpty, Filled
<1>11. /\ InLockOrder(pdf, n[3].held) /\ InLockOrder(page, n[4].held)
  BY <1>3, <1>6 DEF InLockOrder, Says, Inner, Outer
<1>12. Follows(p, n, {d}, 1)
  <2>1. /\ 1 < Len(p) /\ p[1] = Find(d) /\ n[1] \in NoteSet /\ Waits(n[1], n[2])
    BY <1>2, <1>4, <1>9, <1>10
  <2> QED
    BY <2>1, LookFollows
<1>13. Follows(p, n, {d}, 2)
  <2>1. /\ 2 < Len(p) /\ p[2] = Check(d) /\ n[2] \in NoteSet /\ Same(n[2], n[3]) /\ 2 + 1 = 3 /\ 2 \in Nat
    BY <1>2, <1>4, <1>9, <1>10
  <2> QED
    BY <2>1, CheckFollows
<1>14. Follows(p, n, {d}, 3)
  <2>1. /\ 3 < Len(p) /\ p[3] = Lock(pdf) /\ n[3] \in NoteSet /\ Takes(n[3], n[4], pdf)
        /\ InLockOrder(pdf, n[3].held)
    BY <1>2, <1>4, <1>9, <1>10, <1>11
  <2> QED
    BY <2>1, LockFollows
<1>15. Follows(p, n, {d}, 4)
  <2>1. /\ 4 < Len(p) /\ p[4] = Lock(page) /\ n[4] \in NoteSet /\ Takes(n[4], n[5], page)
        /\ InLockOrder(page, n[4].held)
    BY <1>2, <1>4, <1>9, <1>10, <1>11
  <2> QED
    BY <2>1, LockFollows
<1>16. Follows(p, n, {d}, 5)
  <2>1. /\ 5 < Len(p) /\ p[5] = Skip(page, 2) /\ n[5] \in NoteSet /\ FindsEmpty(n[5], n[6], page)
        /\ page \in n[5].held /\ Filled(n[5], n[8], page) /\ page \in Caches
    BY <1>2, <1>3, <1>4, <1>9, <1>10
  <2> QED
    BY <2>1, SkipFollows
<1>17. Follows(p, n, {d}, 6)
  <2> DEFINE r == Rescue(recovers, 6)
  <2>1. /\ 6 \in 1..(10 + k) /\ p[6] = WorkOr(d, r) /\ n[6] \in NoteSet /\ n[6].late <= 2
        /\ <<"pdf", d>> \in n[6].held /\ 6 < Len(p) /\ Worked(n[6], n[6 + 1])
        /\ (recovers => Len(p) = 12 + k /\ Says(n[11 + k], {}, {}, {}, 2))
    BY <1>1, <1>2, <1>4, <1>8, <1>9, <1>10
  <2>2. r = IF recovers THEN 11 + k - 6 ELSE 0
    BY <1>4 DEF Rescue
  <2> HIDE DEF r
  <2>3. PICK i : i = 6
    OBVIOUS
  <2>4. Follows(p, n, {d}, i)
    BY <2>1, <2>2, <2>3, WalkWorkFollows
  <2> QED
    BY <2>3, <2>4
<1>18. Follows(p, n, {d}, 7)
  <2>1. /\ 7 < Len(p) /\ p[7] = Fill(page) /\ n[7] \in NoteSet /\ Filled(n[7], n[8], page)
        /\ page \in n[7].empty
    BY <1>2, <1>4, <1>9, <1>10
  <2> QED
    BY <2>1, FillFollows
<1>19. Follows(p, n, {d}, 8)
  <2>1. /\ 8 < Len(p) /\ p[8] = Unlock(page) /\ n[8] \in NoteSet /\ Drops(n[8], n[9], page)
        /\ page \in n[8].held
    BY <1>2, <1>4, <1>9, <1>10
  <2> QED
    BY <2>1, UnlockFollows
<1>20. Follows(p, n, {d}, 9)
  <2> DEFINE r == Rescue(recovers, 9)
  <2>1. /\ 9 \in 1..(10 + k) /\ p[9] = WorkOr(d, r) /\ n[9] \in NoteSet /\ n[9].late <= 2
        /\ <<"pdf", d>> \in n[9].held /\ 9 < Len(p) /\ Worked(n[9], n[9 + 1])
        /\ (recovers => Len(p) = 12 + k /\ Says(n[11 + k], {}, {}, {}, 2))
    BY <1>1, <1>2, <1>4, <1>8, <1>9, <1>10
  <2>2. r = IF recovers THEN 11 + k - 9 ELSE 0
    BY <1>4 DEF Rescue
  <2> HIDE DEF r
  <2>3. PICK i : i = 9
    OBVIOUS
  <2>4. Follows(p, n, {d}, i)
    BY <2>1, <2>2, <2>3, WalkWorkFollows
  <2> QED
    BY <2>3, <2>4
<1>21. Follows(p, n, {d}, 10)
  <2>1. p[10] = Unlock(pdf) /\ n[10] \in NoteSet /\ pdf \in n[10].held /\ (10 < Len(p) => Drops(n[10], n[11], pdf))
    BY <1>2, <1>9, <1>10
  <2> QED
    BY <2>1, UnlockFollows
<1>22. ASSUME NEW i \in 11..(10 + k)
      PROVE  Follows(p, n, {d}, i)
  <2>1. /\ i \in Nat /\ i <= Len(p) /\ i \in 11..(11 + k) /\ i + 1 \in 11..(11 + k) /\ (i + 1) - 11 = (i - 11) + 1
        /\ ((i - 11) % 6 # 5 => i < Len(p)) /\ (i < Len(p) => i + 1 <= Len(p))
    BY <1>4
  <2>2. (i - 11) % 6 \in 0..5
    BY <2>1
  <2>3. CASE (i - 11) % 6 = 0
    <3>1. ((i + 1) - 11) % 6 = 1 /\ i < Len(p)
      BY <2>1, <2>3
    <3>2. p[i] = Check(d)
      BY <1>2, <2>3
    <3>3. Says(n[i], {}, {}, {}, 2) /\ Says(n[i + 1], {}, {}, {}, 0)
      BY <1>7, <2>1, <2>3, <3>1
    <3>4. /\ n[i] \in NoteSet /\ Same(n[i], n[i + 1])
      BY <1>3, <3>3 DEF Says, Same, Worked, Takes, Drops
    <3> QED
      BY <2>1, <3>2, <3>4, CheckFollows
  <2>4. CASE (i - 11) % 6 = 1
    <3>1. ((i + 1) - 11) % 6 = 2 /\ i < Len(p)
      BY <2>1, <2>4
    <3>2. p[i] = Lock(pdf)
      BY <1>2, <2>4
    <3>3. Says(n[i], {}, {}, {}, 0) /\ Says(n[i + 1], {pdf}, {}, {}, 0)
      BY <1>7, <2>1, <2>4, <3>1
    <3>4. /\ n[i] \in NoteSet /\ Takes(n[i], n[i + 1], pdf)
      BY <1>3, <3>3 DEF Says, Same, Worked, Takes, Drops
    <3>5. InLockOrder(pdf, n[i].held)
      BY <1>3, <3>3 DEF InLockOrder, Says, Inner, Outer
    <3> QED
      BY <2>1, <3>1, <3>2, <3>4, <3>5, LockFollows
  <2>5. CASE (i - 11) % 6 = 2
    <3>1. ((i + 1) - 11) % 6 = 3 /\ i < Len(p)
      BY <2>1, <2>5
    <3>2. p[i] = Lock(stream)
      BY <1>2, <2>5
    <3>3. Says(n[i], {pdf}, {}, {}, 0) /\ Says(n[i + 1], {pdf, stream}, {}, {}, 0)
      BY <1>7, <2>1, <2>5, <3>1
    <3>4. /\ n[i] \in NoteSet /\ Takes(n[i], n[i + 1], stream)
      BY <1>3, <3>3 DEF Says, Same, Worked, Takes, Drops
    <3>5. InLockOrder(stream, n[i].held)
      BY <1>3, <3>3 DEF InLockOrder, Says, Inner, Outer
    <3> QED
      BY <2>1, <3>1, <3>2, <3>4, <3>5, LockFollows
  <2>6. CASE (i - 11) % 6 = 3
    <3>1. ((i + 1) - 11) % 6 = 4 /\ i < Len(p)
      BY <2>1, <2>6
    <3>2. p[i] = Unlock(stream)
      BY <1>2, <2>6
    <3>3. Says(n[i], {pdf, stream}, {}, {}, 0) /\ Says(n[i + 1], {pdf}, {}, {}, 0)
      BY <1>7, <2>1, <2>6, <3>1
    <3>4. /\ n[i] \in NoteSet /\ Drops(n[i], n[i + 1], stream) /\ stream \in n[i].held
      BY <1>3, <3>3 DEF Says, Same, Worked, Takes, Drops
    <3> QED
      BY <2>1, <3>2, <3>4, UnlockFollows
  <2>7. CASE (i - 11) % 6 = 4
    <3>1. ((i + 1) - 11) % 6 = 5 /\ i < Len(p)
      BY <2>1, <2>7
    <3>2. p[i] = WorkOr(d, Rescue(recovers, i))
      BY <1>2, <2>7
    <3>3. Says(n[i], {pdf}, {}, {}, 0) /\ Says(n[i + 1], {pdf}, {}, {}, 1)
      BY <1>7, <2>1, <2>7, <3>1
    <3>4. /\ n[i] \in NoteSet /\ Worked(n[i], n[i + 1]) /\ pdf \in n[i].held /\ n[i].late <= 2
      BY <1>3, <3>3 DEF Says, Same, Worked, Takes, Drops
    <3>5. <<"pdf", d>> \in n[i].held /\ (recovers => Len(p) = 12 + k /\ Says(n[11 + k], {}, {}, {}, 2))
      BY <1>1, <1>4, <1>8, <3>4
    <3>6. i \in 1..(10 + k)
      OBVIOUS
    <3> DEFINE r == Rescue(recovers, i)
    <3>7. r = IF recovers THEN 11 + k - i ELSE 0
      BY <1>4 DEF Rescue
    <3>8. p[i] = WorkOr(d, r)
      BY <3>2
    <3> HIDE DEF r
    <3> QED
      BY <3>1, <3>4, <3>5, <3>6, <3>7, <3>8, WalkWorkFollows
  <2>8. CASE (i - 11) % 6 = 5
    <3>1. ((i + 1) - 11) % 6 = 0
      BY <2>1, <2>8
    <3>2. p[i] = Unlock(pdf)
      BY <1>2, <2>8
    <3>3. Says(n[i], {pdf}, {}, {}, 1) /\ (i < Len(p) => Says(n[i + 1], {}, {}, {}, 2))
      BY <1>7, <2>1, <2>8, <3>1
    <3>4. /\ n[i] \in NoteSet /\ (i < Len(p) => Drops(n[i], n[i + 1], pdf)) /\ pdf \in n[i].held
      BY <1>3, <3>3 DEF Says, Same, Worked, Takes, Drops
    <3> QED
      BY <2>1, <3>2, <3>4, UnlockFollows
  <2> QED
    BY <2>2, <2>3, <2>4, <2>5, <2>6, <2>7, <2>8
<1>23. ASSUME NEW i \in 1..10
      PROVE  Follows(p, n, {d}, i)
  BY <1>12, <1>13, <1>14, <1>15, <1>16, <1>17, <1>18, <1>19, <1>20, <1>21
<1> SUFFICES ASSUME NEW i \in 1..(10 + k) PROVE Follows(p, n, {d}, i)
  OBVIOUS
<1>24. i \in 1..10 \/ i \in 11..(10 + k)
  OBVIOUS
<1> QED
  BY <1>22, <1>23, <1>24

(* GetStructure *)
LEMMA StructureFollows ==
    ASSUME NEW d \in Docs
    PROVE  Disciplined(Structure(d), StructureNotes(d), {d})
<1>1. PICK n, k : n = StructureNotes(d) /\ k = 6 * Pages
  OBVIOUS
<1>2. k \in Nat
  BY <1>1, CallsAssumption
<1>3. PICK p : p = Structure(d) /\ Len(p) = 10 + k /\ p[1] = Find(d) /\ Walks(p, d, FALSE)
  BY <1>1, BuildStructureSteps DEF Structure
<1>4. \A i \in 1..(10 + k) : n[i] = WalkNotes(d, i)
  BY <1>1 DEF StructureNotes
<1>5. n[1] = Nothing
  BY <1>2, <1>4 DEF WalkNotes
<1>6. \A i \in 1..(10 + k) : Follows(p, n, {d}, i)
  <2>1. \A i \in 1..(11 + k) : i <= Len(p) => n[i] = WalkNotes(d, i)
    BY <1>2, <1>3, <1>4
  <2>2. WalkCall(p, n, d, FALSE, k)
    BY <1>1, <1>3, <2>1 DEF WalkCall
  <2> QED
    BY <1>2, <2>2, WalkFollows
<1>7. Len(p) \in Nat /\ Len(p) >= 1
  BY <1>2, <1>3
<1>8. \A i \in 1..Len(p) : Follows(p, n, {d}, i)
  BY <1>3, <1>6
<1> QED
  BY <1>1, <1>3, <1>5, <1>7, <1>8 DEF Disciplined

(* Validate, step by step. *)
LEMMA ValidateSteps ==
    ASSUME NEW d \in Docs
    PROVE  \E p : /\ p = Validate(d) /\ Len(p) = 12 + 6 * Pages /\ p[1] = Find(d) /\ Walks(p, d, TRUE)
                  /\ p[11 + 6 * Pages] = Lock(<<"pdf", d>>) /\ p[12 + 6 * Pages] = WorkOr(d, 0)
<1>1. PICK k, pdf, c : k = 6 * Pages /\ pdf = <<"pdf", d>> /\ c = <<Lock(<<"pdf", d>>), Work(d)>>
  OBVIOUS
<1>2. k \in Nat
  BY <1>1, CallsAssumption
<1>3. PICK q : /\ q = <<Find(d)>> \o BuildStructure(d, TRUE) /\ q \in Seq(Steps)
               /\ Len(q) = 10 + k /\ q[1] = Find(d) /\ Walks(q, d, TRUE)
  BY <1>1, BuildStructureSteps
<1>4. pdf \in Mutexes
  BY <1>1, DocMutexes DEF Kinds
<1>5. c \in Seq(Steps) /\ Len(c) = 2 /\ c[1] = Lock(pdf) /\ c[2] = WorkOr(d, 0)
  <2>1. Lock(pdf) \in Steps /\ Work(d) \in Steps /\ Work(d) = WorkOr(d, 0)
    BY <1>4, StepTypes DEF Work, WorkOr
  <2> QED
    BY <1>1, <2>1
<1>6. PICK p : p = q \o c
  OBVIOUS
<1>7. Joins(p, q, c, 10 + k, 2)
  BY <1>3, <1>5, <1>6, Joined
<1>8. /\ Len(p) = 12 + k /\ (\A i \in 1..(10 + k) : p[i] = q[i])
      /\ p[11 + k] = Lock(pdf) /\ p[12 + k] = WorkOr(d, 0)
  BY <1>2, <1>5, <1>7 DEF Joins
<1>9. p[1] = Find(d) /\ Walks(p, d, TRUE)
  <2>1. /\ p[1] = q[1] /\ p[2] = q[2] /\ p[3] = q[3] /\ p[4] = q[4] /\ p[5] = q[5]
        /\ p[6] = q[6] /\ p[7] = q[7] /\ p[8] = q[8] /\ p[9] = q[9] /\ p[10] = q[10]
    BY <1>2, <1>8
  <2>2. \A i \in 11..(10 + 6 * Pages) : p[i] = q[i]
    BY <1>1, <1>2, <1>8
  <2>3. q[1] = Find(d) /\ Walks(q, d, TRUE)
    BY <1>3
  <2> QED
    BY <2>1, <2>2, <2>3 DEF Walks
<1>10. p = Validate(d)
  BY <1>1, <1>3, <1>6 DEF Validate
<1> WITNESS p
<1> QED
  BY <1>1, <1>8, <1>9, <1>10

(* Validate *)
LEMMA ValidateFollows ==
    ASSUME NEW d \in Docs
    PROVE  Disciplined(Validate(d), ValidateNotes(d), {d})
<1>1. PICK n, k, pdf : n = ValidateNotes(d) /\ k = 6 * Pages /\ pdf = <<"pdf", d>>
  OBVIOUS
<1>2. k \in Nat /\ k % 6 = 0
  BY <1>1, CallsAssumption
<1>3. PICK p : /\ p = Validate(d) /\ Len(p) = 12 + k /\ p[1] = Find(d) /\ Walks(p, d, TRUE)
               /\ p[11 + k] = Lock(pdf) /\ p[12 + k] = WorkOr(d, 0)
  BY <1>1, ValidateSteps
<1>4. pdf \in Mutexes /\ pdf[1] = "pdf"
  BY <1>1, DocMutexes DEF Kinds
<1>5. (\A i \in 1..(11 + k) : n[i] = WalkNotes(d, i)) /\ n[12 + k] = Note({pdf}, {}, {}, 2)
  BY <1>1, <1>2 DEF ValidateNotes, Holds
<1>6. n[1] = Nothing
  BY <1>2, <1>5 DEF WalkNotes
<1>7. n[11 + k] = Note({}, {}, {}, 2)
  <2>1. n[11 + k] = ScanNotes(d)[1]
    BY <1>2, <1>5 DEF WalkNotes
  <2> QED
    BY <2>1 DEF ScanNotes, Holds
<1>8. Says(n[11 + k], {}, {}, {}, 2) /\ Says(n[12 + k], {pdf}, {}, {}, 2)
  BY <1>4, <1>5, <1>7, NoteSays
<1>9. \A i \in 1..(10 + k) : Follows(p, n, {d}, i)
  <2>1. \A i \in 1..(11 + k) : i <= Len(p) => n[i] = WalkNotes(d, i)
    BY <1>5
  <2>2. WalkCall(p, n, d, TRUE, k)
    BY <1>1, <1>3, <2>1 DEF WalkCall
  <2> QED
    BY <1>2, <2>2, WalkFollows
<1>10. Follows(p, n, {d}, 11 + k)
  <2>1. /\ 11 + k \in Nat /\ 11 + k < Len(p) /\ p[11 + k] = Lock(pdf) /\ n[11 + k] \in NoteSet
        /\ (11 + k) + 1 = 12 + k
    BY <1>2, <1>3, <1>8 DEF Says
  <2>2. Takes(n[11 + k], n[12 + k], pdf)
    BY <1>8 DEF Takes, Says
  <2>3. InLockOrder(pdf, n[11 + k].held)
    BY <1>4, <1>8 DEF InLockOrder, Says
  <2> QED
    BY <2>1, <2>2, <2>3, LockFollows
<1>11. Follows(p, n, {d}, 12 + k)
  <2>1. 12 + k \in Nat /\ ~(12 + k < Len(p)) /\ p[12 + k] = WorkOr(d, 0) /\ n[12 + k] \in NoteSet
    BY <1>2, <1>3, <1>8 DEF Says
  <2>2. d \in {d} /\ <<"pdf", d>> \in n[12 + k].held
    BY <1>1, <1>8 DEF Says
  <2> QED
    BY <2>1, <2>2, WorkFollows
<1>12. ASSUME NEW i \in 1..Len(p) PROVE Follows(p, n, {d}, i)
  <2>1. i \in 1..(10 + k) \/ i = 11 + k \/ i = 12 + k
    BY <1>2, <1>3
  <2> QED
    BY <1>9, <1>10, <1>11, <2>1
<1>13. Len(p) \in Nat /\ Len(p) >= 1
  BY <1>2, <1>3
<1> QED
  BY <1>1, <1>3, <1>6, <1>12, <1>13 DEF Disciplined

(* Every call follows its notes. *)
LEMMA WellFormed == \A c \in Served : Disciplined(Programs[c], Notes[c], {c[2], c[3]})
<1> SUFFICES ASSUME NEW c \in Served PROVE Disciplined(Programs[c], Notes[c], {c[2], c[3]})
  OBVIOUS
<1>1. PICK m \in Methods, d \in Docs, e \in Docs : m = c[1] /\ d = c[2] /\ e = c[3] /\ (m # "diff" => d = e)
  BY DEF Served
<1>2. Programs[c] = Program(m, d, e) /\ Notes[c] = NotesOf(m, d, e)
  BY <1>1 DEF Served, Programs, Notes
<1>3. m \in AllMethods
  BY CallsAssumption
<1>4. m # "diff" => {d, e} = {d}
  BY <1>1
<1>5. CASE m = "object"
  BY <1>1, <1>2, <1>4, <1>5, ObjectFollows DEF Program, NotesOf
<1>6. CASE m = "pages"
  BY <1>1, <1>2, <1>4, <1>6, PageIndexFollows DEF Program, NotesOf
<1>7. CASE m = "objects"
  BY <1>1, <1>2, <1>4, <1>7, CachedFollows DEF Program, NotesOf
<1>8. CASE m = "xref"
  BY <1>1, <1>2, <1>4, <1>8, CachedFollows DEF Program, NotesOf
<1>9. CASE m = "stream"
  BY <1>1, <1>2, <1>4, <1>9, CachedFollows DEF Program, NotesOf
<1>10. CASE m = "content"
  BY <1>1, <1>2, <1>4, <1>10, PageContentFollows DEF Program, NotesOf
<1>11. CASE m = "reverse"
  BY <1>1, <1>2, <1>4, <1>11, ReverseRefsFollows DEF Program, NotesOf
<1>12. CASE m = "images"
  BY <1>1, <1>2, <1>4, <1>12, ImagesFollows DEF Program, NotesOf
<1>13. CASE m = "structure"
  BY <1>1, <1>2, <1>4, <1>13, StructureFollows DEF Program, NotesOf
<1>14. CASE m = "validate"
  BY <1>1, <1>2, <1>4, <1>14, ValidateFollows DEF Program, NotesOf
<1>15. CASE m = "plaintext"
  BY <1>1, <1>2, <1>4, <1>15, PlainTextFollows DEF Program, NotesOf
<1>16. CASE m = "render"
  BY <1>1, <1>2, <1>4, <1>16, RenderFollows DEF Program, NotesOf
<1>17. CASE m = "diff" /\ d = e
  <2>1. {d, e} = {d}
    BY <1>17
  <2> QED
    BY <1>1, <1>2, <1>17, <2>1, DiffSelfFollows DEF Program, NotesOf
<1>18. CASE m = "diff" /\ d # e
  BY <1>1, <1>2, <1>18, DiffOtherFollows DEF Program, NotesOf
<1> QED
  BY <1>3, <1>5, <1>6, <1>7, <1>8, <1>9, <1>10, <1>11, <1>12, <1>13, <1>14, <1>15, <1>16, <1>17, <1>18
     DEF AllMethods

(* The notes of the image walk allow one page on a closed document. *)
LEMMA ImagesBudget ==
    ASSUME NEW d \in Docs, NEW i \in 1..(11 + 4 * Pages) PROVE ImagesNotes(d)[i].late <= 1
<1>1. Pages \in Nat
  BY CallsAssumption
<1>2. PICK h, w : h = ImagesHeadNotes(d) /\ w = PageWalkNotes(d)
  OBVIOUS
<1>3. /\ h[1].late = 0 /\ h[2].late = 0 /\ h[3].late = 0 /\ h[4].late = 0 /\ h[5].late = 0
      /\ h[6].late = 0 /\ h[7].late = 0 /\ h[8].late = 1 /\ h[9].late = 1 /\ h[10].late = 1
  BY <1>2 DEF ImagesHeadNotes, Nothing, Holds, Builds, Note
<1>4. w[1].late = 1 /\ w[2].late = 0 /\ w[3].late = 0 /\ w[4].late = 1
  BY <1>2 DEF PageWalkNotes, Builds, Note
<1>5. ImagesNotes(d)[i] = IF i <= 10 THEN h[i] ELSE w[((i - 11) % 4) + 1]
  BY <1>2 DEF ImagesNotes
<1>6. CASE i <= 10
  <2>1. i \in 1..10 /\ ImagesNotes(d)[i] = h[i]
    BY <1>5, <1>6
  <2>2. \A j \in 1..10 : h[j].late <= 1
    BY <1>3
  <2> QED
    BY <2>1, <2>2
<1>7. CASE ~(i <= 10)
  <2>1. PICK j \in 1..4 : j = ((i - 11) % 4) + 1
    BY <1>7
  <2>2. w[j].late <= 1
    BY <1>4
  <2> QED
    BY <1>5, <1>7, <2>1, <2>2
<1> QED
  BY <1>6, <1>7

(* The notes of the structure walk allow one hold of pdfMu. *)
LEMMA WalkBudget ==
    ASSUME NEW d \in Docs, NEW i \in Nat \ {0} PROVE WalkNotes(d, i).late <= 2
<1>1. PICK h, w : h = TreeNotes(d) /\ w = ScanNotes(d)
  OBVIOUS
<1>2. /\ h[1].late = 0 /\ h[2].late = 0 /\ h[3].late = 0 /\ h[4].late = 0 /\ h[5].late = 0
      /\ h[6].late = 1 /\ h[7].late = 1 /\ h[8].late = 1 /\ h[9].late = 2
  BY <1>1 DEF TreeNotes, Nothing, Holds, Builds, Note
<1>3. w[1].late = 2 /\ w[2].late = 0 /\ w[3].late = 0 /\ w[4].late = 0 /\ w[5].late = 0 /\ w[6].late = 1
  BY <1>1 DEF ScanNotes, Holds, Note
<1>4. CASE i = 1
  BY <1>4 DEF WalkNotes, Nothing, Note
<1>5. CASE i \in 2..10
  <2>1. PICK j \in 1..9 : j = i - 1
    BY <1>5
  <2>2. h[j].late <= 2
    BY <1>2
  <2> QED
    BY <1>1, <1>5, <2>1, <2>2 DEF WalkNotes
<1>6. CASE i > 10
  <2>1. PICK j \in 1..6 : j = ((i - 11) % 6) + 1
    BY <1>6
  <2>2. w[j].late <= 2
    BY <1>3
  <2> QED
    BY <1>1, <1>6, <2>1, <2>2 DEF WalkNotes
<1>7. i = 1 \/ i \in 2..10 \/ i > 10
  OBVIOUS
<1> QED
  BY <1>4, <1>5, <1>6, <1>7

(* What the notes of the walks allow on a closed document. *)
LEMMA WalkBudgets ==
    \A c \in Served : \A i \in 1..Len(Programs[c]) :
        /\ c[1] = "images" => Notes[c][i].late <= 1
        /\ c[1] \in {"structure", "validate"} => Notes[c][i].late <= 2
<1> SUFFICES ASSUME NEW c \in Served, NEW i \in 1..Len(Programs[c])
             PROVE  /\ c[1] = "images" => Notes[c][i].late <= 1
                    /\ c[1] \in {"structure", "validate"} => Notes[c][i].late <= 2
  OBVIOUS
<1>1. PICK m \in Methods, d \in Docs, e \in Docs : m = c[1] /\ d = c[2] /\ e = c[3]
  BY DEF Served
<1>2. Programs[c] = Program(m, d, e) /\ Notes[c] = NotesOf(m, d, e)
  BY <1>1 DEF Served, Programs, Notes
<1>3. Pages \in Nat
  BY CallsAssumption
<1>4. CASE m = "images"
  <2>1. Programs[c] = Images(d) /\ Notes[c] = ImagesNotes(d)
    BY <1>2, <1>4 DEF Program, NotesOf
  <2>2. Len(Images(d)) = 11 + 4 * Pages
    BY ImagesSteps
  <2>3. i \in 1..(11 + 4 * Pages)
    BY <2>1, <2>2
  <2>4. ImagesNotes(d)[i].late <= 1
    BY <2>3, ImagesBudget
  <2> QED
    BY <1>1, <1>4, <2>1, <2>4
<1>5. CASE m = "structure"
  <2>1. Programs[c] = Structure(d) /\ Notes[c] = StructureNotes(d)
    BY <1>2, <1>5 DEF Program, NotesOf
  <2>2. Len(Structure(d)) = 10 + 6 * Pages
    BY BuildStructureSteps DEF Structure
  <2>3. i \in 1..(10 + 6 * Pages) /\ i \in Nat \ {0}
    BY <1>3, <2>1, <2>2
  <2>4. StructureNotes(d)[i] = WalkNotes(d, i)
    BY <2>3 DEF StructureNotes
  <2>5. WalkNotes(d, i).late <= 2
    BY <2>3, WalkBudget
  <2> QED
    BY <1>1, <1>5, <2>1, <2>4, <2>5
<1>6. CASE m = "validate"
  <2>1. Programs[c] = Validate(d) /\ Notes[c] = ValidateNotes(d)
    BY <1>2, <1>6 DEF Program, NotesOf
  <2>2. Len(Validate(d)) = 12 + 6 * Pages
    BY ValidateSteps
  <2>3. i \in 1..(12 + 6 * Pages) /\ i \in Nat \ {0}
    BY <1>3, <2>1, <2>2
  <2>4. ValidateNotes(d)[i] = IF i <= 11 + 6 * Pages THEN WalkNotes(d, i) ELSE Holds({<<"pdf", d>>}, 2)
    BY <2>3 DEF ValidateNotes
  <2>5. WalkNotes(d, i).late <= 2 /\ Holds({<<"pdf", d>>}, 2).late <= 2
    BY <2>3, WalkBudget DEF Holds, Note
  <2> QED
    BY <1>1, <1>6, <2>1, <2>4, <2>5
<1> QED
  BY <1>1, <1>4, <1>5, <1>6

-----------------------------------------------------------------------------
(* The inductive invariant.                                                *)

Shape ==
    /\ TypeOK
    /\ fills \in [Caches -> Nat]
    /\ call \in [Threads -> Served \cup {NoCall}]
    /\ pc \in [Threads -> Nat] /\ late \in [Threads -> Nat]

NoteAt(t) == Notes[call[t]][pc[t]]

(* A mutex is held by the call whose note says so. *)
HoldInv == \A t \in Threads, m \in Mutexes : holder[m] = t <=> Busy(t) /\ m \in NoteAt(t).held

(* Caches are as the notes say. *)
CacheInv ==
    \A t \in Threads : Busy(t) =>
        /\ \A c \in NoteAt(t).empty : cache[c] = "empty"
        /\ \A c \in NoteAt(t).ready : cache[c] # "empty"

FillInv == \A c \in Caches : fills[c] <= 1 /\ (cache[c] = "empty" => fills[c] = 0)

(* Work on a closed document is as the notes say. *)
LateInv ==
    \A t \in Threads :
        IF Busy(t) THEN late[t] <= NoteAt(t).late /\ (late[t] > 0 => Documents(t) \cap closed # {})
        ELSE late[t] = 0

IInv == Shape /\ HoldInv /\ CacheInv /\ FillInv /\ LateInv /\ ~wrong

-----------------------------------------------------------------------------
(* Every step keeps the invariant.                                         *)

(* The calls are among the programs, and a free thread's is none of them. *)
LEMMA ServedFacts ==
    /\ Served \subseteq DOMAIN Programs /\ NoCall \notin DOMAIN Programs /\ NoCall \notin Served
    /\ \A c \in Served : c[2] \in Docs /\ c[3] \in Docs
<1>1. "none" \notin Methods
  BY CallsAssumption DEF AllMethods
<1> QED
  BY <1>1 DEF Served, Programs, NoCall

(* Where a busy thread is, and what its next step is allowed to be. *)
LEMMA StepFacts ==
    ASSUME Shape, NEW t \in Threads, Busy(t)
    PROVE  /\ call[t] \in Served /\ pc[t] \in 1..Len(Prog(t)) /\ Len(Prog(t)) \in Nat
           /\ Prog(t) = Programs[call[t]] /\ At(t) = Programs[call[t]][pc[t]]
           /\ NoteAt(t) = Notes[call[t]][pc[t]]
           /\ Follows(Programs[call[t]], Notes[call[t]], Documents(t), pc[t])
           /\ NoteAt(t) \in NoteSet /\ Allowed(At(t), NoteAt(t), Documents(t))
           /\ \A i \in 1..Len(Prog(t)) : Notes[call[t]][i] \in NoteSet
<1>1. call[t] \in Served \cup {NoCall} /\ pc[t] \in IF call[t] = NoCall THEN {0} ELSE 1..Len(Prog(t))
  BY DEF Shape, TypeOK
<1>2. call[t] \in Served /\ pc[t] \in 1..Len(Prog(t))
  BY <1>1 DEF Busy
<1>3. Disciplined(Programs[call[t]], Notes[call[t]], Documents(t))
  BY <1>2, WellFormed DEF Documents
<1>4. Len(Prog(t)) \in Nat /\ \A i \in 1..Len(Prog(t)) : Follows(Programs[call[t]], Notes[call[t]], Documents(t), i)
  BY <1>3 DEF Disciplined, Prog
<1> QED
  BY <1>2, <1>4 DEF Prog, At, NoteAt, Follows

(* The caches are only filled or failed, by the holder of their mutex. *)
CacheStep(a) ==
    \A c \in Caches : cache'[c] = cache[c] \/ (c \in a.held /\ cache'[c] # "empty")

(* Thread t goes on at step j: what its note there says has to hold. *)
LEMMA Moves ==
    ASSUME IInv, Shape', NEW t \in Threads, Busy(t), NEW j \in 1..Len(Prog(t)), NEW a \in NoteSet, NEW b \in NoteSet,
           a = NoteAt(t), b = Notes[call[t]][j],
           pc' = [pc EXCEPT ![t] = j], call' = call, closed' = closed,
           \A m \in Mutexes : holder'[m] = IF m \in b.held THEN t ELSE IF m \in a.held THEN Nobody ELSE holder[m],
           \A m \in b.held \ a.held : holder[m] = Nobody,
           CacheStep(a), \A c \in b.empty : cache'[c] = "empty", \A c \in b.ready : cache'[c] # "empty",
           \A u \in Threads \ {t} : late'[u] = late[u],
           late'[t] <= b.late, late'[t] > 0 => Documents(t) \cap closed # {},
           FillInv', ~wrong'
    PROVE  IInv'
<1>1. /\ Shape /\ HoldInv /\ CacheInv /\ LateInv /\ pc \in [Threads -> Nat] /\ call \in [Threads -> Served \cup {NoCall}]
  BY DEF IInv, Shape
<1>2. /\ pc'[t] = j /\ j # 0 /\ \A u \in Threads \ {t} : pc'[u] = pc[u]
  BY <1>1
<1>3. /\ \A u \in Threads : Documents(u)' = Documents(u)
      /\ \A u \in Threads \ {t} : (Busy(u)' <=> Busy(u)) /\ NoteAt(u)' = NoteAt(u)
      /\ Busy(t)' /\ NoteAt(t)' = b
  BY <1>2 DEF Busy, NoteAt, Documents
<1>4. a.held \subseteq Mutexes /\ b.held \subseteq Mutexes /\ Nobody \notin Threads
  BY NobodyAssumption DEF NoteSet
<1>5. \A m \in Mutexes : m \in a.held <=> holder[m] = t
  BY <1>1 DEF HoldInv
<1>6. HoldInv'
  <2>1. ASSUME NEW u \in Threads, NEW m \in Mutexes
        PROVE  holder'[m] = u <=> Busy(u)' /\ m \in NoteAt(u)'.held
    <3>1. CASE u = t
      BY <1>3, <1>4, <1>5, <3>1
    <3>2. CASE u # t
      <4>1. holder[m] = u <=> Busy(u) /\ m \in NoteAt(u).held
        BY <1>1 DEF HoldInv
      <4>2. holder'[m] = u <=> holder[m] = u
        BY <1>4, <1>5, <3>2
      <4> QED
        BY <1>3, <3>2, <4>1, <4>2
    <3> QED
      BY <3>1, <3>2
  <2> QED
    BY <2>1 DEF HoldInv
<1>7. CacheInv'
  <2>1. ASSUME NEW u \in Threads, Busy(u)'
        PROVE  (\A c \in NoteAt(u)'.empty : cache'[c] = "empty") /\ (\A c \in NoteAt(u)'.ready : cache'[c] # "empty")
    <3>1. CASE u = t
      BY <1>3, <3>1
    <3>2. CASE u # t
      <4>1. /\ Busy(u) /\ NoteAt(u) \in NoteSet /\ NoteAt(u)' = NoteAt(u)
            /\ (\A c \in NoteAt(u).empty : cache[c] = "empty") /\ (\A c \in NoteAt(u).ready : cache[c] # "empty")
        BY <1>1, <1>3, <2>1, <3>2, StepFacts DEF CacheInv
      <4>2. \A c \in NoteAt(u).empty : c \in Caches /\ c \in Mutexes /\ holder[c] = u
        BY <1>1, <4>1, CacheMutexes DEF NoteSet, HoldInv
      <4>3. \A c \in NoteAt(u).ready : c \in Caches
        BY <4>1 DEF NoteSet
      <4> QED
        BY <1>5, <3>2, <4>1, <4>2, <4>3 DEF CacheStep
    <3> QED
      BY <3>1, <3>2
  <2> QED
    BY <2>1 DEF CacheInv
<1>8. LateInv'
  <2>1. ASSUME NEW u \in Threads
        PROVE  IF Busy(u)' THEN late'[u] <= NoteAt(u)'.late /\ (late'[u] > 0 => Documents(u)' \cap closed' # {})
               ELSE late'[u] = 0
    <3>1. CASE u = t
      BY <1>3, <3>1
    <3>2. CASE u # t
      BY <1>1, <1>3, <3>2 DEF LateInv
    <3> QED
      BY <3>1, <3>2
  <2> QED
    BY <2>1 DEF LateInv
<1> QED
  BY <1>6, <1>7, <1>8 DEF IInv

(* The call of t returns, with its mutexes free. *)
LEMMA Leaves ==
    ASSUME IInv, Shape', NEW t \in Threads, Busy(t), Returns(t), closed' = closed,
           CacheStep(NoteAt(t)), FillInv', ~wrong'
    PROVE  IInv'
<1>1. /\ Shape /\ HoldInv /\ CacheInv /\ LateInv /\ pc \in [Threads -> Nat] /\ call \in [Threads -> Served \cup {NoCall}]
      /\ late \in [Threads -> Nat]
  BY DEF IInv, Shape
<1>2. /\ pc'[t] = 0 /\ late'[t] = 0
      /\ \A u \in Threads \ {t} : pc'[u] = pc[u] /\ call'[u] = call[u] /\ late'[u] = late[u]
      /\ \A m \in Mutexes : holder'[m] = IF holder[m] = t THEN Nobody ELSE holder[m]
  BY <1>1 DEF Returns, Freed
<1>3. /\ \A u \in Threads \ {t} : (Busy(u)' <=> Busy(u)) /\ NoteAt(u)' = NoteAt(u) /\ Documents(u)' = Documents(u)
      /\ ~Busy(t)'
  BY <1>2 DEF Busy, NoteAt, Documents
<1>4. HoldInv'
  <2>1. ASSUME NEW u \in Threads, NEW m \in Mutexes
        PROVE  holder'[m] = u <=> Busy(u)' /\ m \in NoteAt(u)'.held
    <3>1. CASE u = t
      BY <1>2, <1>3, <3>1, NobodyAssumption
    <3>2. CASE u # t
      BY <1>1, <1>2, <1>3, <3>2, NobodyAssumption DEF HoldInv
    <3> QED
      BY <3>1, <3>2
  <2> QED
    BY <2>1 DEF HoldInv
<1>5. CacheInv'
  <2>1. ASSUME NEW u \in Threads, Busy(u)'
        PROVE  (\A c \in NoteAt(u)'.empty : cache'[c] = "empty") /\ (\A c \in NoteAt(u)'.ready : cache'[c] # "empty")
    <3>1. u # t
      BY <1>3, <2>1
    <3>2. /\ Busy(u) /\ NoteAt(u) \in NoteSet /\ NoteAt(u)' = NoteAt(u)
          /\ (\A c \in NoteAt(u).empty : cache[c] = "empty") /\ (\A c \in NoteAt(u).ready : cache[c] # "empty")
      BY <1>1, <1>3, <2>1, <3>1, StepFacts DEF CacheInv
    <3>3. \A c \in NoteAt(u).empty : c \in Caches /\ c \in Mutexes /\ holder[c] = u
      BY <1>1, <3>2, CacheMutexes DEF NoteSet, HoldInv
    <3>4. \A c \in NoteAt(u).ready : c \in Caches
      BY <3>2 DEF NoteSet
    <3>5. \A m \in Mutexes : m \in NoteAt(t).held => holder[m] = t
      BY <1>1 DEF HoldInv
    <3> QED
      BY <3>1, <3>2, <3>3, <3>4, <3>5 DEF CacheStep
  <2> QED
    BY <2>1 DEF CacheInv
<1>6. LateInv'
  <2>1. ASSUME NEW u \in Threads
        PROVE  IF Busy(u)' THEN late'[u] <= NoteAt(u)'.late /\ (late'[u] > 0 => Documents(u)' \cap closed' # {})
               ELSE late'[u] = 0
    <3>1. CASE u = t
      BY <1>2, <1>3, <3>1
    <3>2. CASE u # t
      BY <1>1, <1>2, <1>3, <3>2 DEF LateInv
    <3> QED
      BY <3>1, <3>2
  <2> QED
    BY <2>1 DEF LateInv
<1> QED
  BY <1>4, <1>5, <1>6 DEF IInv

(* A step within the call of t keeps the types. *)
LEMMA ShapeMoves ==
    ASSUME Shape, NEW t \in Threads, Busy(t), NEW j \in 1..Len(Prog(t)),
           pc' = [pc EXCEPT ![t] = j], late' \in [Threads -> Nat], UNCHANGED <<docs, closed, call, flag, calls>>,
           holder' \in [Mutexes -> Threads \cup {Nobody}],
           cache' \in [Caches -> {"empty", "built", "failed"}], fills' \in [Caches -> Nat], wrong' \in BOOLEAN
    PROVE  Shape'
<1>1. /\ TypeOK /\ pc \in [Threads -> Nat] /\ call \in [Threads -> Served \cup {NoCall}] /\ call[t] # NoCall
      /\ Len(Prog(t)) \in Nat
  BY StepFacts, ServedFacts DEF Shape
<1>2. \A u \in Threads : Prog(u)' = Prog(u)
  BY DEF Prog
<1>3. pc' \in [Threads -> Nat] /\ \A u \in Threads : pc'[u] = IF u = t THEN j ELSE pc[u]
  BY <1>1
<1>4. \A u \in Threads :
         /\ call'[u] \in DOMAIN Programs \cup {NoCall}
         /\ pc'[u] \in IF call'[u] = NoCall THEN {0} ELSE 1 .. Len(Prog(u)')
         /\ late'[u] \in Nat
  BY <1>1, <1>2, <1>3 DEF TypeOK
<1>5. TypeOK'
  BY <1>1, <1>4 DEF TypeOK
<1> QED
  BY <1>1, <1>3, <1>5 DEF Shape

(* So does its return. *)
LEMMA ShapeLeaves ==
    ASSUME Shape, NEW t \in Threads, Busy(t), Returns(t), UNCHANGED <<docs, closed, calls>>,
           cache' \in [Caches -> {"empty", "built", "failed"}], fills' \in [Caches -> Nat], wrong' \in BOOLEAN
    PROVE  Shape'
<1>1. /\ TypeOK /\ pc \in [Threads -> Nat] /\ call \in [Threads -> Served \cup {NoCall}] /\ late \in [Threads -> Nat]
      /\ holder \in [Mutexes -> Threads \cup {Nobody}] /\ flag \in [Threads -> BOOLEAN]
  BY DEF Shape, TypeOK
<1>2. /\ pc' \in [Threads -> Nat] /\ call' \in [Threads -> Served \cup {NoCall}] /\ late' \in [Threads -> Nat]
      /\ holder' \in [Mutexes -> Threads \cup {Nobody}] /\ flag' \in [Threads -> BOOLEAN]
  BY <1>1 DEF Returns, Freed
<1>3. \A u \in Threads : IF u = t THEN pc'[u] = 0 /\ call'[u] = NoCall ELSE pc'[u] = pc[u] /\ call'[u] = call[u]
  BY <1>1 DEF Returns
<1>4. \A u \in Threads :
         /\ call'[u] \in DOMAIN Programs \cup {NoCall}
         /\ pc'[u] \in IF call'[u] = NoCall THEN {0} ELSE 1 .. Len(Prog(u)')
         /\ late'[u] \in Nat
  <2> TAKE u \in Threads
  <2>1. CASE u = t
    BY <1>2, <1>3, <2>1
  <2>2. CASE u # t
    BY <1>1, <1>2, <1>3, <2>2 DEF TypeOK, Prog
  <2> QED
    BY <2>1, <2>2
<1>5. TypeOK'
  BY <1>1, <1>2, <1>4 DEF TypeOK
<1> QED
  BY <1>2, <1>5 DEF Shape

(* A call that returns, and so frees what it holds, whatever it was doing. *)
LEMMA ReturnsOn ==
    ASSUME IInv, NEW t \in Threads, Busy(t), Returns(t), UNCHANGED <<docs, closed, calls>>,
           cache' \in [Caches -> {"empty", "built", "failed"}], fills' \in [Caches -> Nat],
           CacheStep(NoteAt(t)), FillInv', wrong' = FALSE
    PROVE  IInv'
<1>1. Shape'
  BY ShapeLeaves DEF IInv
<1> QED
  BY <1>1, Leaves

(* A call goes on to its next step, with the locks it has. *)
LEMMA Advances ==
    ASSUME IInv, NEW t \in Threads, Busy(t), At(t).op \notin {"lock", "unlock", "work", "once"}, Goes(t, 1),
           UNCHANGED <<docs, closed, calls, wrong>>,
           cache' \in [Caches -> {"empty", "built", "failed"}], fills' \in [Caches -> Nat],
           CacheStep(NoteAt(t)), FillInv',
           \A c \in NoteAt(t).empty : cache'[c] = "empty" \/ (At(t).op = "fill" /\ c = At(t).on),
           At(t).op = "skip" => cache'[At(t).on] = "empty",
           At(t).op = "fill" => cache'[At(t).on] # "empty",
           At(t).op = "check" => At(t).on \notin closed
    PROVE  IInv'
<1>1. Shape /\ wrong = FALSE /\ HoldInv /\ CacheInv /\ LateInv
  BY DEF IInv, Shape, TypeOK
<1>2. CASE Returns(t)
  BY <1>1, <1>2, ReturnsOn
<1>3. CASE ~Returns(t)
  <2>1. pc[t] \in Nat /\ Len(Prog(t)) \in Nat /\ pc[t] + 1 <= Len(Prog(t)) /\ pc' = [pc EXCEPT ![t] = pc[t] + 1]
        /\ UNCHANGED <<holder, call, flag, late>>
    BY <1>1, <1>3, StepFacts DEF Goes
  <2>2. PICK j \in 1..Len(Prog(t)) : j = pc[t] + 1
    BY <2>1
  <2>3. PICK a, b : a = NoteAt(t) /\ b = Notes[call[t]][j]
    OBVIOUS
  <2>4. a \in NoteSet /\ b \in NoteSet /\ Passes(At(t), a, b, Documents(t))
    BY <1>1, <2>1, <2>2, <2>3, StepFacts DEF Follows
  <2>5. /\ b.held = a.held
        /\ b.empty \subseteq CASE At(t).op = "skip" -> a.empty \cup {At(t).on}
                               [] At(t).op = "fill" -> a.empty \ {At(t).on}
                               [] OTHER             -> a.empty
        /\ b.ready \subseteq IF At(t).op = "fill" THEN a.ready \cup {At(t).on} ELSE a.ready
        /\ a.late <= b.late \/ (At(t).op = "check" /\ Documents(t) = {At(t).on})
    BY <2>4 DEF Passes
  <2>6. Shape'
    <3>1. late' \in [Threads -> Nat] /\ holder' \in [Mutexes -> Threads \cup {Nobody}] /\ wrong' \in BOOLEAN
      BY <1>1, <2>1 DEF Shape, TypeOK
    <3> QED
      BY <1>1, <2>1, <2>2, <3>1, ShapeMoves
  <2>7. \A m \in Mutexes : m \in a.held <=> holder[m] = t
    BY <1>1, <2>3 DEF HoldInv
  <2>8. \A m \in Mutexes : holder'[m] = IF m \in b.held THEN t ELSE IF m \in a.held THEN Nobody ELSE holder[m]
    BY <2>1, <2>5, <2>7
  <2>9. \A c \in b.empty : cache'[c] = "empty"
    BY <2>3, <2>5
  <2>10. \A c \in b.ready : cache'[c] # "empty"
    <3>1. \A c \in a.ready : c \in Caches /\ cache[c] # "empty"
      BY <1>1, <2>3, <2>4 DEF CacheInv, NoteSet
    <3> QED
      BY <2>3, <2>5, <3>1 DEF CacheStep
  <2>11. late'[t] <= b.late /\ (late'[t] > 0 => Documents(t) \cap closed # {})
    <3>1. late[t] <= a.late /\ (late[t] > 0 => Documents(t) \cap closed # {}) /\ late[t] \in Nat
      BY <1>1, <2>3 DEF LateInv, Shape
    <3>2. a.late \in Nat /\ b.late \in Nat
      BY <2>4 DEF NoteSet
    <3>3. CASE a.late <= b.late
      BY <2>1, <3>1, <3>2, <3>3
    <3>4. CASE At(t).op = "check" /\ Documents(t) = {At(t).on}
      <4>1. Documents(t) \cap closed = {}
        BY <3>4
      <4> QED
        BY <2>1, <3>1, <3>2, <4>1
    <3> QED
      BY <2>5, <3>3, <3>4
  <2>12. \A u \in Threads \ {t} : late'[u] = late[u]
    BY <2>1
  <2> QED
    BY <1>1, <2>1, <2>2, <2>3, <2>4, <2>5, <2>6, <2>8, <2>9, <2>10, <2>11, <2>12, Moves
<1> QED
  BY <1>2, <1>3

(* A call goes on k steps further: its cache is there, or has failed. *)
LEMMA JumpsOn ==
    ASSUME IInv, NEW t \in Threads, Busy(t), NEW k \in Nat \ {0}, Goes(t, k),
           \/ At(t).op = "skip" /\ k = 1 + At(t).n
           \/ At(t).op = "once" /\ k = 2,
           UNCHANGED <<docs, closed, calls, wrong>>,
           cache' \in [Caches -> {"empty", "built", "failed"}], fills' \in [Caches -> Nat],
           CacheStep(NoteAt(t)), FillInv', At(t).on \in Caches, cache'[At(t).on] # "empty",
           \A c \in Caches : c # At(t).on => cache'[c] = cache[c]
    PROVE  IInv'
<1>1. Shape /\ wrong = FALSE /\ HoldInv /\ CacheInv /\ LateInv
  BY DEF IInv, Shape, TypeOK
<1>2. CASE Returns(t)
  BY <1>1, <1>2, ReturnsOn
<1>3. CASE ~Returns(t)
  <2>1. pc[t] \in Nat /\ pc[t] >= 1 /\ Len(Prog(t)) \in Nat /\ pc[t] + k <= Len(Prog(t)) /\ pc' = [pc EXCEPT ![t] = pc[t] + k]
        /\ UNCHANGED <<holder, call, flag, late>>
    BY <1>1, <1>3, StepFacts DEF Goes
  <2>2. PICK j \in 1..Len(Prog(t)) : j = pc[t] + k
    BY <2>1
  <2>3. PICK a, b : a = NoteAt(t) /\ b = Notes[call[t]][j]
    OBVIOUS
  <2>4. a \in NoteSet /\ b \in NoteSet /\ Jumps(At(t), a, b)
    <3>1. /\ Follows(Programs[call[t]], Notes[call[t]], Documents(t), pc[t]) /\ At(t) = Programs[call[t]][pc[t]]
          /\ Prog(t) = Programs[call[t]] /\ Allowed(At(t), a, Documents(t)) /\ a \in NoteSet /\ b \in NoteSet
      BY <1>1, <2>2, <2>3, StepFacts
    <3>2. At(t).n \in Nat
      BY <3>1 DEF Allowed
    <3>3. CASE At(t).op = "skip" /\ k = 1 + At(t).n
      <4>1. PICK n \in Nat : n = At(t).n
        BY <3>2
      <4>2. j = pc[t] + 1 + n /\ pc[t] + 1 + n <= Len(Prog(t))
        BY SMTT(60), <2>1, <2>2, <3>3, <4>1
      <4> QED
        BY <2>3, <3>1, <3>3, <4>1, <4>2 DEF Follows, NoteAt
    <3>4. CASE At(t).op = "once" /\ k = 2
      <4>1. j = pc[t] + 2 /\ pc[t] + 2 <= Len(Prog(t))
        BY <2>1, <2>2, <3>4
      <4> QED
        BY <2>3, <3>1, <3>4, <4>1 DEF Follows, NoteAt
    <3> QED
      BY <3>3, <3>4
  <2>5. /\ b.held = a.held /\ b.empty \subseteq a.empty \ {At(t).on}
        /\ b.ready \subseteq a.ready \cup {At(t).on} /\ a.late <= b.late
    BY <2>4 DEF Jumps
  <2>6. Shape'
    <3>1. late' \in [Threads -> Nat] /\ holder' \in [Mutexes -> Threads \cup {Nobody}] /\ wrong' \in BOOLEAN
      BY <1>1, <2>1 DEF Shape, TypeOK
    <3> QED
      BY <1>1, <2>1, <2>2, <3>1, ShapeMoves
  <2>7. \A m \in Mutexes : m \in a.held <=> holder[m] = t
    BY <1>1, <2>3 DEF HoldInv
  <2>8. \A m \in Mutexes : holder'[m] = IF m \in b.held THEN t ELSE IF m \in a.held THEN Nobody ELSE holder[m]
    BY <2>1, <2>5, <2>7
  <2>9. (\A c \in b.empty : cache'[c] = "empty") /\ (\A c \in b.ready : cache'[c] # "empty")
    <3>1. /\ \A c \in a.ready : c \in Caches /\ cache[c] # "empty"
          /\ \A c \in a.empty : c \in Caches /\ cache[c] = "empty"
      BY <1>1, <2>3, <2>4 DEF CacheInv, NoteSet
    <3> QED
      BY <2>5, <3>1
  <2>10. late'[t] <= b.late /\ (late'[t] > 0 => Documents(t) \cap closed # {})
    <3>1. late[t] <= a.late /\ (late[t] > 0 => Documents(t) \cap closed # {}) /\ late[t] \in Nat
      BY <1>1, <2>3 DEF LateInv, Shape
    <3>2. a.late \in Nat /\ b.late \in Nat
      BY <2>4 DEF NoteSet
    <3> QED
      BY <2>1, <2>5, <3>1, <3>2
  <2>11. \A u \in Threads \ {t} : late'[u] = late[u]
    BY <2>1
  <2> QED
    BY ZenonT(60), <1>1, <2>1, <2>2, <2>3, <2>4, <2>5, <2>6, <2>8, <2>9, <2>10, <2>11, Moves
<1> QED
  BY <1>2, <1>3

(* The types and facts the cases below start from. *)
LEMMA Basics ==
    ASSUME IInv
    PROVE  /\ Shape /\ HoldInv /\ CacheInv /\ FillInv /\ LateInv /\ wrong = FALSE
           /\ cache \in [Caches -> {"empty", "built", "failed"}] /\ fills \in [Caches -> Nat]
           /\ holder \in [Mutexes -> Threads \cup {Nobody}] /\ late \in [Threads -> Nat]
           /\ pc \in [Threads -> Nat] /\ closed \subseteq Docs
BY DEF IInv, Shape, TypeOK

(* GetDocument, docClosed and the polls: the call goes on or returns. *)
LEMMA LooksStep ==
    ASSUME IInv, NEW t \in Threads, GetDocument(t) \/ Checks(t) \/ Polls(t)
    PROVE  IInv'
<1>1. /\ Busy(t) /\ At(t).op \in {"find", "check", "poll"} /\ UNCHANGED <<docs, closed, cache, fills, wrong, calls>>
      /\ Returns(t) \/ (Goes(t, 1) /\ (At(t).op = "check" => At(t).on \notin closed))
  BY DEF GetDocument, Checks, Polls
<1>2. CacheStep(NoteAt(t)) /\ FillInv' /\ wrong' = FALSE
      /\ cache' \in [Caches -> {"empty", "built", "failed"}] /\ fills' \in [Caches -> Nat]
  BY <1>1, Basics DEF CacheStep, FillInv
<1>3. CASE Returns(t)
  BY <1>1, <1>2, <1>3, ReturnsOn
<1>4. CASE Goes(t, 1) /\ (At(t).op = "check" => At(t).on \notin closed)
  <2>1. \A c \in NoteAt(t).empty : cache'[c] = "empty"
    BY <1>1, Basics DEF CacheInv
  <2> QED
    BY <1>1, <1>2, <1>4, <2>1, Advances
<1> QED
  BY <1>1, <1>3, <1>4

(* A lock is taken. *)
LEMMA AcquireStep ==
    ASSUME IInv, NEW t \in Threads, Acquire(t)
    PROVE  IInv'
<1>1. /\ Busy(t) /\ At(t).op = "lock" /\ holder[At(t).on] = Nobody
      /\ holder' = [holder EXCEPT ![At(t).on] = t] /\ pc' = [pc EXCEPT ![t] = pc[t] + 1]
      /\ UNCHANGED <<docs, closed, cache, fills, call, flag, late, wrong, calls>>
  BY DEF Acquire
<1>2. /\ pc[t] \in 1..Len(Prog(t)) /\ Len(Prog(t)) \in Nat /\ pc[t] < Len(Prog(t))
      /\ Allowed(At(t), NoteAt(t), Documents(t))
      /\ Passes(At(t), NoteAt(t), Notes[call[t]][pc[t] + 1], Documents(t))
  BY <1>1, Basics, StepFacts DEF Follows
<1>3. PICK j \in 1..Len(Prog(t)) : j = pc[t] + 1
  BY <1>2
<1>4. PICK a, b, m : a = NoteAt(t) /\ b = Notes[call[t]][j] /\ m = At(t).on
  OBVIOUS
<1>5. a \in NoteSet /\ b \in NoteSet /\ a.late \in Nat /\ b.late \in Nat
  BY <1>1, <1>3, <1>4, Basics, StepFacts DEF NoteSet
<1>6. /\ b.held = a.held \cup {m} /\ b.empty \subseteq a.empty /\ b.ready \subseteq a.ready /\ a.late <= b.late
  BY <1>1, <1>2, <1>3, <1>4 DEF Passes
<1>7. m \in Mutexes /\ m \notin a.held
  BY <1>1, <1>2, <1>4 DEF Allowed, InLockOrder
<1>8. Shape'
  <2>1. holder' \in [Mutexes -> Threads \cup {Nobody}] /\ late' \in [Threads -> Nat] /\ wrong' \in BOOLEAN
        /\ cache' \in [Caches -> {"empty", "built", "failed"}] /\ fills' \in [Caches -> Nat]
    BY <1>1, <1>4, <1>7, Basics
  <2> QED
    BY <1>1, <1>3, <2>1, Basics, ShapeMoves
<1>9. \A x \in Mutexes : x \in a.held <=> holder[x] = t
  BY <1>1, <1>4, Basics DEF HoldInv
<1>10. \A x \in Mutexes : holder'[x] = IF x \in b.held THEN t ELSE IF x \in a.held THEN Nobody ELSE holder[x]
  BY <1>1, <1>4, <1>6, <1>7, <1>9, Basics
<1>11. (\A c \in b.empty : cache'[c] = "empty") /\ (\A c \in b.ready : cache'[c] # "empty")
  BY <1>1, <1>4, <1>6, Basics DEF CacheInv
<1>12. late'[t] <= b.late /\ (late'[t] > 0 => Documents(t) \cap closed # {})
  <2>1. late[t] <= a.late /\ (late[t] > 0 => Documents(t) \cap closed # {}) /\ late[t] \in Nat
    BY <1>1, <1>4, Basics DEF LateInv
  <2> QED
    BY <1>1, <1>5, <1>6, <2>1
<1>13. CacheStep(a) /\ FillInv' /\ ~wrong' /\ \A u \in Threads \ {t} : late'[u] = late[u]
  BY <1>1, Basics DEF CacheStep, FillInv
<1>14. \A x \in b.held \ a.held : holder[x] = Nobody
  BY <1>1, <1>4, <1>6
<1>15. Busy(t) /\ pc' = [pc EXCEPT ![t] = j] /\ call' = call /\ closed' = closed
  BY <1>1, <1>3
<1> QED
  BY ZenonT(60), <1>4, <1>5, <1>8, <1>10, <1>11, <1>12, <1>13, <1>14, <1>15, Moves

(* A lock is let go, by the call or by its return. *)
LEMMA ReleaseStep ==
    ASSUME IInv, NEW t \in Threads, Release(t)
    PROVE  IInv'
<1>1. /\ Busy(t) /\ At(t).op = "unlock" /\ UNCHANGED <<docs, closed, cache, fills, wrong, calls>>
  BY DEF Release
<1>2. /\ pc[t] \in 1..Len(Prog(t)) /\ Len(Prog(t)) \in Nat
      /\ Allowed(At(t), NoteAt(t), Documents(t))
      /\ pc[t] < Len(Prog(t)) => Passes(At(t), NoteAt(t), Notes[call[t]][pc[t] + 1], Documents(t))
  BY <1>1, Basics, StepFacts DEF Follows
<1>3. CacheStep(NoteAt(t)) /\ FillInv' /\ wrong' = FALSE
      /\ cache' \in [Caches -> {"empty", "built", "failed"}] /\ fills' \in [Caches -> Nat]
  BY <1>1, Basics DEF CacheStep, FillInv
<1>4. CASE pc[t] = Len(Prog(t))
  <2>1. Returns(t)
    BY <1>4 DEF Release
  <2> QED
    BY <1>1, <1>3, <2>1, ReturnsOn
<1>5. CASE pc[t] # Len(Prog(t))
  <2>1. /\ holder' = [holder EXCEPT ![At(t).on] = Nobody] /\ pc' = [pc EXCEPT ![t] = pc[t] + 1]
        /\ UNCHANGED <<call, flag, late>>
    BY <1>5 DEF Release
  <2>2. PICK j \in 1..Len(Prog(t)) : j = pc[t] + 1 /\ pc[t] < Len(Prog(t))
    BY <1>2, <1>5
  <2>3. PICK a, b, m : a = NoteAt(t) /\ b = Notes[call[t]][j] /\ m = At(t).on
    OBVIOUS
  <2>4. a \in NoteSet /\ b \in NoteSet /\ a.late \in Nat /\ b.late \in Nat /\ a.held \subseteq Mutexes
    BY <1>1, <2>2, <2>3, Basics, StepFacts DEF NoteSet
  <2>5. /\ b.held = a.held \ {m} /\ b.empty \subseteq a.empty /\ b.ready \subseteq a.ready /\ a.late <= b.late
    BY <1>1, <1>2, <2>2, <2>3 DEF Passes
  <2>6. m \in a.held
    BY <1>1, <1>2, <2>3 DEF Allowed
  <2>7. Shape'
    <3>1. holder' \in [Mutexes -> Threads \cup {Nobody}] /\ late' \in [Threads -> Nat] /\ wrong' \in BOOLEAN
      BY <1>3, <2>1, Basics
    <3> QED
      BY <1>1, <1>3, <2>1, <2>2, <3>1, Basics, ShapeMoves
  <2>8. \A x \in Mutexes : x \in a.held <=> holder[x] = t
    BY <1>1, <2>3, Basics DEF HoldInv
  <2>9. \A x \in Mutexes : holder'[x] = IF x \in b.held THEN t ELSE IF x \in a.held THEN Nobody ELSE holder[x]
    BY <2>1, <2>3, <2>4, <2>5, <2>6, <2>8, Basics
  <2>10. (\A c \in b.empty : cache'[c] = "empty") /\ (\A c \in b.ready : cache'[c] # "empty")
    BY <1>1, <2>3, <2>5, Basics DEF CacheInv
  <2>11. late'[t] <= b.late /\ (late'[t] > 0 => Documents(t) \cap closed # {})
    <3>1. late[t] <= a.late /\ (late[t] > 0 => Documents(t) \cap closed # {}) /\ late[t] \in Nat
      BY <1>1, <2>3, Basics DEF LateInv
    <3> QED
      BY <2>1, <2>4, <2>5, <3>1
  <2>12. \A u \in Threads \ {t} : late'[u] = late[u]
    BY <2>1
  <2>13. \A x \in b.held \ a.held : holder[x] = Nobody
    BY <2>5
  <2>14. Busy(t) /\ pc' = [pc EXCEPT ![t] = j] /\ call' = call /\ closed' = closed /\ CacheStep(a) /\ FillInv' /\ ~wrong'
    BY <1>1, <1>3, <2>1, <2>2, <2>3
  <2> QED
    BY ZenonT(60), <2>3, <2>4, <2>7, <2>9, <2>10, <2>11, <2>12, <2>13, <2>14, Moves
<1> QED
  BY <1>4, <1>5

(* A cache is looked up. *)
LEMMA LookUpStep ==
    ASSUME IInv, NEW t \in Threads, LookUp(t)
    PROVE  IInv'
<1>1. /\ Busy(t) /\ At(t).op = "skip" /\ UNCHANGED <<docs, closed, cache, fills, wrong, calls>>
      /\ Goes(t, IF cache[At(t).on] = "empty" THEN 1 ELSE 1 + At(t).n)
  BY DEF LookUp
<1>2. CacheStep(NoteAt(t)) /\ FillInv' /\ wrong' = FALSE
      /\ cache' \in [Caches -> {"empty", "built", "failed"}] /\ fills' \in [Caches -> Nat]
  BY <1>1, Basics DEF CacheStep, FillInv
<1>3. At(t).n \in Nat /\ At(t).on \in Caches
  BY <1>1, Basics, StepFacts DEF Allowed
<1>4. CASE cache[At(t).on] = "empty"
  <2>1. Goes(t, 1) /\ \A c \in NoteAt(t).empty : cache'[c] = "empty"
    BY <1>1, <1>4, Basics DEF CacheInv
  <2> QED
    BY <1>1, <1>2, <1>4, <2>1, Advances
<1>5. CASE cache[At(t).on] # "empty"
  <2>1. PICK k \in Nat \ {0} : k = 1 + At(t).n
    BY <1>3
  <2>2. Goes(t, k)
    BY <1>1, <1>5, <2>1
  <2> QED
    BY <1>1, <1>2, <1>3, <1>5, <2>1, <2>2, JumpsOn
<1> QED
  BY <1>4, <1>5

(* A cache is filled: for the first time. *)
LEMMA FillStep ==
    ASSUME IInv, NEW t \in Threads, FillCache(t)
    PROVE  IInv'
<1>1. /\ Busy(t) /\ At(t).op = "fill" /\ Goes(t, 1) /\ UNCHANGED <<docs, closed, wrong, calls>>
      /\ cache' = [cache EXCEPT ![At(t).on] = "built"] /\ fills' = [fills EXCEPT ![At(t).on] = @ + 1]
  BY DEF FillCache
<1>2. PICK c, a : c = At(t).on /\ a = NoteAt(t)
  OBVIOUS
<1>3. c \in a.empty /\ a \in NoteSet
  BY <1>1, <1>2, Basics, StepFacts DEF Allowed
<1>4. c \in a.held /\ c \in Caches /\ cache[c] = "empty"
  BY <1>1, <1>2, <1>3, Basics DEF NoteSet, CacheInv
<1>5. /\ \A x \in Caches : cache'[x] = IF x = c THEN "built" ELSE cache[x]
      /\ \A x \in Caches : fills'[x] = IF x = c THEN fills[x] + 1 ELSE fills[x]
      /\ cache' \in [Caches -> {"empty", "built", "failed"}] /\ fills' \in [Caches -> Nat]
  BY <1>1, <1>2, <1>4, Basics
<1>6. CacheStep(NoteAt(t)) /\ FillInv'
  BY <1>2, <1>4, <1>5, Basics DEF CacheStep, FillInv
<1>7. \A x \in a.empty : cache'[x] = "empty" \/ x = c
  <2>1. \A x \in a.empty : x \in Caches /\ cache[x] = "empty"
    BY <1>1, <1>2, <1>3, Basics DEF CacheInv, NoteSet
  <2> QED
    BY <1>5, <2>1
<1> QED
  BY <1>1, <1>2, <1>4, <1>5, <1>6, <1>7, Advances

(* The build of the reverse references fails. *)
LEMMA OnceStep ==
    ASSUME IInv, NEW t \in Threads, OnceFails(t)
    PROVE  IInv'
<1>1. /\ Busy(t) /\ At(t).op = "once" /\ (Goes(t, 2) \/ Returns(t)) /\ UNCHANGED <<docs, closed, fills, wrong, calls>>
      /\ cache' = [cache EXCEPT ![At(t).on] = "failed"]
  BY DEF OnceFails
<1>2. PICK c, a : c = At(t).on /\ a = NoteAt(t)
  OBVIOUS
<1>3. c \in a.empty /\ a \in NoteSet
  BY <1>1, <1>2, Basics, StepFacts DEF Allowed
<1>4. c \in a.held /\ c \in Caches
  BY <1>3 DEF NoteSet
<1>5. /\ \A x \in Caches : cache'[x] = IF x = c THEN "failed" ELSE cache[x]
      /\ cache' \in [Caches -> {"empty", "built", "failed"}] /\ fills' \in [Caches -> Nat]
  BY <1>1, <1>2, <1>4, Basics
<1>6. CacheStep(NoteAt(t)) /\ FillInv' /\ wrong' = FALSE
  BY <1>1, <1>2, <1>4, <1>5, Basics DEF CacheStep, FillInv
<1>7. CASE Returns(t)
  BY <1>1, <1>5, <1>6, <1>7, ReturnsOn
<1>8. CASE Goes(t, 2)
  <2>1. 2 \in Nat \ {0} /\ \A x \in Caches : x # At(t).on => cache'[x] = cache[x]
    BY <1>2, <1>5
  <2> QED
    BY <1>1, <1>2, <1>4, <1>5, <1>6, <1>8, <2>1, JumpsOn
<1> QED
  BY <1>1, <1>7, <1>8

(* Work succeeds; on a closed document it counts as late. *)
LEMMA WorksStep ==
    ASSUME IInv, NEW t \in Threads, Works(t)
    PROVE  IInv'
<1>1. /\ Busy(t) /\ At(t).op \in {"work", "once"} /\ pc[t] < Len(Prog(t)) /\ pc' = [pc EXCEPT ![t] = pc[t] + 1]
      /\ late' = [late EXCEPT ![t] = IF At(t).on \in closed THEN @ + 1 ELSE @]
      /\ UNCHANGED <<docs, closed, holder, cache, fills, call, flag, wrong, calls>>
  BY DEF Works
<1>2. /\ pc[t] \in 1..Len(Prog(t)) /\ Len(Prog(t)) \in Nat
      /\ Allowed(At(t), NoteAt(t), Documents(t))
      /\ Passes(At(t), NoteAt(t), Notes[call[t]][pc[t] + 1], Documents(t))
  BY <1>1, Basics, StepFacts DEF Follows
<1>3. PICK j \in 1..Len(Prog(t)) : j = pc[t] + 1
  BY <1>1, <1>2
<1>4. PICK a, b, x : a = NoteAt(t) /\ b = Notes[call[t]][j] /\ x = At(t).on
  OBVIOUS
<1>5. a \in NoteSet /\ b \in NoteSet /\ a.late \in Nat /\ b.late \in Nat
  BY <1>1, <1>3, <1>4, Basics, StepFacts DEF NoteSet
<1>6. /\ b.held = a.held /\ b.empty \subseteq a.empty /\ b.ready \subseteq a.ready /\ a.late + 1 <= b.late
  BY <1>1, <1>2, <1>3, <1>4 DEF Passes
<1>7. x \in Docs => x \in Documents(t)
  <2>1. At(t).op = "once" => x \in Caches
    BY <1>2, <1>4, <1>5 DEF Allowed, NoteSet
  <2> QED
    BY <1>1, <1>2, <1>4, <2>1, DocsAssumption DEF Allowed
<1>8. late' \in [Threads -> Nat] /\ late'[t] = (IF x \in closed THEN late[t] + 1 ELSE late[t])
      /\ \A u \in Threads \ {t} : late'[u] = late[u]
  BY <1>1, <1>4, Basics
<1>9. Shape'
  <2>1. holder' \in [Mutexes -> Threads \cup {Nobody}] /\ wrong' \in BOOLEAN
        /\ cache' \in [Caches -> {"empty", "built", "failed"}] /\ fills' \in [Caches -> Nat]
    BY <1>1, Basics
  <2> QED
    BY <1>1, <1>3, <1>8, <2>1, Basics, ShapeMoves
<1>10. \A m \in Mutexes : m \in a.held <=> holder[m] = t
  BY <1>1, <1>4, Basics DEF HoldInv
<1>11. \A m \in Mutexes : holder'[m] = IF m \in b.held THEN t ELSE IF m \in a.held THEN Nobody ELSE holder[m]
  BY <1>1, <1>6, <1>10
<1>12. (\A c \in b.empty : cache'[c] = "empty") /\ (\A c \in b.ready : cache'[c] # "empty")
  BY <1>1, <1>4, <1>6, Basics DEF CacheInv
<1>13. late'[t] <= b.late /\ (late'[t] > 0 => Documents(t) \cap closed # {})
  <2>1. late[t] <= a.late /\ (late[t] > 0 => Documents(t) \cap closed # {}) /\ late[t] \in Nat
    BY <1>1, <1>4, Basics DEF LateInv
  <2>2. x \in closed => Documents(t) \cap closed # {}
    BY <1>7, Basics
  <2> QED
    BY <1>5, <1>6, <1>8, <2>1, <2>2
<1>14. CacheStep(a) /\ FillInv' /\ ~wrong' /\ \A m \in b.held \ a.held : holder[m] = Nobody
  BY <1>1, <1>6, Basics DEF CacheStep, FillInv
<1>15. Busy(t) /\ pc' = [pc EXCEPT ![t] = j] /\ call' = call /\ closed' = closed
  BY <1>1, <1>3
<1>16. \A u \in Threads \ {t} : late'[u] = late[u]
  BY <1>8
<1> QED
  BY ZenonT(60), <1>4, <1>5, <1>9, <1>11, <1>12, <1>13, <1>14, <1>15, <1>16, Moves

(* Work panics and the caller recovers, with all mutexes free. *)
LEMMA RecoversStep ==
    ASSUME IInv, NEW t \in Threads, Recovers(t)
    PROVE  IInv'
<1>1. /\ Busy(t) /\ At(t).op = "work" /\ At(t).n > 0 /\ holder' = Freed(t) /\ pc' = [pc EXCEPT ![t] = pc[t] + At(t).n]
      /\ UNCHANGED <<docs, closed, cache, fills, call, flag, late, wrong, calls>>
  BY DEF Recovers
<1>2. /\ pc[t] \in 1..Len(Prog(t)) /\ Len(Prog(t)) \in Nat
      /\ Allowed(At(t), NoteAt(t), Documents(t)) /\ pc[t] + At(t).n <= Len(Prog(t))
      /\ Rescued(NoteAt(t), Notes[call[t]][pc[t] + At(t).n])
  BY <1>1, Basics, StepFacts DEF Follows
<1>3. PICK j \in 1..Len(Prog(t)) : j = pc[t] + At(t).n
  <2>1. At(t).n \in Nat
    BY <1>2 DEF Allowed
  <2>2. pc[t] + At(t).n \in 1..Len(Prog(t))
    BY <1>2, <2>1
  <2> QED
    BY <2>2
<1>4. PICK a, b : a = NoteAt(t) /\ b = Notes[call[t]][j]
  OBVIOUS
<1>5. a \in NoteSet /\ b \in NoteSet /\ a.late \in Nat /\ b.late \in Nat
  BY <1>1, <1>3, <1>4, Basics, StepFacts DEF NoteSet
<1>6. b.held = {} /\ b.empty = {} /\ b.ready \subseteq a.ready /\ a.late <= b.late
  BY <1>2, <1>3, <1>4 DEF Rescued
<1>7. Shape'
  <2>1. holder' \in [Mutexes -> Threads \cup {Nobody}] /\ late' \in [Threads -> Nat] /\ wrong' \in BOOLEAN
        /\ cache' \in [Caches -> {"empty", "built", "failed"}] /\ fills' \in [Caches -> Nat]
    BY <1>1, Basics DEF Freed
  <2> QED
    BY <1>1, <1>3, <2>1, Basics, ShapeMoves
<1>8. \A m \in Mutexes : m \in a.held <=> holder[m] = t
  BY <1>1, <1>4, Basics DEF HoldInv
<1>9. \A m \in Mutexes : holder'[m] = IF m \in b.held THEN t ELSE IF m \in a.held THEN Nobody ELSE holder[m]
  BY <1>1, <1>6, <1>8 DEF Freed
<1>10. (\A c \in b.empty : cache'[c] = "empty") /\ (\A c \in b.ready : cache'[c] # "empty")
  BY <1>1, <1>4, <1>6, Basics DEF CacheInv
<1>11. late'[t] <= b.late /\ (late'[t] > 0 => Documents(t) \cap closed # {})
  <2>1. late[t] <= a.late /\ (late[t] > 0 => Documents(t) \cap closed # {}) /\ late[t] \in Nat
    BY <1>1, <1>4, Basics DEF LateInv
  <2> QED
    BY <1>1, <1>5, <1>6, <2>1
<1>12. /\ CacheStep(a) /\ FillInv' /\ ~wrong' /\ \A u \in Threads \ {t} : late'[u] = late[u]
       /\ \A m \in b.held \ a.held : holder[m] = Nobody
  BY <1>1, <1>6, Basics DEF CacheStep, FillInv
<1>13. Busy(t) /\ pc' = [pc EXCEPT ![t] = j] /\ call' = call /\ closed' = closed
  BY <1>1, <1>3
<1> QED
  BY ZenonT(60), <1>4, <1>5, <1>7, <1>9, <1>10, <1>11, <1>12, <1>13, Moves

(* The call ends with its work, or answers from an index that is there. *)
LEMMA EndsStep ==
    ASSUME IInv, NEW t \in Threads, Ends(t) \/ Answers(t)
    PROVE  IInv'
<1>1. /\ Busy(t) /\ Returns(t) /\ UNCHANGED <<docs, closed, cache, fills, calls>>
      /\ wrong' = wrong \/ (At(t).op = "answer" /\ wrong' = (wrong \/ cache[At(t).on] = "empty"))
  BY DEF Ends, Answers
<1>2. At(t).op = "answer" => cache[At(t).on] # "empty"
  BY <1>1, Basics, StepFacts DEF Allowed, CacheInv
<1>3. wrong' = FALSE
  BY <1>1, <1>2, Basics
<1>4. CacheStep(NoteAt(t)) /\ FillInv'
      /\ cache' \in [Caches -> {"empty", "built", "failed"}] /\ fills' \in [Caches -> Nat]
  BY <1>1, Basics DEF CacheStep, FillInv
<1> QED
  BY <1>1, <1>3, <1>4, ReturnsOn

(* A free thread takes a call and starts at its first step. *)
LEMMA ServeStep ==
    ASSUME IInv, NEW t \in Threads, NEW c \in DOMAIN Programs, Serve(t, c)
    PROVE  IInv'
<1>1. /\ ~Busy(t) /\ calls < MaxCalls /\ c \in Served
      /\ call' = [call EXCEPT ![t] = c] /\ pc' = [pc EXCEPT ![t] = 1] /\ calls' = calls + 1
      /\ UNCHANGED <<docs, closed, holder, cache, fills, flag, late, wrong>>
  BY DEF Serve, Served, Programs
<1>2. /\ TypeOK /\ call \in [Threads -> Served \cup {NoCall}] /\ calls \in 0..MaxCalls /\ MaxCalls \in Nat
  BY Basics, CallsAssumption DEF Shape, TypeOK
<1>3. Len(Programs[c]) \in Nat /\ Len(Programs[c]) >= 1 /\ Notes[c][1] = Nothing
  BY <1>1, WellFormed DEF Disciplined
<1>4. /\ call' \in [Threads -> Served \cup {NoCall}] /\ pc' \in [Threads -> Nat]
      /\ \A u \in Threads : IF u = t THEN pc'[u] = 1 /\ call'[u] = c ELSE pc'[u] = pc[u] /\ call'[u] = call[u]
  BY <1>1, <1>2, Basics
<1>5. \A u \in Threads :
         /\ call'[u] \in DOMAIN Programs \cup {NoCall}
         /\ pc'[u] \in IF call'[u] = NoCall THEN {0} ELSE 1 .. Len(Prog(u)')
         /\ late'[u] \in Nat
  <2> TAKE u \in Threads
  <2>1. CASE u = t
    BY <1>1, <1>3, <1>4, <2>1, Basics, ServedFacts DEF Prog
  <2>2. CASE u # t
    BY <1>1, <1>2, <1>4, <2>2 DEF TypeOK, Prog
  <2> QED
    BY <2>1, <2>2
<1>6. calls' \in 0..MaxCalls
  BY <1>1, <1>2
<1>7. TypeOK'
  BY <1>1, <1>2, <1>5, <1>6 DEF TypeOK
<1>8. Shape'
  BY <1>1, <1>4, <1>7, Basics DEF Shape
<1>9. /\ \A u \in Threads \ {t} : (Busy(u)' <=> Busy(u)) /\ NoteAt(u)' = NoteAt(u) /\ Documents(u)' = Documents(u)
      /\ Busy(t)' /\ NoteAt(t)' = Nothing
  BY <1>3, <1>4 DEF Busy, NoteAt, Documents
<1>10. Nothing.held = {} /\ Nothing.empty = {} /\ Nothing.ready = {} /\ Nothing.late = 0
  BY DEF Nothing, Note
<1>11. HoldInv'
  <2>1. ASSUME NEW u \in Threads, NEW m \in Mutexes
        PROVE  holder'[m] = u <=> Busy(u)' /\ m \in NoteAt(u)'.held
    <3>1. holder[m] = u <=> Busy(u) /\ m \in NoteAt(u).held
      BY Basics DEF HoldInv
    <3>2. CASE u = t
      BY <1>1, <1>9, <1>10, <3>1, <3>2
    <3>3. CASE u # t
      BY <1>1, <1>9, <3>1, <3>3
    <3> QED
      BY <3>2, <3>3
  <2> QED
    BY <2>1 DEF HoldInv
<1>12. CacheInv'
  <2>1. ASSUME NEW u \in Threads, Busy(u)'
        PROVE  (\A x \in NoteAt(u)'.empty : cache'[x] = "empty") /\ (\A x \in NoteAt(u)'.ready : cache'[x] # "empty")
    <3>1. CASE u = t
      BY <1>9, <1>10, <3>1
    <3>2. CASE u # t
      BY <1>1, <1>9, <2>1, <3>2, Basics DEF CacheInv
    <3> QED
      BY <3>1, <3>2
  <2> QED
    BY <2>1 DEF CacheInv
<1>13. LateInv'
  <2>1. ASSUME NEW u \in Threads
        PROVE  IF Busy(u)' THEN late'[u] <= NoteAt(u)'.late /\ (late'[u] > 0 => Documents(u)' \cap closed' # {})
               ELSE late'[u] = 0
    <3>1. CASE u = t
      BY <1>1, <1>9, <1>10, <3>1, Basics DEF LateInv
    <3>2. CASE u # t
      BY <1>1, <1>9, <3>2, Basics DEF LateInv
    <3> QED
      BY <3>1, <3>2
  <2> QED
    BY <2>1 DEF LateInv
<1>14. FillInv' /\ ~wrong'
  BY <1>1, Basics DEF FillInv
<1> QED
  BY <1>8, <1>11, <1>12, <1>13, <1>14 DEF IInv

(* Close, and the AfterFunc that follows it. *)
LEMMA CloseStep ==
    ASSUME IInv, (\E t \in Threads : AfterFunc(t)) \/ (\E d \in Docs : CloseDrops(d) \/ CloseCancels(d))
    PROVE  IInv'
<1>1. /\ UNCHANGED <<holder, cache, fills, call, pc, late, wrong, calls>> /\ closed \subseteq closed'
      /\ docs' \subseteq Docs /\ closed' \subseteq Docs \ docs' /\ flag' \in [Threads -> BOOLEAN]
  BY Basics DEF AfterFunc, CloseDrops, CloseCancels, Shape, TypeOK
<1>2. /\ \A t \in Threads : (Busy(t)' <=> Busy(t)) /\ NoteAt(t)' = NoteAt(t) /\ Documents(t)' = Documents(t)
                             /\ Prog(t)' = Prog(t)
  BY <1>1 DEF Busy, NoteAt, Documents, Prog
<1>3. TypeOK'
  BY <1>1, <1>2, Basics DEF Shape, TypeOK
<1>4. Shape'
  BY <1>1, <1>3, Basics DEF Shape
<1>5. HoldInv' /\ CacheInv' /\ FillInv' /\ ~wrong'
  BY <1>1, <1>2, Basics DEF HoldInv, CacheInv, FillInv
<1>6. LateInv'
  <2>1. ASSUME NEW u \in Threads
        PROVE  IF Busy(u)' THEN late'[u] <= NoteAt(u)'.late /\ (late'[u] > 0 => Documents(u)' \cap closed' # {})
               ELSE late'[u] = 0
    BY <1>1, <1>2, Basics DEF LateInv
  <2> QED
    BY <2>1 DEF LateInv
<1> QED
  BY <1>4, <1>5, <1>6 DEF IInv

(* Every step keeps the invariant. *)
LEMMA NextIInv == IInv /\ [Next]_vars => IInv'
<1> SUFFICES ASSUME IInv, [Next]_vars PROVE IInv'
  OBVIOUS
<1>1. CASE \E t \in Threads, c \in DOMAIN Programs : Serve(t, c)
  BY <1>1, ServeStep
<1>2. CASE \E t \in Threads : GetDocument(t) \/ Checks(t) \/ Polls(t)
  BY <1>2, LooksStep
<1>3. CASE \E t \in Threads : Acquire(t) \/ Release(t)
  BY <1>3, AcquireStep, ReleaseStep
<1>4. CASE \E t \in Threads : LookUp(t) \/ FillCache(t) \/ OnceFails(t)
  BY <1>4, LookUpStep, FillStep, OnceStep
<1>5. CASE \E t \in Threads : Works(t) \/ Recovers(t) \/ Ends(t) \/ Answers(t)
  BY <1>5, WorksStep, RecoversStep, EndsStep
<1>6. CASE (\E t \in Threads : AfterFunc(t)) \/ (\E d \in Docs : CloseDrops(d) \/ CloseCancels(d))
  BY <1>6, CloseStep
<1>7. CASE UNCHANGED vars
  BY <1>7 DEF vars, IInv, Shape, TypeOK, HoldInv, CacheInv, FillInv, LateInv, Busy, NoteAt, Documents, Prog
<1> QED
  BY <1>1, <1>2, <1>3, <1>4, <1>5, <1>6, <1>7 DEF Next

(* It holds at the start. *)
LEMMA InitIInv == Init => IInv
<1> SUFFICES ASSUME Init PROVE IInv
  OBVIOUS
<1>1. \A t \in Threads : pc[t] = 0 /\ call[t] = NoCall /\ late[t] = 0 /\ ~Busy(t)
  BY DEF Init, Busy
<1>2. TypeOK
  <2>1. \A t \in Threads : /\ call[t] \in DOMAIN Programs \cup {NoCall}
                            /\ pc[t] \in IF call[t] = NoCall THEN {0} ELSE 1 .. Len(Prog(t))
                            /\ late[t] \in Nat
    BY <1>1
  <2>2. \A c \in Caches : fills[c] \in Nat
    BY DEF Init
  <2>3. calls \in 0..MaxCalls
    BY CallsAssumption DEF Init
  <2>4. holder \in [Mutexes -> Threads \cup {Nobody}] /\ cache \in [Caches -> {"empty", "built", "failed"}]
    BY DEF Init
  <2> QED
    BY <2>1, <2>2, <2>3, <2>4 DEF Init, TypeOK
<1>3. Shape
  BY <1>2 DEF Init, Shape
<1>4. HoldInv
  BY <1>1, NobodyAssumption DEF Init, HoldInv
<1>5. CacheInv /\ LateInv
  BY <1>1 DEF CacheInv, LateInv
<1>6. FillInv /\ ~wrong
  BY DEF Init, FillInv
<1> QED
  BY <1>3, <1>4, <1>5, <1>6 DEF IInv

-----------------------------------------------------------------------------
(* What it means.                                                          *)

(* The inductive invariant holds in every state. *)
THEOREM InductiveInvariant == Spec => []IInv
BY InitIInv, NextIInv, PTL DEF Spec

(* pdfcpu is only used under the pdfMu of its document, whichever caches,    *)
(* page walks, recovered panics and closes come between; a cache is built at *)
(* most once, and GetReverseRefs never answers from an index nobody built.   *)
THEOREM CallsAreSound == Spec => []CallsSound
<1>1. IInv => CallsSound
  <2> SUFFICES ASSUME IInv PROVE CallsSound
    OBVIOUS
  <2>1. TypeOK /\ BuiltOnce /\ NoSilentEmptyIndex
    BY Basics DEF Shape, FillInv, BuiltOnce, NoSilentEmptyIndex
  <2>2. ASSUME NEW t \in Threads, Busy(t)
        PROVE  /\ At(t).op = "work" /\ At(t).on \in Docs => holder[<<"pdf", At(t).on>>] = t
               /\ At(t).op = "once" => holder[<<"pdf", At(t).on[2]>>] = t
    <3>1. PICK s, a, ds : s = At(t) /\ a = NoteAt(t) /\ ds = Documents(t)
      OBVIOUS
    <3>2. a \in NoteSet /\ Allowed(s, a, ds)
      BY <2>2, <3>1, Basics, StepFacts
    <3>3. \A m \in a.held : holder[m] = t
      BY <2>2, <3>1, <3>2, Basics DEF HoldInv, NoteSet
    <3> QED
      BY <3>1, <3>2, <3>3 DEF Allowed
  <2>3. PdfcpuGuarded
    BY <2>2 DEF PdfcpuGuarded
  <2> QED
    BY <2>1, <2>3 DEF CallsSound, CachesAreSound
<1> QED
  BY <1>1, InductiveInvariant, PTL

(* What a waiting thread holds and wants obeys the lock order. *)
LEMMA WaitFacts ==
    ASSUME IInv, NEW t \in Threads, NEW u \in Threads, WaitsFor(t, u)
    PROVE  /\ InLockOrder(At(t).on, NoteAt(t).held) /\ holder[At(t).on] = u /\ At(t).on \in Mutexes
           /\ \A m \in Mutexes : holder[m] = t <=> m \in NoteAt(t).held
<1>1. Busy(t) /\ At(t).op = "lock" /\ holder[At(t).on] = u
  BY DEF WaitsFor
<1>2. Allowed(At(t), NoteAt(t), Documents(t))
  BY <1>1, Basics, StepFacts
<1>3. InLockOrder(At(t).on, NoteAt(t).held)
  BY <1>1, <1>2 DEF Allowed
<1> QED
  BY <1>1, <1>3, Basics DEF InLockOrder, HoldInv

(* Every mutex has its place in the order. *)
LEMMA MutexKinds == \A m \in Mutexes : m[1] \in Outer \cup Inner \cup {"pdf"}
BY DEF Mutexes, Kinds, Outer, Inner

(* DocumentState's lock order and diffLockOrderMu: calls never wait for each *)
(* other in a circle.  In a set of threads that all wait for one of          *)
(* themselves nobody holds an inner mutex, since its holder waits for none;  *)
(* so a holder of a pdfMu waits for a second one and holds diffLockOrderMu,  *)
(* as does the holder of that second one: they are the same thread, which    *)
(* does not hold what it waits for.  What is left are outer mutexes, and     *)
(* their holders wait for a pdfMu.                                           *)
THEOREM NoDeadlock == Spec => []NoWaitCycle
<1>1. IInv => NoWaitCycle
  <2> SUFFICES ASSUME IInv, NEW ts \in (SUBSET Threads) \ {{}},
                      \A t \in ts : \E u \in ts : WaitsFor(t, u)
               PROVE  FALSE
    BY DEF NoWaitCycle
  <2>1. PICK want, held : /\ want = [t \in ts |-> At(t).on]
                          /\ held = [t \in ts |-> NoteAt(t).held]
    OBVIOUS
  <2>2. \A t \in ts : /\ InLockOrder(want[t], held[t]) /\ holder[want[t]] \in ts /\ want[t] \in Mutexes
                      /\ \A m \in Mutexes : holder[m] = t <=> m \in held[t]
    BY <2>1, WaitFacts
  <2>3. \A t \in ts : want[t] \in held[holder[want[t]]] /\ want[t] \notin held[t] /\ holder[want[t]] \in ts
    BY <2>2 DEF InLockOrder
  <2>4. \A t \in ts : want[t][1] \notin Inner
    BY <2>2, <2>3 DEF InLockOrder
  <2>5. \A t \in ts : want[t][1] # "pdf"
    <3> SUFFICES ASSUME NEW t \in ts, want[t][1] = "pdf" PROVE FALSE
      OBVIOUS
    <3>1. PICK u \in ts : u = holder[want[t]]
      BY <2>3
    <3>2. Order \in held[u] /\ want[u][1] = "pdf"
      BY <2>2, <2>3, <2>4, <3>1 DEF InLockOrder
    <3>3. PICK v \in ts : v = holder[want[u]]
      BY <2>3
    <3>4. Order \in held[v]
      BY <2>2, <2>3, <2>4, <3>2, <3>3 DEF InLockOrder
    <3>5. u = v
      BY <2>2, <3>2, <3>4, CacheMutexes
    <3> QED
      BY <2>3, <3>3, <3>5
  <2>6. \A t \in ts : want[t][1] \in Outer
    BY <2>2, <2>4, <2>5, MutexKinds
  <2>7. PICK t : t \in ts
    <3>1. ts # {}
      OBVIOUS
    <3> QED
      BY <3>1, Zenon
  <2> QED
    BY <2>2, <2>3, <2>6, <2>7 DEF InLockOrder
<1> QED
  BY <1>1, InductiveInvariant, PTL

(* closeCtx: once a document is closed, an image walk works on at most one   *)
(* more page, a structure walk or a validation under at most one more hold   *)
(* of pdfMu, on documents of any number of pages.                            *)
THEOREM ClosesStopWalks == Spec => []CloseStopsWalks
<1>1. IInv => CloseStopsWalks
  <2> SUFFICES ASSUME IInv, NEW t \in Threads, Busy(t)
               PROVE  /\ call[t][1] = "images" => late[t] <= 1
                      /\ call[t][1] \in {"structure", "validate"} => late[t] <= 2
    BY DEF CloseStopsWalks
  <2>1. call[t] \in Served /\ pc[t] \in 1..Len(Programs[call[t]])
    BY Basics, StepFacts
  <2>2. /\ call[t][1] = "images" => NoteAt(t).late <= 1
        /\ call[t][1] \in {"structure", "validate"} => NoteAt(t).late <= 2
    BY <2>1, WalkBudgets DEF NoteAt
  <2>3. late[t] <= NoteAt(t).late /\ late[t] \in Nat /\ NoteAt(t).late \in Nat
    BY Basics, StepFacts DEF LateInv, NoteSet
  <2> QED
    BY <2>2, <2>3
<1> QED
  BY <1>1, InductiveInvariant, PTL

=============================================================================
