-------------------------------- MODULE Dyld2 --------------------------------
(****************************************************************************)
(* dlopen() and dlclose() of the dyld2 loader: src/dyldAPIs.cpp,            *)
(* src/dyld2.cpp and src/ImageLoader.cpp.                                   *)
(*                                                                          *)
(* Images are loaded, linked and collected under the global lock, which is  *)
(* recursive; initializers run without it, under a spin lock per image that *)
(* the thread which holds it may take again.  What an initializing thread   *)
(* reads without the global lock is written while others hold it: every     *)
(* store to a depth, and both halves of a push_back() on the list of images *)
(* to terminate, are steps of their own.                                    *)
(*                                                                          *)
(* A thread's stack holds what it is doing, innermost last; empty, or with  *)
(* an initializer or a terminator on top, code of the program is running.   *)
(****************************************************************************)
EXTENDS Integers, Selection

CONSTANTS
    Threads,
    Images,      \* images that can be found
    Libs,        \* Libs[i]: the libraries i links, in order, as [img, upward, weak]
    NeverUnload, \* images linked by the main executable, and what they link
    HasTerm,     \* images with static terminators
    Opens,       \* what the program itself may dlopen()
    InitOpens,   \* InitOpens[i]: what the initializers of i may dlopen()
    TermOpens,   \* what terminators may dlopen()
    DynRefs,     \* pairs that binding by flat lookup makes, of images
    MaxOpens     \* bound: calls of dlopen()

VARIABLES
    all,      \* sAllImages
    state,    \* fState of each image
    count,    \* fDlopenReferenceCount
    depth,    \* fDepth
    marked,   \* fMarkedInUse
    refs,     \* sDynamicReferences
    glock,    \* the global lock: its owner and how often it took it
    ilock,    \* fInitializerRecursiveLock of each image
    cells,    \* memory of sImageFilesNeedingTermination
    end,      \* its size
    doingGC,  \* sDoingGC
    redo,     \* sRedo
    stack,    \* stack[t]: what thread t is doing
    handles,  \* handles[i]: results of dlopen(i) the program has not closed
    opens,    \* calls of dlopen() so far
    want,     \* want[t]: the call in which t waits for the global lock, <<>> if in none
    inits,    \* history: times initializers of the loaded image were started
    terms,    \* history: times its terminators were run
    calm,     \* history: images no depth was written since their initialization began
    skipped,  \* history: images passed over though not initialized
    early,    \* history: images initialized from inside an image they link downward
    reopened, \* history: images a terminator opened that the collection had not marked
    torn      \* history: the termination list was changed during a push_back()

imageVars == <<all, state, count, marked, refs>>
gcVars    == <<doingGC, redo>>
termVars  == <<cells, end>>
history   == <<inits, terms, calm, skipped, early, reopened, torn>>
vars == <<imageVars, depth, glock, ilock, termVars, gcVars, stack, handles, opens, want, history>>

\* dyld_image_states, in their order
Absent           == 0
Mapped           == 1
DependentsMapped == 2
Bound            == 3
Initializing     == 4  \* dyld_image_state_dependents_initialized - 1
DependentsInited == 5
Initialized      == 6

None == "none"

\* The libraries of i that are there: libImage(k) is NULL for a weak one that is not.
LibImages == [i \in Images |-> Images \cap {l.img : l \in Range(Libs[i])}]
Down      == [i \in Images |-> Images \cap {l.img : l \in {l \in Range(Libs[i]) : ~l.upward}}]

ASSUME Dyld2Assumption ==
    /\ None \notin Threads /\ MaxOpens \in Nat
    /\ \A i \in Images : Libs[i] \in Seq(Range(Libs[i]))
    /\ NeverUnload \subseteq Images /\ IsFiniteSet(NeverUnload)
    /\ \A i \in NeverUnload : LibImages[i] \subseteq NeverUnload
    /\ DynRefs \subseteq Images \X Images

\* What markedUsedRecursive() and the recursions of link() reach: the least set
\* that holds S and what its members link, or refer to by R.
LinkClosed == {T \in SUBSET Images : \A x \in T : LibImages[x] \subseteq T}
Closure(S, R) ==
    {j \in Images : \A T \in LinkClosed :
        (S \subseteq T /\ \A r \in R : r[1] \in T => r[2] \in T) => j \in T}
Tree(i) == Closure({i}, {})

\* An entry of a thread's stack; the fields an entry does not need are left empty.
Frame(op, i, todo) == [op |-> op, img |-> i, todo |-> todo, ups |-> <<>>, val |-> 0]

Top(t)        == Last(stack[t])
At(t, op)     == stack[t] # <<>> /\ Top(t).op = op
Replace(t, f) == stack' = [stack EXCEPT ![t] = Append(Front(@), f)]
Call(t, f)    == stack' = [stack EXCEPT ![t] = Append(@, f)]
Return(t)     == stack' = [stack EXCEPT ![t] = Front(@)]
ReplaceAndCall(t, f, g) == stack' = [stack EXCEPT ![t] = Front(@) \o <<f, g>>]

UserRuns(t) == stack[t] = <<>> \/ At(t, "init") \/ At(t, "term")

\* The calls of dlopen() on the thread that hold a reference to their image.
Opening(t) == {n \in DOMAIN stack[t] : stack[t][n].op \in {"load", "depths", "process", "failed", "undo"}}

\* The images thread t is initializing.
On(t) == {i \in Images : ilock[i].owner = t}

-----------------------------------------------------------------------------
(* The global lock: dyldLock.cpp *)

GlobalLockAcquire(t) ==
    /\ glock.owner \in {None, t}
    /\ glock' = [owner |-> t, held |-> glock.held + 1]

\* (faulty variant: the lock does not count)
GlobalLockRelease_Free(t) == glock' = [owner |-> None, held |-> 0]
GlobalLockRelease(t) ==
    glock' = [owner |-> IF glock.held = 1 THEN None ELSE t, held |-> glock.held - 1]

-----------------------------------------------------------------------------
(* garbageCollectImages() *)

Loaded == Range(all)

\* (faulty variant: what an image only refers to dynamically is not marked)
InUse_Static(c) == Closure({i \in Loaded : c[i] # 0 \/ (i \in NeverUnload /\ state[i] >= Bound)}, {})
\* The images the mark phase reaches, given the reference counts.
InUse(c) == Closure({i \in Loaded : c[i] # 0 \/ (i \in NeverUnload /\ state[i] >= Bound)}, refs)

\* Mark; the images to terminate are those of sAllImages, in its order, not marked.
MarkPhase(t, rest, c) ==
    /\ marked' = [i \in Images |-> i \in InUse(c)]
    /\ redo' = FALSE
    /\ stack' = [stack EXCEPT ![t] =
          Append(rest, Frame("gc", None, all))]

\* The call, with `rest' what the thread goes on with: if a collection is under
\* way it is only asked to start over.
GarbageCollectImages(t, rest, c) ==
    IF doingGC
    THEN /\ redo' = TRUE
         /\ stack' = [stack EXCEPT ![t] = rest]
         /\ UNCHANGED <<marked, doingGC>>
    ELSE /\ doingGC' = TRUE
         /\ MarkPhase(t, rest, c)

\* runImageStaticTerminators(): as long as the image is in the list, take it out
\* of it (which moves what follows down) and run its terminators.
InTermList(i) == {n \in 1..end : cells[n] = i}

GcTerminate(t) ==
    /\ At(t, "gc") /\ Top(t).todo # <<>>
    /\ LET i == Head(Top(t).todo)
           n == Min(InTermList(i))
       IN  IF marked[i] \/ InTermList(i) = {}
           THEN /\ Replace(t, [Top(t) EXCEPT !.todo = Tail(@)])
                /\ UNCHANGED <<termVars, terms, torn>>
           ELSE /\ cells' = [m \in DOMAIN cells |-> IF m \in n..(end - 1) THEN cells[m + 1] ELSE cells[m]]
                /\ end' = end - 1
                /\ terms' = [terms EXCEPT ![i] = @ + 1]
                /\ torn' = (torn \/ \E u \in Threads : At(u, "push"))
                /\ Call(t, Frame("term", i, <<>>))
    /\ UNCHANGED <<imageVars, depth, glock, ilock, gcVars, handles, opens, want,
                   inits, calm, skipped, early, reopened>>

TerminatorReturns(t) ==
    /\ At(t, "term") /\ want[t] = <<>>
    /\ Return(t)
    /\ UNCHANGED <<imageVars, depth, glock, ilock, termVars, gcVars, handles, opens, want, history>>

\* removeImage() and deleteImage() of the first image that is not marked; the
\* handles a program still has on it are no longer used.
GcDelete(t) ==
    /\ At(t, "gc") /\ Top(t).todo = <<>>
    /\ \E n \in DOMAIN all :
          /\ ~marked[all[n]] /\ \A m \in 1..(n - 1) : marked[all[m]]
          /\ LET i == all[n] IN
                /\ all' = RemoveAt(all, n)
                /\ state' = [state EXCEPT ![i] = Absent]
                /\ count' = [count EXCEPT ![i] = 0]
                /\ depth' = [depth EXCEPT ![i] = 0]
                /\ refs' = {r \in refs : i \notin {r[1], r[2]}}
                /\ handles' = [handles EXCEPT ![i] = 0]
                /\ inits' = [inits EXCEPT ![i] = 0]
                /\ terms' = [terms EXCEPT ![i] = 0]
                /\ skipped' = skipped \ {i}
                /\ early' = early \ {i}
                /\ reopened' = reopened \ {i}
    /\ UNCHANGED <<marked, glock, ilock, termVars, gcVars, stack, opens, want, calm, torn>>

\* (faulty variant: a request to start over is forgotten)
GcAgain_Never == FALSE
GcAgain == redo

GcDone(t) ==
    /\ At(t, "gc") /\ Top(t).todo = <<>> /\ \A i \in Loaded : marked[i]
    /\ IF GcAgain
       THEN MarkPhase(t, Front(stack[t]), count) /\ UNCHANGED doingGC
       ELSE doingGC' = FALSE /\ Return(t) /\ UNCHANGED <<marked, redo>>
    /\ UNCHANGED <<all, state, count, refs, depth, glock, ilock, termVars, handles, opens, want, history>>

-----------------------------------------------------------------------------
(* dlopen(): load and link *)

MayOpen(t) == IF stack[t] = <<>> THEN Opens
              ELSE IF At(t, "init") THEN InitOpens[Top(t).img] ELSE TermOpens

\* The calls that are waited in count for the bound; a handle is closed once.
MayCall(op, i) ==
    IF op = "dlclose"
    THEN handles[i] > Cardinality({u \in Threads : want[u] = <<op, i>>})
    ELSE opens + Cardinality({u \in Threads : want[u] # <<>> /\ want[u][1] # "dlclose"}) < MaxOpens

\* Thread t makes the call now, or made it before and has waited for the lock.
Calling(t, op, i) ==
    /\ want[t] = <<op, i>> \/ (want[t] = <<>> /\ MayCall(op, i))
    /\ want' = [want EXCEPT ![t] = <<>>]

\* A call made while another thread holds the global lock waits for it.
Await(t, op, i) ==
    /\ UserRuns(t) /\ want[t] = <<>> /\ glock.owner \notin {None, t}
    /\ op = "dlclose" \/ i \in MayOpen(t)
    /\ MayCall(op, i)
    /\ want' = [want EXCEPT ![t] = <<op, i>>]
    /\ UNCHANGED <<imageVars, depth, glock, ilock, termVars, gcVars, stack, handles, opens, history>>

\* The image went away meanwhile: there is nothing to take a reference to, or the
\* handle is no longer valid.
GiveUp(t) ==
    /\ glock.owner \in {None, t}
    /\ \E i \in Images :
          \/ want[t] = <<"noload", i>> /\ i \notin Loaded
          \/ want[t] = <<"dlclose", i>> /\ handles[i] = 0
    /\ want' = [want EXCEPT ![t] = <<>>]
    /\ UNCHANGED <<imageVars, depth, glock, ilock, termVars, gcVars, stack, handles, opens, history>>

\* checkandAddImage(), addImage(): new images at the end of sAllImages.  The mark
\* of a new image is not initialized; only a collection under way can read it.
AddImages(new) ==
    /\ all' = all \o new
    /\ \E junk \in IF doingGC THEN SUBSET Range(new) ELSE {{}} :
          marked' = [i \in Images |-> IF i \in Range(new) THEN i \in junk ELSE marked[i]]

\* dlopen() finds the image or loads it, and takes a reference to it.
Dlopen(t, i) ==
    /\ UserRuns(t) /\ i \in MayOpen(t) /\ opens < MaxOpens
    /\ Calling(t, "dlopen", i)
    /\ GlobalLockAcquire(t)
    /\ AddImages(IF i \in Loaded THEN <<>> ELSE <<i>>)
    /\ state' = [state EXCEPT ![i] = IF i \in Loaded THEN @ ELSE Mapped]
    /\ count' = [count EXCEPT ![i] = @ + 1]
    /\ opens' = opens + 1
    /\ Call(t, Frame("load", i, <<i>>))
    /\ UNCHANGED <<refs, depth, ilock, termVars, gcVars, handles, history>>

\* With RTLD_NOLOAD it only takes the reference.
DlopenNoLoad(t, i) ==
    /\ UserRuns(t) /\ i \in MayOpen(t) \cap Loaded /\ opens < MaxOpens
    /\ Calling(t, "noload", i)
    /\ glock.owner \in {None, t}
    /\ count' = [count EXCEPT ![i] = @ + 1]
    /\ handles' = [handles EXCEPT ![i] = @ + 1]
    /\ opens' = opens + 1
    /\ reopened' = IF doingGC THEN reopened \cup {j \in Tree(i) : ~marked[j]} ELSE reopened
    /\ UNCHANGED <<all, state, marked, refs, depth, glock, ilock, termVars, gcVars, stack,
                   inits, terms, calm, skipped, early, torn>>

\* The libraries of i that are required and cannot be found; the places of those
\* before the first of them that are loaded, a library linked twice the first time
\* only; and the images that are loaded for them, in order.
MissingLibs(i) == {k \in DOMAIN Libs[i] : Libs[i][k].img \notin Images /\ ~Libs[i][k].weak}
LibNames(i) == [k \in DOMAIN Libs[i] |-> Libs[i][k].img]
LoadedAt(i) ==
    {k \in DOMAIN Libs[i] :
        /\ \A b \in MissingLibs(i) : k < b
        /\ Libs[i][k].img \in Images \ Loaded
        /\ \A l \in 1..(k - 1) : Libs[i][l].img # Libs[i][k].img}
NewLibs(i) ==
    LET at == Selected([k \in DOMAIN Libs[i] |-> k], LoadedAt(i))
    IN  [n \in DOMAIN at |-> Libs[i][at[n]].img]

\* recursiveLoadLibraries(): an image's libraries first, then theirs.
LoadLibraries(t) ==
    /\ At(t, "load") /\ Top(t).todo # <<>>
    /\ LET i   == Head(Top(t).todo)
           new == NewLibs(i)
           st  == [j \in Images |-> IF j \in Range(new) THEN Mapped ELSE state[j]]
       IN  IF i \notin Images \/ state[i] >= DependentsMapped
           THEN /\ Replace(t, [Top(t) EXCEPT !.todo = Tail(@)])
                /\ UNCHANGED <<all, marked, state>>
           ELSE /\ AddImages(new)
                /\ state' = [st EXCEPT ![i] = IF MissingLibs(i) = {} THEN DependentsMapped ELSE Mapped]
                /\ Replace(t, IF MissingLibs(i) = {}
                              THEN [Top(t) EXCEPT !.todo = LibNames(i) \o Tail(@)]
                              ELSE Frame("failed", Top(t).img, <<>>))
    /\ UNCHANGED <<count, refs, depth, glock, ilock, termVars, gcVars, handles, opens, want, history>>

\* All is loaded: clearAllDepths() and updateDepth() come next.
StartDepths(t) ==
    /\ At(t, "load") /\ Top(t).todo = <<>>
    /\ LET i == Top(t).img IN
          /\ Replace(t, Frame("depths", i, [n \in DOMAIN all |-> <<"clear", all[n]>>] \o <<<<"enter", i>>>>))
          /\ reopened' = IF doingGC THEN reopened \cup {j \in Tree(i) : ~marked[j]} ELSE reopened
    /\ UNCHANGED <<imageVars, depth, glock, ilock, termVars, gcVars, handles, opens, want,
                   inits, terms, calm, skipped, early, torn>>

DepthLimit == 32768  \* fDepth has 15 bits

\* (faulty variant: an image is made deeper than what it links)
DepthOver_Deeper(i) == Max({Len(all)} \cup {depth[j] : j \in Down[i]}) + 1
\* "make me less deep then all my dependents"
DepthOver(i) == (Min({Len(all)} \cup {depth[j] : j \in Down[i]}) - 1) % DepthLimit

\* clearDepth() of every image, then recursiveUpdateDepth(): one store at a time.
\* Upward links not reached yet are put off.  (Len(all) is imageCount().)
UpdateDepth(t) ==
    /\ At(t, "depths") /\ Top(t).todo # <<>>
    /\ LET f    == Top(t)
           do   == Head(f.todo)
           i    == do[2]
           rest == Tail(f.todo)
           libs == [n \in DOMAIN Libs[i] |->
                       <<IF Libs[i][n].upward THEN "upward" ELSE "enter", Libs[i][n].img>>]
       IN  \/ /\ i \notin Images
              /\ Replace(t, [f EXCEPT !.todo = rest])
              /\ UNCHANGED depth
           \/ /\ do[1] = "clear"
              /\ depth' = [depth EXCEPT ![i] = 0]
              /\ Replace(t, [f EXCEPT !.todo = rest])
           \/ /\ do[1] = "enter" /\ i \in Images /\ depth[i] # 0
              /\ Replace(t, [f EXCEPT !.todo = rest])
              /\ UNCHANGED depth
           \/ /\ do[1] = "enter" /\ i \in Images /\ depth[i] = 0
              /\ depth' = [depth EXCEPT ![i] = Len(all) % DepthLimit]
              /\ Replace(t, [f EXCEPT !.todo = libs \o <<<<"leave", i>>>> \o rest])
           \/ /\ do[1] = "upward" /\ i \in Images
              /\ Replace(t, [f EXCEPT !.todo = rest,
                    !.ups = IF depth[i] # 0 \/ Contains(@, i) THEN @ ELSE Append(@, i)])
              /\ UNCHANGED depth
           \/ /\ do[1] = "leave"
              /\ depth' = [depth EXCEPT ![i] = DepthOver(i)]
              /\ Replace(t, [f EXCEPT !.todo = rest])
    /\ calm' = {}
    /\ UNCHANGED <<imageVars, glock, ilock, termVars, gcVars, handles, opens, want,
                   inits, terms, skipped, early, reopened, torn>>

\* The dangling upward links, once: those met on their way down are not followed.
DanglingUpwards(t) ==
    /\ At(t, "depths") /\ Top(t).todo = <<>> /\ Top(t).ups # <<>> /\ Top(t).val = 0
    /\ Replace(t, [Top(t) EXCEPT !.val = 1,
                        !.todo = [n \in DOMAIN Top(t).ups |-> <<"enter", Top(t).ups[n]>>]])
    /\ UNCHANGED <<imageVars, depth, glock, ilock, termVars, gcVars, handles, opens, want, history>>

\* addDynamicReference(), for the flat lookups of the images that are bound.
AddDynamicReferences(new) ==
    refs' = refs \cup {r \in DynRefs : r[1] \in new /\ r[2] \in Loaded \ LibImages[r[1]]}

\* recursiveRebase(), recursiveBind() and what follows them in link(); dlopen()
\* releases the lock and calls runInitializers().
Bind(t) ==
    /\ At(t, "depths") /\ Top(t).todo = <<>> /\ (Top(t).ups = <<>> \/ Top(t).val = 1)
    /\ LET i   == Top(t).img
           new == {j \in Tree(i) : state[j] < Bound}
       IN  /\ state' = [j \in Images |-> IF j \in new THEN Bound ELSE state[j]]
           /\ AddDynamicReferences(new)
           /\ Replace(t, Frame("process", i, <<i>>))
    /\ GlobalLockRelease(t)
    /\ UNCHANGED <<all, count, marked, depth, ilock, termVars, gcVars, handles, opens, want, history>>

\* link() failed: dyld::link() collects garbage, ...
LinkFailed(t) ==
    /\ At(t, "failed")
    /\ GarbageCollectImages(t, Append(Front(stack[t]), Frame("undo", Top(t).img, <<>>)), count)
    /\ UNCHANGED <<all, state, count, refs, depth, glock, ilock, termVars, handles, opens, want, history>>

\* (faulty variant: the reference is kept)
BackDown_Not(i) == count
BackDown(i) == [count EXCEPT ![i] = @ - 1]

\* ... then dlopen() gives its reference back, and collects again ...
UndoOpen(t) ==
    /\ At(t, "undo")
    /\ LET i    == Top(t).img
           c    == BackDown(i)
           rest == Append(Front(stack[t]), Frame("close", i, <<>>))
       IN  /\ count' = c
           /\ IF c[i] = 0 THEN GarbageCollectImages(t, rest, c)
              ELSE stack' = [stack EXCEPT ![t] = rest] /\ UNCHANGED <<marked, gcVars>>
    /\ UNCHANGED <<all, state, refs, depth, glock, ilock, termVars, handles, opens, want, history>>

\* ... and returns, with the lock released; so does dlclose().
Close(t) ==
    /\ At(t, "close")
    /\ GlobalLockRelease(t)
    /\ Return(t)
    /\ UNCHANGED <<imageVars, depth, ilock, termVars, gcVars, handles, opens, want, history>>

\* dlclose()
Dlclose(t, i) ==
    /\ UserRuns(t) /\ handles[i] > 0
    /\ Calling(t, "dlclose", i)
    /\ LET c == [count EXCEPT ![i] = @ - 1] IN
          /\ count' = c
          /\ IF c[i] = 0
             THEN /\ GlobalLockAcquire(t)
                  /\ GarbageCollectImages(t, Append(stack[t], Frame("close", i, <<>>)), c)
             ELSE /\ glock.owner \in {None, t}
                  /\ UNCHANGED <<glock, stack, marked, gcVars>>
    /\ handles' = [handles EXCEPT ![i] = @ - 1]
    /\ UNCHANGED <<all, state, refs, depth, ilock, termVars, opens, history>>

-----------------------------------------------------------------------------
(* dlopen(): initializers, without the global lock *)

\* processInitializers(): the images of a list, then the upward links met.
ProcessInitializers(t) ==
    /\ At(t, "process")
    /\ LET f == Top(t) IN
          \/ /\ f.todo # <<>>
             /\ ReplaceAndCall(t, [f EXCEPT !.todo = Tail(@)], Frame("enter", Head(f.todo), <<>>))
          \/ /\ f.todo = <<>> /\ f.ups # <<>>
             /\ Replace(t, [f EXCEPT !.todo = f.ups, !.ups = <<>>])
    /\ UNCHANGED <<imageVars, depth, glock, ilock, termVars, gcVars, handles, opens, want, history>>

\* dlopen() returns its handle.
Opened(t) ==
    /\ At(t, "process") /\ Top(t).todo = <<>> /\ Top(t).ups = <<>>
    /\ handles' = [handles EXCEPT ![Top(t).img] = @ + 1]
    /\ Return(t)
    /\ UNCHANGED <<imageVars, depth, glock, ilock, termVars, gcVars, opens, want, history>>

\* (faulty variant: the thread that holds the lock waits for itself)
MayLock_NotRecursive(t, i) == ilock[i].owner = None
\* (faulty variant: the lock is not waited for)
MayLock_Any(t, i) == TRUE
\* recursiveSpinLock()
MayLock(t, i) == ilock[i].owner \in {None, t}

\* (faulty variant: an image that is being initialized is initialized again)
NeedsInit_Again(i) == state[i] < Initialized
NeedsInit(i) == state[i] < Initializing

\* recursiveInitialization() locks the image; if nothing is to be done it unlocks
\* it and returns.
EnterImage(t) ==
    /\ At(t, "enter") /\ MayLock(t, Top(t).img)
    /\ LET i == Top(t).img IN
          IF NeedsInit(i)
          THEN /\ ilock' = [ilock EXCEPT ![i] = [owner |-> t, held |-> @.held + 1]]
               /\ state' = [state EXCEPT ![i] = Initializing]
               /\ calm' = IF \E u \in Threads : At(u, "depths") THEN calm \ {i} ELSE calm \cup {i}
               /\ Replace(t, Frame("deps", i, Libs[i]))
          ELSE /\ Return(t)
               /\ UNCHANGED <<ilock, state, calm>>
    /\ UNCHANGED <<all, count, marked, refs, depth, glock, termVars, gcVars, handles, opens, want,
                   inits, terms, skipped, early, reopened, torn>>

\* An upward link is put off; the depth of any other library is read ...
NextLibrary(t) ==
    /\ At(t, "deps") /\ Top(t).todo # <<>>
    /\ LET f == Top(t)
           l == Head(f.todo)
           p == Max({n \in DOMAIN stack[t] : stack[t][n].op = "process"})
           n == Len(stack[t])
       IN  IF l.img \notin Images
           THEN stack' = [stack EXCEPT ![t][n].todo = Tail(@)]
           ELSE IF l.upward
           THEN stack' = [stack EXCEPT ![t][n].todo = Tail(@), ![t][p].ups = Append(@, l.img)]
           ELSE stack' = [stack EXCEPT ![t][n].op = "compare", ![t][n].val = depth[l.img]]
    /\ UNCHANGED <<imageVars, depth, glock, ilock, termVars, gcVars, handles, opens, want, history>>

\* ... and compared: it is initialized first if it is not above this image.
CompareDepth(t) ==
    /\ At(t, "compare")
    /\ LET f    == Top(t)
           j    == Head(f.todo).img
           next == [f EXCEPT !.op = "deps", !.todo = Tail(@), !.val = 0]
       IN  IF f.val >= depth[f.img]
           THEN ReplaceAndCall(t, next, Frame("enter", j, <<>>)) /\ UNCHANGED skipped
           ELSE /\ Replace(t, next)
                /\ skipped' = IF state[j] < Initialized /\ j \notin On(t)
                              THEN skipped \cup {j} ELSE skipped
    /\ UNCHANGED <<imageVars, depth, glock, ilock, termVars, gcVars, handles, opens, want,
                   inits, terms, calm, early, reopened, torn>>

\* (faulty variant: only the image dlopen() was called for is recorded)
Records_Top(t) == Top(t).img \in HasTerm /\ Top(t).img = stack[t][1].img
Records(t) == Top(t).img \in HasTerm

\* terminationRecorder(): push_back() reads where the list ends ...
RecordTermination(t) ==
    /\ At(t, "deps") /\ Top(t).todo = <<>>
    /\ IF Records(t)
       THEN /\ Replace(t, [Top(t) EXCEPT !.op = "push", !.val = end])
            /\ torn' = (torn \/ \E u \in Threads : At(u, "push"))
       ELSE /\ Replace(t, [Top(t) EXCEPT !.op = "ready"])
            /\ UNCHANGED torn
    /\ UNCHANGED <<imageVars, depth, glock, ilock, termVars, gcVars, handles, opens, want,
                   inits, terms, calm, skipped, early, reopened>>

\* ... and writes there.
PushBack(t) ==
    /\ At(t, "push")
    /\ LET n == Top(t).val + 1 IN
          /\ cells' = IF n <= Len(cells) THEN [cells EXCEPT ![n] = Top(t).img]
                      ELSE Append(cells, Top(t).img)
          /\ end' = n
    /\ Replace(t, [Top(t) EXCEPT !.op = "ready", !.val = 0])
    /\ UNCHANGED <<imageVars, depth, glock, ilock, gcVars, handles, opens, want, history>>

\* doInitialization()
RunInitializers(t) ==
    /\ At(t, "ready")
    /\ LET i == Top(t).img IN
          /\ state' = [state EXCEPT ![i] = DependentsInited]
          /\ inits' = [inits EXCEPT ![i] = @ + 1]
          /\ ReplaceAndCall(t, [Top(t) EXCEPT !.op = "running"], Frame("init", i, <<>>))
    /\ UNCHANGED <<all, count, marked, refs, depth, glock, ilock, termVars, gcVars, handles, opens, want,
                   terms, calm, skipped, early, reopened, torn>>

\* The initializers return; recursiveSpinUnLock().
InitializersReturn(t) ==
    /\ At(t, "init") /\ want[t] = <<>>
    /\ LET i == Top(t).img IN
          /\ state' = [state EXCEPT ![i] = Initialized]
          /\ ilock' = [ilock EXCEPT ![i] = [owner |-> IF @.held = 1 THEN None ELSE t,
                                            held |-> @.held - 1]]
          /\ early' = IF Down[i] \cap (On(t) \ {i}) # {} THEN early \cup {i} ELSE early
    /\ stack' = [stack EXCEPT ![t] = SubSeq(@, 1, Len(@) - 2)]
    /\ UNCHANGED <<all, count, marked, refs, depth, glock, termVars, gcVars, handles, opens, want,
                   inits, terms, calm, skipped, reopened, torn>>

-----------------------------------------------------------------------------

\* The main executable has been launched.
Init ==
    /\ \E s \in [1..Cardinality(NeverUnload) -> NeverUnload] : IsInjective(s) /\ all = s
    /\ state = [i \in Images |-> IF i \in NeverUnload THEN Initialized ELSE Absent]
    /\ count = [i \in Images |-> 0] /\ depth = [i \in Images |-> 0]
    /\ marked = [i \in Images |-> FALSE]
    /\ refs = {} /\ cells = <<>> /\ end = 0 /\ doingGC = FALSE /\ redo = FALSE
    /\ glock = [owner |-> None, held |-> 0]
    /\ ilock = [i \in Images |-> [owner |-> None, held |-> 0]]
    /\ stack = [t \in Threads |-> <<>>]
    /\ handles = [i \in Images |-> 0] /\ opens = 0 /\ want = [t \in Threads |-> <<>>]
    /\ inits = [i \in Images |-> 0] /\ terms = [i \in Images |-> 0]
    /\ calm = {} /\ skipped = {} /\ early = {} /\ reopened = {} /\ torn = FALSE

\* What thread t does once it is in dlopen() or dlclose(), or has waited for the
\* global lock to be; its initializers and terminators return.
Work(t) ==
    \/ want[t] # <<>> /\ \E i \in Images : Dlopen(t, i) \/ DlopenNoLoad(t, i) \/ Dlclose(t, i)
    \/ GiveUp(t)
    \/ LoadLibraries(t) \/ StartDepths(t) \/ UpdateDepth(t) \/ DanglingUpwards(t) \/ Bind(t)
    \/ LinkFailed(t) \/ UndoOpen(t) \/ Close(t)
    \/ GcTerminate(t) \/ TerminatorReturns(t) \/ GcDelete(t) \/ GcDone(t)
    \/ ProcessInitializers(t) \/ Opened(t) \/ EnterImage(t) \/ NextLibrary(t)
    \/ CompareDepth(t) \/ RecordTermination(t) \/ PushBack(t)
    \/ RunInitializers(t) \/ InitializersReturn(t)

Next ==
    \E t \in Threads :
       \/ \E i \in Images : Dlopen(t, i)
       \/ \E i \in Images : DlopenNoLoad(t, i)
       \/ \E i \in Images : Dlclose(t, i)
       \/ \E op \in {"dlopen", "noload", "dlclose"}, i \in Images : Await(t, op, i)
       \/ Work(t)

Spec == Init /\ [][Next]_vars /\ \A t \in Threads : WF_vars(Work(t))

-----------------------------------------------------------------------------
(* Properties *)

\* Type correctness; both locks are held exactly as often as their owner took them.
TypeOK ==
    /\ all \in Seq(Images) /\ IsInjective(all)
    /\ state \in [Images -> Absent..Initialized] /\ \A i \in Images : (state[i] = Absent) = (i \notin Loaded)
    /\ count \in [Images -> 0..MaxOpens] /\ depth \in [Images -> 0..(DepthLimit - 1)]
    /\ marked \in [Images -> BOOLEAN] /\ refs \subseteq DynRefs
    /\ glock.owner \in Threads \cup {None} /\ glock.held \in Nat
    /\ \A t \in Threads : (glock.owner = t) =
          (\E n \in DOMAIN stack[t] : stack[t][n].op \in {"load", "depths", "failed", "undo", "close"})
    /\ \A i \in Images : (ilock[i].owner = None) = (ilock[i].held = 0)
    /\ cells \in Seq(Images) /\ end \in 0..Len(cells)
    /\ doingGC \in BOOLEAN /\ redo \in BOOLEAN
    /\ handles \in [Images -> Nat] /\ opens \in 0..MaxOpens

\* However many threads open an image or what links it, and whatever its
\* initializers open in turn, they are started once (recursiveInitialization).
InitOnce == \A i \in Images : inits[i] <= 1

\* "initialize lower level libraries first": an image's initializers start when
\* all it links downward is initialized, or is being initialized by this very
\* thread, unless another thread's dlopen() rewrote the depths, which are read
\* without a lock, after the initialization of this image began.  (On a cycle of
\* downward links the dlopen() that computed the depths last decides which image
\* is the lower one, and another thread passes over it.)
BottomUp ==
    [][\A i \in Images : inits'[i] > inits[i] =>
          \/ i \notin calm
          \/ \A j \in Down[i] : state[j] = Initialized \/ ilock[j].owner = ilock[i].owner]_vars

\* The least set that holds S and what its members link downward.
DownClosed == {T \in SUBSET Images : \A x \in T : Down[x] \subseteq T}
DownTree(S) == {j \in Images : \A T \in DownClosed : S \subseteq T => j \in T}

\* When dlopen() returns a handle, the image and all it links downward are
\* initialized, by whichever thread: none is left half way but those this thread is
\* itself inside of, and what they link.  There are two exceptions: libraries passed
\* over because of a depth that was being rewritten; and, since dlopen() does not look
\* below an image that is initialized, what is linked by an image that was initialized
\* from inside it, by its initializers or on a cycle of downward links.  (What is
\* linked upward may still be waiting on a thread that has put it off.)
ReadyOnReturn ==
    [][\A t \in Threads : Opened(t) =>
          LET tree == DownTree({Top(t).img})
          IN  tree \subseteq
                {j \in Images : state[j] = Initialized}
                \cup DownTree(skipped \cup On(t) \cup UNION {Down[k] : k \in early \cap tree})]_vars

\* What the program or a call of dlopen() under way needs, on any thread, is not
\* unloaded: neither an image opened nor what it links or refers to.  Images a
\* terminator opened that the collection had not marked are the exception.
Needed ==
    Closure({i \in Images : handles[i] > 0} \cup NeverUnload
            \cup UNION {{stack[t][n].img : n \in Opening(t)} : t \in Threads}, refs)

InUseStaysLoaded ==
    [][\A i \in Loaded : i \notin Range(all') => i \notin Needed \/ i \in reopened]_vars

\* An image is unloaded after its terminators were run, once, if it has any and its
\* initializers were started; not so if two threads changed the list of images
\* to terminate at once, or the image was opened during the collection.
TerminatedOnce ==
    [][\A i \in Loaded : i \notin Range(all') =>
          \/ terms[i] = (IF i \in HasTerm /\ inits[i] > 0 THEN 1 ELSE 0)
          \/ torn \/ i \in reopened]_vars

\* Whenever no thread holds the global lock, an image that nothing needs is gone:
\* after a dlopen() that failed half way, and after terminators that closed other
\* images during the collection ("set a flag to re-do the garbage collection").
NothingLeftBehind == glock.owner = None => Loaded \subseteq InUse(count)

\* The calls of dlopen() for image i that are under way.
Calls(i) == UNION {{t} \X {n \in Opening(t) : stack[t][n].img = i} : t \in Threads}

\* The reference count of an image is the number of handles the program has on it
\* and of calls of dlopen() for it under way, also after calls that failed.
CountsExact == \A i \in Images : count[i] = handles[i] + Cardinality(Calls(i))

\* Thread t can only go on when u lets go of an image or of the global lock.
Waits(t, u) ==
    /\ t # u
    /\ \/ At(t, "enter") /\ ilock[Top(t).img].owner = u
       \/ want[t] # <<>> /\ glock.owner = u

\* The thread's call was made by an initializer or by a terminator.
Nested(t) == \E n \in DOMAIN stack[t] : stack[t][n].op \in {"init", "term"}

\* Threads that wait for each other, one of them in a nested call or inside an image
\* that links itself downward through others.
Deadlocked ==
    UNION {S \in SUBSET Threads :
        /\ \A t \in S : \E u \in S : Waits(t, u)
        /\ \E t \in S : Nested(t) \/ \E i \in On(t) : i \in DownTree(Down[i])}

\* Every call of dlopen() and dlclose() returns, given initializers and terminators
\* that return, or ends up in a deadlock that the program can bring about in two
\* ways only.  An initializer, which holds its image, opens an image that another
\* thread holds while that thread waits for the first image; or a terminator, which
\* holds the global lock, opens one whose initializers wait for that lock.  Or the
\* images are linked on a cycle, and two threads enter it at different places.  No
\* two threads wait for each other otherwise, and none for itself or for a lock that
\* nobody holds.
CallsReturn ==
    \A t \in Threads :
       (stack[t] # <<>> \/ want[t] # <<>>) ~> ((stack[t] = <<>> /\ want[t] = <<>>) \/ t \in Deadlocked)

=============================================================================
