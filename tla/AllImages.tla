------------------------------ MODULE AllImages ------------------------------
(****************************************************************************)
(* The runtime image list of libdyld (dyld3/AllImages.cpp) and the calls    *)
(* that change it: dlopen(), dlclose() with its mark-and-sweep collection,  *)
(* and the registration of add-image and remove-image functions.            *)
(*                                                                          *)
(* Every thread has a stack of calls into dyld.  dyld calls back into user  *)
(* code in four places (an add-image function, an initializer, a            *)
(* terminator, a remove-image function), and that code may call dlopen() or *)
(* dlclose() again: MayCall says which of the two each place may call.      *)
(*                                                                          *)
(* Two recursive locks order the threads.  Both are only ever taken for the *)
(* extent of a block, so a thread holds a lock exactly while one of its     *)
(* calls is inside such a block, and the model reads that off its stack:    *)
(*   - _sMutex (DYLD_LOAD_LOCK_THIS_BLOCK) for all of dlopen() and          *)
(*     dlclose();                                                           *)
(*   - _globalLock, which withReadLock, withWriteLock and withNotifiersLock *)
(*     all take, while registered functions are being called.  Where the    *)
(*     code takes and drops it without calling out, the step only waits for *)
(*     it to be free.                                                       *)
(*                                                                          *)
(* An image stands for its path, its closure::Image and its load address.   *)
(* The order of _loadedImages is not kept: loops over it take the images in *)
(* any order.                                                               *)
(****************************************************************************)
EXTENDS LinkGraph, Naturals, Sequences, FiniteSets

CONSTANTS
    Threads,
    Initial,    \* images of the launch closure: loaded, initialized, pinned
    HasInits,   \* images with initializers
    InitOrder,  \* InitOrder[i]: computeInitOrder()'s bottom-up order from i
    Funcs,      \* functions to register for image notifications
    Modes,      \* the RTLD_ flag sets callers pass
    MayCall,    \* MayCall[place]: what user code called from there may call
    MaxDepth,   \* bound: calls on one thread's stack
    MaxRefs     \* bound: dlopen references to one image

UserPCs == {"inAdd", "inInit", "inTerm", "inRemove"}
APIs    == {"dlopen", "dlclose"}

ASSUME ImagesAssumption ==
    /\ Initial \subseteq Images
    /\ InCache \subseteq Images
    /\ HasInits \subseteq Images
    /\ Pinned \subseteq Images
    /\ Deps \in [Images -> SUBSET Images]
    /\ InitOrder \in [Images -> Seq(Images)]
    \* computeInitOrder() starts from i and follows the links
    /\ \A i \in Images : \A k \in DOMAIN InitOrder[i] : InitOrder[i][k] \in Closure(i)
    \* the launch closure holds everything its images link with
    /\ \A i \in Initial : Deps[i] \subseteq Initial
    \* a dylib in the cache links only with dylibs in the cache
    /\ \A i \in InCache : Deps[i] \subseteq InCache

ASSUME CallsAssumption ==
    /\ Modes \subseteq SUBSET {"NOLOAD", "NODELETE", "LOCAL"}
    /\ MayCall \in [UserPCs -> SUBSET APIs]
    /\ MaxDepth \in Nat
    /\ MaxRefs \in Nat
    /\ "terminator" \notin Funcs

VARIABLES
    st,         \* LoadedImage::state() of the images in _loadedImages
    mapped,     \* images whose segments are mapped (cached ones always are)
    orphans,    \* images with a mapping that RTLD_NODELETE left behind
    never,      \* images whose closure::Image has neverUnload set
    leave,      \* images marked leaveMapped
    hidden,     \* images marked hideFromFlatSearch
    batch,      \* batch[i]: the images that were new in the closure that last built i
    refs,       \* _dlopenRefCounts
    handles,    \* history: handles dlopen() returned that are not yet closed
    loadFuncs,  \* _loadNotifiers
    removeFuncs,\* _unloadNotifiers
    told,       \* history: how often f was called about i since i was loaded
    farewell,   \* history: who was called about i on its way out
    gcCount,    \* _gcCount
    stack       \* the calls in progress on each thread, innermost last

imageVars  == <<st, mapped, orphans, never, leave, hidden, batch>>
countVars  == <<refs, handles>>
notifyVars == <<loadFuncs, removeFuncs, told, farewell>>
vars == <<imageVars, countVars, notifyVars, gcCount, stack>>

-----------------------------------------------------------------------------
(* Images. *)

Loaded == {i \in Images : st[i] # "unloaded"}

\* Image::forEachImageToInitBefore: the closure builder enters only images
\* that are new to it (hasInits is false for what is already loaded); a
\* cached dylib has the list the cache builder made.
InitList(i) == IF i \in InCache THEN InCache ELSE batch[i]

-----------------------------------------------------------------------------
(* Stacks and locks. *)

PCs     == UserPCs \cup {"map", "tell", "telling", "init", "find",
                         "mark", "terminate", "removing", "erase",
                         "unmap", "recheck", "append"}
Callees == Funcs \cup {"terminator"}

\* A call in progress: `set' is newImages in dlopen() and the dead images in
\* dlclose(), `todo' the calls to registered functions or terminators still to
\* make, `k' the position in the initializer list.
Frame == [op : APIs \cup {"register"}, pc : PCs, arg : Images \cup Funcs,
          set : SUBSET Images, todo : SUBSET (Callees \X Images), k : Nat]

NewFrame(op, pc, arg, set) ==
    [op |-> op, pc |-> pc, arg |-> arg, set |-> set, todo |-> {}, k |-> 1]

Top(t)       == stack[t][Len(stack[t])]
At(t, op, pc) == stack[t] # <<>> /\ Top(t).op = op /\ Top(t).pc = pc

Push(t, f)  == stack' = [stack EXCEPT ![t] = Append(@, f)]
SetTop(t, f) == stack' = [stack EXCEPT ![t] = [@ EXCEPT ![Len(@)] = f]]
Goto(t, pc) == SetTop(t, [Top(t) EXCEPT !.pc = pc])
Pop(t)      == stack' = [stack EXCEPT ![t] = SubSeq(@, 1, Len(@) - 1)]

\* Inside withNotifiersLock, or in addLoadNotifier's withReadLock.
LockedPCs == {"telling", "inAdd", "removing", "inRemove"}

HoldsLoadLock(t)   == \E n \in DOMAIN stack[t] : stack[t][n].op \in APIs
HoldsGlobalLock(t) == \E n \in DOMAIN stack[t] : stack[t][n].pc \in LockedPCs

\* (faulty variant: calls do not take the load lock)
LoadLockFree_NotTaken(t) == TRUE
LoadLockFree(t)   == \A u \in Threads \ {t} : ~HoldsLoadLock(u)
GlobalLockFree(t) == \A u \in Threads \ {t} : ~HoldsGlobalLock(u)

\* Thread t runs user code that may make the call `api' now.  (A function that
\* addLoadNotifier calls makes none: the loop it is called from walks
\* _loadedImages itself and is undefined if the array changes.)
MayEnter(t, api) ==
    /\ Len(stack[t]) < MaxDepth
    /\ stack[t] # <<>> => /\ Top(t).op # "register"
                          /\ Top(t).pc \in UserPCs
                          /\ api \in MayCall[Top(t).pc]

-----------------------------------------------------------------------------
(* dlopen() *)

\* An image in the shared cache that is already loaded: return its header.
DlopenCached(t, i) ==
    /\ MayEnter(t, "dlopen") /\ LoadLockFree(t)
    /\ i \in InCache \cap Loaded
    /\ handles[i] < MaxRefs
    /\ handles' = [handles EXCEPT ![i] = @ + 1]
    /\ UNCHANGED <<imageVars, refs, notifyVars, gcCount, stack>>

\* (faulty variant: only bumps the count)
DlopenLoaded_OnlyCounts(t, i, mode) ==
    /\ MayEnter(t, "dlopen") /\ LoadLockFree(t)
    /\ i \in Loaded \ InCache
    /\ refs[i] < MaxRefs
    /\ refs' = [refs EXCEPT ![i] = @ + 1]
    /\ handles' = [handles EXCEPT ![i] = @ + 1]
    /\ UNCHANGED <<imageVars, notifyVars, gcCount, stack>>

\* Any other image that is already loaded: bump its count, update its flags,
\* and run its initializers if they have not been run, unless RTLD_NOLOAD.
DlopenLoaded(t, i, mode) ==
    /\ MayEnter(t, "dlopen") /\ LoadLockFree(t)
    /\ i \in Loaded \ InCache
    /\ refs[i] < MaxRefs
    /\ refs' = [refs EXCEPT ![i] = @ + 1]
    /\ hidden' = IF "LOCAL" \in mode THEN hidden ELSE hidden \ {i}
    /\ leave' = IF "NODELETE" \in mode THEN leave \cup {i} ELSE leave
    /\ IF st[i] = "inited" \/ "NOLOAD" \in mode
       THEN /\ handles' = [handles EXCEPT ![i] = @ + 1]
            /\ UNCHANGED stack
       ELSE /\ Push(t, NewFrame("dlopen", "init", i, {}))
            /\ UNCHANGED handles
    /\ UNCHANGED <<st, mapped, orphans, never, batch, notifyVars, gcCount>>

\* A new image: build the closure and map the image and its dependents.
DlopenNew(t, i, mode) ==
    LET new == Closure(i) \ Loaded IN
    /\ MayEnter(t, "dlopen") /\ LoadLockFree(t)
    /\ i \notin Loaded /\ "NOLOAD" \notin mode
    /\ refs[i] < MaxRefs /\ handles[i] < MaxRefs
    /\ mapped' = mapped \cup new
    /\ hidden' = IF "LOCAL" \in mode /\ i \notin InCache THEN hidden \cup {i} ELSE hidden
    /\ leave' = IF "NODELETE" \in mode /\ i \notin InCache THEN leave \cup {i} ELSE leave
    /\ \E N \in NeverChoices(i, new) : never' = never \cup N
    /\ Push(t, NewFrame("dlopen", "map", i, new))
    /\ UNCHANGED <<st, orphans, batch, countVars, notifyVars, gcCount>>

\* A new image cannot be mapped or fixed up: unmapAllImages() undoes the load,
\* except for a mapped image marked leaveMapped, and dlopen() returns NULL (a
\* retry with a fresh closure, when a prebuilt one was out of date, is the next
\* call of DlopenNew).
LoadFails(t) ==
    LET new == Top(t).set IN
    /\ At(t, "dlopen", "map")
    /\ mapped' = mapped \ (new \ InCache)
    /\ orphans' \in {orphans, orphans \cup (new \cap leave)}
    /\ never' = never \ new
    /\ hidden' = hidden \ new
    /\ leave' = leave \ new
    /\ Pop(t)
    /\ UNCHANGED <<st, batch, countVars, notifyVars, gcCount>>

\* (faulty variant: adds the images without the reference)
AddImages_NoReference(t) ==
    LET new == Top(t).set IN
    /\ At(t, "dlopen", "map") /\ GlobalLockFree(t)
    /\ st' = [i \in Images |-> IF i \in new THEN "fixedUp" ELSE st[i]]
    /\ batch' = [i \in Images |-> IF i \in new THEN new ELSE batch[i]]
    /\ Goto(t, "tell")
    /\ UNCHANGED <<mapped, orphans, never, leave, hidden, countVars, notifyVars, gcCount>>

\* Everything is mapped and fixed up: count the reference, then append
\* newImages to _loadedImages.
AddImages(t) ==
    LET top == Top(t).arg
        new == Top(t).set
    IN
    /\ At(t, "dlopen", "map") /\ GlobalLockFree(t)
    /\ refs' = IF top \in InCache THEN refs ELSE [refs EXCEPT ![top] = @ + 1]
    /\ st' = [i \in Images |-> IF i \in new THEN "fixedUp" ELSE st[i]]
    /\ batch' = [i \in Images |-> IF i \in new THEN new ELSE batch[i]]
    /\ Goto(t, "tell")
    /\ UNCHANGED <<mapped, orphans, never, leave, hidden, handles, notifyVars, gcCount>>

\* (faulty variant: only tells of the image dlopen() was called with)
RunImageCallbacks_TopOnly(t) ==
    /\ At(t, "dlopen", "tell") /\ GlobalLockFree(t)
    /\ SetTop(t, [Top(t) EXCEPT !.pc = "telling", !.todo = loadFuncs \X {Top(t).arg}])
    /\ UNCHANGED <<imageVars, countVars, notifyVars, gcCount>>

\* runImageCallbacks() takes the notifiers lock ...
RunImageCallbacks(t) ==
    /\ At(t, "dlopen", "tell") /\ GlobalLockFree(t)
    /\ SetTop(t, [Top(t) EXCEPT !.pc = "telling", !.todo = loadFuncs \X Top(t).set])
    /\ UNCHANGED <<imageVars, countVars, notifyVars, gcCount>>

\* ... and calls each function with each new image (addLoadNotifier does the
\* same, with one function and the images already loaded).
CallAddNotifier(t, f, i) ==
    /\ stack[t] # <<>> /\ Top(t).pc = "telling"
    /\ <<f, i>> \in Top(t).todo
    /\ told' = [told EXCEPT ![f][i] = @ + 1]
    /\ SetTop(t, [Top(t) EXCEPT !.pc = "inAdd", !.todo = @ \ {<<f, i>>}])
    /\ UNCHANGED <<imageVars, countVars, loadFuncs, removeFuncs, farewell, gcCount>>

AddNotifierReturns(t) ==
    /\ stack[t] # <<>> /\ Top(t).pc = "inAdd"
    /\ Goto(t, "telling")
    /\ UNCHANGED <<imageVars, countVars, notifyVars, gcCount>>

\* (faulty variant: goes on to the initializers early)
ImageCallbacksDone_Early(t) ==
    /\ At(t, "dlopen", "telling")
    /\ Goto(t, "init")
    /\ UNCHANGED <<imageVars, countVars, notifyVars, gcCount>>

ImageCallbacksDone(t) ==
    /\ At(t, "dlopen", "telling") /\ Top(t).todo = {}
    /\ Goto(t, "init")
    /\ UNCHANGED <<imageVars, countVars, notifyVars, gcCount>>

-----------------------------------------------------------------------------
(* runInitialzersBottomUp() *)

AtInit(t)  == At(t, "dlopen", "init") /\ Top(t).k <= Len(InitOrder[Top(t).arg])
ToInit(t)  == InitOrder[Top(t).arg][Top(t).k]
Listed(t)  == ToInit(t) \in InitList(Top(t).arg) \cap HasInits

\* Next in the list and not yet initialized: enter its initializers.
StartInit(t) ==
    /\ AtInit(t) /\ GlobalLockFree(t)
    /\ Listed(t) /\ st[ToInit(t)] = "fixedUp"
    /\ st' = [st EXCEPT ![ToInit(t)] = "beingInited"]
    /\ Goto(t, "inInit")
    /\ UNCHANGED <<mapped, orphans, never, leave, hidden, batch, countVars, notifyVars, gcCount>>

\* (faulty variant: waits for an image that is being initialized)
SkipInit_Waits(t) ==
    /\ AtInit(t) /\ GlobalLockFree(t)
    /\ ~Listed(t) \/ st[ToInit(t)] # "fixedUp"
    /\ SetTop(t, [Top(t) EXCEPT !.k = IF Listed(t) /\ st[ToInit(t)] = "beingInited"
                                      THEN @ ELSE @ + 1])
    /\ UNCHANGED <<imageVars, countVars, notifyVars, gcCount>>

\* Not in the list, already initialized, or being initialized further up.
SkipInit(t) ==
    /\ AtInit(t) /\ GlobalLockFree(t)
    /\ ~Listed(t) \/ st[ToInit(t)] # "fixedUp"
    /\ SetTop(t, [Top(t) EXCEPT !.k = @ + 1])
    /\ UNCHANGED <<imageVars, countVars, notifyVars, gcCount>>

InitReturns(t) ==
    /\ At(t, "dlopen", "inInit") /\ GlobalLockFree(t)
    /\ st' = [st EXCEPT ![ToInit(t)] = IF @ = "beingInited" THEN "inited" ELSE @]
    /\ SetTop(t, [Top(t) EXCEPT !.pc = "init", !.k = @ + 1])
    /\ UNCHANGED <<mapped, orphans, never, leave, hidden, batch, countVars, notifyVars, gcCount>>

\* dlopen() returns a handle.
DlopenReturns(t) ==
    /\ At(t, "dlopen", "init") /\ Top(t).k > Len(InitOrder[Top(t).arg])
    /\ handles' = [handles EXCEPT ![Top(t).arg] = @ + 1]
    /\ Pop(t)
    /\ UNCHANGED <<imageVars, refs, notifyVars, gcCount>>

-----------------------------------------------------------------------------
(* dlclose() *)

\* Callers close what they opened.
Dlclose(t, i) ==
    /\ MayEnter(t, "dlclose") /\ LoadLockFree(t)
    /\ handles[i] > 0
    /\ handles' = [handles EXCEPT ![i] = @ - 1]
    /\ Push(t, NewFrame("dlclose", "find", i, {}))
    /\ UNCHANGED <<imageVars, refs, notifyVars, gcCount>>

\* Look the handle up under the lock.  An image that can be unloaded loses a
\* reference; with the last one, ask for a collection: start it, unless one is
\* in progress, which will then be followed by another.
DecRefCount(t) ==
    LET i        == Top(t).arg
        counted  == i \in Loaded /\ i \notin never /\ refs[i] > 0
        collect  == counted /\ refs[i] = 1
    IN
    /\ At(t, "dlclose", "find") /\ GlobalLockFree(t)
    /\ refs' = IF counted THEN [refs EXCEPT ![i] = @ - 1] ELSE refs
    /\ gcCount' = IF collect THEN gcCount + 1 ELSE gcCount
    /\ IF collect /\ gcCount = 0 THEN Goto(t, "mark") ELSE Pop(t)
    /\ UNCHANGED <<imageVars, handles, notifyVars>>

-----------------------------------------------------------------------------
(* garbageCollectImages() *)

Unloadables == Loaded \ never

\* (faulty variant: marks spread one link, not to the dependents of dependents)
InUse_OneLink ==
    LET roots == {i \in Unloadables : refs[i] > 0}
    IN  (roots \cup UNION {Deps[i] : i \in roots}) \cap Unloadables

\* Reaper::garbageCollect: only unloadable images are marked, and marks only
\* spread from marked images.
InUse == LET roots == {i \in Unloadables : refs[i] > 0}
         IN  Reach(roots, Unloadables) \cap Unloadables

Mark(t) ==
    LET dead == Unloadables \ InUse IN
    /\ At(t, "dlclose", "mark") /\ GlobalLockFree(t)
    /\ SetTop(t, [Top(t) EXCEPT !.pc = IF dead = {} THEN "recheck" ELSE "terminate",
                                !.set = dead,
                                !.todo = {"terminator"} \X dead])
    /\ UNCHANGED <<imageVars, countVars, notifyVars, gcCount>>

\* finalizeDeadImages()
CallTerminator(t, i) ==
    /\ At(t, "dlclose", "terminate")
    /\ <<"terminator", i>> \in Top(t).todo
    /\ farewell' = [farewell EXCEPT ![i] = @ \cup {"terminator"}]
    /\ SetTop(t, [Top(t) EXCEPT !.pc = "inTerm", !.todo = @ \ {<<"terminator", i>>}])
    /\ UNCHANGED <<imageVars, countVars, loadFuncs, removeFuncs, told, gcCount>>

TerminatorReturns(t) ==
    /\ At(t, "dlclose", "inTerm")
    /\ Goto(t, "terminate")
    /\ UNCHANGED <<imageVars, countVars, notifyVars, gcCount>>

\* (faulty variant: calls the functions while terminators are still to run)
RunRemoveCallbacks_Early(t) ==
    /\ At(t, "dlclose", "terminate") /\ GlobalLockFree(t)
    /\ SetTop(t, [Top(t) EXCEPT !.pc = "removing", !.todo = removeFuncs \X Top(t).set])
    /\ UNCHANGED <<imageVars, countVars, notifyVars, gcCount>>

\* removeImages() calls the remove-image functions under the notifiers lock ...
RunRemoveCallbacks(t) ==
    /\ At(t, "dlclose", "terminate") /\ Top(t).todo = {} /\ GlobalLockFree(t)
    /\ SetTop(t, [Top(t) EXCEPT !.pc = "removing", !.todo = removeFuncs \X Top(t).set])
    /\ UNCHANGED <<imageVars, countVars, notifyVars, gcCount>>

CallRemoveNotifier(t, f, i) ==
    /\ At(t, "dlclose", "removing")
    /\ <<f, i>> \in Top(t).todo
    /\ farewell' = [farewell EXCEPT ![i] = @ \cup {f}]
    /\ SetTop(t, [Top(t) EXCEPT !.pc = "inRemove", !.todo = @ \ {<<f, i>>}])
    /\ UNCHANGED <<imageVars, countVars, loadFuncs, removeFuncs, told, gcCount>>

RemoveNotifierReturns(t) ==
    /\ At(t, "dlclose", "inRemove")
    /\ Goto(t, "removing")
    /\ UNCHANGED <<imageVars, countVars, notifyVars, gcCount>>

RemoveCallbacksDone(t) ==
    /\ At(t, "dlclose", "removing") /\ Top(t).todo = {}
    /\ Goto(t, "erase")
    /\ UNCHANGED <<imageVars, countVars, notifyVars, gcCount>>

\* ... erases the dead images from _loadedImages ...
Erase(t) ==
    LET dead == Top(t).set IN
    /\ At(t, "dlclose", "erase") /\ GlobalLockFree(t)
    /\ st' = [i \in Images |-> IF i \in dead THEN "unloaded" ELSE st[i]]
    /\ told' = [f \in Funcs |-> [i \in Images |-> IF i \in dead THEN 0 ELSE told[f][i]]]
    /\ Goto(t, "unmap")
    /\ UNCHANGED <<mapped, orphans, never, leave, hidden, batch, countVars,
                   loadFuncs, removeFuncs, farewell, gcCount>>

\* ... and finally unmaps them, unless they are marked leaveMapped.
Unmap(t) ==
    LET dead == Top(t).set IN
    /\ At(t, "dlclose", "unmap")
    /\ mapped' = mapped \ dead
    /\ orphans' = orphans \cup (dead \cap leave)
    /\ leave' = leave \ dead
    /\ hidden' = hidden \ dead
    /\ farewell' = [i \in Images |-> IF i \in dead THEN {} ELSE farewell[i]]
    /\ Goto(t, "recheck")
    /\ UNCHANGED <<st, never, batch, countVars, loadFuncs, removeFuncs, told, gcCount>>

\* (faulty variant: forgets a collection asked for in the meantime)
Recheck_Forgets(t) ==
    /\ At(t, "dlclose", "recheck")
    /\ gcCount' = 0
    /\ Pop(t)
    /\ UNCHANGED <<imageVars, countVars, notifyVars>>

\* (faulty variant: one pass too many for the requests counted)
Recheck_OneTooMany(t) ==
    /\ At(t, "dlclose", "recheck")
    /\ gcCount' = gcCount - 1
    /\ IF gcCount > 0
       THEN SetTop(t, NewFrame("dlclose", "mark", Top(t).arg, {}))
       ELSE Pop(t)
    /\ UNCHANGED <<imageVars, countVars, notifyVars>>

\* Another collection was asked for during this one: do it now.
Recheck(t) ==
    /\ At(t, "dlclose", "recheck")
    /\ gcCount' = gcCount - 1
    /\ IF gcCount > 1
       THEN SetTop(t, NewFrame("dlclose", "mark", Top(t).arg, {}))
       ELSE Pop(t)
    /\ UNCHANGED <<imageVars, countVars, notifyVars>>

-----------------------------------------------------------------------------
(* Registration of notification functions; each one is registered once. *)

\* addLoadNotifier() calls f about every image, holding the lock ...
AddLoadNotifier(t, f) ==
    /\ stack[t] = <<>> /\ GlobalLockFree(t)
    /\ f \notin loadFuncs
    /\ \A u \in Threads : \A n \in DOMAIN stack[u] : stack[u][n].arg # f
    /\ Push(t, [NewFrame("register", "telling", f, {}) EXCEPT !.todo = {f} \X Loaded])
    /\ UNCHANGED <<imageVars, countVars, notifyVars, gcCount>>

\* ... drops the lock ...
AddLoadNotifierTold(t) ==
    /\ At(t, "register", "telling") /\ Top(t).todo = {}
    /\ Goto(t, "append")
    /\ UNCHANGED <<imageVars, countVars, notifyVars, gcCount>>

\* ... and takes it again to append f to _loadNotifiers.
AppendLoadNotifier(t) ==
    /\ At(t, "register", "append") /\ GlobalLockFree(t)
    /\ loadFuncs' = loadFuncs \cup {Top(t).arg}
    /\ Pop(t)
    /\ UNCHANGED <<imageVars, countVars, removeFuncs, told, farewell, gcCount>>

AddUnloadNotifier(t, f) ==
    /\ stack[t] = <<>> /\ GlobalLockFree(t)
    /\ f \notin removeFuncs
    /\ removeFuncs' = removeFuncs \cup {f}
    /\ UNCHANGED <<imageVars, countVars, loadFuncs, told, farewell, gcCount, stack>>

-----------------------------------------------------------------------------

Init ==
    /\ st = [i \in Images |-> IF i \in Initial THEN "inited" ELSE "unloaded"]
    /\ mapped = Initial \cup InCache
    /\ orphans = {}
    /\ never = Initial
    /\ leave = {}
    /\ hidden = {}
    /\ batch = [i \in Images |-> {}]
    /\ refs = [i \in Images |-> 0]
    /\ handles = [i \in Images |-> 0]
    /\ loadFuncs = {}
    /\ removeFuncs = {}
    /\ told = [f \in Funcs |-> [i \in Images |-> 0]]
    /\ farewell = [i \in Images |-> {}]
    /\ gcCount = 0
    /\ stack = [t \in Threads |-> <<>>]

\* User code calls dyld.
UserCall(t) ==
    \/ \E i \in Images : DlopenCached(t, i) \/ Dlclose(t, i)
    \/ \E i \in Images, mode \in Modes : DlopenLoaded(t, i, mode) \/ DlopenNew(t, i, mode)
    \/ \E f \in Funcs : AddLoadNotifier(t, f) \/ AddUnloadNotifier(t, f)

\* User code called from dyld returns.
UserReturns(t) ==
    \/ AddNotifierReturns(t)
    \/ InitReturns(t)
    \/ TerminatorReturns(t)
    \/ RemoveNotifierReturns(t)

\* dyld's own steps.
DyldStep(t) ==
    \/ LoadFails(t) \/ AddImages(t) \/ RunImageCallbacks(t) \/ ImageCallbacksDone(t)
    \/ StartInit(t) \/ SkipInit(t) \/ DlopenReturns(t)
    \/ DecRefCount(t) \/ Mark(t) \/ RunRemoveCallbacks(t) \/ RemoveCallbacksDone(t)
    \/ Erase(t) \/ Unmap(t) \/ Recheck(t)
    \/ AddLoadNotifierTold(t) \/ AppendLoadNotifier(t)
    \/ \E i \in Images : CallTerminator(t, i)
    \/ \E f \in Funcs, i \in Images : CallAddNotifier(t, f, i) \/ CallRemoveNotifier(t, f, i)

Next == \E t \in Threads : UserCall(t) \/ UserReturns(t) \/ DyldStep(t)

Spec == Init /\ [][Next]_vars

\* Threads run, and user code makes finitely many calls before it returns,
\* at every depth of nesting.
Fairness ==
    \A t \in Threads :
        /\ WF_vars(DyldStep(t))
        /\ \A d \in 1..MaxDepth : SF_vars(UserReturns(t) /\ Len(stack[t]) = d)

FairSpec == Spec /\ Fairness

-----------------------------------------------------------------------------
(* What user code and link graphs must respect for some of the properties. *)

\* Terminators and remove-image functions do not dlopen(): the collection that
\* calls them would remove an image they opened.
TerminatorsDoNotOpen == "dlopen" \notin MayCall["inTerm"] \cup MayCall["inRemove"]

\* Add-image functions do not dlopen(): it would run the initializers of an image
\* about which other functions are still to be called.
AddFunctionsDoNotOpen == "dlopen" \notin MayCall["inAdd"]

\* The program has one thread: addLoadNotifier() drops the lock between calling a
\* function and registering it, and images another thread adds meanwhile are missed.
OneThread == \A t, u \in Threads : t = u

\* An image that cannot be unloaded links only with such images.
PinnedIsClosed ==
    \A i \in Pinned : Deps[i] \subseteq Pinned \cup InCache \cup Initial

-----------------------------------------------------------------------------
(* Properties *)

Idle == \A t \in Threads : stack[t] = <<>>

\* The kinds of value the state has; in particular _gcCount, which
\* garbageCollectImages() decrements unconditionally, never falls below zero.
TypeOK ==
    /\ st \in [Images -> {"unloaded", "fixedUp", "beingInited", "inited"}]
    /\ mapped \subseteq Images
    /\ orphans \subseteq Images
    /\ never \subseteq Images
    /\ leave \subseteq Images
    /\ hidden \subseteq Images
    /\ batch \in [Images -> SUBSET Images]
    /\ refs \in [Images -> Nat]
    /\ handles \in [Images -> Nat]
    /\ loadFuncs \subseteq Funcs
    /\ removeFuncs \subseteq Funcs
    /\ told \in [Funcs -> [Images -> Nat]]
    /\ farewell \in [Images -> SUBSET Callees]
    /\ gcCount \in Nat
    /\ stack \in [Threads -> Seq(Frame)]

\* What a program can still use stays: an image with a dlopen() reference is
\* in _loadedImages and mapped, and so is everything it links with, however
\* dlopen(), dlclose(), initializers and terminators interleave.
InUseStaysLoaded ==
    \A i \in Images : refs[i] > 0 => Closure(i) \subseteq Loaded \cap mapped

\* No image in _loadedImages links with one that is not: a dependent dylib is
\* unloaded "only if [it is] not referenced by something else"
\* (garbageCollectImages).
LinkedStaysLoaded ==
    \A i \in Loaded : Deps[i] \subseteq Loaded \cap mapped

\* A collection asked for is never lost: with no call in progress, every
\* loaded image is one that cannot be unloaded, or is needed by an image with
\* a dlopen() reference, and nothing unloaded is still mapped.
NothingLeftBehind ==
    Idle => /\ gcCount = 0
            /\ \A i \in Loaded \ never :
                  \E j \in Loaded : i \in Closure(j) /\ (refs[j] > 0 \/ j \in never)
            /\ mapped = Loaded \cup InCache

\* The Reaper keeps pointers into _loadedImages while it runs terminators:
\* the array must not change under it, whatever terminators and other threads
\* call.
ReaperPointersValid ==
    [][(\E t \in Threads : \E n \in DOMAIN stack[t] :
            stack[t][n].op = "dlclose" /\ stack[t][n].pc \in {"terminate", "inTerm"})
        => Loaded' = Loaded]_vars

\* findImageNum() and swapImageState() assert that the image they look for is
\* in _loadedImages: no image in an initializer list that is being walked has
\* been unloaded by a nested dlclose().
InitListStaysLoaded ==
    \A t \in Threads : \A n \in DOMAIN stack[t] :
        LET f == stack[t][n] IN
        f.op = "dlopen" /\ f.pc \in {"tell", "telling", "inAdd", "init", "inInit"}
            => \A k \in DOMAIN InitOrder[f.arg] :
                  InitOrder[f.arg][k] \in InitList(f.arg) \cap HasInits =>
                      InitOrder[f.arg][k] \in Loaded

\* dlopen() (dlopen_internal, runInitialzersBottomUp) returns a handle only when
\* the initializers of the image and of everything it links with have run or
\* are running further up the stack, for link graphs without upward links and
\* callers that do not pass RTLD_NOLOAD.
DlopenRunsInitializers ==
    [][\A i \in Images : handles'[i] > handles[i] =>
          \A j \in Closure(i) \cap HasInits : st'[j] \in {"beingInited", "inited"}]_vars

\* A registered function hears of every image exactly once while it is loaded.
ToldOnce ==
    Idle => \A f \in loadFuncs : \A i \in Loaded : told[f][i] = 1

\* Every registered function has been called about an image before the image's
\* initializers run.
ToldBeforeInit ==
    [][\A i \in Images : st[i] = "fixedUp" /\ st'[i] = "beingInited" =>
          \A f \in loadFuncs : told[f][i] > 0]_vars

\* A remove-image function is called about an image that is still loaded and mapped
\* and whose terminators ran; removeImages() drops the notifiers lock when every
\* function registered by then was called about every dead image; and only an image
\* whose terminators ran leaves _loadedImages, before it is unmapped.
LeavesInOrder ==
    [][/\ \A i \in Images :
             /\ (farewell'[i] \ farewell[i]) \cap Funcs # {} =>
                    i \in Loaded \cap mapped /\ "terminator" \in farewell[i]
             /\ i \in Loaded \ Loaded' => i \in mapped' /\ "terminator" \in farewell[i]
       /\ \A t \in Threads : At(t, "dlclose", "removing") /\ At(t, "dlclose", "erase")' =>
             \A i \in Top(t).set : removeFuncs \subseteq farewell[i]]_vars

\* Every call into dyld returns: no call waits for ever for a lock, for an
\* initializer in a dependency cycle or for a collection that repeats itself.
CallsReturn ==
    \A t \in Threads : stack[t] # <<>> ~> stack[t] = <<>>

=============================================================================
