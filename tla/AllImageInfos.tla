---------------------------- MODULE AllImageInfos ----------------------------
(****************************************************************************)
(* The list of images a process shows to others in dyld_all_image_infos:    *)
(* AllImages::mirrorToOldAllImageInfos() (dyld3/AllImages.cpp) and the      *)
(* operations that change the list and call it.  Another process reads this *)
(* memory at any moment, so the stores are steps of their own, in the order *)
(* of the code; what only the process itself sees is done in one step.      *)
(*                                                                          *)
(* dlopen() and dlclose() hold the load lock throughout: one thread at a    *)
(* time changes the list, and `pc' is where it is.  The notices sent to     *)
(* monitoring processes, which the same thread sends, are in                *)
(* ProcessInfoNotify.                                                       *)
(****************************************************************************)
EXTENDS Selection

CONSTANTS
    Initial,    \* the images the process is launched with, in order
    Batches,    \* the sets of images a later dlopen() can add
    InCache,    \* images in the shared cache
    Slack,      \* entries allocated beyond those needed (16)
    MaxChanges  \* bound: changes of the list after launch

VARIABLES
    loaded,    \* _loadedImages
    mapped,    \* images in memory
    suspended, \* the process is suspended, before dyld has run
    infos,     \* infoArray (0: NULL), infoArrayCount and infoArrayChangeTimestamp
    arrays,    \* every array allocated; all but the last, _oldAllImageArray, are freed
    uuids,     \* uuidArray, the images in it (<<>>: NULL), and uuidArrayCount
    pc,        \* what the thread that changes the list does next
    change,    \* the change under way: the images, and if they are unloaded
    changes,   \* changes made so far
    lists      \* history: the list at each timestamp

None == "none"
NoChange == [imgs |-> <<>>, unload |-> FALSE]

Others == UNION Batches
Images == Range(Initial) \cup Others
memory     == <<infos, arrays, uuids>>
targetVars == <<loaded, mapped, suspended, memory, pc, change, changes, lists>>

Junk == "junk"  \* what uninitialized memory holds

ASSUME InfosAssumption ==
    /\ Initial \in Seq(Range(Initial)) /\ Initial # <<>>
    /\ \A S \in Batches : IsFiniteSet(S)
    /\ Junk \notin Images
    /\ Slack \in Nat /\ MaxChanges \in Nat

-----------------------------------------------------------------------------

\* Launched, with only the main executable in memory.
TargetInit ==
    /\ loaded = <<>> /\ mapped = {Head(Initial)} /\ suspended \in BOOLEAN
    /\ infos = [array |-> 0, count |-> 0, time |-> 0]
    /\ arrays = <<>> /\ uuids = [array |-> <<>>, count |-> 0]
    /\ pc = "launch" /\ change = NoChange
    /\ changes = 0 /\ lists = <<>>

Resume ==
    /\ suspended
    /\ suspended' = FALSE
    /\ UNCHANGED <<loaded, mapped, memory, pc, change, changes, lists>>

\* addImages(): mapped, and appended to _loadedImages.
AddImages(s) ==
    /\ loaded' = loaded \o s
    /\ mapped' = mapped \cup Range(s)
    /\ change' = [imgs |-> s, unload |-> FALSE]

\* applyInitialImages()
Launch ==
    /\ pc = "launch" /\ ~suspended
    /\ AddImages(Initial)
    /\ pc' = "mirror"
    /\ UNCHANGED <<suspended, memory, changes, lists>>

\* dlopen() of images not loaded yet
Load(S) ==
    /\ pc = "idle" /\ changes < MaxChanges
    /\ S \cap Range(loaded) = {}
    /\ AddImages(SetToSeq(S))
    /\ pc' = "mirror" /\ changes' = changes + 1
    /\ UNCHANGED <<suspended, memory, lists>>

\* removeImages(), called by the garbage collection of a dlclose(): out of
\* _loadedImages.
Unload(S) ==
    /\ pc = "idle" /\ changes < MaxChanges
    /\ S # {} /\ S \subseteq Range(loaded) \ (Range(Initial) \cup InCache)
    /\ change' = [imgs |-> Selected(loaded, S), unload |-> TRUE]
    /\ loaded' = Selected(loaded, Images \ S)
    /\ pc' = "mirror" /\ changes' = changes + 1
    /\ UNCHANGED <<mapped, suspended, memory, lists>>

\* What comes after the notices to monitors.
AfterNotices == IF change.unload THEN "unmap" ELSE "idle"

\* removeImages() ends by unmapping what it unloaded.
Unmap ==
    /\ pc = "unmap"
    /\ mapped' = mapped \ Range(change.imgs)
    /\ change' = NoChange
    /\ pc' = "idle"
    /\ UNCHANGED <<loaded, suspended, memory, changes, lists>>

-----------------------------------------------------------------------------
(* mirrorToOldAllImageInfos() *)

Array == Last(arrays)

\* (faulty variant: the array is changed under the eyes of readers)
InUseMark_Not == infos
\* "set infoArray to NULL to denote it is in-use"
InUseMark == [infos EXCEPT !.array = 0]

\* A larger array is allocated if need be, the entries copied and the old one freed.
MirrorBegin ==
    /\ pc = "mirror"
    /\ infos' = InUseMark
    /\ LET have == IF arrays = <<>> THEN 0 ELSE Len(Array)
           n    == Len(loaded)
       IN  arrays' = IF have >= n THEN arrays
                     ELSE Append(arrays, [k \in 1..(n + Slack) |->
                              IF k <= infos.count THEN Array[k] ELSE Junk])
    /\ pc' = "fill"
    /\ UNCHANGED <<loaded, mapped, suspended, uuids, change, changes, lists>>

\* The next entry that is not what it should be (the stores before it change nothing).
Wrong == {k \in DOMAIN loaded : Array[k] # loaded[k]}

MirrorFill ==
    /\ pc = "fill" /\ Wrong # {}
    /\ LET k == Min(Wrong) IN arrays' = [arrays EXCEPT ![Len(arrays)][k] = loaded[k]]
    /\ UNCHANGED <<loaded, mapped, suspended, infos, uuids, pc, change, changes, lists>>

\* The count and the timestamp.  (Readers take no notice of the count while
\* infoArray is NULL.)
MirrorTime ==
    /\ pc = "fill" /\ Wrong = {}
    /\ infos' = [infos EXCEPT !.count = Len(loaded), !.time = Len(lists) + 1]
    /\ lists' = Append(lists, loaded)
    /\ pc' = "array"
    /\ UNCHANGED <<loaded, mapped, suspended, arrays, uuids, change, changes>>

NonCached == Selected(loaded, Images \ InCache)

UuidsStale == Len(NonCached) + 1 # uuids.count

\* "set infoArray back to base address of array (so other process can now read)"
MirrorArray ==
    /\ pc = "array"
    /\ infos' = [infos EXCEPT !.array = Len(arrays)]
    /\ pc' = IF UuidsStale THEN "uuids" ELSE "notify"
    /\ UNCHANGED <<loaded, mapped, suspended, arrays, uuids, change, changes, lists>>

\* The array of UUIDs, which only the kernel reads; its first entry is dyld itself.
MirrorUuids ==
    /\ pc = "uuids"
    /\ uuids' = [array |-> NonCached, count |-> Len(NonCached) + 1]
    /\ pc' = "notify"
    /\ UNCHANGED <<loaded, mapped, suspended, infos, arrays, change, changes, lists>>

Mirror == MirrorBegin \/ MirrorFill \/ MirrorTime \/ MirrorArray \/ MirrorUuids

\* The process exits, and its memory is gone.
TargetGone ==
    /\ loaded' = <<>> /\ mapped' = {} /\ suspended' = FALSE
    /\ infos' = [array |-> 0, count |-> 0, time |-> 0]
    /\ arrays' = <<>> /\ uuids' = [array |-> <<>>, count |-> 0]
    /\ pc' = "exited" /\ change' = NoChange /\ changes' = 0 /\ lists' = <<>>

\* The process changes its list; what follows "notify" is in ProcessInfoNotify.
Target ==
    \/ Resume \/ Launch \/ Mirror \/ Unmap
    \/ \E S \in Batches : Load(S)
    \/ \E S \in SUBSET Others : Unload(S)

-----------------------------------------------------------------------------

\* Whenever infoArray is not NULL, what it points at is allocated and holds the
\* list that the timestamp stands for, whole: "If infoArray is NULL, it means it
\* is being modified, come back later" (dyld_images.h).  Outside of the mirroring
\* the UUIDs are those of the loaded images, though they are only rewritten when
\* their number has changed.
PublishedIsWhole ==
    /\ infos.array # 0 =>
          /\ infos.array = Len(arrays)
          /\ SubSeq(Array, 1, infos.count) = lists[infos.time]
    /\ pc \in {"notify", "unmap", "idle"} => uuids = [array |-> NonCached, count |-> Len(NonCached) + 1]

=============================================================================
