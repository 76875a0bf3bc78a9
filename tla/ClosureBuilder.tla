---------------------------- MODULE ClosureBuilder ----------------------------
(****************************************************************************)
(* How the closure builder (dyld3/ClosureBuilder.cpp) finds the images a    *)
(* top image needs, which of them it marks never-unload, and in which order *)
(* it will have their initializers run; and how the Reaper                  *)
(* (dyld3/AllImages.cpp) marks the images that are in use.                  *)
(*                                                                          *)
(* A link graph g has g.deps[i], the sequence of images i links with, the   *)
(* sets g.up and g.weak of pairs <<i, j>> where the link is an upward or a  *)
(* weak one, and g.missing, the images that cannot be found.                *)
(* These operators are recursive, as the code is: they are evaluated by TLC *)
(* only.                                                                    *)
(****************************************************************************)
EXTENDS Naturals, Sequences, SequencesExt

Upward(g, i, j) == <<i, j>> \in g.up

-----------------------------------------------------------------------------
(* recursiveLoadDependents() and loadDanglingUpwardLinks().                 *)
(* b.images is _loadedImages of the builder, b.done the images whose        *)
(* `dependents' is set, b.never the images marked never-unload, b.error     *)
(* _diag.hasError() and b.storage the size of the array on the stack in     *)
(* which _loadedImages starts.                                              *)

\* (faulty variant: the mark is not inherited)
FindImage_OwnMark(b, from, i, pinned) ==
    IF i \in ToSet(b.images)
    THEN b
    ELSE [b EXCEPT !.images = Append(@, i),
                   !.never = IF i \in pinned THEN @ \cup {i} ELSE @]

\* findImage() with a static link: an image that is known is taken as it is; a
\* new one is marked if the image that links with it is, or by itself.
FindImage(b, from, i, pinned) ==
    IF i \in ToSet(b.images)
    THEN b
    ELSE [b EXCEPT !.images = Append(@, i),
                   !.never = IF from \in b.never \/ i \in pinned THEN @ \cup {i} ELSE @]

\* (faulty variant: a missing weak link is an error as well)
FindDependent_Strict(g, pinned, b, from, i) ==
    CASE b.error -> b
      [] i \notin g.missing -> FindImage(b, from, i, pinned)
      [] OTHER -> [b EXCEPT !.error = TRUE]

\* One dependent: the first that is missing, and not weak, stops the builder.
FindDependent(g, pinned, b, from, i) ==
    CASE b.error -> b
      [] i \notin g.missing -> FindImage(b, from, i, pinned)
      [] i \in g.missing /\ <<from, i>> \in g.weak -> b
      [] OTHER -> [b EXCEPT !.error = TRUE]

\* OverflowSafeArray::growTo: the array has moved.
Moved(old, new) == Len(old.images) <= old.storage /\ Len(new.images) > old.storage

\* Store what was found as the dependents of i, through a reference taken before
\* the search: if the array moved meanwhile, the store goes to the old copy.
SetDependents(old, new, i) ==
    IF Moved(old, new) THEN new ELSE [new EXCEPT !.done = @ \cup {i}]

\* Find all dependents of i first, then load theirs, except over upward links.
RECURSIVE RecursiveLoadDependents(_, _, _, _)
RecursiveLoadDependents(g, pinned, b, i) ==
    IF i \in b.done
    THEN b
    ELSE LET Find(acc, j) == FindDependent(g, pinned, acc, i, j)
             Load(acc, j) == IF acc.error \/ j \in g.missing \/ Upward(g, i, j)
                             THEN acc
                             ELSE RecursiveLoadDependents(g, pinned, acc, j)
             found == FoldLeft(Find, b, g.deps[i])
         IN  IF found.error
             THEN found
             ELSE FoldLeft(Load, SetDependents(b, found, i), g.deps[i])

\* (faulty variant: what is only linked with upward is left without dependents)
LoadDanglingUpwardLinks_None(g, pinned, b) == b

\* As long as an image has no dependents set, load the first such image's.
RECURSIVE LoadDanglingUpwardLinks(_, _, _)
LoadDanglingUpwardLinks(g, pinned, b) ==
    LET dangling == SelectSeq(b.images, LAMBDA i : i \notin b.done)
    IN  IF dangling = <<>> \/ b.error
        THEN b
        ELSE LoadDanglingUpwardLinks(g, pinned,
                 RecursiveLoadDependents(g, pinned, b, Head(dangling)))

\* makeDlopenClosure() for `top': `loaded' are the images of the process, in
\* order, and `never' those of them marked never-unload.
LoadAll(g, pinned, storage, loaded, never, top) ==
    LET start == [images  |-> Append(loaded, top),
                  done    |-> ToSet(loaded),
                  never   |-> IF top \in pinned THEN never \cup {top} ELSE never,
                  error   |-> FALSE,
                  storage |-> storage]
    IN  LoadDanglingUpwardLinks(g, pinned, RecursiveLoadDependents(g, pinned, start, top))

-----------------------------------------------------------------------------
(* computeInitOrder(): v.visited, v.dangling (danglingUpward) and v.order,   *)
(* the images sorted by initOrder.                                          *)

RECURSIVE DepthFirstRecurseSetInitInfo(_, _, _)

\* (faulty variant: an image comes before what it links with)
DepthFirstRecurseSetInitInfo_TopDown(g, v, i) ==
    IF i \in v.visited
    THEN v
    ELSE LET Visit(acc, j) ==
                 IF ~Upward(g, i, j)
                 THEN DepthFirstRecurseSetInitInfo(g, acc, j)
                 ELSE IF j \in acc.visited
                      THEN acc
                      ELSE [acc EXCEPT !.dangling = @ \cup {j}]
             entered == [v EXCEPT !.visited = @ \cup {i}, !.dangling = @ \ {i},
                                  !.order = Append(@, i)]
         IN  FoldLeft(Visit, entered, SelectSeq(g.deps[i], LAMBDA j : j \notin g.missing))

\* What i links with comes first; upward links are only remembered.
DepthFirstRecurseSetInitInfo(g, v, i) ==
    IF i \in v.visited
    THEN v
    ELSE LET Visit(acc, j) ==
                 IF ~Upward(g, i, j)
                 THEN DepthFirstRecurseSetInitInfo(g, acc, j)
                 ELSE IF j \in acc.visited
                      THEN acc
                      ELSE [acc EXCEPT !.dangling = @ \cup {j}]
             entered == [v EXCEPT !.visited = @ \cup {i}, !.dangling = @ \ {i}]
             left    == FoldLeft(Visit, entered,
                                 SelectSeq(g.deps[i], LAMBDA j : j \notin g.missing))
         IN  [left EXCEPT !.order = Append(@, i)]

NotVisited == [visited |-> {}, dangling |-> {}, order |-> <<>>]

\* The order from `i', over the builder's images.
ComputeInitOrder(g, images, i) ==
    LET Fix(acc, j) == IF j \notin acc.visited /\ j \in acc.dangling
                       THEN DepthFirstRecurseSetInitInfo(g, acc, j)
                       ELSE acc
    IN  FoldLeft(Fix, DepthFirstRecurseSetInitInfo(g, NotVisited, i), images).order

-----------------------------------------------------------------------------
(* Reaper::garbageCollect(): `unloadables' is a sequence, `used' the set of *)
(* images with inUse.                                                       *)

MarkDependentsOf(g, unloadables, used, i) ==
    used \cup (ToSet(g.deps[i]) \cap ToSet(unloadables))

MarkDependentOfInUseImages(g, unloadables, used) ==
    LET Mark(acc, i) == IF i \in acc THEN MarkDependentsOf(g, unloadables, acc, i) ELSE acc
    IN  FoldLeft(Mark, used, unloadables)

RECURSIVE GarbageCollect(_, _, _)

\* (faulty variant: one pass over the unloadable images)
GarbageCollect_OnePass(g, unloadables, used) ==
    MarkDependentOfInUseImages(g, unloadables, used)

\* Pass over the images until the count of those in use stops changing.
GarbageCollect(g, unloadables, used) ==
    LET more == MarkDependentOfInUseImages(g, unloadables, used)
    IN  IF more = used THEN used ELSE GarbageCollect(g, unloadables, more)

=============================================================================
