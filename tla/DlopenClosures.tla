---------------------------- MODULE DlopenClosures ----------------------------
(****************************************************************************)
(* The closures a process has built for its dlopen() calls, one after the   *)
(* other (ClosureBuilder::makeDlopenClosure), over every link graph of a    *)
(* given size.  It checks the builder's algorithms against definitions that *)
(* say what they are for, and the Reaper's: those definitions are the ones  *)
(* AllImages uses.                                                          *)
(****************************************************************************)
EXTENDS ClosureBuilder, FiniteSets

CONSTANTS
    Names,      \* the images, in all
    First,      \* the image that is opened first
    Storages,   \* sizes of the builder's array on the stack (256)
    MaxPinned,  \* bound: images that cannot be unloaded
    MaxMissing  \* bound: images that cannot be found

VARIABLES
    g,          \* the link graph
    pinned,     \* images that cannot be unloaded by themselves
    storage,    \* where the builder's array starts to overflow
    loaded,     \* _loadedImages of the process, in order
    never,      \* those marked never-unload
    last        \* what the last call did: the image opened, what it added, the
                \* marks, the initializer order and whether it failed

vars == <<g, pinned, storage, loaded, never, last>>

Links == [Names -> UNION {[1..n -> Names] : n \in 0..(Cardinality(Names) - 1)}]

LinksOf(d) == {<<i, j>> \in Names \X Names : j \in ToSet(d[i])}

Simple(d) == \A i \in Names : i \notin ToSet(d[i]) /\ IsInjective(d[i])

Init ==
    /\ \E d \in {x \in Links : Simple(x)} :
       \E m \in {x \in SUBSET (Names \ {First}) : Cardinality(x) <= MaxMissing} :
       \E u \in SUBSET {l \in LinksOf(d) : l[1] \notin m /\ l[2] \notin m} :
       \E w \in SUBSET {l \in LinksOf(d) : l[1] \notin m /\ l[2] \in m} :
          g = [deps |-> d, up |-> u, weak |-> w, missing |-> m]
    /\ pinned \in {x \in SUBSET (Names \ g.missing) : Cardinality(x) <= MaxPinned}
    /\ storage \in Storages
    /\ loaded = <<>>
    /\ never = {}
    /\ last = [top |-> First, new |-> {}, marks |-> {}, order |-> <<>>, failed |-> FALSE]

\* dlopen() of an image that is not loaded.
Dlopen(top) ==
    LET b   == LoadAll(g, pinned, storage, loaded, never, top)
        new == ToSet(b.images) \ ToSet(loaded)
    IN
    /\ top \notin ToSet(loaded) \cup g.missing
    /\ loaded = <<>> => top = First
    /\ IF b.error
       THEN /\ last' = [last EXCEPT !.top = top, !.new = {}, !.failed = TRUE]
            /\ UNCHANGED <<loaded, never>>
       ELSE /\ loaded' = b.images
            /\ never' = b.never
            /\ last' = [top |-> top, new |-> new, marks |-> b.never \cap new,
                        order |-> ComputeInitOrder(g, b.images, top), failed |-> FALSE]
    /\ UNCHANGED <<g, pinned, storage>>

Next == \E top \in Names : Dlopen(top)

Spec == Init /\ [][Next]_vars

-----------------------------------------------------------------------------
(* Properties *)

DepsOf(graph) == [i \in Names |-> ToSet(graph.deps[i]) \ graph.missing]

Graph == INSTANCE LinkGraph WITH
            Images <- Names, Deps <- DepsOf(g), Pinned <- pinned, InCache <- {}

\* A closure holds exactly what the image opened needs and the process has not
\* loaded, each image once, whatever cycles and upward links there are and
\* wherever the builder's array moves.
FindsWhatIsNeeded ==
    /\ IsInjective(loaded)
    /\ last.new # {} => \A i \in last.new : Graph!Closure(i) \subseteq ToSet(loaded)
    /\ last.new \subseteq Graph!Closure(last.top)

\* dlopen() fails exactly if something it needs links with a missing image, and
\* not weakly.
FailsOnlyIfMissing ==
    loaded # <<>> \/ last.failed =>
        (last.failed <=> \E i \in Graph!Closure(last.top) \ g.missing :
                            \E j \in ToSet(g.deps[i]) \cap g.missing : <<i, j>> \notin g.weak)

\* The marks the builder makes are marks AllImages allows for.
MarksAreAllowed ==
    last.new # {} => last.marks \in Graph!NeverChoices(last.top, last.new)

PlaceOf(i) == CHOOSE n \in DOMAIN last.order : last.order[n] = i

\* What is reached from i over links that are not upward.
Below(i) ==
    LET Down == INSTANCE LinkGraph WITH
                   Images <- Names, Pinned <- {}, InCache <- {},
                   Deps <- [x \in Names |-> {y \in DepsOf(g)[x] : ~Upward(g, x, y)}]
    IN  Down!Closure(i)

\* The initializer list has every new image once, and after everything it links
\* with, except for upward links and cycles.
InitsBottomUp ==
    /\ IsInjective(last.order) /\ last.new \subseteq ToSet(last.order)
    /\ \A i \in last.new : \A j \in DepsOf(g)[i] \cap last.new :
          ~Upward(g, i, j) /\ i \notin Below(j) => PlaceOf(j) < PlaceOf(i)

\* The Reaper's passes mark exactly what is reachable from the images with a
\* dlopen() reference through images that can be unloaded, whichever have one.
ReaperMarksReachable ==
    LET unloadables == SelectSeq(loaded, LAMBDA i : i \notin never)
        U == ToSet(unloadables)
    IN  \A roots \in SUBSET U :
            GarbageCollect(g, unloadables, roots) = Graph!Reach(roots, U) \cap U

=============================================================================
