------------------------------ MODULE LinkGraph ------------------------------
(****************************************************************************)
(* Images, what they link with, and what follows from that: which images a  *)
(* dlopen() needs and which of them it may mark as never to be unloaded.    *)
(* AllImages uses these definitions; DlopenClosures checks them against the *)
(* closure builder's and the Reaper's algorithms.                           *)
(****************************************************************************)

CONSTANTS
    Images,     \* an image stands for its path and its closure::Image
    Deps,       \* Deps[i]: the images i links with
    Pinned,     \* images with TLVs, ObjC or DOF: markNeverUnload()
    InCache     \* images in the dyld shared cache

\* The least set that holds S and, with an image of `within', what it links with.
Reach(S, within) ==
    {j \in Images : \A T \in SUBSET Images :
        (S \subseteq T /\ \A x \in T \cap within : Deps[x] \subseteq T) => j \in T}

Closure(i) == Reach({i}, Images)

\* ClosureBuilder::findImage marks a new image never-unload if it is in the
\* cache, if it cannot be unloaded itself, or if the image it is first found
\* from is marked.  Which image that is depends on the order of the links: any
\* one may be.  Nothing is marked again when it is found once more.
SelfMarked == Pinned \cup InCache

NeverChoices(top, new) ==
    {N \in SUBSET new :
        /\ new \cap SelfMarked \subseteq N
        /\ N \subseteq Reach(N \cap SelfMarked, N)
        /\ top \in N => top \in SelfMarked
        /\ \A i \in new \ N : i = top \/ \E p \in new \ N : i \in Deps[p]}

=============================================================================
