----------------------------- MODULE MCAllImages -----------------------------
(* Instances of AllImages for TLC: link graphs and what user code may call. *)
EXTENDS AllImages, ClosureBuilder

\* Deps and InitOrder of a link graph.
DepsOf(g)     == [i \in DOMAIN g.deps |-> ToSet(g.deps[i])]
InitOrderOf(g) == [i \in DOMAIN g.deps |->
                     ComputeInitOrder(g, LoadAll(g, {}, 256, <<>>, {}, i).images, i)]

NoCalls == [p \in UserPCs |-> {}]

Plain     == {{}}
PairModes == {{}, {"NOLOAD"}, {"NODELETE", "LOCAL"}}

-----------------------------------------------------------------------------
\* unload: libA and libC share libB, and libB has an upward link to libC;
\* libN is in the shared cache.  Initializers and terminators call dlclose().
UnloadGraph ==
    [deps |-> [A |-> <<"B">>, B |-> <<"C">>, C |-> <<>>, N |-> <<>>],
     up   |-> {<<"B", "C">>}, weak |-> {}, missing |-> {}]
UnloadImages    == DOMAIN UnloadGraph.deps
UnloadDeps      == DepsOf(UnloadGraph)
UnloadInitOrder == [A |-> <<"B", "A", "C">>, B |-> <<"B", "C">>, C |-> <<"C">>, N |-> <<"N">>]
UnloadCalls     == [NoCalls EXCEPT !["inInit"] = {"dlclose"}, !["inTerm"] = {"dlclose"}]
UnloadInCache   == {"N"}
UnloadHasInits  == {"A"}

-----------------------------------------------------------------------------
\* init (testing/test-cases/dlopen-in-init3.dtest): libfoo links with libbar and
\* libbaz.  Initializers call dlopen(), terminators dlclose().
InitGraph ==
    [deps |-> [foo |-> <<"bar", "baz">>, bar |-> <<>>, baz |-> <<>>],
     up   |-> {}, weak |-> {}, missing |-> {}]
InitImages    == DOMAIN InitGraph.deps
InitDeps      == DepsOf(InitGraph)
InitInitOrder == [foo |-> <<"bar", "baz", "foo">>, bar |-> <<"bar">>, baz |-> <<"baz">>]
InitCalls     == [NoCalls EXCEPT !["inInit"] = {"dlopen"}, !["inTerm"] = {"dlclose"}]

-----------------------------------------------------------------------------
\* callbacks: libA links with libB.  Two functions; every kind of user code
\* calls dlclose(), initializers call dlopen() too.
PairGraph ==
    [deps |-> [A |-> <<"B">>, B |-> <<>>],
     up   |-> {}, weak |-> {}, missing |-> {}]
PairImages    == DOMAIN PairGraph.deps
PairDeps      == DepsOf(PairGraph)
PairInitOrder == [A |-> <<"B", "A">>, B |-> <<"B">>]
CallbackCalls ==
    [p \in UserPCs |-> IF p = "inInit" THEN {"dlopen", "dlclose"} ELSE {"dlclose"}]

-----------------------------------------------------------------------------
\* pinned: libA links with libP and libN, libN links with libP and has
\* thread-local variables.
PinnedGraph ==
    [deps |-> [A |-> <<"P", "N">>, N |-> <<"P">>, P |-> <<>>],
     up   |-> {}, weak |-> {}, missing |-> {}]
PinnedImages    == DOMAIN PinnedGraph.deps
PinnedDeps      == DepsOf(PinnedGraph)
PinnedInitOrder == [A |-> <<"P", "N", "A">>, N |-> <<"P", "N">>, P |-> <<"P">>]
PinnedPinned    == {"N"}

-----------------------------------------------------------------------------
\* The initializer orders written out above are those the closure builder
\* computes.
ASSUME InitOrdersAreBuilt ==
    /\ UnloadInitOrder = InitOrderOf(UnloadGraph)
    /\ InitInitOrder = InitOrderOf(InitGraph)
    /\ PairInitOrder = InitOrderOf(PairGraph)
    /\ PinnedInitOrder = InitOrderOf(PinnedGraph)

=============================================================================
