------------------------------- MODULE MCDyld2 -------------------------------
(* An instance of Dyld2 for TLC. *)
EXTENDS Dyld2

Lib(i)      == [img |-> i, upward |-> FALSE, weak |-> FALSE]
WeakLib(i)  == [img |-> i, upward |-> FALSE, weak |-> TRUE]
UpLib(i)    == [img |-> i, upward |-> TRUE, weak |-> FALSE]

\* C links, upward, B, and A, which links B and whose initializers open C.  P links a
\* library that does not exist, A one that need not.  L is linked by the main
\* executable.
MCImages    == {"A", "B", "C", "P", "L"}
MCLibs      == [A |-> <<Lib("B"), WeakLib("missing")>>,
                B |-> <<>>,
                C |-> <<UpLib("B"), Lib("A")>>,
                P |-> <<Lib("B"), Lib("L"), Lib("missing")>>,
                L |-> <<>>]
MCInitOpens == [A |-> {"C"}, B |-> {}, C |-> {}, P |-> {}, L |-> {}]
MCDynRefs   == {<<"A", "C">>}

=============================================================================
