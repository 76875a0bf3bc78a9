-------------------------- MODULE MCImmutableRanges --------------------------
(* Instances of ImmutableRanges for TLC. *)
EXTENDS ImmutableRanges

R(s, e) == [start |-> s, end |-> e]
Q(a, l) == [addr |-> a, len |-> l]

\* M is the main executable and P a dylib with thread-local variables, with two
\* read-only segments each; U can be unloaded, and the memory it was mapped at
\* is used again for V.
MCImages      == {"M", "P", "U", "V"}
MCLo          == [M |-> 3, P |-> 10, U |-> 17, V |-> 16]
MCHi          == [M |-> 10, P |-> 16, U |-> 20, V |-> 22]
MCReadOnly    == [M |-> {R(3, 6), R(7, 9)}, P |-> {R(10, 12), R(13, 16)},
                  U |-> {R(17, 19)}, V |-> {R(16, 20)}]
MCNeverUnload == {"M", "P", "V"}

\* Inside each segment, up to the end of one, across two, outside all of them,
\* and in the shared cache.
MCQueries == {Q(3, 2), Q(7, 1), Q(10, 1), Q(14, 1), Q(13, 3), Q(4, 4), Q(17, 1), Q(1, 1),
              Q(24, 1), Q(26, 1)}
MCCacheAnswer == [q \in MCQueries |-> CASE q.addr = 24 -> "yes"
                                        [] q.addr = 26 -> "no"
                                        [] OTHER -> "none"]

=============================================================================
