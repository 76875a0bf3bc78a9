------------------------ MODULE ThreadLocalVariables ------------------------
(****************************************************************************)
(* Thread-local variables (src/threadLocalVariables.c): every image with    *)
(* thread-local variables has a pthread key whose value is the thread's     *)
(* buffer for them, and one more key, allocated before all of those, holds  *)
(* the list of C++ objects to destroy when the thread ends.                 *)
(*                                                                          *)
(* One thread is modelled from its first use of a variable to its end; all  *)
(* it works on is its own, but for the keys, which any thread that loads an *)
(* image allocates.  Code of the program (the thread's own, a terminator,   *)
(* the destructor of one of the program's keys) may use variables and       *)
(* register objects wherever it runs.  pthread is external: keys in the     *)
(* order of their allocation, a value set to NULL before its destructor is  *)
(* called, and a bounded number of rounds over the keys.                    *)
(****************************************************************************)
EXTENDS Naturals, Sequences, FiniteSets, SequencesExt

CONSTANTS
    Images,      \* images with thread-local variables
    UserKeys,    \* keys the program creates, with destructors
    Iterations,  \* PTHREAD_DESTRUCTOR_ITERATIONS
    MaxObjects,  \* bound: objects registered
    MaxSets      \* bound: values the program gives to its keys

ASSUME TlvAssumption ==
    /\ Images \cap UserKeys = {} /\ "terminators" \notin Images \cup UserKeys
    /\ Iterations \in Nat \ {0} /\ MaxObjects \in Nat /\ MaxSets \in Nat

VARIABLES
    keys,     \* what each pthread key is for, in the order of allocation
    value,    \* value[k]: the thread's value for the k-th key, 0 for NULL
    lists,    \* the terminator lists malloc()ed so far
    buffers,  \* the buffers malloc()ed so far
    objects,  \* history: the objects registered, oldest first
    ran,      \* history: the objects destroyed, in that order
    orphans,  \* history: objects destroyed after their buffer was freed
    stack,    \* what the thread is doing, innermost last
    phase,    \* "run", "cleanup" (pthread ends the thread), "exit" or "gone"
    round,    \* the round of the clean-up
    pos,      \* the key the clean-up looks at next
    sets      \* values the program has given to its keys

history == <<objects, ran, orphans>>
vars == <<keys, value, lists, buffers, history, stack, phase, round, pos, sets>>

TerminatorsKey == CHOOSE k \in DOMAIN keys : keys[k] = "terminators"
ImageKeys == {k \in DOMAIN keys : keys[k] \in Images}

Walk(l, n) == [kind |-> "walk", at |-> l, left |-> n]  \* tlv_finalize_list(l), n entries left
Term       == [kind |-> "term", at |-> 0, left |-> 0]  \* a terminator
Dtor(k)    == [kind |-> "dtor", at |-> k, left |-> 0]  \* the destructor of a key of the program

Doing(kind) == stack # <<>> /\ Last(stack).kind = kind

\* Code of the program is running on the thread.
UserRuns == IF stack = <<>> THEN phase = "run" ELSE ~Doing("walk")

\* When something was made: the round of the clean-up, and the key of the program
\* whose destructor was running.
Now == LET dtors == {n \in DOMAIN stack : stack[n].kind = "dtor"}
       IN  [round |-> round, by |-> IF dtors = {} THEN 0 ELSE stack[Max(dtors)].at]

-----------------------------------------------------------------------------
(* Keys *)

\* pthread_key_create()
KeyCreate(name) ==
    /\ name \notin Range(keys)
    /\ keys' = Append(keys, name)
    /\ value' = Append(value, 0)

\* tlv_load_notification(), on whichever thread loads image x.
LoadImage(x) ==
    /\ phase # "gone"
    /\ KeyCreate(x)
    /\ UNCHANGED <<lists, buffers, history, stack, phase, round, pos, sets>>

\* The program creates a key.
CreateUserKey(u) ==
    /\ phase # "gone"
    /\ KeyCreate(u)
    /\ UNCHANGED <<lists, buffers, history, stack, phase, round, pos, sets>>

-----------------------------------------------------------------------------
(* Code of the program on the thread *)

\* pthread_setspecific() of one of its own keys.
SetUserValue(k) ==
    /\ UserRuns /\ keys[k] \in UserKeys /\ value[k] = 0 /\ sets < MaxSets
    /\ value' = [value EXCEPT ![k] = 1]
    /\ sets' = sets + 1
    /\ UNCHANGED <<keys, lists, buffers, history, stack, phase, round, pos>>

\* tlv_allocate_and_initialize_for_key(): the first use of a variable of the
\* image.  The initializers it goes on to call are code of the program.
AllocateForKey(k) ==
    /\ UserRuns /\ k \in ImageKeys /\ value[k] = 0
    /\ buffers' = Append(buffers, [key |-> k, freed |-> FALSE, made |-> Now])
    /\ value' = [value EXCEPT ![k] = Len(buffers) + 1]
    /\ UNCHANGED <<keys, lists, history, stack, phase, round, pos, sets>>

\* (faulty variant: the new list is said to have the room of the old one)
GrowList_SameSize(l, o) ==
    /\ lists' = Append([lists EXCEPT ![l].freed = TRUE],
                       [allocCount |-> lists[l].allocCount, freed |-> FALSE,
                        entries |-> Append(lists[l].entries, o)])
    /\ value' = [value EXCEPT ![TerminatorsKey] = Len(lists) + 1]
\* The list is full: it is copied to one of twice its size and freed.
GrowList(l, o) ==
    /\ lists' = Append([lists EXCEPT ![l].freed = TRUE],
                       [allocCount |-> 2 * lists[l].allocCount, freed |-> FALSE,
                        entries |-> Append(lists[l].entries, o)])
    /\ value' = [value EXCEPT ![TerminatorsKey] = Len(lists) + 1]

NewList(o) ==
    /\ lists' = Append(lists, [allocCount |-> 1, freed |-> FALSE, entries |-> <<o>>])
    /\ value' = [value EXCEPT ![TerminatorsKey] = Len(lists) + 1]

\* _tlv_atexit() for an object in the thread's buffer for the k-th key.
Atexit(k) ==
    LET l == value[TerminatorsKey]
        o == Len(objects) + 1
    IN  /\ UserRuns /\ k \in ImageKeys /\ value[k] # 0 /\ o <= MaxObjects
        /\ \/ l = 0 /\ NewList(o)
           \/ l # 0 /\ Len(lists[l].entries) = lists[l].allocCount /\ GrowList(l, o)
           \/ /\ l # 0 /\ Len(lists[l].entries) < lists[l].allocCount
              /\ lists' = [lists EXCEPT ![l].entries = Append(@, o)]
              /\ UNCHANGED value
        /\ objects' = Append(objects, [buffer |-> value[k], made |-> Now])
        /\ UNCHANGED <<keys, buffers, ran, orphans, stack, phase, round, pos, sets>>

\* The destructor of one of its keys returns to pthread.
DtorReturns ==
    /\ Doing("dtor")
    /\ stack' = Front(stack)
    /\ UNCHANGED <<keys, value, lists, buffers, history, phase, round, pos, sets>>

-----------------------------------------------------------------------------
(* tlv_finalize_list() *)

\* (faulty variant: oldest first)
NextEntry_Oldest(w) == lists[w.at].entries[Len(lists[w.at].entries) + 1 - w.left]
\* The entries are taken from the last to the first.
NextEntry(w) == lists[w.at].entries[w.left]

CallTerminator ==
    /\ Doing("walk") /\ Last(stack).left > 0
    /\ LET o == NextEntry(Last(stack)) IN
          /\ ran' = Append(ran, o)
          /\ orphans' = IF buffers[objects[o].buffer].freed THEN orphans \cup {o} ELSE orphans
    /\ stack' = Append(stack, Term)
    /\ UNCHANGED <<keys, value, lists, buffers, objects, phase, round, pos, sets>>

\* (faulty variant: what the terminator registered is left for later)
FinalizeNewList_Later(rest) == stack' = rest /\ UNCHANGED value
\* What the terminator registered is on a new list, which is destroyed at once.
FinalizeNewList(rest) ==
    LET l == value[TerminatorsKey] IN
        /\ stack' = IF l = 0 THEN rest ELSE Append(rest, Walk(l, Len(lists[l].entries)))
        /\ value' = [value EXCEPT ![TerminatorsKey] = 0]

TerminatorReturns ==
    /\ Doing("term")
    /\ FinalizeNewList([Front(stack) EXCEPT ![Len(stack) - 1].left = @ - 1])
    /\ UNCHANGED <<keys, lists, buffers, history, phase, round, pos, sets>>

\* (faulty variant: the list is not freed)
FreeList_Leak ==
    /\ Doing("walk") /\ Last(stack).left = 0
    /\ stack' = Front(stack)
    /\ UNCHANGED <<keys, value, lists, buffers, history, phase, round, pos, sets>>
\* The whole list was walked: free it.
FreeList ==
    /\ Doing("walk") /\ Last(stack).left = 0
    /\ lists' = [lists EXCEPT ![Last(stack).at].freed = TRUE]
    /\ stack' = Front(stack)
    /\ UNCHANGED <<keys, value, buffers, history, phase, round, pos, sets>>

-----------------------------------------------------------------------------
(* The end of the thread *)

\* (faulty variant: the list stays the value of the key while it is walked)
TlvExit_Shared ==
    LET l == value[TerminatorsKey] IN
        /\ phase = "run" /\ stack = <<>>
        /\ phase' = "exit"
        /\ stack' = IF l = 0 THEN <<>> ELSE <<Walk(l, Len(lists[l].entries))>>
        /\ UNCHANGED <<keys, value, lists, buffers, history, round, pos, sets>>
\* _tlv_exit(): the program calls exit() on this thread.
TlvExit ==
    LET l == value[TerminatorsKey] IN
        /\ phase = "run" /\ stack = <<>>
        /\ phase' = "exit"
        /\ stack' = IF l = 0 THEN <<>> ELSE <<Walk(l, Len(lists[l].entries))>>
        /\ value' = [value EXCEPT ![TerminatorsKey] = 0]
        /\ UNCHANGED <<keys, lists, buffers, history, round, pos, sets>>

Exited ==
    /\ phase = "exit" /\ stack = <<>>
    /\ phase' = "gone"
    /\ UNCHANGED <<keys, value, lists, buffers, history, stack, round, pos, sets>>

\* pthread_exit(), or the thread's function returns.
ThreadExit ==
    /\ phase = "run" /\ stack = <<>>
    /\ phase' = "cleanup" /\ round' = 1 /\ pos' = 1
    /\ UNCHANGED <<keys, value, lists, buffers, history, stack, sets>>

\* The destructor of the k-th key is called with the value it had: tlv_finalize(),
\* tlv_free(), or a function of the program.
Destructor(k) ==
    \/ /\ k = TerminatorsKey
       /\ stack' = <<Walk(value[k], Len(lists[value[k]].entries))>>
       /\ UNCHANGED buffers
    \/ /\ keys[k] \in Images
       /\ buffers' = [buffers EXCEPT ![value[k]].freed = TRUE]
       /\ UNCHANGED stack
    \/ /\ keys[k] \in UserKeys
       /\ stack' = <<Dtor(k)>>
       /\ UNCHANGED buffers

\* The clean-up reaches the next key that has a value ...
CleanupKey ==
    /\ phase = "cleanup" /\ stack = <<>>
    /\ \E k \in pos..Len(keys) :
          /\ value[k] # 0 /\ \A j \in pos..(k - 1) : value[j] = 0
          /\ value' = [value EXCEPT ![k] = 0]
          /\ Destructor(k)
          /\ pos' = k + 1
    /\ UNCHANGED <<keys, lists, history, phase, round, sets>>

\* ... or the end of a round.
CleanupRound ==
    /\ phase = "cleanup" /\ stack = <<>>
    /\ \A k \in pos..Len(keys) : value[k] = 0
    /\ IF round = Iterations
       THEN phase' = "gone" /\ UNCHANGED <<round, pos>>
       ELSE round' = round + 1 /\ pos' = 1 /\ UNCHANGED phase
    /\ UNCHANGED <<keys, value, lists, buffers, history, stack, sets>>

-----------------------------------------------------------------------------

\* (faulty variant: the key is allocated when the first image is loaded, after it)
Init_KeyAfter ==
    /\ \E x \in Images : keys = <<x, "terminators">>
    /\ value = <<0, 0>>
    /\ lists = <<>> /\ buffers = <<>> /\ objects = <<>> /\ ran = <<>> /\ orphans = {}
    /\ stack = <<>> /\ phase = "run" /\ round = 0 /\ pos = 1 /\ sets = 0
\* tlv_initializer() has run.
Init ==
    /\ keys = <<"terminators">> /\ value = <<0>>
    /\ lists = <<>> /\ buffers = <<>> /\ objects = <<>> /\ ran = <<>> /\ orphans = {}
    /\ stack = <<>> /\ phase = "run" /\ round = 0 /\ pos = 1 /\ sets = 0

Next ==
    \/ \E x \in Images : LoadImage(x)
    \/ \E u \in UserKeys : CreateUserKey(u)
    \/ \E k \in DOMAIN keys : SetUserValue(k)
    \/ \E k \in DOMAIN keys : AllocateForKey(k)
    \/ \E k \in DOMAIN keys : Atexit(k)
    \/ DtorReturns
    \/ CallTerminator
    \/ TerminatorReturns
    \/ FreeList
    \/ TlvExit
    \/ Exited
    \/ ThreadExit
    \/ CleanupKey
    \/ CleanupRound

Spec == Init /\ [][Next]_vars

-----------------------------------------------------------------------------
(* Properties *)

\* Type correctness of the keys' values, the heap and the thread's stack.
TypeOK ==
    /\ keys \in Seq({"terminators"} \cup Images \cup UserKeys)
    /\ value \in Seq(Nat) /\ Len(value) = Len(keys)
    /\ \A l \in DOMAIN lists : /\ lists[l].entries \in Seq(DOMAIN objects)
                              /\ Len(lists[l].entries) <= lists[l].allocCount
    /\ \A b \in DOMAIN buffers : buffers[b].key \in ImageKeys
    /\ \A o \in DOMAIN objects : objects[o].buffer \in DOMAIN buffers
    /\ ran \in Seq(DOMAIN objects) /\ orphans \subseteq DOMAIN objects
    /\ \A n \in DOMAIN stack : stack[n].kind \in {"walk", "term", "dtor"}
    /\ phase \in {"run", "cleanup", "exit", "gone"}
    /\ round \in 0..Iterations /\ pos \in Nat /\ sets \in 0..MaxSets

\* The destructor of a key of the program made it when no further round was to come.
TooLate(made) == made.round = Iterations /\ made.by # 0

\* No terminator runs twice, and when the thread is gone every object that was
\* registered has been destroyed, whoever registered it: the only ones left are
\* those a destructor of the program registered in pthread's last round
\* (tlv_finalize_list, _tlv_exit).
DestroyedExactlyOnce ==
    /\ IsInjective(ran)
    /\ phase = "gone" => \A o \in DOMAIN objects : o \in Range(ran) \/ TooLate(objects[o].made)

\* Objects are destroyed in the reverse order of their construction, across all
\* the lists there are: a terminator is only called for the newest object not yet
\* destroyed, objects that other terminators constructed included
\* (tlv_finalize_list: "destroy in reverse order of construction").
NewestFirst ==
    [][ran' # ran =>
          \A o \in DOMAIN objects : o \in Range(ran) \/ o <= ran'[Len(ran')]]_vars

\* "C++ objects [are] destructed before they are deallocated" because the
\* terminators' key comes first (tlv_initializer): an object only outlives its
\* buffer when a destructor of the program, of a key that lies between the
\* terminators' and the image's, constructed it.
DestroyedBeforeFreed ==
    \A o \in orphans :
       /\ objects[o].made.by # 0
       /\ objects[o].made.by < buffers[objects[o].buffer].key

\* A list is owned once: no list that is being walked, and not the one _tlv_atexit()
\* would append to, is free, and none of them is another of them.
ListsOwned ==
    LET walks == {n \in DOMAIN stack : stack[n].kind = "walk"}
        head  == value[TerminatorsKey]
    IN  /\ head # 0 => ~lists[head].freed
        /\ \A n \in walks : ~lists[stack[n].at].freed /\ stack[n].at # head
        /\ \A m, n \in walks : m # n => stack[m].at # stack[n].at

\* A thread that pthread ended leaves no list and no buffer behind, but for what a
\* destructor of the program used in the last round.
NothingLeaked ==
    phase = "gone" /\ round > 0 =>
       /\ \A l \in DOMAIN lists :
             lists[l].freed \/ \A n \in DOMAIN lists[l].entries :
                                  TooLate(objects[lists[l].entries[n]].made)
       /\ \A b \in DOMAIN buffers : buffers[b].freed \/ TooLate(buffers[b].made)

=============================================================================
