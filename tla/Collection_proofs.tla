-------------------------- MODULE Collection_proofs --------------------------
(****************************************************************************)
(* More proofs about AllImages, for any images, link graph, threads and     *)
(* bounds: a call that is in progress keeps the images it goes on to use,   *)
(* a collection leaves nothing behind that nobody needs, what it removes    *)
(* leaves in order, and add-image functions hear of every image, once and   *)
(* before its initializers run.                                             *)
(*                                                                          *)
(* They rest on the invariant of AllImages_proofs and on how the counts     *)
(* of references, of collections and of calls still to make relate to the   *)
(* calls that are in progress.                                              *)
(****************************************************************************)
EXTENDS AllImages_proofs, FiniteSetTheorems

-----------------------------------------------------------------------------
(* The inductive invariant. *)

\* The call has a reference to i that no handle stands for: dlopen() has counted it
\* and not yet returned the handle, or dlclose() was given it and has not looked it up.
Owes(f, i) ==
    /\ f.arg = i
    /\ \/ f.op = "dlopen" /\ f.pc # "map"
       \/ f.op = "dlclose" /\ f.pc = "find"
Owing(i) == {x \in Threads \X Nat : x[2] \in DOMAIN stack[x[1]] /\ Owes(stack[x[1]][x[2]], i)}

\* Every handle and every such call is counted.
References ==
    \A i \in Images \ InCache :
        IsFiniteSet(Owing(i)) /\ refs[i] >= handles[i] + Cardinality(Owing(i))

\* Where a collection has dead images that are still in _loadedImages.
DeadPCs == {"terminate", "inTerm", "removing", "inRemove", "erase"}

\* What a call remembers of the images, of the remove-image functions and of who was
\* told: a dlopen() of a cached image that it is loaded, a new image that it is
\* needed, and a collection which terminators and functions it has still to call.
Recalls(f, loaded, removers, gone) ==
    /\ f.op = "dlopen" /\ f.pc # "map" /\ f.arg \in InCache => f.arg \in loaded
    /\ IsMap(f) => f.set \subseteq Closure(f.arg)
    /\ f.op = "dlclose" /\ f.pc \in DeadPCs \cup {"unmap"} => f.set \cap InCache = {}
    /\ f.op = "dlclose" /\ f.pc \in {"terminate", "inTerm"} =>
          \A i \in f.set : <<"terminator", i>> \in f.todo \/ "terminator" \in gone[i]
    /\ f.op = "dlclose" /\ f.pc \in {"removing", "inRemove", "erase"} =>
          \A i \in f.set : "terminator" \in gone[i]
    /\ f.op = "dlclose" /\ f.pc \in {"removing", "inRemove"} =>
          /\ \A x \in f.todo : x[2] \in f.set
          /\ \A i \in f.set, g \in removers : <<g, i>> \in f.todo \/ g \in gone[i]
Memories ==
    \A t \in Threads : \A n \in DOMAIN stack[t] :
        Recalls(stack[t][n], Loaded, removeFuncs, farewell)

\* A collection that was asked for is in progress.
Counted ==
    gcCount >= 1 => \E t \in Threads : \E n \in DOMAIN stack[t] : IsGc(stack[t][n])

\* Mapped but not in _loadedImages: on the way in or on the way out.
Passing(f) == IsMap(f) \/ (f.op = "dlclose" /\ f.pc = "unmap")
InPassing(i) == \E t \in Threads : \E n \in DOMAIN stack[t] :
                   Passing(stack[t][n]) /\ i \in stack[t][n].set
Mappings ==
    /\ InCache \subseteq mapped
    /\ \A i \in mapped : i \in Loaded \cup InCache \/ InPassing(i)

\* Somebody needs the image, or a collection will come to it.
Needed(i)  == \E j \in Loaded : i \in Closure(j) /\ (refs[j] > 0 \/ j \in never)
WillSee(f, count, i) ==
    /\ IsGc(f)
    /\ \/ f.pc = "mark"
       \/ count >= 2
       \/ f.pc \in DeadPCs /\ i \in f.set
Doomed(i) == \E t \in Threads : \E n \in DOMAIN stack[t] : WillSee(stack[t][n], gcCount, i)
Garbage == \A i \in Loaded \ never : Needed(i) \/ Doomed(i)

CInv == References /\ Memories /\ Counted /\ Mappings /\ Garbage

-----------------------------------------------------------------------------
(* A step changes one place of one stack at most: place l of thread t. *)

Elsewhere(t, l) ==
    \A u \in Threads : \A n \in Nat : u # t \/ n # l =>
        /\ n \in DOMAIN stack'[u] <=> n \in DOMAIN stack[u]
        /\ n \in DOMAIN stack[u] => stack'[u][n] = stack[u][n]

\* Which place that is when a call enters, goes on and returns.
LEMMA Places ==
    ASSUME Stacks, NEW t \in Threads
    PROVE  /\ \A f \in Frame : Push(t, f) =>
                 /\ Elsewhere(t, Len(stack[t]) + 1) /\ Len(stack[t]) + 1 \in Nat
                 /\ Len(stack[t]) + 1 \notin DOMAIN stack[t]
                 /\ Len(stack[t]) + 1 \in DOMAIN stack'[t]
                 /\ stack'[t][Len(stack[t]) + 1] = f
           /\ stack[t] # <<>> =>
                 /\ Len(stack[t]) \in DOMAIN stack[t] /\ Len(stack[t]) \in Nat
                 /\ Top(t) = stack[t][Len(stack[t])]
                 /\ \A f \in Frame : SetTop(t, f) =>
                       /\ Elsewhere(t, Len(stack[t]))
                       /\ Len(stack[t]) \in DOMAIN stack'[t] /\ stack'[t][Len(stack[t])] = f
                 /\ Pop(t) => /\ Elsewhere(t, Len(stack[t]))
                              /\ Len(stack[t]) \notin DOMAIN stack'[t]
<1>1. ASSUME NEW f \in Frame, Push(t, f)
      PROVE  /\ Elsewhere(t, Len(stack[t]) + 1) /\ Len(stack[t]) + 1 \in Nat
             /\ Len(stack[t]) + 1 \notin DOMAIN stack[t]
             /\ Len(stack[t]) + 1 \in DOMAIN stack'[t]
             /\ stack'[t][Len(stack[t]) + 1] = f
  <2> DEFINE l == Len(stack[t])
  <2>1. /\ \A u \in Threads \ {t} : stack'[u] = stack[u]
        /\ DOMAIN stack'[t] = 1..(l + 1)
        /\ DOMAIN stack[t] = 1..l /\ l \in Nat
        /\ \A n \in DOMAIN stack[t] : stack'[t][n] = stack[t][n]
        /\ stack'[t][l + 1] = f
    BY <1>1, PushFacts
  <2> HIDE DEF l
  <2>2. l + 1 \in Nat /\ l + 1 \notin 1..l /\ l + 1 \in 1..(l + 1)
    BY <2>1
  <2>3. \A n \in Nat : n # l + 1 => (n \in 1..(l + 1) <=> n \in 1..l)
    BY <2>1
  <2>4. Elsewhere(t, l + 1)
    BY <2>1, <2>3 DEF Elsewhere
  <2> QED BY <2>1, <2>2, <2>4 DEF l
<1>2. ASSUME stack[t] # <<>>
      PROVE  /\ Len(stack[t]) \in DOMAIN stack[t] /\ Len(stack[t]) \in Nat
             /\ Top(t) = stack[t][Len(stack[t])]
  BY <1>2 DEF Stacks, Top
<1>3. ASSUME stack[t] # <<>>, NEW f \in Frame, SetTop(t, f)
      PROVE  /\ Elsewhere(t, Len(stack[t]))
             /\ Len(stack[t]) \in DOMAIN stack'[t] /\ stack'[t][Len(stack[t])] = f
  <2>1. /\ \A u \in Threads \ {t} : stack'[u] = stack[u]
        /\ DOMAIN stack'[t] = DOMAIN stack[t]
        /\ \A n \in DOMAIN stack[t] \ {Len(stack[t])} : stack'[t][n] = stack[t][n]
        /\ stack'[t][Len(stack[t])] = f
    BY <1>3, SetTopFacts
  <2> QED BY <1>2, <1>3, <2>1 DEF Elsewhere
<1>4. ASSUME stack[t] # <<>>, Pop(t)
      PROVE  /\ Elsewhere(t, Len(stack[t])) /\ Len(stack[t]) \notin DOMAIN stack'[t]
  <2> DEFINE l == Len(stack[t])
  <2>1. /\ \A u \in Threads \ {t} : stack'[u] = stack[u]
        /\ DOMAIN stack'[t] = 1..(l - 1)
        /\ DOMAIN stack[t] = 1..l /\ l \in Nat \ {0}
        /\ \A n \in 1..(l - 1) : stack'[t][n] = stack[t][n]
    BY <1>4, PopFacts
  <2> HIDE DEF l
  <2>2. l \notin 1..(l - 1) /\ \A n \in Nat : n # l => (n \in 1..(l - 1) <=> n \in 1..l)
    BY <2>1
  <2>3. Elsewhere(t, l)
    BY <2>1, <2>2 DEF Elsewhere
  <2> QED BY <2>1, <2>2, <2>3 DEF l
<1> QED BY <1>1, <1>2, <1>3, <1>4

-----------------------------------------------------------------------------
(* What such a step does to each part of the invariant. *)

Bit(b) == IF b THEN 1 ELSE 0
Owed(s, l, i) == l \in DOMAIN s /\ Owes(s[l], i)

\* A step may take a reference away when it takes a handle away or a call that has one.
LEMMA ReferencesKept ==
    ASSUME TypeOK, TypeOK', References, NEW t \in Threads, NEW l \in Nat, Elsewhere(t, l),
           \A i \in Images \ InCache :
               refs'[i] + handles[i] + Bit(Owed(stack[t], l, i)) >=
               refs[i] + handles'[i] + Bit(Owed(stack'[t], l, i))
    PROVE  References'
<1> SUFFICES ASSUME NEW i \in Images \ InCache
             PROVE  /\ IsFiniteSet(Owing(i)')
                    /\ refs'[i] >= handles'[i] + Cardinality(Owing(i)')
  BY DEF References
<1> DEFINE S == Owing(i)
           R == Owing(i)'
           p == <<t, l>>
<1>1. IsFiniteSet(S) /\ refs[i] >= handles[i] + Cardinality(S)
  BY DEF References
<1>2. Cardinality(S) \in Nat
  BY <1>1, FS_CardinalityType
<1>3. refs[i] \in Nat /\ refs'[i] \in Nat /\ handles[i] \in Nat /\ handles'[i] \in Nat
  BY DEF TypeOK
<1>4. p \in S <=> Owed(stack[t], l, i)
  BY DEF Owing, Owed
<1>5. p \in R <=> Owed(stack'[t], l, i)
  BY DEF Owing, Owed
<1>6. \A x : x # p => (x \in R <=> x \in S)
  <2> SUFFICES ASSUME NEW x \in Threads \X Nat, x # p PROVE x \in R <=> x \in S
    BY DEF Owing
  <2>1. x[1] \in Threads /\ x[2] \in Nat /\ (x[1] # t \/ x[2] # l)
    OBVIOUS
  <2>2. /\ x[2] \in DOMAIN stack'[x[1]] <=> x[2] \in DOMAIN stack[x[1]]
        /\ x[2] \in DOMAIN stack[x[1]] => stack'[x[1]][x[2]] = stack[x[1]][x[2]]
    BY <2>1 DEF Elsewhere
  <2> QED BY <2>2 DEF Owing, Owes
<1>7. refs'[i] + handles[i] + Bit(Owed(stack[t], l, i)) >= refs[i] + handles'[i] + Bit(Owed(stack'[t], l, i))
  OBVIOUS
<1> HIDE DEF S, R, p
<1>8. CASE p \in S <=> p \in R
  <2>1. R = S
    BY <1>6, <1>8
  <2>2. Bit(Owed(stack[t], l, i)) = Bit(Owed(stack'[t], l, i)) /\ Bit(Owed(stack[t], l, i)) \in Nat
    BY <1>4, <1>5, <1>8 DEF Bit
  <2> QED BY <1>1, <1>2, <1>3, <1>7, <2>1, <2>2 DEF S, R
<1>9. CASE p \notin S /\ p \in R
  <2>1. R = S \cup {p}
    BY <1>6, <1>9
  <2>2. IsFiniteSet(R) /\ Cardinality(R) = Cardinality(S) + 1
    BY <1>1, <1>9, <2>1, FS_AddElement
  <2>3. Bit(Owed(stack[t], l, i)) = 0 /\ Bit(Owed(stack'[t], l, i)) = 1
    BY <1>4, <1>5, <1>9 DEF Bit
  <2>4. refs'[i] >= handles'[i] + Cardinality(R)
    BY <1>1, <1>2, <1>3, <1>7, <2>2, <2>3
  <2> QED BY <2>2, <2>4 DEF R
<1>10. CASE p \in S /\ p \notin R
  <2>1. R = S \ {p}
    BY <1>6, <1>10
  <2>2. IsFiniteSet(R) /\ Cardinality(R) = Cardinality(S) - 1
    BY <1>1, <1>10, <2>1, FS_RemoveElement
  <2>3. Bit(Owed(stack[t], l, i)) = 1 /\ Bit(Owed(stack'[t], l, i)) = 0
    BY <1>4, <1>5, <1>10 DEF Bit
  <2>4. refs'[i] >= handles'[i] + Cardinality(R)
    BY <1>1, <1>2, <1>3, <1>7, <2>2, <2>3
  <2> QED BY <2>2, <2>4 DEF R
<1> QED BY <1>8, <1>9, <1>10

\* A call other than the one at place l of thread t.
IsOther(t, l, f) == \E u \in Threads : \E n \in DOMAIN stack[u] :
                       (u # t \/ n # l) /\ f = stack[u][n]

LEMMA MemoriesKept ==
    ASSUME TypeOK, TypeOK', Memories, NEW t \in Threads, NEW l \in Nat, Elsewhere(t, l),
           \A f \in Frame : IsOther(t, l, f) /\ Recalls(f, Loaded, removeFuncs, farewell) =>
               Recalls(f, Loaded', removeFuncs', farewell'),
           l \in DOMAIN stack'[t] => Recalls(stack'[t][l], Loaded', removeFuncs', farewell')
    PROVE  Memories'
<1> SUFFICES ASSUME NEW u \in Threads, NEW n \in DOMAIN stack'[u]
             PROVE  Recalls(stack'[u][n], Loaded', removeFuncs', farewell')
  BY DEF Memories
<1>1. stack'[u][n] \in Frame /\ n \in Nat
  BY DEF TypeOK
<1>2. CASE u = t /\ n = l
  BY <1>1, <1>2
<1>3. CASE u # t \/ n # l
  <2>1. n \in DOMAIN stack[u] /\ stack'[u][n] = stack[u][n]
    BY <1>1, <1>3 DEF Elsewhere
  <2>2. Recalls(stack[u][n], Loaded, removeFuncs, farewell)
    BY <2>1 DEF Memories
  <2>3. IsOther(t, l, stack[u][n])
    BY <1>3, <2>1 DEF IsOther
  <2> QED BY <1>1, <2>1, <2>2, <2>3
<1> QED BY <1>2, <1>3

LEMMA CountedKept ==
    ASSUME TypeOK, Counted, NEW t \in Threads, NEW l \in Nat, Elsewhere(t, l),
           gcCount' >= 1 =>
               \/ l \in DOMAIN stack'[t] /\ IsGc(stack'[t][l])
               \/ gcCount >= 1 /\ ~(l \in DOMAIN stack[t] /\ IsGc(stack[t][l]))
    PROVE  Counted'
<1> SUFFICES ASSUME gcCount' >= 1
             PROVE  \E u \in Threads : \E n \in DOMAIN stack'[u] : IsGc(stack'[u][n])
  BY DEF Counted, IsGc
<1>1. CASE l \in DOMAIN stack'[t] /\ IsGc(stack'[t][l])
  BY <1>1
<1>2. CASE gcCount >= 1 /\ ~(l \in DOMAIN stack[t] /\ IsGc(stack[t][l]))
  <2>1. PICK u \in Threads : \E n \in DOMAIN stack[u] : IsGc(stack[u][n])
    BY <1>2 DEF Counted
  <2>2. PICK n \in DOMAIN stack[u] : IsGc(stack[u][n])
    BY <2>1
  <2>3. n \in Nat /\ (u # t \/ n # l)
    BY <1>2, <2>2 DEF TypeOK
  <2>4. n \in DOMAIN stack'[u] /\ stack'[u][n] = stack[u][n]
    BY <2>3 DEF Elsewhere
  <2> QED BY <2>2, <2>4
<1> QED BY <1>1, <1>2

LEMMA PassingKept ==
    ASSUME TypeOK, NEW t \in Threads, NEW l \in Nat, Elsewhere(t, l), NEW i, InPassing(i),
           l \in DOMAIN stack[t] /\ Passing(stack[t][l]) /\ i \in stack[t][l].set =>
               l \in DOMAIN stack'[t] /\ Passing(stack'[t][l]) /\ i \in stack'[t][l].set
    PROVE  InPassing(i)'
<1>0. PICK u \in Threads : \E n \in DOMAIN stack[u] :
             Passing(stack[u][n]) /\ i \in stack[u][n].set
  BY DEF InPassing
<1>1. PICK n \in DOMAIN stack[u] : Passing(stack[u][n]) /\ i \in stack[u][n].set
  BY <1>0
<1>2. n \in Nat
  BY DEF TypeOK
<1>3. n \in DOMAIN stack'[u] /\ Passing(stack'[u][n]) /\ i \in stack'[u][n].set
  <2>1. CASE u = t /\ n = l
    BY <1>1, <2>1
  <2>2. CASE u # t \/ n # l
    <3>1. n \in DOMAIN stack'[u] /\ stack'[u][n] = stack[u][n]
      BY <1>2, <2>2 DEF Elsewhere
    <3> QED BY <1>1, <3>1
  <2> QED BY <2>1, <2>2
<1> QED BY <1>3 DEF InPassing, Passing, IsMap

LEMMA DoomedKept ==
    ASSUME TypeOK, TypeOK', NEW t \in Threads, NEW l \in Nat, Elsewhere(t, l), NEW i, Doomed(i),
           gcCount' >= gcCount,
           l \in DOMAIN stack[t] /\ WillSee(stack[t][l], gcCount, i) =>
               l \in DOMAIN stack'[t] /\ WillSee(stack'[t][l], gcCount', i)
    PROVE  Doomed(i)'
<1>0. PICK u \in Threads : \E n \in DOMAIN stack[u] : WillSee(stack[u][n], gcCount, i)
  BY DEF Doomed
<1>1. PICK n \in DOMAIN stack[u] : WillSee(stack[u][n], gcCount, i)
  BY <1>0
<1>2. n \in Nat /\ gcCount \in Nat /\ gcCount' \in Nat
  BY DEF TypeOK
<1>3. n \in DOMAIN stack'[u] /\ WillSee(stack'[u][n], gcCount', i)
  <2>1. CASE u = t /\ n = l
    BY <1>1, <2>1
  <2>2. CASE u # t \/ n # l
    <3>1. n \in DOMAIN stack'[u] /\ stack'[u][n] = stack[u][n]
      BY <1>2, <2>2 DEF Elsewhere
    <3> QED BY <1>1, <1>2, <3>1 DEF WillSee
  <2> QED BY <2>1, <2>2
<1> QED BY <1>3 DEF Doomed, WillSee, IsGc

\* What was remembered stays true while nothing cached leaves, no function registers and
\* nobody is forgotten who was told.
LEMMA Remembered ==
    ASSUME Loaded \cap InCache \subseteq Loaded', removeFuncs' = removeFuncs,
           \A i \in Images : farewell[i] \subseteq farewell'[i],
           NEW f \in Frame, Recalls(f, Loaded, removeFuncs, farewell)
    PROVE  Recalls(f, Loaded', removeFuncs', farewell')
<1>1. f.set \subseteq Images
  BY DEF Frame
<1> QED BY <1>1 DEF Recalls

\* A call that neither collects nor maps remembers only that a cached image is loaded.
LEMMA PlainRecalls ==
    ASSUME NEW f, NEW loaded, NEW removers, NEW gone, ~IsGc(f), ~IsMap(f),
           f.op = "dlopen" /\ f.arg \in InCache => f.arg \in loaded
    PROVE  Recalls(f, loaded, removers, gone)
  BY DEF Recalls, IsGc, GcPCs, DeadPCs

\* Nothing is mapped or unmapped.
LEMMA MappingsKept ==
    ASSUME TypeOK, Mappings, NEW t \in Threads, NEW l \in Nat, Elsewhere(t, l),
           mapped' = mapped, Loaded' = Loaded,
           l \in DOMAIN stack[t] => ~Passing(stack[t][l])
    PROVE  Mappings'
<1>1. ASSUME NEW i \in mapped', i \notin Loaded' \cup InCache
      PROVE  InPassing(i)'
  <2>1. InPassing(i)
    BY <1>1 DEF Mappings
  <2> QED BY <2>1, PassingKept
<1> QED BY <1>1 DEF Mappings

\* No reference goes and no collection ends.
LEMMA GarbageKept ==
    ASSUME TypeOK, TypeOK', Garbage, NEW t \in Threads, NEW l \in Nat, Elsewhere(t, l),
           Loaded' = Loaded, Loaded \cap never \subseteq never',
           \A i \in Images : refs[i] > 0 => refs'[i] > 0,
           gcCount' >= gcCount,
           \A i \in Images : l \in DOMAIN stack[t] /\ WillSee(stack[t][l], gcCount, i) =>
               l \in DOMAIN stack'[t] /\ WillSee(stack'[t][l], gcCount', i)
    PROVE  Garbage'
<1> SUFFICES ASSUME NEW i \in Loaded', i \notin never' PROVE Needed(i)' \/ Doomed(i)'
  BY DEF Garbage
<1>1. i \in Loaded \ never /\ i \in Images
  BY DEF Loaded
<1>2. CASE Needed(i)
  <2>1. PICK j \in Loaded : i \in Closure(j) /\ (refs[j] > 0 \/ j \in never)
    BY <1>2 DEF Needed
  <2>2. j \in Loaded' /\ (refs'[j] > 0 \/ j \in never')
    BY <2>1 DEF Loaded
  <2>3. i \in Closure(j)'
    BY <2>1 DEF Closure, Reach
  <2> QED BY <2>2, <2>3 DEF Needed
<1>3. CASE Doomed(i)
  BY <1>1, <1>3, DoomedKept
<1> QED BY <1>1, <1>2, <1>3 DEF Garbage

\* A step that leaves the images, the marks and the collections alone.
LEMMA Quiet ==
    ASSUME TypeOK, TypeOK', CInv, NEW t \in Threads, NEW l \in Nat, Elsewhere(t, l),
           Loaded' = Loaded, UNCHANGED <<mapped, never, removeFuncs, gcCount>>,
           \A i \in Images : farewell[i] \subseteq farewell'[i],
           \A i \in Images : refs[i] > 0 => refs'[i] > 0,
           \A i \in Images \ InCache :
               refs'[i] + handles[i] + Bit(Owed(stack[t], l, i)) >=
               refs[i] + handles'[i] + Bit(Owed(stack'[t], l, i)),
           l \in DOMAIN stack'[t] => Recalls(stack'[t][l], Loaded', removeFuncs', farewell'),
           l \in DOMAIN stack[t] => ~Passing(stack[t][l]),
           l \in DOMAIN stack[t] /\ IsGc(stack[t][l]) =>
               /\ l \in DOMAIN stack'[t] /\ IsGc(stack'[t][l])
               /\ stack[t][l].pc = "mark" => stack'[t][l].pc = "mark"
               /\ stack[t][l].pc \in DeadPCs =>
                     stack'[t][l].pc \in DeadPCs /\ stack'[t][l].set = stack[t][l].set
    PROVE  CInv'
<1>1. References'
  BY ReferencesKept DEF CInv
<1>2. Memories'
  BY MemoriesKept, Remembered DEF CInv
<1>3. Counted'
  BY CountedKept DEF CInv
<1>4. Mappings'
  BY MappingsKept DEF CInv
<1>5. \A i \in Images : l \in DOMAIN stack[t] /\ WillSee(stack[t][l], gcCount, i) =>
          l \in DOMAIN stack'[t] /\ WillSee(stack'[t][l], gcCount', i)
  BY DEF WillSee
<1>6. Garbage'
  <2>1. gcCount' >= gcCount
    BY DEF TypeOK
  <2> QED BY <1>5, <2>1, GarbageKept DEF CInv
<1> QED BY <1>1, <1>2, <1>3, <1>4, <1>6 DEF CInv

-----------------------------------------------------------------------------
(* The steps, one by one. *)

\* A step within a call that is neither at its start nor at its end.
LEMMA QuietGoOn ==
    ASSUME IInv, TypeOK', CInv, NEW t \in Threads, stack[t] # <<>>, NEW f \in Frame,
           SetTop(t, f), Loaded' = Loaded,
           UNCHANGED <<mapped, never, refs, handles, removeFuncs, gcCount>>,
           \A i \in Images : farewell[i] \subseteq farewell'[i],
           f.op = Top(t).op, f.arg = Top(t).arg, f.set = Top(t).set,
           f.pc \notin {"map", "find", "mark", "unmap"},
           Top(t).pc \notin {"map", "find", "mark", "unmap"},
           IsGc(f) <=> IsGc(Top(t)), f.pc \in DeadPCs <=> Top(t).pc \in DeadPCs,
           Recalls(f, Loaded', removeFuncs', farewell')
    PROVE  CInv'
<1> DEFINE l == Len(stack[t])
<1>1. /\ l \in Nat /\ Elsewhere(t, l) /\ l \in DOMAIN stack[t] /\ l \in DOMAIN stack'[t]
      /\ stack[t][l] = Top(t) /\ stack'[t][l] = f
  BY Places DEF IInv, TypeOK, Stacks
<1> HIDE DEF l
<1>2. TypeOK
  BY DEF IInv
<1>3. \A i \in Images \ InCache :
          refs'[i] + handles[i] + Bit(Owed(stack[t], l, i)) >=
          refs[i] + handles'[i] + Bit(Owed(stack'[t], l, i))
  <2> SUFFICES ASSUME NEW i \in Images
               PROVE  refs'[i] + handles[i] + Bit(Owed(stack[t], l, i)) >=
                      refs[i] + handles'[i] + Bit(Owed(stack'[t], l, i))
    OBVIOUS
  <2>1. Owed(stack[t], l, i) <=> Owed(stack'[t], l, i)
    BY <1>1 DEF Owed, Owes
  <2>2. refs[i] \in Nat /\ handles[i] \in Nat
    BY <1>2 DEF TypeOK
  <2> QED BY <2>1, <2>2 DEF Bit
<1>4. ~Passing(stack[t][l])
  BY <1>1 DEF Passing, IsMap
<1> QED BY <1>1, <1>2, <1>3, <1>4, Quiet

\* The steps of that kind: user code returns, and dyld goes from one call it has to
\* make to the next.
LEMMA QuietSteps ==
    ASSUME IInv, TypeOK', CInv, NEW t \in Threads,
           \/ UserReturns(t)
           \/ RunImageCallbacks(t) \/ ImageCallbacksDone(t) \/ StartInit(t) \/ SkipInit(t)
           \/ RunRemoveCallbacks(t) \/ RemoveCallbacksDone(t) \/ AddLoadNotifierTold(t)
           \/ \E i \in Images : CallTerminator(t, i)
           \/ \E g \in Funcs, i \in Images : CallAddNotifier(t, g, i) \/ CallRemoveNotifier(t, g, i)
    PROVE  CInv'
<1> USE ImagesAssumption, CallsAssumption
<1>0. ASSUME stack[t] # <<>>
      PROVE  /\ Top(t) \in Frame /\ FrameShape(Top(t))
             /\ Recalls(Top(t), Loaded, removeFuncs, farewell)
  <2>1. Len(stack[t]) \in DOMAIN stack[t] /\ Top(t) \in Frame /\ FrameShape(Top(t))
    BY <1>0, TopFacts DEF IInv
  <2> QED BY <2>1 DEF CInv, Memories, Top
<1>1. CASE AddNotifierReturns(t)
  <2> DEFINE f == [Top(t) EXCEPT !.pc = "telling"]
  <2>1. /\ stack[t] # <<>> /\ Top(t) \in Frame /\ FrameShape(Top(t))
        /\ Recalls(Top(t), Loaded, removeFuncs, farewell) /\ Top(t).pc = "inAdd"
    BY <1>0, <1>1 DEF AddNotifierReturns
  <2>2. /\ f \in Frame /\ f.op = Top(t).op /\ f.arg = Top(t).arg /\ f.set = Top(t).set
        /\ f.pc = "telling" /\ Top(t).op # "dlclose"
    BY <2>1 DEF Frame, PCs, FrameShape, GcPCs
  <2> HIDE DEF f
  <2>3. /\ SetTop(t, f) /\ Loaded' = Loaded
        /\ UNCHANGED <<mapped, never, refs, handles, removeFuncs, gcCount, farewell>>
    BY <1>1 DEF AddNotifierReturns, Goto, f, imageVars, countVars, notifyVars, Loaded
  <2>4. Recalls(f, Loaded', removeFuncs', farewell')
    BY <2>1, <2>2, <2>3 DEF Recalls, IsMap
  <2> QED BY <2>1, <2>2, <2>3, <2>4, QuietGoOn DEF IsGc, DeadPCs
<1>2. CASE InitReturns(t)
  <2> DEFINE f == [Top(t) EXCEPT !.pc = "init", !.k = @ + 1]
  <2>1. /\ stack[t] # <<>> /\ Top(t) \in Frame /\ Top(t).op = "dlopen"
        /\ Recalls(Top(t), Loaded, removeFuncs, farewell) /\ Top(t).pc = "inInit"
    BY <1>0, <1>2 DEF InitReturns, At
  <2>2. Top(t).k + 1 \in Nat
    BY <2>1 DEF Frame
  <2>3. /\ f \in Frame /\ f.op = Top(t).op /\ f.arg = Top(t).arg /\ f.set = Top(t).set
        /\ f.pc = "init"
    BY <2>1, <2>2 DEF Frame, PCs
  <2> HIDE DEF f
  <2>4. /\ SetTop(t, f) /\ Loaded' = Loaded
        /\ UNCHANGED <<mapped, never, refs, handles, removeFuncs, gcCount, farewell>>
    BY <1>2 DEF InitReturns, f, countVars, notifyVars, Loaded, IInv, TypeOK
  <2>5. Recalls(f, Loaded', removeFuncs', farewell')
    BY <2>1, <2>3, <2>4 DEF Recalls, IsMap
  <2> QED BY <2>1, <2>3, <2>4, <2>5, QuietGoOn DEF IsGc, DeadPCs
<1>3. CASE TerminatorReturns(t)
  <2> DEFINE f == [Top(t) EXCEPT !.pc = "terminate"]
  <2>1. /\ stack[t] # <<>> /\ Top(t) \in Frame /\ Top(t).op = "dlclose"
        /\ Recalls(Top(t), Loaded, removeFuncs, farewell) /\ Top(t).pc = "inTerm"
    BY <1>0, <1>3 DEF TerminatorReturns, At
  <2>2. /\ f \in Frame /\ f.op = Top(t).op /\ f.arg = Top(t).arg /\ f.set = Top(t).set
        /\ f.pc = "terminate" /\ f.todo = Top(t).todo
    BY <2>1 DEF Frame, PCs
  <2> HIDE DEF f
  <2>3. /\ SetTop(t, f) /\ Loaded' = Loaded
        /\ UNCHANGED <<mapped, never, refs, handles, removeFuncs, gcCount, farewell>>
    BY <1>3 DEF TerminatorReturns, Goto, f, imageVars, countVars, notifyVars, Loaded
  <2>4. Recalls(f, Loaded', removeFuncs', farewell')
    BY <2>1, <2>2, <2>3 DEF Recalls, IsMap, DeadPCs
  <2> QED BY <2>1, <2>2, <2>3, <2>4, QuietGoOn DEF IsGc, DeadPCs, GcPCs
<1>4. CASE RemoveNotifierReturns(t)
  <2> DEFINE f == [Top(t) EXCEPT !.pc = "removing"]
  <2>1. /\ stack[t] # <<>> /\ Top(t) \in Frame /\ Top(t).op = "dlclose"
        /\ Recalls(Top(t), Loaded, removeFuncs, farewell) /\ Top(t).pc = "inRemove"
    BY <1>0, <1>4 DEF RemoveNotifierReturns, At
  <2>2. /\ f \in Frame /\ f.op = Top(t).op /\ f.arg = Top(t).arg /\ f.set = Top(t).set
        /\ f.pc = "removing" /\ f.todo = Top(t).todo
    BY <2>1 DEF Frame, PCs
  <2> HIDE DEF f
  <2>3. /\ SetTop(t, f) /\ Loaded' = Loaded
        /\ UNCHANGED <<mapped, never, refs, handles, removeFuncs, gcCount, farewell>>
    BY <1>4 DEF RemoveNotifierReturns, Goto, f, imageVars, countVars, notifyVars, Loaded
  <2>4. Recalls(f, Loaded', removeFuncs', farewell')
    BY <2>1, <2>2, <2>3 DEF Recalls, IsMap, DeadPCs
  <2> QED BY <2>1, <2>2, <2>3, <2>4, QuietGoOn DEF IsGc, DeadPCs, GcPCs
<1>5. CASE RunImageCallbacks(t)
  <2> DEFINE f == [Top(t) EXCEPT !.pc = "telling", !.todo = loadFuncs \X Top(t).set]
  <2>1. /\ stack[t] # <<>> /\ Top(t) \in Frame /\ Top(t).op = "dlopen"
        /\ Recalls(Top(t), Loaded, removeFuncs, farewell) /\ Top(t).pc = "tell"
    BY <1>0, <1>5 DEF RunImageCallbacks, At
  <2>2. /\ f \in Frame /\ f.op = Top(t).op /\ f.arg = Top(t).arg /\ f.set = Top(t).set
        /\ f.pc = "telling"
    BY <2>1 DEF Frame, PCs, Callees, IInv, TypeOK
  <2> HIDE DEF f
  <2>3. /\ SetTop(t, f) /\ Loaded' = Loaded
        /\ UNCHANGED <<mapped, never, refs, handles, removeFuncs, gcCount, farewell>>
    BY <1>5 DEF RunImageCallbacks, f, imageVars, countVars, notifyVars, Loaded
  <2>4. Recalls(f, Loaded', removeFuncs', farewell')
    BY <2>1, <2>2, <2>3 DEF Recalls, IsMap
  <2> QED BY <2>1, <2>2, <2>3, <2>4, QuietGoOn DEF IsGc, DeadPCs
<1>6. CASE ImageCallbacksDone(t)
  <2> DEFINE f == [Top(t) EXCEPT !.pc = "init"]
  <2>1. /\ stack[t] # <<>> /\ Top(t) \in Frame /\ Top(t).op = "dlopen"
        /\ Recalls(Top(t), Loaded, removeFuncs, farewell) /\ Top(t).pc = "telling"
    BY <1>0, <1>6 DEF ImageCallbacksDone, At
  <2>2. /\ f \in Frame /\ f.op = Top(t).op /\ f.arg = Top(t).arg /\ f.set = Top(t).set
        /\ f.pc = "init"
    BY <2>1 DEF Frame, PCs
  <2> HIDE DEF f
  <2>3. /\ SetTop(t, f) /\ Loaded' = Loaded
        /\ UNCHANGED <<mapped, never, refs, handles, removeFuncs, gcCount, farewell>>
    BY <1>6 DEF ImageCallbacksDone, Goto, f, imageVars, countVars, notifyVars, Loaded
  <2>4. Recalls(f, Loaded', removeFuncs', farewell')
    BY <2>1, <2>2, <2>3 DEF Recalls, IsMap
  <2> QED BY <2>1, <2>2, <2>3, <2>4, QuietGoOn DEF IsGc, DeadPCs
<1>7. CASE StartInit(t)
  <2> DEFINE f == [Top(t) EXCEPT !.pc = "inInit"]
  <2>1. /\ stack[t] # <<>> /\ Top(t) \in Frame /\ Top(t).op = "dlopen"
        /\ Recalls(Top(t), Loaded, removeFuncs, farewell) /\ Top(t).pc = "init"
    BY <1>0, <1>7 DEF StartInit, AtInit, At
  <2>2. /\ f \in Frame /\ f.op = Top(t).op /\ f.arg = Top(t).arg /\ f.set = Top(t).set
        /\ f.pc = "inInit"
    BY <2>1 DEF Frame, PCs, UserPCs
  <2> HIDE DEF f
  <2>3. /\ SetTop(t, f) /\ Loaded' = Loaded
        /\ UNCHANGED <<mapped, never, refs, handles, removeFuncs, gcCount, farewell>>
    BY <1>7 DEF StartInit, Goto, f, countVars, notifyVars, Loaded, IInv, TypeOK
  <2>4. Recalls(f, Loaded', removeFuncs', farewell')
    BY <2>1, <2>2, <2>3 DEF Recalls, IsMap
  <2> QED BY <2>1, <2>2, <2>3, <2>4, QuietGoOn DEF IsGc, DeadPCs
<1>8. CASE SkipInit(t)
  <2> DEFINE f == [Top(t) EXCEPT !.k = @ + 1]
  <2>1. /\ stack[t] # <<>> /\ Top(t) \in Frame /\ Top(t).op = "dlopen"
        /\ Recalls(Top(t), Loaded, removeFuncs, farewell) /\ Top(t).pc = "init"
    BY <1>0, <1>8 DEF SkipInit, AtInit, At
  <2>2. Top(t).k + 1 \in Nat
    BY <2>1 DEF Frame
  <2>3. /\ f \in Frame /\ f.op = Top(t).op /\ f.arg = Top(t).arg /\ f.set = Top(t).set
        /\ f.pc = "init"
    BY <2>1, <2>2 DEF Frame
  <2> HIDE DEF f
  <2>4. /\ SetTop(t, f) /\ Loaded' = Loaded
        /\ UNCHANGED <<mapped, never, refs, handles, removeFuncs, gcCount, farewell>>
    BY <1>8 DEF SkipInit, f, imageVars, countVars, notifyVars, Loaded
  <2>5. Recalls(f, Loaded', removeFuncs', farewell')
    BY <2>1, <2>3, <2>4 DEF Recalls, IsMap
  <2> QED BY <2>1, <2>3, <2>4, <2>5, QuietGoOn DEF IsGc, DeadPCs
<1>9. CASE RunRemoveCallbacks(t)
  <2> DEFINE f == [Top(t) EXCEPT !.pc = "removing", !.todo = removeFuncs \X Top(t).set]
  <2>1. /\ stack[t] # <<>> /\ Top(t) \in Frame /\ Top(t).op = "dlclose" /\ Top(t).todo = {}
        /\ Recalls(Top(t), Loaded, removeFuncs, farewell) /\ Top(t).pc = "terminate"
    BY <1>0, <1>9 DEF RunRemoveCallbacks, At
  <2>2. /\ f \in Frame /\ f.op = Top(t).op /\ f.arg = Top(t).arg /\ f.set = Top(t).set
        /\ f.pc = "removing" /\ f.todo = removeFuncs \X Top(t).set
    <3>1. removeFuncs \X Top(t).set \in SUBSET (Callees \X Images)
      BY <2>1 DEF Frame, Callees, IInv, TypeOK
    <3> QED BY <2>1, <3>1 DEF Frame, PCs
  <2> HIDE DEF f
  <2>3. /\ SetTop(t, f) /\ Loaded' = Loaded
        /\ UNCHANGED <<mapped, never, refs, handles, removeFuncs, gcCount, farewell>>
    BY <1>9 DEF RunRemoveCallbacks, f, imageVars, countVars, notifyVars, Loaded
  <2>4. Recalls(f, Loaded', removeFuncs', farewell')
    BY <2>1, <2>2, <2>3 DEF Recalls, IsMap, DeadPCs
  <2> QED BY <2>1, <2>2, <2>3, <2>4, QuietGoOn DEF IsGc, DeadPCs, GcPCs
<1>10. CASE RemoveCallbacksDone(t)
  <2> DEFINE f == [Top(t) EXCEPT !.pc = "erase"]
  <2>1. /\ stack[t] # <<>> /\ Top(t) \in Frame /\ Top(t).op = "dlclose"
        /\ Recalls(Top(t), Loaded, removeFuncs, farewell) /\ Top(t).pc = "removing"
    BY <1>0, <1>10 DEF RemoveCallbacksDone, At
  <2>2. /\ f \in Frame /\ f.op = Top(t).op /\ f.arg = Top(t).arg /\ f.set = Top(t).set
        /\ f.pc = "erase"
    BY <2>1 DEF Frame, PCs
  <2> HIDE DEF f
  <2>3. /\ SetTop(t, f) /\ Loaded' = Loaded
        /\ UNCHANGED <<mapped, never, refs, handles, removeFuncs, gcCount, farewell>>
    BY <1>10 DEF RemoveCallbacksDone, Goto, f, imageVars, countVars, notifyVars, Loaded
  <2>4. Recalls(f, Loaded', removeFuncs', farewell')
    BY <2>1, <2>2, <2>3 DEF Recalls, IsMap, DeadPCs
  <2> QED BY <2>1, <2>2, <2>3, <2>4, QuietGoOn DEF IsGc, DeadPCs, GcPCs
<1>11. CASE AddLoadNotifierTold(t)
  <2> DEFINE f == [Top(t) EXCEPT !.pc = "append"]
  <2>1. /\ stack[t] # <<>> /\ Top(t) \in Frame /\ Top(t).op = "register"
        /\ Top(t).pc = "telling"
    BY <1>0, <1>11 DEF AddLoadNotifierTold, At
  <2>2. /\ f \in Frame /\ f.op = Top(t).op /\ f.arg = Top(t).arg /\ f.set = Top(t).set
        /\ f.pc = "append"
    BY <2>1 DEF Frame, PCs
  <2> HIDE DEF f
  <2>3. /\ SetTop(t, f) /\ Loaded' = Loaded
        /\ UNCHANGED <<mapped, never, refs, handles, removeFuncs, gcCount, farewell>>
    BY <1>11 DEF AddLoadNotifierTold, Goto, f, imageVars, countVars, notifyVars, Loaded
  <2>4. Recalls(f, Loaded', removeFuncs', farewell')
    BY <2>1, <2>2, <2>3 DEF Recalls, IsMap
  <2> QED BY <2>1, <2>2, <2>3, <2>4, QuietGoOn DEF IsGc, DeadPCs
<1>12. ASSUME NEW i \in Images, CallTerminator(t, i) PROVE CInv'
  <2> DEFINE f == [Top(t) EXCEPT !.pc = "inTerm", !.todo = @ \ {<<"terminator", i>>}]
  <2>1. /\ stack[t] # <<>> /\ Top(t) \in Frame /\ Top(t).op = "dlclose"
        /\ Recalls(Top(t), Loaded, removeFuncs, farewell) /\ Top(t).pc = "terminate"
    BY <1>0, <1>12 DEF CallTerminator, At
  <2>2. /\ f \in Frame /\ f.op = Top(t).op /\ f.arg = Top(t).arg /\ f.set = Top(t).set
        /\ f.pc = "inTerm" /\ f.todo = Top(t).todo \ {<<"terminator", i>>}
    BY <2>1 DEF Frame, PCs, UserPCs
  <2> HIDE DEF f
  <2>3. /\ SetTop(t, f) /\ Loaded' = Loaded
        /\ UNCHANGED <<mapped, never, refs, handles, removeFuncs, gcCount>>
    BY <1>12 DEF CallTerminator, f, imageVars, countVars, Loaded
  <2>4. \A j \in Images : farewell[j] \subseteq farewell'[j] /\ (j = i => "terminator" \in farewell'[j])
    <3>1. farewell' = [farewell EXCEPT ![i] = @ \cup {"terminator"}]
      BY <1>12 DEF CallTerminator
    <3>2. farewell \in [Images -> SUBSET Callees]
      BY DEF IInv, TypeOK
    <3> QED BY <3>1, <3>2
  <2>5. Recalls(f, Loaded', removeFuncs', farewell')
    <3>1. \A j \in f.set : <<"terminator", j>> \in f.todo \/ "terminator" \in farewell'[j]
      <4> SUFFICES ASSUME NEW j \in f.set
                   PROVE  <<"terminator", j>> \in f.todo \/ "terminator" \in farewell'[j]
        OBVIOUS
      <4>1. j \in Images
        BY <2>2 DEF Frame
      <4>2. <<"terminator", j>> \in Top(t).todo \/ "terminator" \in farewell[j]
        BY <2>1, <2>2 DEF Recalls
      <4> QED BY <2>2, <2>4, <4>1, <4>2
    <3> QED BY <2>1, <2>2, <2>3, <3>1 DEF Recalls, IsMap, DeadPCs
  <2> QED BY <2>1, <2>2, <2>3, <2>4, <2>5, QuietGoOn DEF IsGc, DeadPCs, GcPCs
<1>13. ASSUME NEW g \in Funcs, NEW i \in Images, CallAddNotifier(t, g, i) PROVE CInv'
  <2> DEFINE f == [Top(t) EXCEPT !.pc = "inAdd", !.todo = @ \ {<<g, i>>}]
  <2>1. /\ stack[t] # <<>> /\ Top(t) \in Frame /\ FrameShape(Top(t))
        /\ Recalls(Top(t), Loaded, removeFuncs, farewell) /\ Top(t).pc = "telling"
    BY <1>0, <1>13 DEF CallAddNotifier
  <2>2. /\ f \in Frame /\ f.op = Top(t).op /\ f.arg = Top(t).arg /\ f.set = Top(t).set
        /\ f.pc = "inAdd" /\ Top(t).op # "dlclose"
    BY <2>1 DEF Frame, PCs, UserPCs, FrameShape, GcPCs
  <2> HIDE DEF f
  <2>3. /\ SetTop(t, f) /\ Loaded' = Loaded
        /\ UNCHANGED <<mapped, never, refs, handles, removeFuncs, gcCount, farewell>>
    BY <1>13 DEF CallAddNotifier, f, imageVars, countVars, Loaded
  <2>4. Recalls(f, Loaded', removeFuncs', farewell')
    BY <2>1, <2>2, <2>3 DEF Recalls, IsMap
  <2> QED BY <2>1, <2>2, <2>3, <2>4, QuietGoOn DEF IsGc, DeadPCs
<1>14. ASSUME NEW g \in Funcs, NEW i \in Images, CallRemoveNotifier(t, g, i) PROVE CInv'
  <2> DEFINE f == [Top(t) EXCEPT !.pc = "inRemove", !.todo = @ \ {<<g, i>>}]
  <2>1. /\ stack[t] # <<>> /\ Top(t) \in Frame /\ Top(t).op = "dlclose"
        /\ Recalls(Top(t), Loaded, removeFuncs, farewell) /\ Top(t).pc = "removing"
    BY <1>0, <1>14 DEF CallRemoveNotifier, At
  <2>2. /\ f \in Frame /\ f.op = Top(t).op /\ f.arg = Top(t).arg /\ f.set = Top(t).set
        /\ f.pc = "inRemove" /\ f.todo = Top(t).todo \ {<<g, i>>}
    BY <2>1 DEF Frame, PCs, UserPCs
  <2> HIDE DEF f
  <2>3. /\ SetTop(t, f) /\ Loaded' = Loaded
        /\ UNCHANGED <<mapped, never, refs, handles, removeFuncs, gcCount>>
    BY <1>14 DEF CallRemoveNotifier, f, imageVars, countVars, Loaded
  <2>4. \A j \in Images : farewell[j] \subseteq farewell'[j] /\ (j = i => g \in farewell'[j])
    <3>1. farewell' = [farewell EXCEPT ![i] = @ \cup {g}]
      BY <1>14 DEF CallRemoveNotifier
    <3>2. farewell \in [Images -> SUBSET Callees]
      BY DEF IInv, TypeOK
    <3> QED BY <3>1, <3>2
  <2>5. Recalls(f, Loaded', removeFuncs', farewell')
    <3>1. \A j \in f.set : "terminator" \in farewell'[j]
      BY <2>1, <2>2, <2>4 DEF Recalls, Frame
    <3>2. \A j \in f.set, h \in removeFuncs : <<h, j>> \in f.todo \/ h \in farewell'[j]
      <4> SUFFICES ASSUME NEW j \in f.set, NEW h \in removeFuncs
                   PROVE  <<h, j>> \in f.todo \/ h \in farewell'[j]
        OBVIOUS
      <4>1. j \in Images
        BY <2>2 DEF Frame
      <4>2. <<h, j>> \in Top(t).todo \/ h \in farewell[j]
        BY <2>1, <2>2 DEF Recalls
      <4> QED BY <2>2, <2>4, <4>1, <4>2
    <3>3. \A x \in f.todo : x[2] \in f.set
      BY <2>1, <2>2 DEF Recalls
    <3>4. f.set \cap InCache = {}
      BY <2>1, <2>2 DEF Recalls, DeadPCs
    <3> QED BY <2>1, <2>2, <2>3, <3>1, <3>2, <3>3, <3>4 DEF Recalls, IsMap
  <2> QED BY <2>1, <2>2, <2>3, <2>4, <2>5, QuietGoOn DEF IsGc, DeadPCs, GcPCs
<1> QED BY <1>1, <1>2, <1>3, <1>4, <1>5, <1>6, <1>7, <1>8, <1>9, <1>10, <1>11, <1>12, <1>13, <1>14
        DEF UserReturns

\* A step that changes no stack is a step at place 0, where there is no call.
LEMMA NoPlace ==
    ASSUME Stacks, NEW t \in Threads, stack' = stack
    PROVE  Elsewhere(t, 0) /\ 0 \in Nat /\ 0 \notin DOMAIN stack[t] /\ 0 \notin DOMAIN stack'[t]
  BY DEF Stacks, Elsewhere

\* A step that changes no stack, no image and no count.
LEMMA Untouched ==
    ASSUME CInv, stack' = stack, Loaded' = Loaded,
           UNCHANGED <<mapped, never, gcCount, refs, handles>>
    PROVE  References' /\ Counted' /\ Mappings' /\ Garbage'
<1>1. References'
  <2>1. \A i \in Images : Owing(i)' = Owing(i)
    BY DEF Owing, Owes
  <2> QED BY <2>1 DEF CInv, References
<1>2. Counted'
  BY DEF CInv, Counted, IsGc
<1>3. Mappings'
  BY DEF CInv, Mappings, InPassing, Passing, IsMap
<1>4. Garbage'
  <2>1. \A i \in Images : Needed(i) => Needed(i)'
    BY DEF Needed, Closure, Reach
  <2>2. \A i \in Images : Doomed(i) => Doomed(i)'
    BY DEF Doomed, WillSee, IsGc
  <2>3. Loaded \subseteq Images
    BY DEF Loaded
  <2> QED BY <2>1, <2>2, <2>3 DEF CInv, Garbage
<1> QED BY <1>1, <1>2, <1>3, <1>4

\* User code calls dyld.
LEMMA CallSteps ==
    ASSUME TerminatorsDoNotOpen, IInv, TypeOK', CInv, NEW t \in Threads, UserCall(t)
    PROVE  CInv'
<1> USE ImagesAssumption, CallsAssumption
<1>0. TypeOK /\ Stacks /\ Len(stack[t]) + 1 \in Nat
  BY DEF IInv, TypeOK, Stacks
<1>1. ASSUME NEW i \in Images, DlopenCached(t, i) PROVE CInv'
  <2>1. /\ stack' = stack /\ Loaded' = Loaded /\ i \in InCache
        /\ UNCHANGED <<mapped, never, removeFuncs, gcCount, farewell, refs>>
        /\ handles' = [handles EXCEPT ![i] = @ + 1]
    BY <1>1 DEF DlopenCached, imageVars, notifyVars, Loaded
  <2>2. \A j \in Images \ InCache :
            refs'[j] + handles[j] + Bit(Owed(stack[t], 0, j)) >=
            refs[j] + handles'[j] + Bit(Owed(stack'[t], 0, j))
    BY <1>0, <2>1 DEF TypeOK, Bit, Owed
  <2> QED BY <1>0, <2>1, <2>2, NoPlace, Quiet
<1>2. ASSUME NEW i \in Images, Dlclose(t, i) PROVE CInv'
  <2> DEFINE f == NewFrame("dlclose", "find", i, {})
             l == Len(stack[t]) + 1
  <2>1. f \in Frame /\ f.op = "dlclose" /\ f.pc = "find" /\ f.arg = i
    BY DEF NewFrame, Frame, PCs, APIs
  <2> HIDE DEF f
  <2>2. /\ Push(t, f) /\ Loaded' = Loaded /\ handles[i] > 0
        /\ UNCHANGED <<mapped, never, removeFuncs, gcCount, farewell, refs>>
        /\ handles' = [handles EXCEPT ![i] = @ - 1]
    BY <1>2 DEF Dlclose, f, imageVars, notifyVars, Loaded
  <2>3. /\ Elsewhere(t, l) /\ l \in Nat /\ l \notin DOMAIN stack[t] /\ l \in DOMAIN stack'[t]
        /\ stack'[t][l] = f
    BY <1>0, <2>1, <2>2, Places
  <2> HIDE DEF l
  <2>4. \A j \in Images \ InCache :
            refs'[j] + handles[j] + Bit(Owed(stack[t], l, j)) >=
            refs[j] + handles'[j] + Bit(Owed(stack'[t], l, j))
    <3> SUFFICES ASSUME NEW j \in Images
                 PROVE  refs'[j] + handles[j] + Bit(Owed(stack[t], l, j)) >=
                        refs[j] + handles'[j] + Bit(Owed(stack'[t], l, j))
      OBVIOUS
    <3>1. ~Owed(stack[t], l, j) /\ (Owed(stack'[t], l, j) <=> j = i)
      BY <2>1, <2>3 DEF Owed, Owes
    <3>2. /\ refs[j] \in Nat /\ handles[j] \in Nat /\ refs'[j] = refs[j]
          /\ handles'[j] = IF j = i THEN handles[j] - 1 ELSE handles[j]
      BY <1>0, <2>2 DEF TypeOK
    <3> QED BY <3>1, <3>2 DEF Bit
  <2>5. Recalls(f, Loaded', removeFuncs', farewell')
    BY <2>1 DEF Recalls, IsMap, DeadPCs
  <2> QED BY <1>0, <2>2, <2>3, <2>4, <2>5, Quiet
<1>3. ASSUME NEW i \in Images, NEW mode \in Modes, DlopenLoaded(t, i, mode) PROVE CInv'
  <2> DEFINE f == NewFrame("dlopen", "init", i, {})
  <2>1. /\ Loaded' = Loaded /\ i \notin InCache
        /\ UNCHANGED <<mapped, never, removeFuncs, gcCount, farewell>>
        /\ refs' = [refs EXCEPT ![i] = @ + 1]
        /\ \/ stack' = stack /\ handles' = [handles EXCEPT ![i] = @ + 1]
           \/ Push(t, f) /\ handles' = handles
    BY <1>3 DEF DlopenLoaded, notifyVars, Loaded
  <2>2. f \in Frame /\ f.op = "dlopen" /\ f.pc = "init" /\ f.arg = i
    BY DEF NewFrame, Frame, PCs, APIs
  <2> HIDE DEF f
  <2>3. \A j \in Images : refs[j] > 0 => refs'[j] > 0
    BY <1>0, <2>1 DEF TypeOK
  <2>4. CASE stack' = stack /\ handles' = [handles EXCEPT ![i] = @ + 1]
    <3>1. \A j \in Images \ InCache :
              refs'[j] + handles[j] + Bit(Owed(stack[t], 0, j)) >=
              refs[j] + handles'[j] + Bit(Owed(stack'[t], 0, j))
      BY <1>0, <2>1, <2>4 DEF TypeOK, Bit, Owed
    <3> QED BY <1>0, <2>1, <2>3, <2>4, <3>1, NoPlace, Quiet
  <2>5. CASE Push(t, f) /\ handles' = handles
    <3> DEFINE l == Len(stack[t]) + 1
    <3>1. /\ Elsewhere(t, l) /\ l \in Nat /\ l \notin DOMAIN stack[t] /\ l \in DOMAIN stack'[t]
          /\ stack'[t][l] = f
      BY <1>0, <2>2, <2>5, Places
    <3> HIDE DEF l
    <3>2. \A j \in Images \ InCache :
              refs'[j] + handles[j] + Bit(Owed(stack[t], l, j)) >=
              refs[j] + handles'[j] + Bit(Owed(stack'[t], l, j))
      <4> SUFFICES ASSUME NEW j \in Images
                   PROVE  refs'[j] + handles[j] + Bit(Owed(stack[t], l, j)) >=
                          refs[j] + handles'[j] + Bit(Owed(stack'[t], l, j))
        OBVIOUS
      <4>1. ~Owed(stack[t], l, j) /\ (Owed(stack'[t], l, j) <=> j = i)
        BY <2>2, <3>1 DEF Owed, Owes
      <4>2. /\ refs[j] \in Nat /\ handles[j] \in Nat /\ handles'[j] = handles[j]
            /\ refs'[j] = IF j = i THEN refs[j] + 1 ELSE refs[j]
        BY <1>0, <2>1, <2>5 DEF TypeOK
      <4> QED BY <4>1, <4>2 DEF Bit
    <3>3. Recalls(f, Loaded', removeFuncs', farewell')
      BY <2>1, <2>2 DEF Recalls, IsMap
    <3> QED BY <1>0, <2>1, <2>3, <3>1, <3>2, <3>3, Quiet
  <2> QED BY <2>1, <2>4, <2>5
<1>4. ASSUME NEW i \in Images, NEW mode \in Modes, DlopenNew(t, i, mode) PROVE CInv'
  <2> DEFINE new == Closure(i) \ Loaded
             f == NewFrame("dlopen", "map", i, new)
             l == Len(stack[t]) + 1
  <2>1. new \subseteq Images
    BY DEF Closure, Reach
  <2>2. /\ f \in Frame /\ f.op = "dlopen" /\ f.pc = "map" /\ f.arg = i /\ f.set = new
        /\ f.set \subseteq Closure(f.arg)
    BY <2>1 DEF NewFrame, Frame, PCs, APIs
  <2>3. /\ Push(t, f) /\ Loaded' = Loaded /\ mapped' = mapped \cup new
        /\ UNCHANGED <<removeFuncs, gcCount, farewell, refs, handles>>
        /\ never \subseteq never'
    BY <1>4 DEF DlopenNew, notifyVars, countVars, Loaded
  <2> HIDE DEF new, f
  <2>4. /\ Elsewhere(t, l) /\ l \in Nat /\ l \notin DOMAIN stack[t] /\ l \in DOMAIN stack'[t]
        /\ stack'[t][l] = f
    BY <1>0, <2>2, <2>3, Places
  <2> HIDE DEF l
  <2>5. \A j \in Images \ InCache :
            refs'[j] + handles[j] + Bit(Owed(stack[t], l, j)) >=
            refs[j] + handles'[j] + Bit(Owed(stack'[t], l, j))
    BY <1>0, <2>2, <2>3, <2>4 DEF TypeOK, Bit, Owed, Owes
  <2>6. Recalls(f, Loaded', removeFuncs', farewell')
    BY <2>2 DEF Recalls, IsMap
  <2>7. References' /\ Memories' /\ Counted'
    BY <1>0, <2>3, <2>4, <2>5, <2>6, ReferencesKept, MemoriesKept, Remembered, CountedKept DEF CInv
  <2>8. Garbage'
    <3>1. gcCount' >= gcCount
      BY <1>0, <2>3 DEF TypeOK
    <3> QED BY <1>0, <2>3, <2>4, <3>1, GarbageKept DEF CInv
  <2>9. Mappings'
    <3>1. ASSUME NEW j \in mapped', j \notin Loaded' \cup InCache
          PROVE  InPassing(j)'
      <4>1. CASE j \in new
        BY <2>2, <2>4, <4>1 DEF InPassing, Passing, IsMap
      <4>2. CASE j \notin new
        <5>1. InPassing(j)
          BY <2>3, <3>1, <4>2 DEF CInv, Mappings
        <5> QED BY <1>0, <2>4, <5>1, PassingKept
      <4> QED BY <4>1, <4>2
    <3> QED BY <2>3, <3>1 DEF CInv, Mappings
  <2> QED BY <2>7, <2>8, <2>9 DEF CInv
<1>5. ASSUME NEW g \in Funcs, AddLoadNotifier(t, g) PROVE CInv'
  <2> DEFINE f == [NewFrame("register", "telling", g, {}) EXCEPT !.todo = {g} \X Loaded]
             l == Len(stack[t]) + 1
  <2>1. f \in Frame /\ f.op = "register"
    BY DEF NewFrame, Frame, PCs, APIs, Callees, Loaded
  <2> HIDE DEF f
  <2>2. /\ Push(t, f) /\ Loaded' = Loaded
        /\ UNCHANGED <<mapped, never, removeFuncs, gcCount, farewell, refs, handles>>
    BY <1>5 DEF AddLoadNotifier, f, imageVars, countVars, notifyVars, Loaded
  <2>3. /\ Elsewhere(t, l) /\ l \in Nat /\ l \notin DOMAIN stack[t] /\ l \in DOMAIN stack'[t]
        /\ stack'[t][l] = f
    BY <1>0, <2>1, <2>2, Places
  <2> HIDE DEF l
  <2>4. \A j \in Images \ InCache :
            refs'[j] + handles[j] + Bit(Owed(stack[t], l, j)) >=
            refs[j] + handles'[j] + Bit(Owed(stack'[t], l, j))
    BY <1>0, <2>1, <2>2, <2>3 DEF TypeOK, Bit, Owed, Owes
  <2>5. Recalls(f, Loaded', removeFuncs', farewell')
    BY <2>1 DEF Recalls, IsMap
  <2> QED BY <1>0, <2>2, <2>3, <2>4, <2>5, Quiet
<1>6. ASSUME NEW g \in Funcs, AddUnloadNotifier(t, g) PROVE CInv'
  <2>1. /\ stack' = stack /\ Loaded' = Loaded /\ stack[t] = <<>> /\ GlobalLockFree(t)
        /\ UNCHANGED <<mapped, never, gcCount, farewell, refs, handles>>
    BY <1>6 DEF AddUnloadNotifier, imageVars, countVars, Loaded
  <2>2. \A u \in Threads : \A n \in DOMAIN stack[u] : stack[u][n].pc \notin {"removing", "inRemove"}
    BY <2>1 DEF GlobalLockFree, HoldsGlobalLock, LockedPCs
  <2>3. Memories'
    BY <2>1, <2>2 DEF CInv, Memories, Recalls
  <2>4. References' /\ Counted' /\ Mappings' /\ Garbage'
    BY <2>1, Untouched
  <2> QED BY <2>3, <2>4 DEF CInv
<1> QED BY <1>1, <1>2, <1>3, <1>4, <1>5, <1>6 DEF UserCall

\* Where a step of the innermost call takes place, and what that call remembers.
LEMMA AtTop ==
    ASSUME IInv, CInv, NEW t \in Threads, stack[t] # <<>>
    PROVE  /\ TypeOK /\ Stacks /\ Len(stack[t]) \in Nat /\ Len(stack[t]) \in DOMAIN stack[t]
           /\ stack[t][Len(stack[t])] = Top(t) /\ Top(t) \in Frame /\ FrameShape(Top(t))
           /\ Recalls(Top(t), Loaded, removeFuncs, farewell)
           /\ FrameOK(Top(t), Loaded, mapped, never, refs)
           /\ Pop(t) => Elsewhere(t, Len(stack[t])) /\ Len(stack[t]) \notin DOMAIN stack'[t]
           /\ \A f \in Frame : SetTop(t, f) =>
                 /\ Elsewhere(t, Len(stack[t])) /\ Len(stack[t]) \in DOMAIN stack'[t]
                 /\ stack'[t][Len(stack[t])] = f
<1>1. TypeOK /\ Top(t) \in Frame /\ FrameShape(Top(t)) /\ Stacks
      /\ FrameOK(Top(t), Loaded, mapped, never, refs)
  BY TopOK DEF IInv
<1>2. /\ Len(stack[t]) \in Nat /\ Len(stack[t]) \in DOMAIN stack[t]
      /\ stack[t][Len(stack[t])] = Top(t)
  BY <1>1, Places
<1>3. Recalls(Top(t), Loaded, removeFuncs, farewell)
  BY <1>2 DEF CInv, Memories, Top
<1> QED BY <1>1, <1>2, <1>3, Places

\* The load fails: what was mapped for it is unmapped.
LEMMA LoadFailsStep ==
    ASSUME IInv, TypeOK', CInv, NEW t \in Threads, LoadFails(t)
    PROVE  CInv'
<1> DEFINE new == Top(t).set
           l == Len(stack[t])
<1>0. stack[t] # <<>> /\ Top(t).op = "dlopen" /\ Top(t).pc = "map" /\ Pop(t)
  BY DEF LoadFails, At
<1>1. /\ TypeOK /\ l \in Nat /\ l \in DOMAIN stack[t] /\ stack[t][l] = Top(t)
      /\ Elsewhere(t, l) /\ l \notin DOMAIN stack'[t]
      /\ new \cap Loaded = {}
  BY <1>0, AtTop DEF FrameOK, NewOK, IsMap
<1>2. /\ Loaded' = Loaded /\ UNCHANGED <<refs, handles, removeFuncs, farewell, gcCount>>
      /\ mapped' = mapped \ (new \ InCache) /\ never' = never \ new
  BY DEF LoadFails, countVars, notifyVars, Loaded
<1> HIDE DEF new, l
<1>3. References' /\ Memories' /\ Counted'
  <2>1. \A j \in Images \ InCache :
            refs'[j] + handles[j] + Bit(Owed(stack[t], l, j)) >=
            refs[j] + handles'[j] + Bit(Owed(stack'[t], l, j))
    BY <1>0, <1>1, <1>2 DEF TypeOK, Bit, Owed, Owes
  <2>2. ~IsGc(stack[t][l])
    BY <1>0, <1>1 DEF IsGc
  <2> QED BY <1>1, <1>2, <2>1, <2>2, ReferencesKept, MemoriesKept, Remembered, CountedKept DEF CInv
<1>4. Garbage'
  <2>1. \A i \in Images : ~WillSee(stack[t][l], gcCount, i)
    BY <1>0, <1>1 DEF WillSee, IsGc
  <2>2. gcCount' >= gcCount /\ Loaded \cap never \subseteq never'
    BY <1>1, <1>2 DEF TypeOK
  <2> QED BY <1>1, <1>2, <2>1, <2>2, GarbageKept DEF CInv
<1>5. Mappings'
  <2>1. ASSUME NEW j \in mapped', j \notin Loaded' \cup InCache
        PROVE  InPassing(j)'
    <3>1. j \notin stack[t][l].set /\ InPassing(j)
      BY <1>1, <1>2, <2>1 DEF CInv, Mappings, new
    <3> QED BY <1>1, <3>1, PassingKept
  <2> QED BY <1>2, <2>1 DEF CInv, Mappings
<1> QED BY <1>3, <1>4, <1>5 DEF CInv

\* newImages are appended: the image that was asked for, which has a reference, needs
\* them all; and what a cached image needs is in the cache too.
LEMMA AddImagesStep ==
    ASSUME IInv, TypeOK', CInv, NEW t \in Threads, AddImages(t)
    PROVE  CInv'
<1> USE ImagesAssumption
<1> DEFINE new == Top(t).set
           top == Top(t).arg
           f == [Top(t) EXCEPT !.pc = "tell"]
           l == Len(stack[t])
<1>0. stack[t] # <<>> /\ Top(t).op = "dlopen" /\ Top(t).pc = "map"
  BY DEF AddImages, At
<1>1. /\ TypeOK /\ l \in Nat /\ l \in DOMAIN stack[t] /\ stack[t][l] = Top(t)
      /\ Top(t) \in Frame /\ top \in Images /\ new \subseteq Images
      /\ top \in new /\ new \cap Fixed \subseteq never /\ new \subseteq Closure(top)
  BY <1>0, AtTop DEF FrameOK, NewOK, IsMap, Recalls, FrameShape, Frame
<1>2. f \in Frame /\ f.op = "dlopen" /\ f.pc = "tell" /\ f.arg = top
  BY <1>0, <1>1 DEF Frame, PCs
<1> HIDE DEF f
<1>3. /\ SetTop(t, f) /\ UNCHANGED <<mapped, never, handles, removeFuncs, farewell, gcCount>>
      /\ refs' = IF top \in InCache THEN refs ELSE [refs EXCEPT ![top] = @ + 1]
  BY DEF AddImages, Goto, f, notifyVars
<1>4. Loaded' = Loaded \cup new
  BY <1>1 DEF AddImages, Loaded, TypeOK
<1>5. Elsewhere(t, l) /\ l \in DOMAIN stack'[t] /\ stack'[t][l] = f
  BY <1>0, <1>2, <1>3, AtTop
<1> HIDE DEF new, top, l
<1>6. \A j \in Images : /\ refs[j] \in Nat /\ handles[j] \in Nat
                        /\ refs'[j] = IF j = top /\ j \notin InCache THEN refs[j] + 1 ELSE refs[j]
  BY <1>1, <1>3 DEF TypeOK
<1>7. References'
  <2>1. \A j \in Images \ InCache :
            refs'[j] + handles[j] + Bit(Owed(stack[t], l, j)) >=
            refs[j] + handles'[j] + Bit(Owed(stack'[t], l, j))
    <3> SUFFICES ASSUME NEW j \in Images \ InCache
                 PROVE  refs'[j] + handles[j] + Bit(Owed(stack[t], l, j)) >=
                        refs[j] + handles'[j] + Bit(Owed(stack'[t], l, j))
      OBVIOUS
    <3>1. ~Owed(stack[t], l, j) /\ (Owed(stack'[t], l, j) <=> j = top)
      BY <1>0, <1>1, <1>2, <1>5 DEF Owed, Owes
    <3> QED BY <1>3, <1>6, <3>1 DEF Bit
  <2> QED BY <1>1, <1>5, <2>1, ReferencesKept DEF CInv
<1>8. Memories'
  <2>1. Recalls(f, Loaded', removeFuncs', farewell')
    BY <1>1, <1>2, <1>4 DEF Recalls, IsMap
  <2> QED BY <1>1, <1>3, <1>4, <1>5, <2>1, MemoriesKept, Remembered DEF CInv
<1>9. Counted'
  <2>1. ~IsGc(stack[t][l])
    BY <1>0, <1>1 DEF IsGc
  <2> QED BY <1>1, <1>3, <1>5, <2>1, CountedKept DEF CInv
<1>10. Mappings'
  <2>1. ASSUME NEW j \in mapped', j \notin Loaded' \cup InCache
        PROVE  InPassing(j)'
    <3>1. j \notin stack[t][l].set /\ InPassing(j)
      BY <1>1, <1>3, <1>4, <2>1 DEF CInv, Mappings, new
    <3> QED BY <1>1, <1>5, <3>1, PassingKept
  <2> QED BY <1>3, <2>1 DEF CInv, Mappings
<1>11. Garbage'
  <2> SUFFICES ASSUME NEW i \in Loaded', i \notin never' PROVE Needed(i)' \/ Doomed(i)'
    BY DEF Garbage
  <2>0. \A j \in Images : Closure(j)' = Closure(j)
    BY DEF Closure, Reach
  <2>1. CASE i \in new
    <3>1. top \notin InCache
      <4>1. ASSUME top \in InCache PROVE FALSE
        <5>1. Closure(top) \subseteq InCache
          BY <4>1, ReachWithin DEF Closure
        <5> QED BY <1>1, <1>3, <2>1, <5>1 DEF Fixed
      <4> QED BY <4>1
    <3>2. refs'[top] > 0
      BY <1>1, <1>6, <3>1
    <3>3. PICK j \in Images : j = top
      BY <1>1
    <3>4. j \in Loaded' /\ i \in Closure(j)' /\ refs'[j] > 0
      BY <1>1, <1>4, <2>0, <2>1, <3>2, <3>3
    <3> QED BY <3>4 DEF Needed
  <2>2. CASE i \in Loaded /\ Needed(i)
    <3>1. PICK j \in Loaded : i \in Closure(j) /\ (refs[j] > 0 \/ j \in never)
      BY <2>2 DEF Needed
    <3>2. j \in Images
      BY DEF Loaded
    <3>3. j \in Loaded' /\ i \in Closure(j)' /\ (refs'[j] > 0 \/ j \in never')
      BY <1>3, <1>4, <1>6, <2>0, <3>1, <3>2
    <3> QED BY <3>3 DEF Needed
  <2>3. CASE Doomed(i)
    <3>1. ~WillSee(stack[t][l], gcCount, i) /\ gcCount' >= gcCount
      BY <1>0, <1>1, <1>3 DEF WillSee, IsGc, TypeOK
    <3> QED BY <1>1, <1>5, <2>3, <3>1, DoomedKept
  <2> QED BY <1>3, <1>4, <2>1, <2>2, <2>3 DEF CInv, Garbage
<1> QED BY <1>7, <1>8, <1>9, <1>10, <1>11 DEF CInv

\* dlopen() returns: the handle stands for the reference from now on; or the registration
\* of a function ends.
LEMMA ReturnStep ==
    ASSUME IInv, TypeOK', CInv, NEW t \in Threads, DlopenReturns(t) \/ AppendLoadNotifier(t)
    PROVE  CInv'
<1> DEFINE top == Top(t).arg
           l == Len(stack[t])
<1>0. /\ stack[t] # <<>> /\ Pop(t)
      /\ \/ Top(t).op = "dlopen" /\ Top(t).pc = "init"
         \/ Top(t).op = "register" /\ handles' = handles
      /\ Loaded' = Loaded /\ UNCHANGED <<mapped, never, refs, removeFuncs, farewell, gcCount>>
  BY DEF DlopenReturns, AppendLoadNotifier, At, Loaded, imageVars, countVars, notifyVars
<1>1. /\ TypeOK /\ l \in Nat /\ l \in DOMAIN stack[t] /\ stack[t][l] = Top(t)
      /\ Elsewhere(t, l) /\ l \notin DOMAIN stack'[t]
      /\ Top(t).op = "dlopen" => top \in Images
  BY <1>0, AtTop DEF FrameShape
<1>2. \/ Top(t).op = "dlopen" /\ handles' = [handles EXCEPT ![top] = @ + 1]
      \/ handles' = handles
  BY DEF DlopenReturns, AppendLoadNotifier, At, countVars
<1> HIDE DEF top, l
<1>3. \A j \in Images \ InCache :
          refs'[j] + handles[j] + Bit(Owed(stack[t], l, j)) >=
          refs[j] + handles'[j] + Bit(Owed(stack'[t], l, j))
  <2> SUFFICES ASSUME NEW j \in Images
               PROVE  refs'[j] + handles[j] + Bit(Owed(stack[t], l, j)) >=
                      refs[j] + handles'[j] + Bit(Owed(stack'[t], l, j))
    OBVIOUS
  <2>1. ~Owed(stack'[t], l, j) /\ (Top(t).op = "dlopen" /\ j = top => Owed(stack[t], l, j))
    BY <1>0, <1>1 DEF Owed, Owes, top
  <2>2. /\ refs[j] \in Nat /\ handles[j] \in Nat /\ refs'[j] = refs[j]
        /\ \/ handles'[j] = handles[j]
           \/ handles'[j] = handles[j] + 1 /\ Top(t).op = "dlopen" /\ j = top
    BY <1>0, <1>1, <1>2 DEF TypeOK
  <2> QED BY <2>1, <2>2 DEF Bit
<1>4. ~Passing(stack[t][l]) /\ ~IsGc(stack[t][l])
  BY <1>0, <1>1 DEF Passing, IsMap, IsGc
<1> QED BY <1>0, <1>1, <1>3, <1>4, Quiet

\* A reference goes.  With the last one a collection starts, or one that is in progress
\* will be followed by another.
LEMMA DecRefCountStep ==
    ASSUME IInv, TypeOK', CInv, NEW t \in Threads, DecRefCount(t)
    PROVE  CInv'
<1> DEFINE top == Top(t).arg
           f == [Top(t) EXCEPT !.pc = "mark"]
           l == Len(stack[t])
<1>0. stack[t] # <<>> /\ Top(t).op = "dlclose" /\ Top(t).pc = "find"
  BY DEF DecRefCount, At
<1>1. /\ TypeOK /\ l \in Nat /\ l \in DOMAIN stack[t] /\ stack[t][l] = Top(t)
      /\ Top(t) \in Frame /\ top \in Images
  BY <1>0, AtTop DEF FrameShape
<1>2. f \in Frame /\ f.op = "dlclose" /\ f.pc = "mark"
  BY <1>0, <1>1 DEF Frame, PCs
<1> HIDE DEF f
<1>3. /\ Loaded' = Loaded /\ UNCHANGED <<mapped, never, handles, removeFuncs, farewell>>
      /\ Pop(t) \/ SetTop(t, f)
  BY DEF DecRefCount, Goto, f, imageVars, notifyVars, Loaded
<1>4. /\ Elsewhere(t, l) 
      /\ l \in DOMAIN stack'[t] => stack'[t][l] = f
      /\ SetTop(t, f) => l \in DOMAIN stack'[t]
  BY <1>0, <1>2, <1>3, AtTop
<1>5. \A j \in Images :
          /\ refs[j] \in Nat /\ handles[j] \in Nat
          /\ refs'[j] = refs[j] \/ (j = top /\ refs'[j] = refs[j] - 1)
  BY <1>1 DEF DecRefCount, TypeOK
<1>6. /\ gcCount \in Nat /\ gcCount' \in Nat
      /\ gcCount' = gcCount \/ (gcCount >= 1 /\ gcCount' >= 2) \/ SetTop(t, f)
      /\ gcCount' >= gcCount
      /\ refs[top] > 0 /\ ~(refs'[top] > 0) => SetTop(t, f) \/ (gcCount >= 1 /\ gcCount' >= 2)
  <2>1. gcCount \in Nat /\ refs[top] \in Nat
    BY <1>1 DEF TypeOK
  <2>2. \/ /\ refs' = [refs EXCEPT ![top] = @ - 1] /\ refs[top] = 1
           /\ gcCount' = gcCount + 1 /\ (gcCount = 0 => SetTop(t, f))
        \/ refs' = [refs EXCEPT ![top] = @ - 1] /\ refs[top] > 1 /\ gcCount' = gcCount
        \/ refs' = refs /\ gcCount' = gcCount
    BY <2>1 DEF DecRefCount, Goto, f
  <2>3. refs'[top] = refs[top] - 1 \/ refs' = refs
    BY <1>1, <2>2 DEF TypeOK
  <2>4. refs[top] > 1 /\ refs' = [refs EXCEPT ![top] = @ - 1] => refs'[top] > 0
    BY <1>1, <2>1 DEF TypeOK
  <2> QED BY <2>1, <2>2, <2>3, <2>4
<1> HIDE DEF top, l
<1>7. References'
  <2>1. \A j \in Images \ InCache :
            refs'[j] + handles[j] + Bit(Owed(stack[t], l, j)) >=
            refs[j] + handles'[j] + Bit(Owed(stack'[t], l, j))
    <3> SUFFICES ASSUME NEW j \in Images
                 PROVE  refs'[j] + handles[j] + Bit(Owed(stack[t], l, j)) >=
                        refs[j] + handles'[j] + Bit(Owed(stack'[t], l, j))
      OBVIOUS
    <3>1. ~Owed(stack'[t], l, j) /\ (Owed(stack[t], l, j) <=> j = top)
      BY <1>0, <1>1, <1>2, <1>4 DEF Owed, Owes, top
    <3> QED BY <1>3, <1>5, <3>1 DEF Bit
  <2> QED BY <1>1, <1>4, <2>1, ReferencesKept DEF CInv
<1>8. Memories'
  <2>1. Recalls(f, Loaded', removeFuncs', farewell')
    BY <1>2 DEF Recalls, IsMap, DeadPCs
  <2> QED BY <1>1, <1>3, <1>4, <2>1, MemoriesKept, Remembered DEF CInv
<1>9. IsGc(f) /\ ~IsGc(stack[t][l]) /\ ~Passing(stack[t][l])
  BY <1>0, <1>1, <1>2 DEF IsGc, GcPCs, Passing, IsMap
<1>10. Counted'
  BY <1>1, <1>4, <1>6, <1>9, CountedKept DEF CInv
<1>11. Mappings'
  BY <1>1, <1>3, <1>4, <1>9, MappingsKept DEF CInv
<1>12. Garbage'
  <2> SUFFICES ASSUME NEW i \in Loaded', i \notin never' PROVE Needed(i)' \/ Doomed(i)'
    BY DEF Garbage
  <2>0. \A j \in Images : Closure(j)' = Closure(j)
    BY DEF Closure, Reach
  <2>1. CASE Doomed(i)
    <3>1. ~WillSee(stack[t][l], gcCount, i)
      BY <1>9 DEF WillSee
    <3> QED BY <1>1, <1>4, <1>6, <2>1, <3>1, DoomedKept
  <2>2. CASE Needed(i)
    <3>1. PICK j \in Loaded : i \in Closure(j) /\ (refs[j] > 0 \/ j \in never)
      BY <2>2 DEF Needed
    <3>2. j \in Images
      BY DEF Loaded
    <3>3. CASE refs'[j] > 0 \/ j \in never'
      <4>1. j \in Loaded' /\ i \in Closure(j)'
        BY <1>3, <2>0, <3>1, <3>2
      <4> QED BY <3>3, <4>1 DEF Needed
    <3>4. CASE ~(refs'[j] > 0) /\ j \notin never'
      <4>1. refs[j] > 0 /\ j = top
        BY <1>3, <1>5, <3>1, <3>2, <3>4
      <4>2. SetTop(t, f) \/ gcCount' >= 2
        BY <1>6, <3>4, <4>1
      <4>3. CASE SetTop(t, f)
        BY <1>2, <1>4, <1>9, <4>3 DEF Doomed, WillSee, IsGc, GcPCs
      <4>4. CASE gcCount' >= 2
        <5>1. gcCount' >= 1
          BY <1>6, <4>4
        <5>2. PICK u \in Threads : \E n \in DOMAIN stack'[u] : IsGc(stack'[u][n])
          BY <1>10, <5>1 DEF Counted, IsGc
        <5> QED BY <4>4, <5>2 DEF Doomed, WillSee, IsGc
      <4> QED BY <4>2, <4>3, <4>4
    <3> QED BY <3>3, <3>4
  <2> QED BY <1>3, <2>1, <2>2 DEF CInv, Garbage
<1> QED BY <1>7, <1>8, <1>10, <1>11, <1>12 DEF CInv

\* What is reached from some images is in the closure of one of them.
LEMMA ReachSplits ==
    ASSUME NEW S \in SUBSET Images, NEW within, NEW i \in Reach(S, within)
    PROVE  \E r \in S : i \in Closure(r)
<1> DEFINE T == {x \in Images : \E r \in S : x \in Closure(r)}
<1>1. S \subseteq T
  BY ReachCloses DEF Closure
<1>2. \A x \in T \cap within : Deps[x] \subseteq T
  <2> SUFFICES ASSUME NEW x \in T, NEW y \in Deps[x] PROVE y \in T
    OBVIOUS
  <2>1. PICK r \in S : x \in Closure(r)
    OBVIOUS
  <2>2. y \in Closure(r) /\ y \in Images
    BY <2>1, ReachCloses, ImagesAssumption DEF Closure
  <2> QED BY <2>2
<1> HIDE DEF T
<1>3. T \in SUBSET Images
  BY DEF T
<1>4. i \in T
  BY <1>1, <1>2, <1>3, ReachWithin
<1> QED BY <1>4 DEF T

\* The collection looks at every image: it finds it dead or in use.
LEMMA MarkStep ==
    ASSUME IInv, TypeOK', CInv, NEW t \in Threads, Mark(t)
    PROVE  CInv'
<1> USE ImagesAssumption
<1> DEFINE roots == {i \in Unloadables : refs[i] > 0}
           dead == Unloadables \ InUse
           f == [Top(t) EXCEPT !.pc = IF dead = {} THEN "recheck" ELSE "terminate",
                               !.set = dead,
                               !.todo = {"terminator"} \X dead]
           l == Len(stack[t])
<1>0. stack[t] # <<>> /\ Top(t).op = "dlclose" /\ Top(t).pc = "mark"
  BY DEF Mark, At
<1>1. /\ TypeOK /\ l \in Nat /\ l \in DOMAIN stack[t] /\ stack[t][l] = Top(t)
      /\ Top(t) \in Frame
  BY <1>0, AtTop
<1>2. /\ f \in Frame /\ f.op = "dlclose" /\ f.set = dead /\ f.todo = {"terminator"} \X dead
      /\ f.pc = IF dead = {} THEN "recheck" ELSE "terminate"
  BY <1>0, <1>1 DEF Frame, PCs, Callees, Unloadables, Loaded
<1> HIDE DEF f
<1>3. /\ SetTop(t, f) /\ Loaded' = Loaded
      /\ UNCHANGED <<mapped, never, refs, handles, removeFuncs, farewell, gcCount>>
  BY DEF Mark, f, imageVars, countVars, notifyVars, Loaded
<1>4. Elsewhere(t, l) /\ l \in DOMAIN stack'[t] /\ stack'[t][l] = f
  BY <1>0, <1>2, <1>3, AtTop
<1>5. dead \cap InCache = {}
  BY DEF Unloadables, IInv, Data, Core, Fixed
<1>6. \A i \in Unloadables \ dead : Needed(i)
  <2> SUFFICES ASSUME NEW i \in Unloadables, i \in InUse PROVE Needed(i)
    OBVIOUS
  <2>1. roots \in SUBSET Images /\ i \in Reach(roots, Unloadables)
    BY DEF InUse, Unloadables, Loaded
  <2>2. PICK r \in roots : i \in Closure(r)
    BY <2>1, ReachSplits
  <2> QED BY <2>2 DEF Needed, Unloadables
<1> HIDE DEF dead, roots, l
<1>7. References'
  <2>1. \A j \in Images \ InCache :
            refs'[j] + handles[j] + Bit(Owed(stack[t], l, j)) >=
            refs[j] + handles'[j] + Bit(Owed(stack'[t], l, j))
    BY <1>0, <1>1, <1>2, <1>3, <1>4 DEF Owed, Owes, Bit, TypeOK
  <2> QED BY <1>1, <1>4, <2>1, ReferencesKept DEF CInv
<1>8. Memories'
  <2>1. Recalls(f, Loaded', removeFuncs', farewell')
    BY <1>2, <1>5 DEF Recalls, IsMap, DeadPCs
  <2> QED BY <1>1, <1>3, <1>4, <2>1, MemoriesKept, Remembered DEF CInv
<1>9. IsGc(f) /\ ~Passing(stack[t][l])
  BY <1>0, <1>1, <1>2 DEF IsGc, GcPCs, Passing, IsMap
<1>10. Counted' /\ Mappings'
  BY <1>1, <1>3, <1>4, <1>9, CountedKept, MappingsKept DEF CInv
<1>11. Garbage'
  <2> SUFFICES ASSUME NEW i \in Loaded', i \notin never' PROVE Needed(i)' \/ Doomed(i)'
    BY DEF Garbage
  <2>0. i \in Unloadables /\ \A j \in Images : Closure(j)' = Closure(j)
    BY <1>3 DEF Closure, Reach, Unloadables
  <2>1. CASE i \in dead
    <3>1. WillSee(f, gcCount', i)
      BY <1>2, <1>9, <2>1 DEF WillSee, DeadPCs
    <3> QED BY <1>4, <3>1 DEF Doomed, WillSee, IsGc
  <2>2. CASE i \notin dead
    <3>1. PICK j \in Loaded : i \in Closure(j) /\ (refs[j] > 0 \/ j \in never)
      BY <1>6, <2>0, <2>2 DEF Needed
    <3>2. j \in Loaded' /\ i \in Closure(j)' /\ (refs'[j] > 0 \/ j \in never')
      BY <1>3, <2>0, <3>1 DEF Loaded
    <3> QED BY <3>2 DEF Needed
  <2> QED BY <2>1, <2>2
<1> QED BY <1>7, <1>8, <1>10, <1>11 DEF CInv

\* The dead images are erased: nobody who stays is needed by one of them only.
LEMMA EraseStep ==
    ASSUME IInv, TypeOK', CInv, NEW t \in Threads, Erase(t)
    PROVE  CInv'
<1> DEFINE dead == Top(t).set
           f == [Top(t) EXCEPT !.pc = "unmap"]
           l == Len(stack[t])
<1>0. stack[t] # <<>> /\ Top(t).op = "dlclose" /\ Top(t).pc = "erase"
  BY DEF Erase, At
<1>1. /\ TypeOK /\ l \in Nat /\ l \in DOMAIN stack[t] /\ stack[t][l] = Top(t)
      /\ Top(t) \in Frame /\ DeadOK(Top(t), Loaded, never, refs)
      /\ dead \cap InCache = {}
  BY <1>0, AtTop DEF FrameOK, Recalls, DeadPCs
<1>2. f \in Frame /\ f.op = "dlclose" /\ f.pc = "unmap" /\ f.set = dead
  BY <1>0, <1>1 DEF Frame, PCs
<1> HIDE DEF f
<1>3. /\ SetTop(t, f)
      /\ UNCHANGED <<mapped, never, refs, handles, removeFuncs, farewell, gcCount>>
  BY DEF Erase, Goto, f, countVars
<1>4. Loaded' = Loaded \ dead
  BY <1>1 DEF Erase, Loaded
<1>5. Elsewhere(t, l) /\ l \in DOMAIN stack'[t] /\ stack'[t][l] = f
  BY <1>0, <1>2, <1>3, AtTop
<1>6. \A j \in dead : j \in Loaded /\ j \notin never /\ ~(refs[j] > 0)
  BY <1>1 DEF DeadOK
<1> HIDE DEF dead, l
<1>7. References'
  <2>1. \A j \in Images \ InCache :
            refs'[j] + handles[j] + Bit(Owed(stack[t], l, j)) >=
            refs[j] + handles'[j] + Bit(Owed(stack'[t], l, j))
    BY <1>0, <1>1, <1>2, <1>3, <1>5 DEF Owed, Owes, Bit, TypeOK
  <2> QED BY <1>1, <1>5, <2>1, ReferencesKept DEF CInv
<1>8. Memories'
  <2>1. Recalls(f, Loaded', removeFuncs', farewell')
    BY <1>1, <1>2 DEF Recalls, IsMap
  <2> QED BY <1>1, <1>3, <1>4, <1>5, <2>1, MemoriesKept, Remembered DEF CInv
<1>9. IsGc(f) /\ Passing(f) /\ ~Passing(stack[t][l])
  BY <1>0, <1>1, <1>2 DEF IsGc, GcPCs, Passing, IsMap
<1>10. Counted'
  BY <1>1, <1>3, <1>5, <1>9, CountedKept DEF CInv
<1>11. Mappings'
  <2>1. ASSUME NEW j \in mapped', j \notin Loaded' \cup InCache
        PROVE  InPassing(j)'
    <3>1. CASE j \in dead
      BY <1>2, <1>5, <1>9, <3>1 DEF InPassing, Passing, IsMap
    <3>2. CASE j \notin dead
      <4>1. InPassing(j)
        BY <1>3, <1>4, <2>1, <3>2 DEF CInv, Mappings
      <4> QED BY <1>1, <1>5, <1>9, <4>1, PassingKept
    <3> QED BY <3>1, <3>2
  <2> QED BY <1>3, <2>1 DEF CInv, Mappings
<1>12. Garbage'
  <2> SUFFICES ASSUME NEW i \in Loaded', i \notin never' PROVE Needed(i)' \/ Doomed(i)'
    BY DEF Garbage
  <2>0. \A j \in Images : Closure(j)' = Closure(j)
    BY DEF Closure, Reach
  <2>1. CASE Doomed(i)
    <3>1. WillSee(stack[t][l], gcCount, i) => WillSee(f, gcCount', i)
      BY <1>0, <1>1, <1>3, <1>4, <1>9 DEF WillSee, dead
    <3>2. gcCount' >= gcCount
      BY <1>1, <1>3 DEF TypeOK
    <3> QED BY <1>1, <1>5, <2>1, <3>1, <3>2, DoomedKept
  <2>2. CASE Needed(i)
    <3>1. PICK j \in Loaded : i \in Closure(j) /\ (refs[j] > 0 \/ j \in never)
      BY <2>2 DEF Needed
    <3>2. j \in Images /\ j \notin dead
      BY <1>6, <3>1 DEF Loaded
    <3>3. j \in Loaded' /\ i \in Closure(j)' /\ (refs'[j] > 0 \/ j \in never')
      BY <1>3, <1>4, <2>0, <3>1, <3>2
    <3> QED BY <3>3 DEF Needed
  <2> QED BY <1>3, <1>4, <2>1, <2>2 DEF CInv, Garbage
<1> QED BY <1>7, <1>8, <1>10, <1>11, <1>12 DEF CInv

\* The dead images are unmapped: they were the ones that were mapped and not loaded.
LEMMA UnmapStep ==
    ASSUME IInv, TypeOK', CInv, NEW t \in Threads, Unmap(t)
    PROVE  CInv'
<1> DEFINE dead == Top(t).set
           f == [Top(t) EXCEPT !.pc = "recheck"]
           l == Len(stack[t])
<1>0. stack[t] # <<>> /\ Top(t).op = "dlclose" /\ Top(t).pc = "unmap" /\ IsGc(Top(t))
  BY DEF Unmap, At, IsGc, GcPCs
<1>1. /\ TypeOK /\ l \in Nat /\ l \in DOMAIN stack[t] /\ stack[t][l] = Top(t)
      /\ Top(t) \in Frame /\ dead \cap InCache = {}
  BY <1>0, AtTop DEF Recalls
<1>2. f \in Frame /\ f.op = "dlclose" /\ f.pc = "recheck"
  BY <1>0, <1>1 DEF Frame, PCs
<1> HIDE DEF f
<1>3. /\ SetTop(t, f) /\ Loaded' = Loaded /\ mapped' = mapped \ dead
      /\ UNCHANGED <<never, refs, handles, removeFuncs, gcCount>>
  BY DEF Unmap, Goto, f, countVars, Loaded
<1>4. Elsewhere(t, l) /\ l \in DOMAIN stack'[t] /\ stack'[t][l] = f
  BY <1>0, <1>2, <1>3, AtTop
<1>5. \A u \in Threads : \A n \in DOMAIN stack[u] : u # t \/ n # l =>
          ~IsGc(stack[u][n]) /\ ~IsMap(stack[u][n])
  BY <1>0, OthersPlain
<1> HIDE DEF dead, l
<1>6. References'
  <2>1. \A j \in Images \ InCache :
            refs'[j] + handles[j] + Bit(Owed(stack[t], l, j)) >=
            refs[j] + handles'[j] + Bit(Owed(stack'[t], l, j))
    BY <1>0, <1>1, <1>2, <1>3, <1>4 DEF Owed, Owes, Bit, TypeOK
  <2> QED BY <1>1, <1>4, <2>1, ReferencesKept DEF CInv
<1>7. Memories'
  <2>1. Recalls(f, Loaded', removeFuncs', farewell')
    BY <1>2 DEF Recalls, IsMap, DeadPCs
  <2>2. ASSUME NEW g \in Frame, IsOther(t, l, g), Recalls(g, Loaded, removeFuncs, farewell)
        PROVE  Recalls(g, Loaded', removeFuncs', farewell')
    <3>1. ~IsGc(g) /\ ~IsMap(g)
      BY <1>5, <2>2 DEF IsOther
    <3>2. g.op = "dlopen" /\ g.arg \in InCache => g.arg \in Loaded'
      BY <1>3, <2>2, <3>1 DEF Recalls, IsMap
    <3> QED BY <3>1, <3>2, PlainRecalls
  <2> QED BY <1>1, <1>4, <2>1, <2>2, MemoriesKept DEF CInv
<1>8. IsGc(f)
  BY <1>2 DEF IsGc, GcPCs
<1>9. Counted'
  BY <1>1, <1>3, <1>4, <1>8, CountedKept DEF CInv
<1>10. Mappings'
  <2>1. ASSUME NEW j \in mapped', j \notin Loaded' \cup InCache
        PROVE  InPassing(j)'
    <3>1. j \notin stack[t][l].set /\ InPassing(j)
      BY <1>1, <1>3, <2>1 DEF CInv, Mappings, dead
    <3> QED BY <1>1, <1>4, <3>1, PassingKept
  <2> QED BY <1>1, <1>3, <2>1 DEF CInv, Mappings
<1>11. Garbage'
  <2>1. \A i \in Images : WillSee(stack[t][l], gcCount, i) => WillSee(f, gcCount', i)
    BY <1>0, <1>1, <1>3, <1>8 DEF WillSee, DeadPCs
  <2>2. gcCount' >= gcCount
    BY <1>1, <1>3 DEF TypeOK
  <2> QED BY <1>1, <1>3, <1>4, <2>1, <2>2, GarbageKept DEF CInv
<1> QED BY <1>6, <1>7, <1>9, <1>10, <1>11 DEF CInv

\* The collection starts over if another was asked for; if not, no image waits for it.
LEMMA RecheckStep ==
    ASSUME IInv, TypeOK', CInv, NEW t \in Threads, Recheck(t)
    PROVE  CInv'
<1> DEFINE f == NewFrame("dlclose", "mark", Top(t).arg, {})
           l == Len(stack[t])
<1>0. stack[t] # <<>> /\ Top(t).op = "dlclose" /\ Top(t).pc = "recheck" /\ IsGc(Top(t))
  BY DEF Recheck, At, IsGc, GcPCs
<1>1. /\ TypeOK /\ l \in Nat /\ l \in DOMAIN stack[t] /\ stack[t][l] = Top(t)
      /\ Top(t) \in Frame
  BY <1>0, AtTop
<1>2. f \in Frame /\ f.op = "dlclose" /\ f.pc = "mark"
  BY <1>1 DEF NewFrame, Frame, PCs, APIs
<1> HIDE DEF f
<1>3. /\ Loaded' = Loaded
      /\ UNCHANGED <<mapped, never, refs, handles, removeFuncs, farewell>>
      /\ gcCount \in Nat /\ gcCount >= 1
      /\ \/ gcCount > 1 /\ SetTop(t, f)
         \/ gcCount = 1 /\ gcCount' = 0 /\ Pop(t)
  <2>1. gcCount \in Nat /\ gcCount >= 1
    BY <1>0, TopFacts DEF IInv
  <2> QED BY <2>1 DEF Recheck, f, imageVars, countVars, notifyVars, Loaded
<1>4. /\ Elsewhere(t, l)
      /\ l \in DOMAIN stack'[t] => stack'[t][l] = f
      /\ SetTop(t, f) => l \in DOMAIN stack'[t]
  BY <1>0, <1>2, <1>3, AtTop
<1>5. \A u \in Threads : \A n \in DOMAIN stack[u] : u # t \/ n # l => ~IsGc(stack[u][n])
  BY <1>0, OthersPlain
<1> HIDE DEF l
<1>6. References'
  <2>1. \A j \in Images \ InCache :
            refs'[j] + handles[j] + Bit(Owed(stack[t], l, j)) >=
            refs[j] + handles'[j] + Bit(Owed(stack'[t], l, j))
    BY <1>0, <1>1, <1>2, <1>3, <1>4 DEF Owed, Owes, Bit, TypeOK
  <2> QED BY <1>1, <1>4, <2>1, ReferencesKept DEF CInv
<1>7. Memories'
  <2>1. Recalls(f, Loaded', removeFuncs', farewell')
    BY <1>2 DEF Recalls, IsMap, DeadPCs
  <2> QED BY <1>1, <1>3, <1>4, <2>1, MemoriesKept, Remembered DEF CInv
<1>8. IsGc(f) /\ ~Passing(stack[t][l])
  BY <1>0, <1>1, <1>2 DEF IsGc, GcPCs, Passing, IsMap
<1>9. Counted'
  BY <1>1, <1>3, <1>4, <1>8, CountedKept DEF CInv
<1>10. Mappings'
  BY <1>1, <1>3, <1>4, <1>8, MappingsKept DEF CInv
<1>11. Garbage'
  <2> SUFFICES ASSUME NEW i \in Loaded', i \notin never' PROVE Needed(i)' \/ Doomed(i)'
    BY DEF Garbage
  <2>1. CASE SetTop(t, f)
    BY <1>2, <1>4, <1>8, <2>1 DEF Doomed, WillSee, IsGc
  <2>2. CASE gcCount = 1
    <3>1. ~Doomed(i)
      <4> SUFFICES ASSUME NEW u \in Threads, NEW n \in DOMAIN stack[u], WillSee(stack[u][n], gcCount, i)
                   PROVE  FALSE
        BY DEF Doomed
      <4>1. stack[u][n] = Top(t)
        BY <1>1, <1>5 DEF WillSee
      <4> QED BY <1>0, <2>2, <4>1 DEF WillSee, DeadPCs
    <3>2. PICK j \in Loaded : i \in Closure(j) /\ (refs[j] > 0 \/ j \in never)
      BY <1>3, <3>1 DEF CInv, Garbage, Needed
    <3>3. j \in Loaded' /\ i \in Closure(j)' /\ (refs'[j] > 0 \/ j \in never')
      BY <1>3, <3>2 DEF Closure, Reach
    <3> QED BY <3>3 DEF Needed
  <2> QED BY <1>3, <2>1, <2>2
<1> QED BY <1>6, <1>7, <1>9, <1>10, <1>11 DEF CInv

-----------------------------------------------------------------------------
(* The theorems. *)

\* Every step keeps the invariant.
LEMMA CStep ==
    ASSUME TerminatorsDoNotOpen, PinnedIsClosed, IInv, CInv, [Next]_vars
    PROVE  CInv'
<1>0. TypeOK'
  BY TypeStep DEF IInv
<1>1. CASE UNCHANGED vars
  <2>1. /\ stack' = stack /\ Loaded' = Loaded
        /\ UNCHANGED <<mapped, never, gcCount, refs, handles, removeFuncs, farewell>>
    BY <1>1 DEF vars, imageVars, countVars, notifyVars, Loaded
  <2>2. Memories'
    BY <2>1 DEF CInv, Memories
  <2> QED BY <2>1, <2>2, Untouched DEF CInv
<1>2. ASSUME NEW t \in Threads, UserCall(t) PROVE CInv'
  BY <1>0, <1>2, CallSteps
<1>3. ASSUME NEW t \in Threads, UserReturns(t) PROVE CInv'
  BY <1>0, <1>3, QuietSteps
<1>4. ASSUME NEW t \in Threads, DyldStep(t) PROVE CInv'
  <2>1. CASE LoadFails(t) \/ AddImages(t) \/ DlopenReturns(t) \/ AppendLoadNotifier(t)
    BY <1>0, <2>1, LoadFailsStep, AddImagesStep, ReturnStep
  <2>2. CASE DecRefCount(t) \/ Mark(t) \/ Erase(t) \/ Unmap(t) \/ Recheck(t)
    BY <1>0, <2>2, DecRefCountStep, MarkStep, EraseStep, UnmapStep, RecheckStep
  <2>3. CASE \/ RunImageCallbacks(t) \/ ImageCallbacksDone(t) \/ StartInit(t) \/ SkipInit(t)
             \/ RunRemoveCallbacks(t) \/ RemoveCallbacksDone(t) \/ AddLoadNotifierTold(t)
             \/ \E i \in Images : CallTerminator(t, i)
             \/ \E g \in Funcs, i \in Images :
                   CallAddNotifier(t, g, i) \/ CallRemoveNotifier(t, g, i)
    BY <1>0, <2>3, QuietSteps
  <2> QED BY <1>4, <2>1, <2>2, <2>3 DEF DyldStep
<1> QED BY <1>1, <1>2, <1>3, <1>4 DEF Next

\* At the start no call is in progress and only the launch closure is loaded.
LEMMA CInit ==
    ASSUME Init
    PROVE  CInv
<1> USE ImagesAssumption
<1>1. \A t \in Threads : DOMAIN stack[t] = {}
  BY DEF Init
<1>2. Loaded = Initial /\ gcCount = 0 /\ never = Initial /\ mapped = Initial \cup InCache
  BY DEF Init, Loaded
<1>3. References
  <2> SUFFICES ASSUME NEW i \in Images
               PROVE  IsFiniteSet(Owing(i)) /\ refs[i] >= handles[i] + Cardinality(Owing(i))
    BY DEF References
  <2>1. Owing(i) = {}
    BY <1>1 DEF Owing
  <2>2. refs[i] = 0 /\ handles[i] = 0
    BY DEF Init
  <2> QED BY <2>1, <2>2, FS_EmptySet
<1>4. Memories /\ Counted
  BY <1>1, <1>2 DEF Memories, Counted
<1>5. Mappings /\ Garbage
  BY <1>2 DEF Mappings, Garbage
<1> QED BY <1>3, <1>4, <1>5 DEF CInv

\* The invariant holds in every behaviour, under the two conditions on user code and
\* link graphs.
LEMMA CInvHolds ==
    ASSUME TerminatorsDoNotOpen, PinnedIsClosed
    PROVE  Spec => [](IInv /\ CInv)
<1>1. Init => IInv /\ CInv
  BY TypeInit, DataInit, CInit DEF IInv
<1>2. IInv /\ CInv /\ [Next]_vars => (IInv /\ CInv)'
  BY TypeStep, DataStep, CStep DEF IInv
<1> QED BY <1>1, <1>2, PTL DEF Spec

\* What a call to dlopen() that has added its images needs is loaded: it has a
\* reference that no caller can close before the call returns.
LEMMA OpeningStays ==
    ASSUME IInv, CInv, NEW t \in Threads, NEW n \in DOMAIN stack[t],
           stack[t][n].op = "dlopen", stack[t][n].pc # "map"
    PROVE  Closure(stack[t][n].arg) \subseteq Loaded
<1> DEFINE i == stack[t][n].arg
<1>1. i \in Images /\ n \in Nat
  BY DEF IInv, TypeOK, Struct, Shapes, FrameShape
<1>2. i \in Loaded
  <2>1. CASE i \in InCache
    BY <2>1 DEF CInv, Memories, Recalls
  <2>2. CASE i \notin InCache
    <3>1. IsFiniteSet(Owing(i)) /\ refs[i] >= handles[i] + Cardinality(Owing(i))
      BY <1>1, <2>2 DEF CInv, References
    <3>2. <<t, n>> \in Owing(i)
      BY <1>1 DEF Owing, Owes
    <3>3. Cardinality(Owing(i)) \in Nat /\ Cardinality(Owing(i)) # 0
      BY <3>1, <3>2, FS_CardinalityType, FS_EmptySet
    <3>4. refs[i] \in Nat /\ handles[i] \in Nat
      BY <1>1 DEF IInv, TypeOK
    <3> HIDE DEF i
    <3>5. refs[i] > 0
      BY <3>1, <3>3, <3>4
    <3> QED BY <1>1, <3>5 DEF IInv, Data, Core
  <2> QED BY <2>1, <2>2
<1>3. Loaded \subseteq Images /\ \A x \in Loaded \cap Images : Deps[x] \subseteq Loaded
  BY DEF IInv, Data, Core, Loaded
<1> QED BY <1>2, <1>3, ReachWithin DEF Closure

\* While dlopen() walks the initializers of an image, the images it will look up with
\* findImageNum() and swapImageState() stay in _loadedImages, whatever the add-image
\* functions and initializers that it calls, and other threads, open and close: the
\* reference the call has taken, which no caller can close before dlopen() returns it,
\* keeps the image and all it links with.
THEOREM InitListStays ==
    ASSUME TerminatorsDoNotOpen, PinnedIsClosed
    PROVE  Spec => []InitListStaysLoaded
<1>1. IInv /\ CInv => InitListStaysLoaded
  <2> SUFFICES ASSUME IInv, CInv, NEW t \in Threads, NEW n \in DOMAIN stack[t],
                      stack[t][n].op = "dlopen",
                      stack[t][n].pc \in {"tell", "telling", "inAdd", "init", "inInit"},
                      NEW k \in DOMAIN InitOrder[stack[t][n].arg]
               PROVE  InitOrder[stack[t][n].arg][k] \in Loaded
    BY DEF InitListStaysLoaded
  <2> DEFINE i == stack[t][n].arg
  <2>1. i \in Images
    BY DEF IInv, TypeOK, Struct, Shapes, FrameShape
  <2>2. Closure(i) \subseteq Loaded
    BY OpeningStays
  <2>3. InitOrder[i][k] \in Closure(i)
    BY <2>1, ImagesAssumption
  <2> QED BY <2>2, <2>3
<1> QED BY <1>1, CInvHolds, PTL

\* No request for a collection is lost and no collection stops short: whenever no call is
\* in progress, _gcCount is zero, every loaded image is pinned or needed by one that is
\* pinned or has a dlopen() reference, and nothing is mapped that is not loaded, however
\* the dlclose() calls of threads, initializers, terminators and remove-image functions
\* fell into one another's collections.
THEOREM CollectionsAreComplete ==
    ASSUME TerminatorsDoNotOpen, PinnedIsClosed
    PROVE  Spec => []NothingLeftBehind
<1>1. IInv /\ CInv => NothingLeftBehind
  <2> SUFFICES ASSUME IInv, CInv, Idle
               PROVE  /\ gcCount = 0
                      /\ \A i \in Loaded \ never : Needed(i)
                      /\ mapped = Loaded \cup InCache
    BY DEF NothingLeftBehind, Needed
  <2>1. \A t \in Threads : DOMAIN stack[t] = {}
    BY DEF Idle
  <2>2. gcCount = 0
    <3>1. ~(gcCount >= 1) /\ gcCount \in Nat
      BY <2>1 DEF CInv, Counted, IInv, TypeOK
    <3> QED BY <3>1
  <2>3. \A i \in Loaded \ never : Needed(i)
    BY <2>1 DEF CInv, Garbage, Doomed
  <2>4. mapped = Loaded \cup InCache
    BY <2>1 DEF CInv, Mappings, InPassing, IInv, Data, Core
  <2> QED BY <2>2, <2>3, <2>4
<1> QED BY <1>1, CInvHolds, PTL

\* Only CallRemoveNotifier() tells a function that an image goes.
LEMMA WhoIsTold ==
    ASSUME TypeOK, [Next]_vars, NEW i \in Images, NEW g \in Funcs,
           g \in farewell'[i], g \notin farewell[i]
    PROVE  \E t \in Threads : CallRemoveNotifier(t, g, i)
<1> USE CallsAssumption
<1>1. farewell' # farewell
  OBVIOUS
<1>2. ~UNCHANGED vars
  BY <1>1 DEF vars, notifyVars
<1>3. ASSUME NEW t \in Threads, UserCall(t) \/ UserReturns(t) PROVE FALSE
  BY <1>1, <1>3 DEF UserCall, DlopenCached, Dlclose, DlopenLoaded, DlopenNew, AddLoadNotifier,
     AddUnloadNotifier, UserReturns, AddNotifierReturns, InitReturns, TerminatorReturns,
     RemoveNotifierReturns, notifyVars
<1>4. ASSUME NEW t \in Threads, DyldStep(t)
      PROVE  \E h \in Funcs, j \in Images : CallRemoveNotifier(t, h, j)
  <2>1. ASSUME NEW j \in Images, CallTerminator(t, j) PROVE FALSE
    BY <2>1 DEF CallTerminator, TypeOK
  <2>2. ASSUME Unmap(t) PROVE FALSE
    BY <2>2 DEF Unmap, TypeOK
  <2> QED BY <1>1, <1>4, <2>1, <2>2 DEF DyldStep, LoadFails, AddImages, RunImageCallbacks,
     ImageCallbacksDone, StartInit, SkipInit, DlopenReturns, DecRefCount, Mark,
     RunRemoveCallbacks, RemoveCallbacksDone, Erase, Recheck, AddLoadNotifierTold,
     AppendLoadNotifier, CallAddNotifier, notifyVars
<1>5. PICK t \in Threads : \E h \in Funcs, j \in Images : CallRemoveNotifier(t, h, j)
  BY <1>2, <1>3, <1>4 DEF Next
<1>6. PICK h \in Funcs, j \in Images : CallRemoveNotifier(t, h, j)
  BY <1>5
<1>7. h = g /\ j = i
  BY <1>6 DEF CallRemoveNotifier, TypeOK
<1> QED BY <1>6, <1>7

\* Only removeImages() itself goes on to erase the dead images.
LEMMA WhoErases ==
    ASSUME IInv, [Next]_vars, NEW t \in Threads,
           At(t, "dlclose", "removing"), At(t, "dlclose", "erase")'
    PROVE  RemoveCallbacksDone(t)
<1>0. /\ stack[t] # <<>> /\ Top(t).op = "dlclose" /\ Top(t).pc = "removing"
      /\ stack'[t] # <<>> /\ stack'[t][Len(stack'[t])].pc = "erase"
      /\ stack[t][Len(stack[t])].pc = "removing"
  BY DEF At, Top
<1>1. stack'[t] # stack[t]
  BY <1>0
<1>2. ~UNCHANGED vars
  BY <1>1 DEF vars
<1>3. ASSUME NEW u \in Threads, u # t, UserCall(u) \/ UserReturns(u) \/ DyldStep(u) PROVE FALSE
  <2>1. /\ \A f : ~Push(u, f) /\ ~SetTop(u, f)
        /\ ~Pop(u) /\ stack' # stack
    BY <1>1, <1>3 DEF IInv, TypeOK, Push, SetTop, Pop
  <2>2. CASE UserCall(u) \/ UserReturns(u)
    BY <2>1, <2>2 DEF UserCall, DlopenCached, Dlclose, DlopenLoaded, DlopenNew,
       AddLoadNotifier, AddUnloadNotifier, UserReturns, AddNotifierReturns, InitReturns,
       TerminatorReturns, RemoveNotifierReturns, Goto
  <2>3. CASE DyldStep(u)
    BY <2>1, <2>3 DEF DyldStep, LoadFails, AddImages, RunImageCallbacks,
       ImageCallbacksDone, StartInit, SkipInit, DlopenReturns, DecRefCount, Mark,
       RunRemoveCallbacks, RemoveCallbacksDone, Erase, Unmap, Recheck, AddLoadNotifierTold,
       AppendLoadNotifier, CallTerminator, CallAddNotifier, CallRemoveNotifier, Goto
  <2> QED BY <1>3, <2>2, <2>3
<1>4. ~UserCall(t) /\ ~UserReturns(t)
  BY <1>0, <1>1 DEF UserCall, DlopenCached, Dlclose, DlopenLoaded, DlopenNew, MayEnter, UserPCs,
     AddLoadNotifier, AddUnloadNotifier, UserReturns, AddNotifierReturns, InitReturns,
     TerminatorReturns, RemoveNotifierReturns, At
<1>5. ASSUME DyldStep(t) PROVE RemoveCallbacksDone(t)
  <2>1. ASSUME NEW g \in Funcs, NEW i \in Images, CallRemoveNotifier(t, g, i) PROVE FALSE
    <3> DEFINE f == [Top(t) EXCEPT !.pc = "inRemove", !.todo = @ \ {<<g, i>>}]
    <3>1. Top(t) \in Frame /\ Stacks
      BY <1>0, TopOK
    <3>2. f \in Frame /\ f.pc = "inRemove"
      BY <3>1 DEF Frame, PCs, UserPCs
    <3>3. SetTop(t, f)
      BY <2>1 DEF CallRemoveNotifier
    <3> HIDE DEF f
    <3>4. Len(stack'[t]) = Len(stack[t]) /\ stack'[t][Len(stack[t])] = f
      BY <1>0, <3>1, <3>2, <3>3, SetTopFacts
    <3> QED BY <1>0, <3>2, <3>4
  <2> QED BY <1>0, <1>5, <2>1 DEF DyldStep, LoadFails, AddImages, RunImageCallbacks,
       ImageCallbacksDone, StartInit, SkipInit, AtInit, DlopenReturns, DecRefCount, Mark,
       RunRemoveCallbacks, Erase, Unmap, Recheck, AddLoadNotifierTold,
       AppendLoadNotifier, CallTerminator, CallAddNotifier, At
<1> QED BY <1>2, <1>3, <1>4, <1>5 DEF Next

\* Images leave in order, for any number of threads and registered functions: no
\* remove-image function hears of an image that is gone, unmapped or still to be
\* terminated, removeImages() forgets no function that is registered when it drops the
\* notifiers lock, and no image leaves _loadedImages before its terminators have run or
\* after it is unmapped.
THEOREM ImagesLeaveInOrder ==
    ASSUME TerminatorsDoNotOpen, PinnedIsClosed
    PROVE  Spec => LeavesInOrder
<1> DEFINE Told == \A i \in Images :
               /\ (farewell'[i] \ farewell[i]) \cap Funcs # {} =>
                      i \in Loaded \cap mapped /\ "terminator" \in farewell[i]
               /\ i \in Loaded \ Loaded' => i \in mapped' /\ "terminator" \in farewell[i]
           All == \A t \in Threads : At(t, "dlclose", "removing") /\ At(t, "dlclose", "erase")' =>
               \A i \in Top(t).set : removeFuncs \subseteq farewell[i]
<1>1. ASSUME IInv, CInv, [Next]_vars PROVE Told /\ All
  <2>1. ASSUME NEW i \in Images, NEW g \in Funcs, g \in farewell'[i], g \notin farewell[i]
        PROVE  i \in Loaded \cap mapped /\ "terminator" \in farewell[i]
    <3>1. PICK t \in Threads : CallRemoveNotifier(t, g, i)
      BY <1>1, <2>1, WhoIsTold DEF IInv
    <3>2. /\ stack[t] # <<>> /\ Top(t).op = "dlclose" /\ Top(t).pc = "removing"
          /\ <<g, i>> \in Top(t).todo
      BY <3>1 DEF CallRemoveNotifier, At
    <3>3. /\ Recalls(Top(t), Loaded, removeFuncs, farewell)
          /\ FrameOK(Top(t), Loaded, mapped, never, refs)
      BY <1>1, <3>2, AtTop
    <3>4. i \in Top(t).set /\ "terminator" \in farewell[i]
      BY <3>2, <3>3 DEF Recalls
    <3>5. i \in Loaded
      BY <3>2, <3>3, <3>4 DEF FrameOK, DeadOK
    <3> QED BY <1>1, <3>4, <3>5 DEF IInv, Data, Core
  <2>2. ASSUME NEW i \in Images, i \in Loaded, i \notin Loaded'
        PROVE  i \in mapped' /\ "terminator" \in farewell[i]
    <3>1. PICK t \in Threads : AddImages(t) \/ Erase(t)
      BY <1>1, <2>2, LoadedChanges DEF IInv
    <3>2. ~AddImages(t)
      BY <2>2 DEF AddImages, Loaded
    <3>3. /\ stack[t] # <<>> /\ Top(t).op = "dlclose" /\ Top(t).pc = "erase"
          /\ i \in Top(t).set /\ mapped' = mapped
      BY <2>2, <3>1, <3>2 DEF Erase, At, Loaded
    <3>4. "terminator" \in farewell[i]
      BY <1>1, <3>3, AtTop DEF Recalls
    <3> QED BY <1>1, <2>2, <3>3, <3>4 DEF IInv, Data, Core
  <2>3. ASSUME NEW t \in Threads, At(t, "dlclose", "removing"), At(t, "dlclose", "erase")',
               NEW i \in Top(t).set
        PROVE  removeFuncs \subseteq farewell[i]
    <3>1. Top(t).todo = {} /\ stack[t] # <<>> /\ Top(t).op = "dlclose" /\ Top(t).pc = "removing"
      BY <1>1, <2>3, WhoErases DEF RemoveCallbacksDone, At
    <3>2. Recalls(Top(t), Loaded, removeFuncs, farewell)
      BY <1>1, <3>1, AtTop
    <3> QED BY <3>1, <3>2 DEF Recalls
  <2> QED BY <2>1, <2>2, <2>3
<1>2. IInv /\ CInv /\ [Next]_vars => [Told /\ All]_vars
  BY <1>1
<1> QED BY <1>2, CInvHolds, PTL DEF Spec, LeavesInOrder

-----------------------------------------------------------------------------
(* Who was told of an image, in a program with one thread *)

\* A call has still to call g about image i.
Pending(f, g, i) ==
    \/ f.op = "dlopen" /\ f.pc = "tell" /\ i \in f.set
    \/ f.pc \in {"telling", "inAdd"} /\ <<g, i>> \in f.todo
IsPending(g, i) == \E t \in Threads : \E n \in DOMAIN stack[t] : Pending(stack[t][n], g, i)

\* g is being registered.
IsAdding(g) == \E t \in Threads : \E n \in DOMAIN stack[t] :
                  stack[t][n].op = "register" /\ stack[t][n].arg = g

\* Whom a call tells of what.
Tells(f, loaded, funcs) ==
    /\ f.op = "dlopen" => f.set \subseteq Closure(f.arg)
    /\ f.op = "dlopen" /\ f.pc \in {"telling", "inAdd"} => f.todo \subseteq funcs \X f.set
    /\ f.op = "register" => f.arg \notin funcs /\ f.todo \subseteq {f.arg} \X loaded

Telling(f) == f.op = "dlopen" /\ f.pc \in {"tell", "telling", "inAdd"}

\* No two calls tell of the same image, and a registration is the only call.
Apart ==
    \A t \in Threads : \A n \in DOMAIN stack[t] :
        /\ Tells(stack[t][n], Loaded, loadFuncs)
        /\ stack[t][n].op = "register" => Len(stack[t]) = 1
        /\ \A m \in DOMAIN stack[t] :
              m # n /\ Telling(stack[t][m]) /\ Telling(stack[t][n]) => stack[t][m].set \cap stack[t][n].set = {}

\* A function was called once about each loaded image that it is not still to be
\* called about, and never about another.
Heard(g, i) ==
    told[g][i] = IF i \in Loaded /\ (g \in loadFuncs \/ IsAdding(g)) /\ ~IsPending(g, i) THEN 1 ELSE 0

ToldInv == Apart /\ \A g \in Funcs, i \in Images : Heard(g, i)

\* What an add-image function calls, directly or not, is dlclose().
ClosesInAdd ==
    \A t \in Threads : \A m \in DOMAIN stack[t], n \in DOMAIN stack[t] :
        stack[t][m].pc = "inAdd" /\ m < n => stack[t][n].op = "dlclose"

-----------------------------------------------------------------------------
(* Steps that are not about being told *)

\* A call that tells nobody of anything.
Silent(f) == f.op \in APIs /\ f.pc \notin {"tell", "telling", "inAdd"}

LEMMA SilentFrame ==
    ASSUME NEW f, Silent(f)
    PROVE  /\ \A g, i : ~Pending(f, g, i)
           /\ ~Telling(f) /\ f.op # "register"
           /\ \A loaded, funcs : (f.op = "dlopen" => f.set \subseteq Closure(f.arg)) => Tells(f, loaded, funcs)
  BY DEF Silent, APIs, Pending, Telling, Tells

\* Only the innermost call can be a registration.
LEMMA NotAdding ==
    ASSUME Stacks, Apart, NEW t \in Threads, stack[t] # <<>> => Top(t).op \in APIs
    PROVE  \A n \in DOMAIN stack[t] : stack[t][n].op # "register"
<1> SUFFICES ASSUME NEW n \in DOMAIN stack[t], stack[t][n].op = "register" PROVE FALSE
  OBVIOUS
<1>1. Len(stack[t]) = 1 /\ stack[t] \in Seq(Frame)
  BY DEF Apart, Stacks
<1>2. stack[t] # <<>> /\ n = Len(stack[t])
  BY <1>1
<1> QED BY <1>2 DEF Top, APIs

\* A step of such a call, which may take images from the list.
LEMMA SilentKept ==
    ASSUME OneThread, Stacks, Stacks', ToldInv, NEW t \in Threads, NEW l \in Nat, Elsewhere(t, l),
           \A n \in DOMAIN stack[t] : stack[t][n].op # "register",
           l \in DOMAIN stack[t] => Silent(stack[t][l]),
           l \in DOMAIN stack'[t] => /\ Silent(stack'[t][l])
                                     /\ stack'[t][l].op = "dlopen" => stack'[t][l].set \subseteq Closure(stack'[t][l].arg),
           loadFuncs' = loadFuncs, Loaded' \subseteq Loaded,
           \A g \in Funcs, i \in Images : told'[g][i] = IF i \in Loaded' THEN told[g][i] ELSE 0
    PROVE  ToldInv'
<1>1. DOMAIN stack[t] \subseteq Nat /\ DOMAIN stack'[t] \subseteq Nat /\ Threads = {t}
  BY DEF Stacks, OneThread
<1>2. \A n \in Nat : n # l => /\ n \in DOMAIN stack'[t] <=> n \in DOMAIN stack[t]
                              /\ n \in DOMAIN stack[t] => stack'[t][n] = stack[t][n]
  BY DEF Elsewhere
<1>3. \A g, i : IsPending(g, i)' <=> IsPending(g, i)
  <2> SUFFICES ASSUME NEW g, NEW i PROVE IsPending(g, i)' <=> IsPending(g, i)
    OBVIOUS
  <2>1. IsPending(g, i) <=> \E n \in DOMAIN stack[t] : Pending(stack[t][n], g, i)
    BY <1>1 DEF IsPending
  <2>2. IsPending(g, i)' <=> \E n \in DOMAIN stack'[t] : Pending(stack'[t][n], g, i)
    BY <1>1 DEF IsPending, Pending
  <2>3. l \in DOMAIN stack[t] => ~Pending(stack[t][l], g, i)
    BY SilentFrame
  <2>4. l \in DOMAIN stack'[t] => ~Pending(stack'[t][l], g, i)
    BY SilentFrame
  <2> QED BY <1>1, <1>2, <2>1, <2>2, <2>3, <2>4
<1>4. \A n \in DOMAIN stack'[t] : stack'[t][n].op # "register"
  BY <1>1, <1>2, SilentFrame
<1>5. \A g : ~IsAdding(g) /\ ~IsAdding(g)'
  BY <1>1, <1>4 DEF IsAdding
<1>6. Apart'
  <2>1. ASSUME NEW n \in DOMAIN stack'[t] PROVE Tells(stack'[t][n], Loaded', loadFuncs')
    <3>1. CASE n = l
      BY <2>1, <3>1, SilentFrame
    <3>2. CASE n # l
      <4>1. n \in DOMAIN stack[t] /\ stack'[t][n] = stack[t][n] /\ Tells(stack[t][n], Loaded, loadFuncs)
        BY <1>1, <1>2, <2>1, <3>2 DEF ToldInv, Apart
      <4> QED BY <1>4, <2>1, <4>1 DEF Tells
    <3> QED BY <3>1, <3>2
  <2>2. ASSUME NEW n \in DOMAIN stack'[t], NEW m \in DOMAIN stack'[t],
               m # n, Telling(stack'[t][m]), Telling(stack'[t][n])
        PROVE  stack'[t][m].set \cap stack'[t][n].set = {}
    <3>1. n # l /\ m # l
      BY <2>2, SilentFrame
    <3>2. n \in DOMAIN stack[t] /\ m \in DOMAIN stack[t] /\ stack'[t][n] = stack[t][n] /\ stack'[t][m] = stack[t][m]
      BY <1>1, <1>2, <2>2, <3>1
    <3> QED BY <2>2, <3>2 DEF ToldInv, Apart
  <2> QED BY <1>1, <1>4, <2>1, <2>2 DEF Apart, Telling, Tells
<1>7. ASSUME NEW g \in Funcs, NEW i \in Images PROVE Heard(g, i)'
  <2>1. Heard(g, i)
    BY DEF ToldInv
  <2> QED BY <1>3, <1>5, <2>1 DEF Heard
<1> QED BY <1>6, <1>7 DEF ToldInv

\* The images and the functions stay.
SameTold == Loaded' = Loaded /\ UNCHANGED <<told, loadFuncs>>

LEMMA ToldUnchanged ==
    ASSUME ToldInv, SameTold, NEW g \in Funcs, NEW i \in Images
    PROVE  told'[g][i] = IF i \in Loaded' THEN told[g][i] ELSE 0
<1>1. Heard(g, i) /\ told' = told /\ Loaded' = Loaded
  BY DEF ToldInv, SameTold
<1> QED BY <1>1 DEF Heard

LEMMA SilentAside ==
    ASSUME OneThread, Stacks, ToldInv, SameTold, stack' = stack
    PROVE  ToldInv'
<1>1. /\ \A g, i : IsPending(g, i)' <=> IsPending(g, i)
      /\ \A g : IsAdding(g)' <=> IsAdding(g)
  BY DEF IsPending, Pending, IsAdding
<1>2. Apart'
  BY DEF ToldInv, Apart, SameTold, Telling, Tells
<1>3. \A g \in Funcs, i \in Images : Heard(g, i)'
  BY <1>1 DEF ToldInv, Heard, SameTold
<1> QED BY <1>2, <1>3 DEF ToldInv

LEMMA SilentPush ==
    ASSUME OneThread, Stacks, Stacks', ToldInv, SameTold, NEW t \in Threads, NEW f \in Frame, Push(t, f), Silent(f),
           f.op = "dlopen" => f.set \subseteq Closure(f.arg), stack[t] # <<>> => Top(t).op \in APIs
    PROVE  ToldInv'
<1>1. PICK l \in Nat : /\ Elsewhere(t, l) /\ l \notin DOMAIN stack[t] /\ l \in DOMAIN stack'[t]
                       /\ stack'[t][l] = f
  BY Places
<1>2. \A n \in DOMAIN stack[t] : stack[t][n].op # "register"
  BY NotAdding DEF ToldInv
<1> QED BY <1>1, <1>2, SilentKept, ToldUnchanged DEF SameTold

LEMMA SilentSetTop ==
    ASSUME OneThread, Stacks, Stacks', ToldInv, SameTold, NEW t \in Threads, stack[t] # <<>>, Silent(Top(t)),
           NEW f \in Frame, SetTop(t, f), Silent(f), f.op = "dlopen" => f.set \subseteq Closure(f.arg)
    PROVE  ToldInv'
<1>1. PICK l \in Nat : /\ Elsewhere(t, l) /\ l \in DOMAIN stack[t] /\ stack[t][l] = Top(t)
                       /\ l \in DOMAIN stack'[t] /\ stack'[t][l] = f
  BY Places
<1>2. \A n \in DOMAIN stack[t] : stack[t][n].op # "register"
  BY NotAdding DEF ToldInv, Silent
<1> QED BY <1>1, <1>2, SilentKept, ToldUnchanged DEF SameTold

LEMMA SilentPop ==
    ASSUME OneThread, Stacks, Stacks', ToldInv, SameTold, NEW t \in Threads, stack[t] # <<>>, Silent(Top(t)), Pop(t)
    PROVE  ToldInv'
<1>1. PICK l \in Nat : /\ Elsewhere(t, l) /\ l \in DOMAIN stack[t] /\ stack[t][l] = Top(t)
                       /\ l \notin DOMAIN stack'[t]
  BY Places
<1>2. \A n \in DOMAIN stack[t] : stack[t][n].op # "register"
  BY NotAdding DEF ToldInv, Silent
<1> QED BY <1>1, <1>2, SilentKept, ToldUnchanged DEF SameTold

\* What the innermost call becomes is a call.
LEMMA BecomesFrame ==
    ASSUME Stacks, Stacks', NEW t \in Threads, NEW f,
           Push(t, f) \/ (stack[t] # <<>> /\ SetTop(t, f))
    PROVE  f \in Frame
<1>1. PICK s \in Seq(Frame) : s = stack[t]
  BY DEF Stacks
<1>2. stack'[t] \in Seq(Frame) /\ DOMAIN stack = Threads
  BY DEF Stacks
<1>3. CASE Push(t, f)
  <2>1. stack'[t] = Append(s, f)
    BY <1>1, <1>2, <1>3 DEF Push
  <2>2. Len(s) + 1 \in DOMAIN Append(s, f) /\ Append(s, f)[Len(s) + 1] = f
    BY <1>1
  <2> QED BY <1>2, <2>1, <2>2
<1>4. CASE stack[t] # <<>> /\ SetTop(t, f)
  <2>1. stack'[t] = [s EXCEPT ![Len(s)] = f]
    BY <1>1, <1>2, <1>4 DEF SetTop
  <2>2. Len(s) \in DOMAIN s
    BY <1>1, <1>4
  <2>3. Len(s) \in DOMAIN stack'[t] /\ stack'[t][Len(s)] = f
    BY <2>1, <2>2
  <2> QED BY <1>2, <2>3
<1> QED BY <1>3, <1>4

LEMMA SilentGoOn ==
    ASSUME OneThread, IInv, Stacks', ToldInv, SameTold, NEW t \in Threads, stack[t] # <<>>, Silent(Top(t)),
           NEW f, SetTop(t, f), f.op = Top(t).op, f.pc \notin {"tell", "telling", "inAdd"},
           f.op = "dlopen" => f.arg = Top(t).arg /\ f.set = Top(t).set
    PROVE  ToldInv'
<1>1. Stacks /\ Len(stack[t]) \in DOMAIN stack[t] /\ Top(t) = stack[t][Len(stack[t])]
  BY Places DEF IInv, TypeOK, Stacks
<1>2. f \in Frame
  BY <1>1, BecomesFrame
<1>3. Tells(Top(t), Loaded, loadFuncs)
  BY <1>1 DEF ToldInv, Apart
<1>4. Silent(f)
  BY DEF Silent
<1>5. f.op = "dlopen" => f.set \subseteq Closure(f.arg)
  BY <1>3 DEF Tells
<1> QED BY <1>1, <1>2, <1>4, <1>5, SilentSetTop

\* Calls into dyld, but for the registration of an add-image function.
LEMMA SilentCalls ==
    ASSUME OneThread, IInv, Stacks', ToldInv, NEW t \in Threads,
           \/ \E i \in Images : DlopenCached(t, i) \/ Dlclose(t, i)
           \/ \E i \in Images, mode \in Modes : DlopenLoaded(t, i, mode) \/ DlopenNew(t, i, mode)
           \/ \E f \in Funcs : AddUnloadNotifier(t, f)
    PROVE  ToldInv'
<1>1. Stacks
  BY DEF IInv, TypeOK, Stacks
<1>2. SameTold
  BY DEF DlopenCached, Dlclose, DlopenLoaded, DlopenNew, AddUnloadNotifier, imageVars, notifyVars, SameTold, Loaded
<1>3. ASSUME NEW api, MayEnter(t, api), stack[t] # <<>> PROVE Top(t).op \in APIs
  <2>1. Top(t) \in Frame /\ Top(t).op # "register"
    BY <1>3, TopFacts DEF IInv, MayEnter
  <2> QED BY <2>1 DEF Frame
<1>4. CASE stack' = stack
  BY <1>1, <1>2, <1>4, SilentAside
<1>5. ASSUME NEW f, NEW api, Push(t, f), MayEnter(t, api), Silent(f), f.op = "dlopen" => f.set \subseteq Closure(f.arg)
      PROVE  ToldInv'
  <2>1. f \in Frame
    BY <1>1, <1>5, BecomesFrame
  <2> QED BY <1>1, <1>2, <1>3, <1>5, <2>1, SilentPush
<1>6. ASSUME NEW i \in Images, DlopenCached(t, i) PROVE ToldInv'
  BY <1>4, <1>6 DEF DlopenCached
<1>7. ASSUME NEW i \in Images, Dlclose(t, i) PROVE ToldInv'
  <2>1. Push(t, NewFrame("dlclose", "find", i, {})) /\ MayEnter(t, "dlclose")
    BY <1>7 DEF Dlclose
  <2>2. Silent(NewFrame("dlclose", "find", i, {})) /\ NewFrame("dlclose", "find", i, {}).op # "dlopen"
    BY DEF Silent, NewFrame, APIs
  <2> QED BY <1>5, <2>1, <2>2
<1>8. ASSUME NEW i \in Images, NEW mode \in Modes, DlopenLoaded(t, i, mode) PROVE ToldInv'
  <2>1. stack' = stack \/ (Push(t, NewFrame("dlopen", "init", i, {})) /\ MayEnter(t, "dlopen"))
    BY <1>8 DEF DlopenLoaded
  <2>2. Silent(NewFrame("dlopen", "init", i, {})) /\ NewFrame("dlopen", "init", i, {}).set = {}
    BY DEF Silent, NewFrame, APIs
  <2> QED BY <1>4, <1>5, <2>1, <2>2
<1>9. ASSUME NEW i \in Images, NEW mode \in Modes, DlopenNew(t, i, mode) PROVE ToldInv'
  <2>1. PICK new : Push(t, NewFrame("dlopen", "map", i, new)) /\ MayEnter(t, "dlopen") /\ new \subseteq Closure(i)
    BY <1>9 DEF DlopenNew
  <2>2. /\ Silent(NewFrame("dlopen", "map", i, new)) /\ NewFrame("dlopen", "map", i, new).set = new
        /\ NewFrame("dlopen", "map", i, new).arg = i
    BY DEF Silent, NewFrame, APIs
  <2> QED BY <1>5, <2>1, <2>2
<1>10. ASSUME NEW f \in Funcs, AddUnloadNotifier(t, f) PROVE ToldInv'
  BY <1>4, <1>10 DEF AddUnloadNotifier
<1> QED BY <1>6, <1>7, <1>8, <1>9, <1>10

\* Steps of dlopen() before it tells of its images and after, and of dlclose().
LEMMA SilentSteps ==
    ASSUME OneThread, IInv, Stacks', ToldInv, NEW t \in Threads,
           \/ InitReturns(t) \/ TerminatorReturns(t) \/ RemoveNotifierReturns(t)
           \/ LoadFails(t) \/ StartInit(t) \/ SkipInit(t) \/ DlopenReturns(t)
           \/ DecRefCount(t) \/ Mark(t) \/ RunRemoveCallbacks(t) \/ RemoveCallbacksDone(t)
           \/ Unmap(t) \/ Recheck(t)
    PROVE  ToldInv'
<1> DEFINE Opens  == InitReturns(t) \/ LoadFails(t) \/ StartInit(t) \/ SkipInit(t) \/ DlopenReturns(t)
           Closes == \/ TerminatorReturns(t) \/ RemoveNotifierReturns(t) \/ DecRefCount(t) \/ Mark(t)
                     \/ RunRemoveCallbacks(t) \/ RemoveCallbacksDone(t) \/ Unmap(t) \/ Recheck(t)
<1>0. Opens \/ Closes
  OBVIOUS
<1>1. stack[t] # <<>> /\ Stacks /\ Top(t) \in Frame /\ Silent(Top(t))
  <2>1. stack[t] # <<>> /\ Silent(Top(t))
    <3>1. CASE Opens
      BY <3>1 DEF InitReturns, LoadFails, StartInit, SkipInit, AtInit, DlopenReturns, At, Silent, APIs
    <3>2. CASE Closes
      BY <3>2 DEF TerminatorReturns, RemoveNotifierReturns, DecRefCount, Mark, RunRemoveCallbacks,
                  RemoveCallbacksDone, Unmap, Recheck, At, Silent, APIs
    <3> QED BY <1>0, <3>1, <3>2
  <2> QED BY <2>1, TopFacts DEF IInv
<1>2. SameTold
  <2>1. CASE Opens
    <3>1. UNCHANGED <<told, loadFuncs>>
      BY <2>1 DEF InitReturns, LoadFails, StartInit, SkipInit, DlopenReturns, notifyVars
    <3>2. Loaded' = Loaded
      <4>1. CASE InitReturns(t) \/ StartInit(t)
        BY <4>1 DEF StartInit, InitReturns, Loaded, IInv, TypeOK
      <4>2. CASE LoadFails(t) \/ SkipInit(t) \/ DlopenReturns(t)
        BY <4>2 DEF LoadFails, SkipInit, DlopenReturns, imageVars, Loaded
      <4> QED BY <2>1, <4>1, <4>2
    <3> QED BY <3>1, <3>2 DEF SameTold
  <2>2. CASE Closes
    BY <2>2 DEF TerminatorReturns, RemoveNotifierReturns, DecRefCount, Mark, RunRemoveCallbacks,
                RemoveCallbacksDone, Unmap, Recheck, notifyVars, imageVars, SameTold, Loaded
  <2> QED BY <1>0, <2>1, <2>2
<1> HIDE DEF Opens, Closes
<1>4. CASE Pop(t)
  BY <1>1, <1>2, <1>4, SilentPop
<1>5. ASSUME NEW f, SetTop(t, f), f.op = Top(t).op, f.pc \notin {"tell", "telling", "inAdd"},
             f.op = "dlopen" => f.arg = Top(t).arg /\ f.set = Top(t).set
      PROVE  ToldInv'
  BY <1>1, <1>2, <1>5, SilentGoOn
<1>6. ASSUME NEW pc, Goto(t, pc), pc \notin {"tell", "telling", "inAdd"} PROVE ToldInv'
  <2> DEFINE f == [Top(t) EXCEPT !.pc = pc]
  <2>1. SetTop(t, f) /\ f.op = Top(t).op /\ f.pc = pc /\ f.arg = Top(t).arg /\ f.set = Top(t).set
    BY <1>1, <1>6 DEF Goto, Frame
  <2> HIDE DEF f
  <2> QED BY <1>5, <1>6, <2>1
<1>7. CASE InitReturns(t)
  <2> DEFINE f == [Top(t) EXCEPT !.pc = "init", !.k = @ + 1]
  <2>1. f.op = Top(t).op /\ f.pc = "init" /\ f.arg = Top(t).arg /\ f.set = Top(t).set
    BY <1>1 DEF Frame
  <2>2. SetTop(t, f)
    BY <1>7 DEF InitReturns
  <2> HIDE DEF f
  <2> QED BY <1>5, <2>1, <2>2
<1>8. CASE SkipInit(t)
  <2> DEFINE f == [Top(t) EXCEPT !.k = @ + 1]
  <2>1. f.op = Top(t).op /\ f.pc = Top(t).pc /\ f.arg = Top(t).arg /\ f.set = Top(t).set
    BY <1>1 DEF Frame
  <2>2. SetTop(t, f)
    BY <1>8 DEF SkipInit
  <2>3. Top(t).pc \notin {"tell", "telling", "inAdd"}
    BY <1>1 DEF Silent
  <2> HIDE DEF f
  <2> QED BY <1>5, <2>1, <2>2, <2>3
<1>9. CASE LoadFails(t) \/ DlopenReturns(t)
  BY <1>4, <1>9 DEF LoadFails, DlopenReturns
<1>10. CASE StartInit(t) \/ TerminatorReturns(t) \/ RemoveNotifierReturns(t) \/ RemoveCallbacksDone(t) \/ Unmap(t)
  BY <1>6, <1>10 DEF StartInit, TerminatorReturns, RemoveNotifierReturns, RemoveCallbacksDone, Unmap
<1>11. CASE DecRefCount(t)
  <2>1. Goto(t, "mark") \/ Pop(t)
    BY <1>11 DEF DecRefCount
  <2> QED BY <1>4, <1>6, <2>1
<1>12. CASE Mark(t)
  <2> DEFINE dead == Unloadables \ InUse
             f == [Top(t) EXCEPT !.pc = IF dead = {} THEN "recheck" ELSE "terminate",
                                 !.set = dead, !.todo = {"terminator"} \X dead]
  <2>1. f.op = Top(t).op /\ f.pc \in {"recheck", "terminate"}
    BY <1>1 DEF Frame
  <2>2. SetTop(t, f) /\ Top(t).op = "dlclose"
    BY <1>12 DEF Mark, At
  <2> HIDE DEF f
  <2> QED BY <1>5, <2>1, <2>2
<1>13. CASE RunRemoveCallbacks(t)
  <2> DEFINE f == [Top(t) EXCEPT !.pc = "removing", !.todo = removeFuncs \X Top(t).set]
  <2>1. f.op = Top(t).op /\ f.pc = "removing"
    BY <1>1 DEF Frame
  <2>2. SetTop(t, f) /\ Top(t).op = "dlclose"
    BY <1>13 DEF RunRemoveCallbacks, At
  <2> HIDE DEF f
  <2> QED BY <1>5, <2>1, <2>2
<1>14. CASE Recheck(t)
  <2>1. Pop(t) \/ SetTop(t, NewFrame("dlclose", "mark", Top(t).arg, {}))
    BY <1>14 DEF Recheck
  <2>2. Top(t).op = "dlclose"
    BY <1>14 DEF Recheck, At
  <2>3. NewFrame("dlclose", "mark", Top(t).arg, {}).op = "dlclose" /\ NewFrame("dlclose", "mark", Top(t).arg, {}).pc = "mark"
    BY DEF NewFrame
  <2> QED BY <1>4, <1>5, <2>1, <2>2, <2>3
<1> QED
  BY <1>0, <1>7, <1>8, <1>9, <1>10, <1>11, <1>12, <1>13, <1>14 DEF Opens, Closes

\* dlclose() calls a terminator or a remove-image function.
LEMMA SilentCallOut ==
    ASSUME OneThread, IInv, Stacks', ToldInv, NEW t \in Threads, NEW f,
           stack[t] # <<>>, Silent(Top(t)), Top(t).op = "dlclose",
           SetTop(t, f), f.op = "dlclose", f.pc \in {"inTerm", "inRemove"},
           UNCHANGED <<imageVars, loadFuncs, told>>
    PROVE  ToldInv'
<1>1. SameTold
  BY DEF imageVars, SameTold, Loaded
<1> QED BY <1>1, SilentGoOn

LEMMA SilentTerminator ==
    ASSUME OneThread, IInv, Stacks', ToldInv, NEW t \in Threads, NEW i \in Images, CallTerminator(t, i)
    PROVE  ToldInv'
<1> DEFINE f == [Top(t) EXCEPT !.pc = "inTerm", !.todo = @ \ {<<"terminator", i>>}]
<1>1. stack[t] # <<>> /\ Top(t).op = "dlclose" /\ Top(t).pc = "terminate"
  BY DEF CallTerminator, At
<1>2. Top(t) \in Frame /\ Silent(Top(t))
  BY <1>1, TopFacts DEF IInv, Silent, APIs
<1>3. f.op = "dlclose" /\ f.pc = "inTerm"
  BY <1>1, <1>2 DEF Frame
<1> HIDE DEF f
<1>4. SetTop(t, f) /\ UNCHANGED <<imageVars, loadFuncs, told>>
  BY DEF CallTerminator, f
<1> QED BY <1>1, <1>2, <1>3, <1>4, SilentCallOut

LEMMA SilentRemove ==
    ASSUME OneThread, IInv, Stacks', ToldInv, NEW t \in Threads,
           NEW g \in Funcs, NEW i \in Images, CallRemoveNotifier(t, g, i)
    PROVE  ToldInv'
<1> DEFINE f == [Top(t) EXCEPT !.pc = "inRemove", !.todo = @ \ {<<g, i>>}]
<1>1. stack[t] # <<>> /\ Top(t).op = "dlclose" /\ Top(t).pc = "removing"
  BY DEF CallRemoveNotifier, At
<1>2. Top(t) \in Frame /\ Silent(Top(t))
  BY <1>1, TopFacts DEF IInv, Silent, APIs
<1>3. f.op = "dlclose" /\ f.pc = "inRemove"
  BY <1>1, <1>2 DEF Frame
<1> HIDE DEF f
<1>4. SetTop(t, f) /\ UNCHANGED <<imageVars, loadFuncs, told>>
  BY DEF CallRemoveNotifier, f
<1> QED BY <1>1, <1>2, <1>3, <1>4, SilentCallOut

-----------------------------------------------------------------------------
(* Steps that are about being told *)

\* A call other than the one at l has still to call g about i.
Others(t, l, g, i) == \E n \in DOMAIN stack[t] : n # l /\ Pending(stack[t][n], g, i)

LEMMA PendingSplit ==
    ASSUME OneThread, Stacks, Stacks', NEW t \in Threads, NEW l \in Nat, Elsewhere(t, l),
           l \in DOMAIN stack[t], l \in DOMAIN stack'[t], NEW g, NEW i
    PROVE  /\ IsPending(g, i) <=> Pending(stack[t][l], g, i) \/ Others(t, l, g, i)
           /\ IsPending(g, i)' <=> Pending(stack'[t][l], g, i) \/ Others(t, l, g, i)
<1>1. DOMAIN stack[t] \subseteq Nat /\ DOMAIN stack'[t] \subseteq Nat /\ Threads = {t}
  BY DEF Stacks, OneThread
<1>2. \A n \in Nat : n # l => /\ n \in DOMAIN stack'[t] <=> n \in DOMAIN stack[t]
                              /\ n \in DOMAIN stack[t] => stack'[t][n] = stack[t][n]
  BY DEF Elsewhere
<1>3. IsPending(g, i) <=> \E n \in DOMAIN stack[t] : Pending(stack[t][n], g, i)
  BY <1>1 DEF IsPending
<1>4. IsPending(g, i)' <=> \E n \in DOMAIN stack'[t] : Pending(stack'[t][n], g, i)
  BY <1>1 DEF IsPending, Pending
<1> QED BY <1>1, <1>2, <1>3, <1>4 DEF Others

\* The innermost call goes on, and tells of what it had not told of before.
LEMMA TellStep ==
    ASSUME OneThread, Stacks, Stacks', ToldInv, NEW t \in Threads, NEW l \in Nat, Elsewhere(t, l),
           l \in DOMAIN stack[t], l \in DOMAIN stack'[t], Len(stack'[t]) = Len(stack[t]),
           NEW f, f = stack'[t][l],
           f.op = stack[t][l].op, f.arg = stack[t][l].arg, f.set = stack[t][l].set,
           loadFuncs' = loadFuncs, Loaded \subseteq Loaded',
           Tells(f, Loaded', loadFuncs'),
           Telling(f) => \A n \in DOMAIN stack[t] :
               n # l /\ Telling(stack[t][n]) => stack[t][n].set \cap f.set = {},
           \A g \in Funcs, i \in Images :
               told'[g][i] = IF /\ i \in Loaded' /\ (g \in loadFuncs \/ IsAdding(g))
                                /\ ~Pending(f, g, i) /\ ~Others(t, l, g, i) THEN 1 ELSE 0
    PROVE  ToldInv'
<1>1. DOMAIN stack[t] \subseteq Nat /\ DOMAIN stack'[t] \subseteq Nat /\ Threads = {t}
  BY DEF Stacks, OneThread
<1>2. \A n \in Nat : n # l => /\ n \in DOMAIN stack'[t] <=> n \in DOMAIN stack[t]
                              /\ n \in DOMAIN stack[t] => stack'[t][n] = stack[t][n]
  BY DEF Elsewhere
<1>3. \A g : IsAdding(g)' <=> IsAdding(g)
  BY <1>1, <1>2 DEF IsAdding
<1>4. Apart'
  <2>1. ASSUME NEW n \in DOMAIN stack'[t] PROVE Tells(stack'[t][n], Loaded', loadFuncs')
    <3>1. CASE n = l
      BY <3>1
    <3>2. CASE n # l
      <4>1. n \in DOMAIN stack[t] /\ stack'[t][n] = stack[t][n] /\ Tells(stack[t][n], Loaded, loadFuncs)
        BY <1>1, <1>2, <2>1, <3>2 DEF ToldInv, Apart
      <4> QED BY <4>1 DEF Tells
    <3> QED BY <3>1, <3>2
  <2>2. ASSUME NEW n \in DOMAIN stack'[t], stack'[t][n].op = "register" PROVE Len(stack'[t]) = 1
    <3>1. n \in DOMAIN stack[t] /\ stack[t][n].op = "register"
      BY <1>1, <1>2, <2>2
    <3> QED BY <3>1 DEF ToldInv, Apart
  <2>3. ASSUME NEW n \in DOMAIN stack'[t], NEW m \in DOMAIN stack'[t],
               m # n, Telling(stack'[t][m]), Telling(stack'[t][n])
        PROVE  stack'[t][m].set \cap stack'[t][n].set = {}
    <3>1. CASE n = l
      <4>1. m \in DOMAIN stack[t] /\ stack'[t][m] = stack[t][m] /\ m # l
        BY <1>1, <1>2, <2>3, <3>1
      <4> QED BY <2>3, <3>1, <4>1
    <3>2. CASE m = l
      <4>1. n \in DOMAIN stack[t] /\ stack'[t][n] = stack[t][n] /\ n # l
        BY <1>1, <1>2, <2>3, <3>2
      <4> QED BY <2>3, <3>2, <4>1
    <3>3. CASE n # l /\ m # l
      <4>1. n \in DOMAIN stack[t] /\ m \in DOMAIN stack[t] /\ stack'[t][n] = stack[t][n] /\ stack'[t][m] = stack[t][m]
        BY <1>1, <1>2, <2>3, <3>3
      <4> QED BY <2>3, <4>1 DEF ToldInv, Apart
    <3> QED BY <3>1, <3>2, <3>3
  <2> QED BY <1>1, <2>1, <2>2, <2>3 DEF Apart, Telling, Tells
<1>5. ASSUME NEW g \in Funcs, NEW i \in Images PROVE Heard(g, i)'
  <2>1. IsPending(g, i)' <=> Pending(f, g, i) \/ Others(t, l, g, i)
    BY PendingSplit
  <2> QED BY <1>3, <2>1 DEF Heard
<1> QED BY <1>4, <1>5 DEF ToldInv

\* Before the step.
LEMMA ToldBefore ==
    ASSUME OneThread, Stacks, Stacks', ToldInv, NEW t \in Threads, NEW l \in Nat, Elsewhere(t, l),
           l \in DOMAIN stack[t], l \in DOMAIN stack'[t], NEW g \in Funcs, NEW i \in Images
    PROVE  told[g][i] = IF /\ i \in Loaded /\ (g \in loadFuncs \/ IsAdding(g))
                           /\ ~Pending(stack[t][l], g, i) /\ ~Others(t, l, g, i) THEN 1 ELSE 0
<1>1. Heard(g, i)
  BY DEF ToldInv
<1>2. IsPending(g, i) <=> Pending(stack[t][l], g, i) \/ Others(t, l, g, i)
  BY PendingSplit
<1> QED BY <1>1, <1>2 DEF Heard

\* Where the innermost call is.
LEMMA TopPlace ==
    ASSUME IInv, Stacks', NEW t \in Threads, stack[t] # <<>>, NEW f, SetTop(t, f)
    PROVE  \E l \in Nat : /\ l \in DOMAIN stack[t] /\ l \in DOMAIN stack'[t] /\ Elsewhere(t, l)
                          /\ l = Len(stack[t]) /\ Len(stack'[t]) = Len(stack[t])
                          /\ stack[t][l] = Top(t) /\ stack'[t][l] = f
<1>1. Stacks
  BY DEF IInv, TypeOK, Stacks
<1>2. f \in Frame
  BY <1>1, BecomesFrame
<1>3. Len(stack'[t]) = Len(stack[t])
  BY <1>1, <1>2, SetTopFacts
<1> QED BY <1>1, <1>2, <1>3, Places

\* While dlopen() is innermost nothing is being registered.
LEMMA OpensAlone ==
    ASSUME OneThread, IInv, ToldInv, NEW t \in Threads, stack[t] # <<>>, Top(t).op = "dlopen"
    PROVE  /\ \A n \in DOMAIN stack[t] : stack[t][n].op # "register"
           /\ \A g : ~IsAdding(g)
<1>1. Stacks
  BY DEF IInv, TypeOK, Stacks
<1>2. \A n \in DOMAIN stack[t] : stack[t][n].op # "register"
  BY <1>1, NotAdding DEF ToldInv, APIs
<1>3. Threads = {t}
  BY DEF OneThread
<1> QED BY <1>2, <1>3 DEF IsAdding

\* dlopen() appends its images to _loadedImages.
LEMMA ToldAddImages ==
    ASSUME OneThread, IInv, CInv, Stacks', ToldInv, NEW t \in Threads, AddImages(t)
    PROVE  ToldInv'
<1> DEFINE f == [Top(t) EXCEPT !.pc = "tell"]
           new == Top(t).set
<1>1. stack[t] # <<>> /\ Top(t).op = "dlopen" /\ Top(t).pc = "map"
  BY DEF AddImages, At
<1>2. Stacks /\ Top(t) \in Frame /\ Len(stack[t]) \in DOMAIN stack[t]
  BY <1>1, TopFacts DEF IInv
<1>3. f.op = "dlopen" /\ f.pc = "tell" /\ f.arg = Top(t).arg /\ f.set = new
  BY <1>1, <1>2 DEF Frame
<1>4. new \subseteq Images /\ new \cap Loaded = {} /\ new \subseteq Closure(Top(t).arg)
  <2>1. FrameOK(Top(t), Loaded, mapped, never, refs) /\ Recalls(Top(t), Loaded, removeFuncs, farewell)
    BY <1>2 DEF IInv, Data, Frames, CInv, Memories, Top
  <2> QED BY <1>1, <1>2, <2>1 DEF FrameOK, NewOK, IsMap, Recalls, Frame
<1>5. SetTop(t, f) /\ loadFuncs' = loadFuncs /\ told' = told
  BY DEF AddImages, Goto, notifyVars
<1>6. Loaded' = Loaded \cup new
  BY <1>4 DEF AddImages, Loaded
<1> HIDE DEF f, new
<1>7. PICK l \in Nat : /\ l \in DOMAIN stack[t] /\ l \in DOMAIN stack'[t] /\ Elsewhere(t, l)
                       /\ l = Len(stack[t]) /\ Len(stack'[t]) = Len(stack[t])
                       /\ stack[t][l] = Top(t) /\ stack'[t][l] = f
  BY <1>1, <1>5, TopPlace
<1>8. Tells(f, Loaded', loadFuncs')
  BY <1>3, <1>4 DEF Tells
<1>9. ASSUME NEW n \in DOMAIN stack[t], Telling(stack[t][n]) PROVE stack[t][n].set \cap new = {}
  <2>1. stack[t][n].op = "dlopen" /\ stack[t][n].pc # "map"
    BY <1>9 DEF Telling
  <2>2. Closure(stack[t][n].arg) \subseteq Loaded
    BY <1>9, <2>1, OpeningStays
  <2>3. stack[t][n].set \subseteq Closure(stack[t][n].arg)
    BY <1>9, <2>1 DEF ToldInv, Apart, Tells
  <2> QED BY <1>4, <2>2, <2>3
<1>10. ASSUME NEW g \in Funcs, NEW i \in Images
       PROVE  told'[g][i] = IF /\ i \in Loaded' /\ (g \in loadFuncs \/ IsAdding(g))
                               /\ ~Pending(f, g, i) /\ ~Others(t, l, g, i) THEN 1 ELSE 0
  <2>1. told[g][i] = IF /\ i \in Loaded /\ (g \in loadFuncs \/ IsAdding(g))
                        /\ ~Pending(stack[t][l], g, i) /\ ~Others(t, l, g, i) THEN 1 ELSE 0
    BY <1>2, <1>7, ToldBefore
  <2>2. ~Pending(stack[t][l], g, i)
    BY <1>1, <1>7 DEF Pending
  <2>3. Pending(f, g, i) <=> i \in new
    BY <1>3 DEF Pending
  <2>4. i \in new => i \notin Loaded
    BY <1>4
  <2>5. told'[g][i] = told[g][i]
    BY <1>5
  <2>6. CASE i \in new
    <3>1. told[g][i] = 0
      BY <2>1, <2>4, <2>6
    <3> QED BY <2>3, <2>5, <2>6, <3>1
  <2>7. CASE i \notin new
    <3>1. i \in Loaded' <=> i \in Loaded
      BY <1>6, <2>7
    <3> QED BY <2>1, <2>2, <2>3, <2>5, <2>7, <3>1
  <2> QED BY <2>6, <2>7
<1>11. f = stack'[t][l] /\ f.op = stack[t][l].op /\ f.arg = stack[t][l].arg /\ f.set = stack[t][l].set
  BY <1>1, <1>3, <1>7 DEF new
<1>12. \A n \in DOMAIN stack[t] : n # l /\ Telling(stack[t][n]) => stack[t][n].set \cap f.set = {}
  BY <1>3, <1>9
<1>13. loadFuncs' = loadFuncs /\ Loaded \subseteq Loaded'
  BY <1>5, <1>6
<1> QED BY <1>2, <1>7, <1>8, <1>10, <1>11, <1>12, <1>13, TellStep

\* A call that tells, or has told, goes on.
LEMMA GoesOnTelling ==
    ASSUME OneThread, IInv, Stacks', ToldInv, NEW t \in Threads, stack[t] # <<>>,
           Telling(Top(t)) \/ Top(t).op = "register",
           NEW f, SetTop(t, f), f.op = Top(t).op, f.arg = Top(t).arg, f.set = Top(t).set,
           SameTold, Tells(f, Loaded, loadFuncs),
           \A g \in Funcs, i \in Images :
              g \in loadFuncs \/ IsAdding(g) => (Pending(f, g, i) <=> Pending(Top(t), g, i))
    PROVE  ToldInv'
<1>1. Stacks /\ loadFuncs' = loadFuncs /\ told' = told /\ Loaded' = Loaded
  BY DEF IInv, TypeOK, Stacks, SameTold
<1>2. PICK l \in Nat : /\ l \in DOMAIN stack[t] /\ l \in DOMAIN stack'[t] /\ Elsewhere(t, l)
                       /\ l = Len(stack[t]) /\ Len(stack'[t]) = Len(stack[t])
                       /\ stack[t][l] = Top(t) /\ stack'[t][l] = f
  BY TopPlace
<1>3. ASSUME Telling(f), NEW n \in DOMAIN stack[t], n # l, Telling(stack[t][n])
      PROVE  stack[t][n].set \cap f.set = {}
  <2>1. Telling(stack[t][l])
    BY <1>2, <1>3 DEF Telling
  <2> QED BY <1>2, <1>3, <2>1 DEF ToldInv, Apart
<1>4. ASSUME NEW g \in Funcs, NEW i \in Images
      PROVE  told'[g][i] = IF /\ i \in Loaded' /\ (g \in loadFuncs \/ IsAdding(g))
                              /\ ~Pending(f, g, i) /\ ~Others(t, l, g, i) THEN 1 ELSE 0
  <2>1. told[g][i] = IF /\ i \in Loaded /\ (g \in loadFuncs \/ IsAdding(g))
                        /\ ~Pending(stack[t][l], g, i) /\ ~Others(t, l, g, i) THEN 1 ELSE 0
    BY <1>1, <1>2, ToldBefore
  <2> QED BY <1>1, <1>2, <2>1
<1> QED BY <1>1, <1>2, <1>3, <1>4, TellStep

\* dlopen() takes the functions to call, goes from one to the next and comes to the last.
LEMMA ToldTelling ==
    ASSUME OneThread, IInv, Stacks', ToldInv, NEW t \in Threads,
           RunImageCallbacks(t) \/ AddNotifierReturns(t) \/ ImageCallbacksDone(t) \/ AddLoadNotifierTold(t)
    PROVE  ToldInv'
<1>1. stack[t] # <<>> /\ SameTold
  BY DEF RunImageCallbacks, AddNotifierReturns, ImageCallbacksDone, AddLoadNotifierTold, At,
         imageVars, notifyVars, SameTold, Loaded
<1>2. Stacks /\ Top(t) \in Frame /\ FrameShape(Top(t)) /\ Len(stack[t]) \in DOMAIN stack[t]
  BY <1>1, TopFacts DEF IInv
<1>3. Tells(Top(t), Loaded, loadFuncs)
  BY <1>2 DEF ToldInv, Apart, Top
<1>4. CASE RunImageCallbacks(t)
  <2> DEFINE f == [Top(t) EXCEPT !.pc = "telling", !.todo = loadFuncs \X Top(t).set]
  <2>1. Top(t).op = "dlopen" /\ Top(t).pc = "tell"
    BY <1>4 DEF RunImageCallbacks, At
  <2>2. /\ f.op = "dlopen" /\ f.pc = "telling" /\ f.arg = Top(t).arg /\ f.set = Top(t).set
        /\ f.todo = loadFuncs \X Top(t).set
    BY <1>2, <2>1 DEF Frame
  <2>3. SetTop(t, f)
    BY <1>4 DEF RunImageCallbacks
  <2> HIDE DEF f
  <2>4. Tells(f, Loaded, loadFuncs)
    BY <1>3, <2>1, <2>2 DEF Tells
  <2>5. \A g \in Funcs, i \in Images : g \in loadFuncs \/ IsAdding(g) => (Pending(f, g, i) <=> Pending(Top(t), g, i))
    <3>1. \A g : ~IsAdding(g)
      BY <1>1, <2>1, OpensAlone
    <3> QED BY <2>1, <2>2, <3>1 DEF Pending
  <2> QED BY <1>1, <2>1, <2>2, <2>3, <2>4, <2>5, GoesOnTelling DEF Telling
<1>5. CASE AddNotifierReturns(t)
  <2> DEFINE f == [Top(t) EXCEPT !.pc = "telling"]
  <2>1. Top(t).pc = "inAdd"
    BY <1>5 DEF AddNotifierReturns
  <2>2. /\ f.op = Top(t).op /\ f.pc = "telling" /\ f.arg = Top(t).arg /\ f.set = Top(t).set
        /\ f.todo = Top(t).todo
    BY <1>2, <2>1 DEF Frame
  <2>3. SetTop(t, f)
    BY <1>5 DEF AddNotifierReturns, Goto
  <2> HIDE DEF f
  <2>4. Tells(f, Loaded, loadFuncs)
    BY <1>3, <2>1, <2>2 DEF Tells
  <2>5. \A g \in Funcs, i \in Images : Pending(f, g, i) <=> Pending(Top(t), g, i)
    BY <2>1, <2>2 DEF Pending
  <2>6. Telling(Top(t)) \/ Top(t).op = "register"
    BY <1>2, <2>1 DEF Telling, FrameShape, GcPCs, Frame, APIs
  <2> QED BY <1>1, <2>1, <2>2, <2>3, <2>4, <2>5, <2>6, GoesOnTelling
<1>6. ASSUME NEW pc, Goto(t, pc), pc \notin {"tell", "telling", "inAdd"}, Top(t).pc = "telling", Top(t).todo = {},
             Top(t).op \in {"dlopen", "register"}
      PROVE  ToldInv'
  <2> DEFINE f == [Top(t) EXCEPT !.pc = pc]
  <2>2. /\ f.op = Top(t).op /\ f.pc = pc /\ f.arg = Top(t).arg /\ f.set = Top(t).set
        /\ f.todo = Top(t).todo
    BY <1>2 DEF Frame
  <2>3. SetTop(t, f)
    BY <1>6 DEF Goto
  <2> HIDE DEF f
  <2>4. Tells(f, Loaded, loadFuncs)
    BY <1>3, <1>6, <2>2 DEF Tells
  <2>5. \A g \in Funcs, i \in Images : Pending(f, g, i) <=> Pending(Top(t), g, i)
    BY <1>6, <2>2 DEF Pending
  <2>6. Telling(Top(t)) \/ Top(t).op = "register"
    BY <1>6 DEF Telling
  <2> QED BY <1>1, <2>2, <2>3, <2>4, <2>5, <2>6, GoesOnTelling
<1>7. CASE ImageCallbacksDone(t)
  BY <1>6, <1>7 DEF ImageCallbacksDone, At
<1>8. CASE AddLoadNotifierTold(t)
  BY <1>6, <1>8 DEF AddLoadNotifierTold, At
<1> QED BY <1>4, <1>5, <1>7, <1>8

\* A function is called about an image: it was not called before, and nobody else is
\* to call it.
LEMMA ToldCall ==
    ASSUME OneThread, IInv, CInv, Stacks', ToldInv, NEW t \in Threads,
           NEW h \in Funcs, NEW j \in Images, CallAddNotifier(t, h, j)
    PROVE  ToldInv'
<1> DEFINE f == [Top(t) EXCEPT !.pc = "inAdd", !.todo = @ \ {<<h, j>>}]
<1>1. stack[t] # <<>> /\ Top(t).pc = "telling" /\ <<h, j>> \in Top(t).todo
  BY DEF CallAddNotifier
<1>2. Stacks /\ Top(t) \in Frame /\ FrameShape(Top(t)) /\ Len(stack[t]) \in DOMAIN stack[t]
  BY <1>1, TopFacts DEF IInv
<1>3. /\ f.op = Top(t).op /\ f.pc = "inAdd" /\ f.arg = Top(t).arg /\ f.set = Top(t).set
      /\ f.todo = Top(t).todo \ {<<h, j>>}
  BY <1>1, <1>2 DEF Frame
<1> HIDE DEF f
<1>4. SetTop(t, f) /\ told' = [told EXCEPT ![h][j] = @ + 1] /\ UNCHANGED <<imageVars, loadFuncs>>
  BY DEF CallAddNotifier, f
<1>5. loadFuncs' = loadFuncs /\ Loaded' = Loaded
  BY <1>4 DEF imageVars, Loaded
<1>6. PICK l \in Nat : /\ l \in DOMAIN stack[t] /\ l \in DOMAIN stack'[t] /\ Elsewhere(t, l)
                       /\ l = Len(stack[t]) /\ Len(stack'[t]) = Len(stack[t])
                       /\ stack[t][l] = Top(t) /\ stack'[t][l] = f
  BY <1>1, <1>4, TopPlace
<1>7. Tells(Top(t), Loaded, loadFuncs)
  BY <1>2 DEF ToldInv, Apart, Top
<1>8. Tells(f, Loaded', loadFuncs')
  BY <1>1, <1>3, <1>5, <1>7 DEF Tells
<1>9. ASSUME Telling(f), NEW n \in DOMAIN stack[t], n # l, Telling(stack[t][n])
      PROVE  stack[t][n].set \cap f.set = {}
  <2>1. Telling(stack[t][l])
    BY <1>1, <1>3, <1>6, <1>9 DEF Telling
  <2> QED BY <1>3, <1>6, <1>9, <2>1 DEF ToldInv, Apart
<1>10. Top(t).op \in {"dlopen", "register"}
  BY <1>1, <1>2 DEF FrameShape, GcPCs, Frame, APIs
<1>11. j \in Loaded /\ (h \in loadFuncs \/ IsAdding(h))
  <2>1. CASE Top(t).op = "dlopen"
    <3>1. h \in loadFuncs /\ j \in Top(t).set /\ Top(t).set \subseteq Closure(Top(t).arg)
      BY <1>1, <1>7, <2>1 DEF Tells
    <3>2. Closure(Top(t).arg) \subseteq Loaded
      BY <1>1, <1>6, <2>1, OpeningStays
    <3> QED BY <3>1, <3>2
  <2>2. CASE Top(t).op = "register"
    <3>1. h = Top(t).arg /\ j \in Loaded
      BY <1>1, <1>7, <2>2 DEF Tells
    <3> QED BY <1>6, <2>2, <3>1 DEF IsAdding
  <2> QED BY <1>10, <2>1, <2>2
<1>12. ~Others(t, l, h, j)
  <2> SUFFICES ASSUME NEW n \in DOMAIN stack[t], n # l, Pending(stack[t][n], h, j) PROVE FALSE
    BY DEF Others
  <2>1. Top(t).op # "register" /\ stack[t][n].op # "register"
    <3>1. DOMAIN stack[t] = 1..Len(stack[t]) /\ Len(stack[t]) \in Nat
      BY <1>2 DEF Stacks
    <3>2. Len(stack[t]) # 1
      BY <1>6, <3>1
    <3> QED BY <1>6, <3>2 DEF ToldInv, Apart
  <2>2. stack[t][n].op = "dlopen" /\ Telling(stack[t][n])
    <3>1. stack[t][n] \in Frame /\ FrameShape(stack[t][n])
      BY DEF IInv, TypeOK, Struct, Shapes
    <3>2. stack[t][n].op \in {"dlopen", "dlclose"}
      BY <2>1, <3>1 DEF Frame, APIs
    <3> QED BY <3>1, <3>2 DEF Pending, Telling, FrameShape, GcPCs
  <2>3. Tells(stack[t][n], Loaded, loadFuncs)
    BY DEF ToldInv, Apart
  <2>4. j \in stack[t][n].set
    BY <2>2, <2>3 DEF Pending, Tells
  <2>5. Top(t).op = "dlopen" /\ j \in Top(t).set
    BY <1>1, <1>7, <1>10, <2>1 DEF Tells
  <2>6. Telling(stack[t][l])
    BY <1>1, <1>6, <2>5 DEF Telling
  <2>7. stack[t][n].set \cap stack[t][l].set = {}
    BY <1>6, <2>2, <2>6 DEF ToldInv, Apart
  <2> QED BY <1>6, <2>4, <2>5, <2>7
<1>13. ASSUME NEW g \in Funcs, NEW i \in Images
       PROVE  told'[g][i] = IF /\ i \in Loaded' /\ (g \in loadFuncs \/ IsAdding(g))
                               /\ ~Pending(f, g, i) /\ ~Others(t, l, g, i) THEN 1 ELSE 0
  <2>1. told[g][i] = IF /\ i \in Loaded /\ (g \in loadFuncs \/ IsAdding(g))
                        /\ ~Pending(stack[t][l], g, i) /\ ~Others(t, l, g, i) THEN 1 ELSE 0
    BY <1>2, <1>6, ToldBefore
  <2>2. CASE g = h /\ i = j
    <3>1. Pending(stack[t][l], g, i)
      BY <1>1, <1>6, <2>2 DEF Pending
    <3>2. ~Pending(f, g, i)
      BY <1>3, <2>2 DEF Pending
    <3>3. told[h][j] = 0
      BY <2>1, <2>2, <3>1
    <3>4. told'[h][j] = 1
      BY <1>4, <3>3 DEF IInv, TypeOK
    <3> QED BY <1>5, <1>11, <1>12, <2>2, <3>2, <3>4
  <2>3. CASE g # h \/ i # j
    <3>1. told'[g][i] = told[g][i]
      BY <1>4, <2>3 DEF IInv, TypeOK
    <3>2. Pending(f, g, i) <=> Pending(stack[t][l], g, i)
      BY <1>1, <1>3, <1>6, <2>3 DEF Pending
    <3> QED BY <1>5, <2>1, <3>1, <3>2
  <2> QED BY <2>2, <2>3
<1> QED BY <1>2, <1>3, <1>5, <1>6, <1>8, <1>9, <1>13, TellStep

\* A collection takes the dead images from _loadedImages.
LEMMA ToldErase ==
    ASSUME OneThread, IInv, Stacks', ToldInv, NEW t \in Threads, Erase(t)
    PROVE  ToldInv'
<1> DEFINE f == [Top(t) EXCEPT !.pc = "unmap"]
           dead == Top(t).set
<1>1. stack[t] # <<>> /\ Top(t).op = "dlclose" /\ Top(t).pc = "erase"
  BY DEF Erase, At
<1>2. Stacks /\ Top(t) \in Frame
  BY <1>1, TopFacts DEF IInv
<1>3. f.op = "dlclose" /\ f.pc = "unmap"
  BY <1>1, <1>2 DEF Frame
<1>4. SetTop(t, f) /\ loadFuncs' = loadFuncs
  BY DEF Erase, Goto
<1>5. Loaded' = Loaded \ dead
  BY DEF Erase, Loaded
<1>6. ASSUME NEW g \in Funcs, NEW i \in Images
      PROVE  told'[g][i] = IF i \in Loaded' THEN told[g][i] ELSE 0
  <2>1. told'[g][i] = IF i \in dead THEN 0 ELSE told[g][i]
    BY DEF Erase
  <2>2. i \notin Loaded => told[g][i] = 0
    BY DEF ToldInv, Heard
  <2> HIDE DEF dead
  <2> QED BY <1>5, <2>1, <2>2
<1> HIDE DEF f, dead
<1>7. PICK l \in Nat : /\ l \in DOMAIN stack[t] /\ l \in DOMAIN stack'[t] /\ Elsewhere(t, l)
                       /\ l = Len(stack[t]) /\ Len(stack'[t]) = Len(stack[t])
                       /\ stack[t][l] = Top(t) /\ stack'[t][l] = f
  BY <1>1, <1>4, TopPlace
<1>8. \A n \in DOMAIN stack[t] : stack[t][n].op # "register"
  BY <1>1, <1>2, NotAdding DEF ToldInv, APIs
<1>9. Silent(Top(t)) /\ Silent(f)
  BY <1>1, <1>3 DEF Silent, APIs
<1> QED BY <1>2, <1>3, <1>4, <1>5, <1>6, <1>7, <1>8, <1>9, SilentKept

\* A function is registered: it is to be called about every image.
LEMMA ToldRegister ==
    ASSUME OneThread, IInv, Stacks', ToldInv, NEW t \in Threads, NEW h \in Funcs, AddLoadNotifier(t, h)
    PROVE  ToldInv'
<1> DEFINE f == [NewFrame("register", "telling", h, {}) EXCEPT !.todo = {h} \X Loaded]
<1>1. stack[t] = <<>> /\ h \notin loadFuncs /\ SameTold
  BY DEF AddLoadNotifier, imageVars, notifyVars, SameTold, Loaded
<1>2. f.op = "register" /\ f.pc = "telling" /\ f.arg = h /\ f.todo = {h} \X Loaded
  BY DEF NewFrame
<1>3. Stacks /\ Threads = {t}
  BY DEF IInv, TypeOK, Stacks, OneThread
<1>4. Push(t, f)
  BY DEF AddLoadNotifier
<1> HIDE DEF f
<1>5. stack'[t] = <<f>>
  BY <1>1, <1>3, <1>4 DEF Push, Stacks
<1>6. DOMAIN stack'[t] = {1} /\ stack'[t][1] = f /\ Len(stack'[t]) = 1 /\ DOMAIN stack[t] = {}
  BY <1>1, <1>5
<1>7. Loaded' = Loaded /\ loadFuncs' = loadFuncs /\ told' = told
  BY <1>1 DEF SameTold
<1>8. Apart'
  <2>1. Tells(f, Loaded', loadFuncs')
    BY <1>1, <1>2, <1>7 DEF Tells
  <2> QED BY <1>3, <1>6, <2>1 DEF Apart, Tells, Telling
<1>9. ASSUME NEW g \in Funcs, NEW i \in Images PROVE Heard(g, i)'
  <2>1. Heard(g, i)
    BY DEF ToldInv
  <2>2. ~IsAdding(g) /\ ~IsPending(g, i)
    BY <1>3, <1>6 DEF IsAdding, IsPending
  <2>3. IsAdding(g)' <=> g = h
    BY <1>2, <1>3, <1>6 DEF IsAdding
  <2>4. IsPending(g, i)' <=> g = h /\ i \in Loaded
    BY <1>2, <1>3, <1>6 DEF IsPending, Pending
  <2>5. told'[g][i] = IF i \in Loaded /\ g \in loadFuncs THEN 1 ELSE 0
    BY <1>7, <2>1, <2>2 DEF Heard
  <2> QED BY <1>1, <1>7, <2>3, <2>4, <2>5 DEF Heard
<1> QED BY <1>8, <1>9 DEF ToldInv

\* It has been, and is appended to _loadNotifiers.
LEMMA ToldAppend ==
    ASSUME OneThread, IInv, Stacks', ToldInv, NEW t \in Threads, AppendLoadNotifier(t)
    PROVE  ToldInv'
<1>1. stack[t] # <<>> /\ Top(t).op = "register" /\ Top(t).pc = "append"
  BY DEF AppendLoadNotifier, At
<1>2. Stacks /\ Top(t) \in Frame /\ Len(stack[t]) \in DOMAIN stack[t]
  BY <1>1, TopFacts DEF IInv
<1>3. Threads = {t} /\ stack[t] \in Seq(Frame)
  BY <1>2 DEF Stacks, OneThread
<1>4. Len(stack[t]) = 1
  BY <1>1, <1>2 DEF ToldInv, Apart, Top
<1>5. DOMAIN stack[t] = {1} /\ stack[t][1] = Top(t)
  BY <1>3, <1>4 DEF Top
<1>6. DOMAIN stack'[t] = {}
  <2>1. Pop(t)
    BY DEF AppendLoadNotifier
  <2>2. stack'[t] = SubSeq(stack[t], 1, Len(stack[t]) - 1)
    BY <1>2, <2>1 DEF Pop, Stacks
  <2>3. stack'[t] = SubSeq(stack[t], 1, 0)
    BY <1>4, <2>2
  <2> QED BY <1>3, <2>3
<1>7. Loaded' = Loaded /\ loadFuncs' = loadFuncs \cup {Top(t).arg} /\ told' = told
  BY DEF AppendLoadNotifier, imageVars, Loaded
<1>8. Apart'
  BY <1>3, <1>6 DEF Apart
<1>9. ASSUME NEW g \in Funcs, NEW i \in Images PROVE Heard(g, i)'
  <2>1. Heard(g, i)
    BY DEF ToldInv
  <2>2. IsAdding(g) <=> g = Top(t).arg
    BY <1>1, <1>3, <1>5 DEF IsAdding
  <2>3. ~IsPending(g, i)
    BY <1>1, <1>3, <1>5 DEF IsPending, Pending
  <2>4. ~IsAdding(g)' /\ ~IsPending(g, i)'
    BY <1>3, <1>6 DEF IsAdding, IsPending
  <2> QED BY <1>7, <2>1, <2>2, <2>3, <2>4 DEF Heard
<1> QED BY <1>8, <1>9 DEF ToldInv

-----------------------------------------------------------------------------
(* The invariant holds *)

LEMMA ToldStep ==
    ASSUME OneThread, IInv, CInv, Stacks', ToldInv, [Next]_vars
    PROVE  ToldInv'
<1>1. CASE UNCHANGED vars
  <2>1. Stacks /\ stack' = stack /\ SameTold
    BY <1>1 DEF IInv, TypeOK, Stacks, vars, imageVars, notifyVars, SameTold, Loaded
  <2> QED BY <2>1, SilentAside
<1>2. ASSUME NEW t \in Threads, UserCall(t) PROVE ToldInv'
  BY <1>2, SilentCalls, ToldRegister DEF UserCall
<1>3. ASSUME NEW t \in Threads, UserReturns(t) PROVE ToldInv'
  BY <1>3, SilentSteps, ToldTelling DEF UserReturns
<1>4. ASSUME NEW t \in Threads, DyldStep(t) PROVE ToldInv'
  <2>1. \/ LoadFails(t) \/ AddImages(t) \/ RunImageCallbacks(t) \/ ImageCallbacksDone(t)
        \/ StartInit(t) \/ SkipInit(t) \/ DlopenReturns(t)
        \/ DecRefCount(t) \/ Mark(t) \/ RunRemoveCallbacks(t) \/ RemoveCallbacksDone(t)
        \/ Erase(t) \/ Unmap(t) \/ Recheck(t)
        \/ AddLoadNotifierTold(t) \/ AppendLoadNotifier(t)
        \/ \E i \in Images : CallTerminator(t, i)
        \/ \E f \in Funcs, i \in Images : CallAddNotifier(t, f, i)
        \/ \E f \in Funcs, i \in Images : CallRemoveNotifier(t, f, i)
    BY <1>4 DEF DyldStep
  <2>2. CASE \/ LoadFails(t) \/ StartInit(t) \/ SkipInit(t) \/ DlopenReturns(t)
             \/ DecRefCount(t) \/ Mark(t) \/ RunRemoveCallbacks(t) \/ RemoveCallbacksDone(t)
             \/ Unmap(t) \/ Recheck(t)
    BY <2>2, SilentSteps
  <2>3. CASE RunImageCallbacks(t) \/ ImageCallbacksDone(t) \/ AddLoadNotifierTold(t)
    BY <2>3, ToldTelling
  <2>4. CASE AddImages(t)
    BY <2>4, ToldAddImages
  <2>5. CASE Erase(t)
    BY <2>5, ToldErase
  <2>6. CASE AppendLoadNotifier(t)
    BY <2>6, ToldAppend
  <2>7. CASE \E i \in Images : CallTerminator(t, i)
    BY <2>7, SilentTerminator
  <2>8. CASE \E f \in Funcs, i \in Images : CallAddNotifier(t, f, i)
    BY <2>8, ToldCall
  <2>9. CASE \E f \in Funcs, i \in Images : CallRemoveNotifier(t, f, i)
    BY <2>9, SilentRemove
  <2> QED BY <2>1, <2>2, <2>3, <2>4, <2>5, <2>6, <2>7, <2>8, <2>9
<1> QED BY <1>1, <1>2, <1>3, <1>4 DEF Next

LEMMA ToldInit ==
    ASSUME Init
    PROVE  ToldInv
<1>1. /\ \A t \in Threads : DOMAIN stack[t] = {}
      /\ loadFuncs = {}
      /\ \A g \in Funcs, i \in Images : told[g][i] = 0
  BY DEF Init
<1>2. Apart
  BY <1>1 DEF Apart
<1>3. \A g \in Funcs, i \in Images : Heard(g, i)
  BY <1>1 DEF Heard, IsAdding
<1> QED BY <1>2, <1>3 DEF ToldInv

LEMMA ToldInvHolds ==
    ASSUME OneThread, TerminatorsDoNotOpen, PinnedIsClosed
    PROVE  Spec => [](IInv /\ CInv /\ ToldInv)
<1>1. Init => ToldInv
  BY ToldInit
<1>2. IInv /\ CInv /\ (IInv /\ CInv)' /\ ToldInv /\ [Next]_vars => ToldInv'
  <2> SUFFICES ASSUME IInv, CInv, IInv', ToldInv, [Next]_vars PROVE ToldInv'
    OBVIOUS
  <2>1. Stacks'
    BY DEF IInv, TypeOK, Stacks
  <2> QED BY <2>1, ToldStep
<1>3. Spec => [](IInv /\ CInv)
  BY CInvHolds
<1> QED BY <1>1, <1>2, <1>3, PTL DEF Spec

\* In a program with one thread, whatever its add-image functions, initializers and
\* terminators open and close, a registered function hears of every image exactly once
\* while it is loaded: dlopen() and addLoadNotifier() together forget no image and call
\* nobody twice.  (With two threads a registration that has dropped the lock misses what
\* a dlopen() adds meanwhile.)
THEOREM EveryoneIsToldOnce ==
    ASSUME OneThread, TerminatorsDoNotOpen, PinnedIsClosed
    PROVE  Spec => []ToldOnce
<1>1. ToldInv /\ IInv => ToldOnce
  <2> SUFFICES ASSUME ToldInv, IInv, Idle, NEW g \in loadFuncs, NEW i \in Loaded PROVE told[g][i] = 1
    BY DEF ToldOnce
  <2>1. g \in Funcs /\ i \in Images
    BY DEF IInv, TypeOK, Loaded
  <2>2. Heard(g, i)
    BY <2>1 DEF ToldInv
  <2>3. \A t \in Threads : DOMAIN stack[t] = {}
    BY DEF Idle
  <2>4. ~IsPending(g, i)
    BY <2>3 DEF IsPending
  <2> QED BY <2>2, <2>4 DEF Heard
<1> QED BY <1>1, ToldInvHolds, PTL

-----------------------------------------------------------------------------
(* Before the initializers run *)

\* What the steps within a call do to the stacks.
LEMMA StepsWithin ==
    ASSUME IInv, NEW t \in Threads, UserReturns(t) \/ DyldStep(t)
    PROVE  stack[t] # <<>> /\ (Pop(t) \/ \E f : SetTop(t, f) /\ f.op = Top(t).op)
<1>1. ASSUME stack[t] # <<>> PROVE Top(t) \in Frame
  BY <1>1, TopFacts DEF IInv
<1>2. ASSUME stack[t] # <<>>, NEW pc, Goto(t, pc) PROVE \E f : SetTop(t, f) /\ f.op = Top(t).op
  <2> DEFINE f == [Top(t) EXCEPT !.pc = pc]
  <2>1. SetTop(t, f) /\ f.op = Top(t).op
    BY <1>1, <1>2 DEF Goto, Frame
  <2> HIDE DEF f
  <2> QED BY <2>1
<1>3. CASE UserReturns(t)
  <2>1. CASE AddNotifierReturns(t)
    BY <1>2, <2>1 DEF AddNotifierReturns
  <2>2. CASE InitReturns(t)
    <3> DEFINE f == [Top(t) EXCEPT !.pc = "init", !.k = @ + 1]
    <3>1. stack[t] # <<>>
      BY <2>2 DEF InitReturns, At
    <3>2. SetTop(t, f)
      BY <2>2 DEF InitReturns
    <3>3. f.op = Top(t).op
      BY <1>1, <3>1 DEF Frame
    <3> HIDE DEF f
    <3> QED BY <3>1, <3>2, <3>3
  <2>3. CASE TerminatorReturns(t)
    BY <1>2, <2>3 DEF TerminatorReturns, At
  <2>4. CASE RemoveNotifierReturns(t)
    BY <1>2, <2>4 DEF RemoveNotifierReturns, At
  <2> QED BY <1>3, <2>1, <2>2, <2>3, <2>4 DEF UserReturns
<1>4. CASE \/ AddImages(t) \/ ImageCallbacksDone(t) \/ StartInit(t)
           \/ RemoveCallbacksDone(t) \/ Erase(t) \/ Unmap(t) \/ AddLoadNotifierTold(t)
  BY <1>2, <1>4 DEF AddImages, ImageCallbacksDone, StartInit, AtInit, RemoveCallbacksDone, Erase,
                    Unmap, AddLoadNotifierTold, At
<1>5. CASE LoadFails(t) \/ DlopenReturns(t) \/ AppendLoadNotifier(t)
  BY <1>5 DEF LoadFails, DlopenReturns, AppendLoadNotifier, At
<1>6. CASE DecRefCount(t)
  <2>1. stack[t] # <<>> /\ (Goto(t, "mark") \/ Pop(t))
    BY <1>6 DEF DecRefCount, At
  <2> QED BY <1>2, <2>1
<1>7. CASE Recheck(t)
  <2>1. stack[t] # <<>> /\ Top(t).op = "dlclose" /\ (Pop(t) \/ SetTop(t, NewFrame("dlclose", "mark", Top(t).arg, {})))
    BY <1>7 DEF Recheck, At
  <2>2. NewFrame("dlclose", "mark", Top(t).arg, {}).op = "dlclose"
    BY DEF NewFrame
  <2> QED BY <2>1, <2>2
<1>8. CASE RunImageCallbacks(t)
  <2> DEFINE f == [Top(t) EXCEPT !.pc = "telling", !.todo = loadFuncs \X Top(t).set]
  <2>1. stack[t] # <<>> /\ SetTop(t, f)
    BY <1>8 DEF RunImageCallbacks, At
  <2>2. f.op = Top(t).op
    BY <1>1, <2>1 DEF Frame
  <2> HIDE DEF f
  <2> QED BY <2>1, <2>2
<1>9. CASE SkipInit(t)
  <2> DEFINE f == [Top(t) EXCEPT !.k = @ + 1]
  <2>1. stack[t] # <<>>
    BY <1>9 DEF SkipInit, AtInit, At
  <2>2. f.op = Top(t).op
    BY <1>1, <2>1 DEF Frame
  <2>3. SetTop(t, f)
    BY <1>9 DEF SkipInit
  <2> HIDE DEF f
  <2> QED BY <2>1, <2>2, <2>3
<1>10. CASE Mark(t)
  <2> DEFINE dead == Unloadables \ InUse
             f == [Top(t) EXCEPT !.pc = IF dead = {} THEN "recheck" ELSE "terminate",
                                 !.set = dead, !.todo = {"terminator"} \X dead]
  <2>1. stack[t] # <<>>
    BY <1>10 DEF Mark, At
  <2>2. f.op = Top(t).op
    BY <1>1, <2>1 DEF Frame
  <2>3. SetTop(t, f)
    BY <1>10 DEF Mark
  <2> HIDE DEF f
  <2> QED BY <2>1, <2>2, <2>3
<1>11. CASE RunRemoveCallbacks(t)
  <2> DEFINE f == [Top(t) EXCEPT !.pc = "removing", !.todo = removeFuncs \X Top(t).set]
  <2>1. stack[t] # <<>> /\ SetTop(t, f)
    BY <1>11 DEF RunRemoveCallbacks, At
  <2>2. f.op = Top(t).op
    BY <1>1, <2>1 DEF Frame
  <2> HIDE DEF f
  <2> QED BY <2>1, <2>2
<1> DEFINE Out(p, c, i) == [Top(t) EXCEPT !.pc = p, !.todo = @ \ {<<c, i>>}]
<1>12. ASSUME stack[t] # <<>>, NEW p, NEW c, NEW i, SetTop(t, Out(p, c, i))
       PROVE  \E f : SetTop(t, f) /\ f.op = Top(t).op
  <2>1. Out(p, c, i).op = Top(t).op
    BY <1>1, <1>12 DEF Frame
  <2> HIDE DEF Out
  <2> QED BY <1>12, <2>1
<1>13. ASSUME NEW i \in Images, CallTerminator(t, i)
       PROVE  stack[t] # <<>> /\ SetTop(t, Out("inTerm", "terminator", i))
  BY <1>13 DEF CallTerminator, At
<1>14. ASSUME NEW g \in Funcs, NEW i \in Images, CallAddNotifier(t, g, i)
       PROVE  stack[t] # <<>> /\ SetTop(t, Out("inAdd", g, i))
  BY <1>14 DEF CallAddNotifier
<1>15. ASSUME NEW g \in Funcs, NEW i \in Images, CallRemoveNotifier(t, g, i)
       PROVE  stack[t] # <<>> /\ SetTop(t, Out("inRemove", g, i))
  BY <1>15 DEF CallRemoveNotifier, At
<1> HIDE DEF Out
<1>16. CASE DyldStep(t)
  <2>1. CASE \E i \in Images : CallTerminator(t, i)
    BY <1>12, <1>13, <2>1
  <2>2. CASE \E g \in Funcs, i \in Images : CallAddNotifier(t, g, i) \/ CallRemoveNotifier(t, g, i)
    BY <1>12, <1>14, <1>15, <2>2
  <2> QED BY <1>4, <1>5, <1>6, <1>7, <1>8, <1>9, <1>10, <1>11, <1>16, <2>1, <2>2 DEF DyldStep
<1> QED BY <1>3, <1>16

\* The innermost calls of a thread are dlclose() while an add-image function runs.
LEMMA ClosesInAddStep ==
    ASSUME TerminatorsDoNotOpen, AddFunctionsDoNotOpen, IInv, Stacks', ClosesInAdd, [Next]_vars
    PROVE  ClosesInAdd'
<1>1. Stacks
  BY DEF IInv, TypeOK, Stacks
<1>2. CASE stack' = stack
  BY <1>2 DEF ClosesInAdd
<1>3. ASSUME NEW t \in Threads, NEW f \in Frame, Push(t, f),
             f.op = "dlclose" \/ \A m \in DOMAIN stack[t] : stack[t][m].pc # "inAdd"
      PROVE  ClosesInAdd'
  <2>1. /\ \A u \in Threads \ {t} : stack'[u] = stack[u]
        /\ DOMAIN stack'[t] = 1..(Len(stack[t]) + 1)
        /\ DOMAIN stack[t] = 1..Len(stack[t]) /\ Len(stack[t]) \in Nat
        /\ \A n \in DOMAIN stack[t] : stack'[t][n] = stack[t][n]
        /\ stack'[t][Len(stack[t]) + 1] = f
    BY <1>1, <1>3, PushFacts
  <2>2. PICK l \in Nat : l = Len(stack[t])
    BY <2>1
  <2> SUFFICES ASSUME NEW u \in Threads, NEW m \in DOMAIN stack'[u], NEW n \in DOMAIN stack'[u],
                      stack'[u][m].pc = "inAdd", m < n
               PROVE  stack'[u][n].op = "dlclose"
    BY DEF ClosesInAdd
  <2>3. CASE u # t
    BY <2>1, <2>3 DEF ClosesInAdd
  <2>4. CASE u = t
    <3>1. m \in 1..l /\ stack'[t][m] = stack[t][m] /\ m \in DOMAIN stack[t]
      BY <2>1, <2>2, <2>4
    <3>2. CASE n \in 1..l
      BY <2>1, <2>2, <2>4, <3>1, <3>2 DEF ClosesInAdd
    <3>3. CASE n = l + 1
      BY <1>3, <2>1, <2>2, <2>4, <3>1, <3>3
    <3> QED BY <2>1, <2>2, <2>4, <3>2, <3>3
  <2> QED BY <2>3, <2>4
<1>4. ASSUME NEW t \in Threads, UserCall(t) PROVE ClosesInAdd'
  <2>1. ASSUME NEW i \in Images, Dlclose(t, i) PROVE ClosesInAdd'
    <3>1. Push(t, NewFrame("dlclose", "find", i, {})) /\ NewFrame("dlclose", "find", i, {}).op = "dlclose"
      BY <2>1 DEF Dlclose, NewFrame
    <3>2. NewFrame("dlclose", "find", i, {}) \in Frame
      BY <1>1, <3>1, BecomesFrame
    <3> QED BY <1>3, <3>1, <3>2
  <2>2. ASSUME NEW f, Push(t, f), MayEnter(t, "dlopen") PROVE ClosesInAdd'
    <3>1. f \in Frame
      BY <1>1, <2>2, BecomesFrame
    <3>2. \A m \in DOMAIN stack[t] : stack[t][m].pc # "inAdd"
      <4> SUFFICES ASSUME NEW m \in DOMAIN stack[t], stack[t][m].pc = "inAdd" PROVE FALSE
        OBVIOUS
      <4>1. stack[t] # <<>> /\ DOMAIN stack[t] = 1..Len(stack[t]) /\ Len(stack[t]) \in Nat
        BY <1>1 DEF Stacks
      <4>2. Top(t).pc \in UserPCs /\ "dlopen" \in MayCall[Top(t).pc]
        BY <2>2, <4>1 DEF MayEnter
      <4>3. Top(t).pc = "inInit"
        BY <4>2 DEF UserPCs, TerminatorsDoNotOpen, AddFunctionsDoNotOpen
      <4>4. Top(t).op # "dlclose"
        BY <4>1, <4>3, TopFacts DEF IInv, FrameShape, GcPCs
      <4>5. m # Len(stack[t])
        BY <4>3 DEF Top
      <4>6. m < Len(stack[t]) /\ Len(stack[t]) \in DOMAIN stack[t]
        BY <4>1, <4>5
      <4> QED BY <4>4, <4>6 DEF ClosesInAdd, Top
    <3> QED BY <1>3, <2>2, <3>1, <3>2
  <2>3. ASSUME NEW i \in Images, NEW mode \in Modes, DlopenLoaded(t, i, mode) \/ DlopenNew(t, i, mode)
        PROVE  ClosesInAdd'
    <3>1. stack' = stack \/ (MayEnter(t, "dlopen") /\ \E f : Push(t, f))
      BY <2>3 DEF DlopenLoaded, DlopenNew
    <3> QED BY <1>2, <2>2, <3>1
  <2>4. ASSUME NEW h \in Funcs, AddLoadNotifier(t, h) PROVE ClosesInAdd'
    <3>1. PICK f : Push(t, f) /\ stack[t] = <<>>
      BY <2>4 DEF AddLoadNotifier
    <3>2. f \in Frame
      BY <1>1, <3>1, BecomesFrame
    <3> QED BY <1>3, <3>1, <3>2
  <2>5. ASSUME NEW i \in Images, DlopenCached(t, i) PROVE ClosesInAdd'
    BY <1>2, <2>5 DEF DlopenCached
  <2>6. ASSUME NEW h \in Funcs, AddUnloadNotifier(t, h) PROVE ClosesInAdd'
    BY <1>2, <2>6 DEF AddUnloadNotifier
  <2> QED BY <1>4, <2>1, <2>3, <2>4, <2>5, <2>6 DEF UserCall
<1>5. ASSUME NEW t \in Threads, UserReturns(t) \/ DyldStep(t) PROVE ClosesInAdd'
  <2>1. stack[t] # <<>> /\ (Pop(t) \/ \E f : SetTop(t, f) /\ f.op = Top(t).op)
    BY <1>5, StepsWithin
  <2>2. ASSUME Pop(t) PROVE ClosesInAdd'
    <3>1. /\ \A u \in Threads \ {t} : stack'[u] = stack[u]
          /\ DOMAIN stack'[t] \subseteq DOMAIN stack[t]
          /\ \A n \in DOMAIN stack'[t] : stack'[t][n] = stack[t][n]
      BY <1>1, <2>1, <2>2, PopFacts
    <3> QED BY <3>1 DEF ClosesInAdd
  <2>3. ASSUME NEW f, SetTop(t, f), f.op = Top(t).op PROVE ClosesInAdd'
    <3>1. f \in Frame
      BY <1>1, <2>1, <2>3, BecomesFrame
    <3>2. /\ \A u \in Threads \ {t} : stack'[u] = stack[u]
          /\ DOMAIN stack'[t] = DOMAIN stack[t]
          /\ \A n \in DOMAIN stack[t] \ {Len(stack[t])} : stack'[t][n] = stack[t][n]
          /\ stack'[t][Len(stack[t])] = f
      BY <1>1, <2>1, <2>3, <3>1, SetTopFacts
    <3>3. DOMAIN stack[t] = 1..Len(stack[t]) /\ Len(stack[t]) \in Nat
      BY <1>1 DEF Stacks
    <3> SUFFICES ASSUME NEW u \in Threads, NEW m \in DOMAIN stack'[u], NEW n \in DOMAIN stack'[u],
                        stack'[u][m].pc = "inAdd", m < n
                 PROVE  stack'[u][n].op = "dlclose"
      BY DEF ClosesInAdd
    <3>4. CASE u # t
      BY <3>2, <3>4 DEF ClosesInAdd
    <3>5. CASE u = t
      <4>1. m # Len(stack[t]) /\ m \in DOMAIN stack[t] /\ n \in DOMAIN stack[t]
        BY <3>2, <3>3, <3>5
      <4>2. stack'[t][m] = stack[t][m] /\ stack[t][n].op = "dlclose"
        BY <3>2, <3>5, <4>1 DEF ClosesInAdd
      <4> QED BY <2>3, <3>2, <3>5, <4>1, <4>2 DEF Top
    <3> QED BY <3>4, <3>5
  <2> QED BY <2>1, <2>2, <2>3
<1> QED BY <1>2, <1>4, <1>5 DEF Next, vars

\* Only StartInit() enters the initializers of an image.
LEMMA WhoStarts ==
    ASSUME IInv, [Next]_vars, NEW i \in Images, st[i] = "fixedUp", st'[i] = "beingInited"
    PROVE  \E t \in Threads : StartInit(t)
<1>1. st' # st
  OBVIOUS
<1>2. ~UNCHANGED vars
  BY <1>1 DEF vars, imageVars
<1>3. ASSUME NEW t \in Threads, UserCall(t) \/ UserReturns(t) PROVE FALSE
  <2>1. ~UserCall(t)
    BY <1>1 DEF UserCall, DlopenCached, Dlclose, DlopenLoaded, DlopenNew, AddLoadNotifier,
       AddUnloadNotifier, imageVars
  <2>2. ~InitReturns(t)
    BY DEF InitReturns, IInv, TypeOK
  <2> QED BY <1>1, <1>3, <2>1, <2>2 DEF UserReturns, AddNotifierReturns, TerminatorReturns,
       RemoveNotifierReturns, imageVars
<1>4. ASSUME NEW t \in Threads, DyldStep(t) PROVE StartInit(t)
  <2>1. ~AddImages(t) /\ ~Erase(t)
    <3>1. ASSUME AddImages(t) PROVE FALSE
      <4>1. st'[i] = IF i \in Top(t).set THEN "fixedUp" ELSE st[i]
        BY <3>1 DEF AddImages
      <4> QED BY <4>1
    <3>2. ASSUME Erase(t) PROVE FALSE
      <4>1. st'[i] = IF i \in Top(t).set THEN "unloaded" ELSE st[i]
        BY <3>2 DEF Erase
      <4> QED BY <4>1
    <3> QED BY <3>1, <3>2
  <2>2. ASSUME NEW j \in Images, CallTerminator(t, j) PROVE st' = st
    BY <2>2 DEF CallTerminator, imageVars
  <2>3. ASSUME NEW g \in Funcs, NEW j \in Images, CallAddNotifier(t, g, j) PROVE st' = st
    BY <2>3 DEF CallAddNotifier, imageVars
  <2>4. ASSUME NEW g \in Funcs, NEW j \in Images, CallRemoveNotifier(t, g, j) PROVE st' = st
    BY <2>4 DEF CallRemoveNotifier, imageVars
  <2>5. CASE LoadFails(t) \/ RunImageCallbacks(t) \/ ImageCallbacksDone(t) \/ SkipInit(t) \/ DlopenReturns(t)
    BY <1>1, <2>5 DEF LoadFails, RunImageCallbacks, ImageCallbacksDone, SkipInit, DlopenReturns, imageVars
  <2>6. CASE DecRefCount(t) \/ Mark(t) \/ RunRemoveCallbacks(t) \/ RemoveCallbacksDone(t) \/ Unmap(t) \/ Recheck(t)
    BY <1>1, <2>6 DEF DecRefCount, Mark, RunRemoveCallbacks, RemoveCallbacksDone, Unmap, Recheck, imageVars
  <2>7. CASE AddLoadNotifierTold(t) \/ AppendLoadNotifier(t)
    BY <1>1, <2>7 DEF AddLoadNotifierTold, AppendLoadNotifier, imageVars
  <2> QED BY <1>1, <1>4, <2>1, <2>2, <2>3, <2>4, <2>5, <2>6, <2>7 DEF DyldStep
<1> QED BY <1>2, <1>3, <1>4 DEF Next

\* In a program with one thread whose add-image functions do not dlopen(), every
\* registered function has been called about an image before the image's initializers
\* run, also when a dlopen() nested in an initializer runs them: the only calls that can
\* fall between dlopen() and the functions it still has to call are dlclose().
THEOREM EveryoneIsToldBefore ==
    ASSUME OneThread, TerminatorsDoNotOpen, AddFunctionsDoNotOpen, PinnedIsClosed
    PROVE  Spec => ToldBeforeInit
<1> DEFINE Told == \A i \in Images : st[i] = "fixedUp" /\ st'[i] = "beingInited" =>
                      \A f \in loadFuncs : told[f][i] > 0
<1>1. ASSUME IInv, ToldInv, ClosesInAdd, [Next]_vars PROVE Told
  <2> SUFFICES ASSUME NEW i \in Images, st[i] = "fixedUp", st'[i] = "beingInited", NEW g \in loadFuncs
               PROVE  told[g][i] > 0
    OBVIOUS
  <2>1. PICK t \in Threads : StartInit(t)
    BY <1>1, WhoStarts
  <2>2. stack[t] # <<>> /\ Top(t).op = "dlopen" /\ Top(t).pc = "init"
    BY <2>1 DEF StartInit, AtInit, At
  <2>3. /\ Threads = {t} /\ DOMAIN stack[t] = 1..Len(stack[t]) /\ Len(stack[t]) \in Nat
        /\ Len(stack[t]) \in DOMAIN stack[t]
    BY <1>1, <2>2, TopFacts DEF OneThread, IInv, Stacks
  <2>4. ~IsPending(g, i)
    <3> SUFFICES ASSUME NEW n \in DOMAIN stack[t], Pending(stack[t][n], g, i) PROVE FALSE
      BY <2>3 DEF IsPending
    <3>1. n # Len(stack[t])
      BY <2>2 DEF Pending, Top
    <3>2. n < Len(stack[t])
      BY <2>3, <3>1
    <3>3. stack[t][n].pc \in UserPCs
      BY <1>1, <3>2 DEF IInv, Struct, Nested
    <3>4. stack[t][n].pc = "inAdd"
      BY <3>3 DEF Pending, UserPCs
    <3> QED BY <1>1, <2>2, <2>3, <3>2, <3>4 DEF ClosesInAdd, Top
  <2>5. g \in Funcs /\ i \in Loaded
    BY <1>1 DEF IInv, TypeOK, Loaded
  <2>6. told[g][i] = 1
    BY <1>1, <2>4, <2>5 DEF ToldInv, Heard
  <2> QED BY <2>6
<1>2. Init => ClosesInAdd
  <2>1. Init => \A t \in Threads : DOMAIN stack[t] = {}
    BY DEF Init
  <2> QED BY <2>1 DEF ClosesInAdd
<1>3. IInv /\ IInv' /\ ClosesInAdd /\ [Next]_vars => ClosesInAdd'
  <2>1. IInv' => Stacks'
    BY DEF IInv, TypeOK, Stacks
  <2> QED BY <2>1, ClosesInAddStep
<1>4. IInv /\ ToldInv /\ ClosesInAdd /\ [Next]_vars => [Told]_vars
  BY <1>1
<1>5. Spec => [](IInv /\ CInv /\ ToldInv)
  BY ToldInvHolds
<1> QED BY <1>2, <1>3, <1>4, <1>5, PTL DEF Spec, ToldBeforeInit

=============================================================================
