--------------------------- MODULE AllImages_proofs ---------------------------
(****************************************************************************)
(* Proofs about AllImages, for any images, link graph, threads and bounds.  *)
(*                                                                          *)
(* The inductive invariant has a structural part, Struct, about the stacks  *)
(* (who may be below whom, who holds the load lock, that there is one       *)
(* collection at most), and a data part, Data, about the images: what the   *)
(* frames of dlopen() and of the collection remember of _loadedImages is    *)
(* still true when they act on it.                                          *)
(****************************************************************************)
EXTENDS AllImages, SequenceTheorems, TLAPS

-----------------------------------------------------------------------------
(* The inductive invariant. *)

GcPCs == {"mark", "terminate", "inTerm", "removing", "inRemove", "erase",
          "unmap", "recheck"}

\* A frame that is inside garbageCollectImages().
IsGc(f) == f.op = "dlclose" /\ f.pc \in GcPCs

\* Where each call can be, and what it is about.
FrameShape(f) ==
    /\ f.op = "register" => /\ f.arg \in Funcs
                            /\ f.pc \in {"telling", "inAdd", "append"}
    /\ f.op = "dlopen" => /\ f.arg \in Images
                          /\ f.pc \in {"map", "tell", "telling", "inAdd", "init", "inInit"}
    /\ f.op = "dlclose" => /\ f.arg \in Images
                           /\ f.pc \in GcPCs \cup {"find"}

Shapes == \A t \in Threads : \A n \in DOMAIN stack[t] : FrameShape(stack[t][n])

\* Only user code called from dlopen() or dlclose() calls dyld again.
Nested ==
    \A t \in Threads : \A n \in DOMAIN stack[t] :
        n < Len(stack[t]) => stack[t][n].op \in APIs /\ stack[t][n].pc \in UserPCs

\* The load lock is exclusive.
LockExclusive ==
    \A t \in Threads, u \in Threads : t # u /\ HoldsLoadLock(t) => ~HoldsLoadLock(u)

\* There is one collection at most, and it is counted.
OneGc ==
    \A t \in Threads, u \in Threads :
        \A m \in DOMAIN stack[t], n \in DOMAIN stack[u] :
            IsGc(stack[t][m]) => /\ gcCount >= 1
                                 /\ IsGc(stack[u][n]) => t = u /\ m = n

\* What runs inside a collection is dlclose().
ClosesInGc ==
    \A t \in Threads : \A m \in DOMAIN stack[t], n \in DOMAIN stack[t] :
        IsGc(stack[t][m]) /\ m < n => stack[t][n].op = "dlclose"

Struct == Shapes /\ Nested /\ LockExclusive /\ OneGc

-----------------------------------------------------------------------------
(* What pushing, popping and changing the top frame do to the stacks. *)

Stacks == stack \in [Threads -> Seq(Frame)]

\* A new frame on top: the others are as they were.
LEMMA PushFacts ==
    ASSUME Stacks, NEW t \in Threads, NEW f \in Frame, Push(t, f)
    PROVE  /\ Stacks'
           /\ \A u \in Threads \ {t} : stack'[u] = stack[u]
           /\ Len(stack'[t]) = Len(stack[t]) + 1
           /\ DOMAIN stack'[t] = 1..(Len(stack[t]) + 1)
           /\ DOMAIN stack[t] = 1..Len(stack[t]) /\ Len(stack[t]) \in Nat
           /\ \A n \in DOMAIN stack[t] : stack'[t][n] = stack[t][n]
           /\ stack'[t][Len(stack[t]) + 1] = f
<1> DEFINE s == stack[t]
<1>1. s \in Seq(Frame)
  BY DEF Stacks
<1>2. stack'[t] = Append(s, f) /\ \A u \in Threads \ {t} : stack'[u] = stack[u]
  BY DEF Stacks, Push
<1>3. /\ Append(s, f) \in Seq(Frame)
      /\ Len(Append(s, f)) = Len(s) + 1
      /\ DOMAIN Append(s, f) = 1..(Len(s) + 1)
      /\ DOMAIN s = 1..Len(s) /\ Len(s) \in Nat
      /\ \A n \in DOMAIN s : Append(s, f)[n] = s[n]
      /\ Append(s, f)[Len(s) + 1] = f
  BY <1>1
<1>4. Stacks'
  BY <1>2, <1>3 DEF Stacks, Push
<1> QED
  BY <1>2, <1>3, <1>4

\* Another frame on top: the others are as they were.
LEMMA SetTopFacts ==
    ASSUME Stacks, NEW t \in Threads, stack[t] # <<>>, NEW f \in Frame, SetTop(t, f)
    PROVE  /\ Stacks'
           /\ \A u \in Threads \ {t} : stack'[u] = stack[u]
           /\ Len(stack'[t]) = Len(stack[t])
           /\ DOMAIN stack'[t] = DOMAIN stack[t]
           /\ DOMAIN stack[t] = 1..Len(stack[t]) /\ Len(stack[t]) \in Nat \ {0}
           /\ \A n \in DOMAIN stack[t] \ {Len(stack[t])} : stack'[t][n] = stack[t][n]
           /\ stack'[t][Len(stack[t])] = f
<1> DEFINE s == stack[t]
           r == [s EXCEPT ![Len(s)] = f]
<1>1. s \in Seq(Frame) /\ s # <<>>
  BY DEF Stacks
<1>2. stack'[t] = r /\ \A u \in Threads \ {t} : stack'[u] = stack[u]
  BY DEF Stacks, SetTop
<1>3. DOMAIN s = 1..Len(s) /\ Len(s) \in Nat \ {0}
  BY <1>1
<1>4. /\ DOMAIN r = DOMAIN s
      /\ \A n \in DOMAIN s \ {Len(s)} : r[n] = s[n]
      /\ r[Len(s)] = f
  BY <1>3
<1>5. r \in Seq(Frame) /\ Len(r) = Len(s)
  BY <1>1, <1>3, ExceptSeq
<1>6. Stacks'
  BY <1>2, <1>5 DEF Stacks, SetTop
<1> HIDE DEF r
<1> QED
  BY <1>2, <1>3, <1>4, <1>5, <1>6

\* One frame less: the others are as they were.
LEMMA PopFacts ==
    ASSUME Stacks, NEW t \in Threads, stack[t] # <<>>, Pop(t)
    PROVE  /\ Stacks'
           /\ \A u \in Threads \ {t} : stack'[u] = stack[u]
           /\ Len(stack'[t]) = Len(stack[t]) - 1
           /\ DOMAIN stack'[t] = 1..(Len(stack[t]) - 1)
           /\ DOMAIN stack[t] = 1..Len(stack[t]) /\ Len(stack[t]) \in Nat \ {0}
           /\ \A n \in 1..(Len(stack[t]) - 1) : stack'[t][n] = stack[t][n]
<1> DEFINE s == stack[t]
           r == SubSeq(s, 1, Len(s) - 1)
<1>1. s \in Seq(Frame) /\ s # <<>>
  BY DEF Stacks
<1>2. stack'[t] = r /\ \A u \in Threads \ {t} : stack'[u] = stack[u]
  BY DEF Stacks, Pop
<1>3. DOMAIN s = 1..Len(s) /\ Len(s) \in Nat \ {0}
  BY <1>1
<1>4. \A n \in 1..(Len(s) - 1) : s[n] \in Frame
  BY <1>1, <1>3
<1>5. /\ r \in Seq(Frame)
      /\ Len(r) = Len(s) - 1
      /\ \A n \in 1..(Len(s) - 1) : r[n] = s[n]
  BY <1>3, <1>4, SubSeqProperties
<1>6. DOMAIN r = 1..(Len(s) - 1)
  BY <1>3, <1>5
<1>7. Stacks'
  BY <1>2, <1>5 DEF Stacks, Pop
<1> HIDE DEF r
<1> QED
  BY <1>2, <1>3, <1>5, <1>6, <1>7

-----------------------------------------------------------------------------
(* Struct is preserved by the three kinds of step on a stack. *)

NoGc == \A u \in Threads : \A n \in DOMAIN stack[u] : ~IsGc(stack[u][n])

\* A call enters dyld.
LEMMA StructPush ==
    ASSUME Stacks, Struct, NEW t \in Threads, NEW f \in Frame, Push(t, f),
           FrameShape(f), ~IsGc(f),
           stack[t] # <<>> => Top(t).op \in APIs /\ Top(t).pc \in UserPCs,
           f.op \in APIs => LoadLockFree(t),
           gcCount' = gcCount
    PROVE  Struct'
<1> USE PushFacts
<1> DEFINE l == Len(stack[t])
<1>1. /\ \A n \in DOMAIN stack'[t] : n = l + 1 \/ n \in DOMAIN stack[t]
      /\ stack[t] # <<>> <=> l # 0
  BY DEF Stacks
<1>2. Shapes'
  <2>1. \A u \in Threads : \A n \in DOMAIN stack'[u] :
           stack'[u][n] = f \/ (n \in DOMAIN stack[u] /\ stack'[u][n] = stack[u][n])
    BY <1>1
  <2> QED BY <2>1 DEF Struct, Shapes, FrameShape, GcPCs
<1>3. Nested'
  <2> SUFFICES ASSUME NEW u \in Threads, NEW n \in DOMAIN stack'[u], n < Len(stack'[u])
               PROVE  stack'[u][n].op \in APIs /\ stack'[u][n].pc \in UserPCs
    BY DEF Nested
  <2>1. CASE u # t
    BY <2>1 DEF Struct, Nested
  <2>2. CASE u = t
    <3>1. n \in DOMAIN stack[t] /\ (n < l \/ n = l) /\ stack'[u][n] = stack[t][n]
      BY <2>2, <1>1
    <3>2. CASE n < l
      BY <3>1, <3>2 DEF Struct, Nested
    <3>3. CASE n = l
      BY <3>1, <3>3, <1>1 DEF Top
    <3> QED BY <3>1, <3>2, <3>3
  <2> QED BY <2>1, <2>2
<1>4. LockExclusive'
  <2>1. \A u \in Threads \ {t} : HoldsLoadLock(u)' <=> HoldsLoadLock(u)
    BY DEF HoldsLoadLock
  <2>2. HoldsLoadLock(t)' => f.op \in APIs \/ HoldsLoadLock(t)
    BY <1>1 DEF HoldsLoadLock
  <2>3. f.op \in APIs => \A u \in Threads \ {t} : ~HoldsLoadLock(u)
    BY DEF LoadLockFree
  <2> QED BY <2>1, <2>2, <2>3 DEF Struct, LockExclusive
<1>5. OneGc'
  <2> SUFFICES ASSUME NEW u \in Threads, NEW v \in Threads,
                      NEW m \in DOMAIN stack'[u], NEW n \in DOMAIN stack'[v],
                      IsGc(stack'[u][m])
               PROVE  gcCount >= 1 /\ (IsGc(stack'[v][n]) => u = v /\ m = n)
    BY DEF OneGc, IsGc
  <2>1. m \in DOMAIN stack[u] /\ stack'[u][m] = stack[u][m]
    BY <1>1
  <2>2. IsGc(stack'[v][n]) => n \in DOMAIN stack[v] /\ stack'[v][n] = stack[v][n]
    BY <1>1
  <2> QED BY <2>1, <2>2 DEF Struct, OneGc
<1> QED BY <1>2, <1>3, <1>4, <1>5 DEF Struct

\* A call goes on.
LEMMA StructSetTop ==
    ASSUME Stacks, Struct, NEW t \in Threads, stack[t] # <<>>, NEW f \in Frame,
           SetTop(t, f), FrameShape(f), f.op = Top(t).op,
           gcCount \in Nat, gcCount' \in Nat,
           IsGc(f) => gcCount' >= 1 /\ (IsGc(Top(t)) \/ gcCount = 0),
           gcCount' >= gcCount \/ IsGc(Top(t))
    PROVE  Struct'
<1> USE SetTopFacts
<1> DEFINE l == Len(stack[t])
<1>0. Top(t) = stack[t][l] /\ l \in DOMAIN stack[t]
  BY DEF Top
<1>2. Shapes'
  BY DEF Struct, Shapes, FrameShape, GcPCs
<1>3. Nested'
  BY DEF Struct, Nested
<1>4. LockExclusive'
  <2>1. \A u \in Threads \ {t} : HoldsLoadLock(u)' <=> HoldsLoadLock(u)
    BY DEF HoldsLoadLock
  <2>2. HoldsLoadLock(t)' <=> HoldsLoadLock(t)
    BY <1>0 DEF HoldsLoadLock
  <2> QED BY <2>1, <2>2 DEF Struct, LockExclusive
<1>5. OneGc'
  <2> SUFFICES ASSUME NEW u \in Threads, NEW v \in Threads,
                      NEW m \in DOMAIN stack'[u], NEW n \in DOMAIN stack'[v],
                      IsGc(stack'[u][m])
               PROVE  gcCount' >= 1 /\ (IsGc(stack'[v][n]) => u = v /\ m = n)
    BY DEF OneGc, IsGc
  <2>1. \A x \in Threads : \A k \in DOMAIN stack'[x] :
            /\ k \in DOMAIN stack[x]
            /\ stack'[x][k] = stack[x][k] \/ (x = t /\ k = l /\ stack'[x][k] = f)
    OBVIOUS
  <2>2. CASE IsGc(f)
    <3>1. \A x \in Threads : \A k \in DOMAIN stack[x] : IsGc(stack[x][k]) => x = t /\ k = l
      BY <2>2, <1>0 DEF Struct, OneGc, NoGc
    <3> QED BY <2>1, <2>2, <3>1
  <2>3. CASE ~IsGc(f)
    <3>1. stack'[u][m] = stack[u][m] /\ IsGc(stack[u][m])
      BY <2>1, <2>3
    <3>2. IsGc(stack'[v][n]) => stack'[v][n] = stack[v][n] /\ IsGc(stack[v][n])
      BY <2>1, <2>3
    <3>3. gcCount >= 1 /\ (IsGc(stack[v][n]) => u = v /\ m = n)
      BY <3>1, <2>1 DEF Struct, OneGc
    <3>4. ~IsGc(Top(t))
      BY <3>1, <1>0, <2>1, <2>3 DEF Struct, OneGc
    <3> QED BY <3>1, <3>2, <3>3, <3>4
  <2> QED BY <2>2, <2>3
<1> QED BY <1>2, <1>3, <1>4, <1>5 DEF Struct

\* A call returns.
LEMMA StructPop ==
    ASSUME Stacks, Struct, NEW t \in Threads, stack[t] # <<>>, Pop(t),
           gcCount \in Nat, gcCount' \in Nat,
           gcCount' >= gcCount \/ IsGc(Top(t))
    PROVE  Struct'
<1> USE PopFacts
<1> DEFINE l == Len(stack[t])
<1>0. Top(t) = stack[t][l] /\ l \in DOMAIN stack[t]
  BY DEF Top
<1>1. \A x \in Threads : \A k \in DOMAIN stack'[x] :
            /\ k \in DOMAIN stack[x] /\ (x = t => k # l)
            /\ stack'[x][k] = stack[x][k]
  OBVIOUS
<1>2. Shapes'
  BY <1>1 DEF Struct, Shapes, FrameShape, GcPCs
<1>3. Nested'
  BY <1>1 DEF Struct, Nested
<1>4. LockExclusive'
  <2>1. \A u \in Threads : HoldsLoadLock(u)' => HoldsLoadLock(u)
    BY <1>1 DEF HoldsLoadLock
  <2> QED BY <2>1 DEF Struct, LockExclusive
<1>5. OneGc'
  <2> SUFFICES ASSUME NEW u \in Threads, NEW v \in Threads,
                      NEW m \in DOMAIN stack'[u], NEW n \in DOMAIN stack'[v],
                      IsGc(stack'[u][m])
               PROVE  gcCount' >= 1 /\ (IsGc(stack'[v][n]) => u = v /\ m = n)
    BY DEF OneGc, IsGc
  <2>1. gcCount >= 1 /\ (IsGc(stack[v][n]) => u = v /\ m = n)
    BY <1>1 DEF Struct, OneGc
  <2>2. ~IsGc(Top(t))
    BY <1>0, <1>1 DEF Struct, OneGc
  <2> QED BY <1>1, <2>1, <2>2
<1> QED BY <1>2, <1>3, <1>4, <1>5 DEF Struct

-----------------------------------------------------------------------------
(* TypeOK and Struct are preserved by every step. *)

\* What is known of the frame on top.
LEMMA TopFacts ==
    ASSUME TypeOK, Struct, NEW t \in Threads, stack[t] # <<>>
    PROVE  /\ Stacks /\ Top(t) \in Frame /\ FrameShape(Top(t))
           /\ Len(stack[t]) \in DOMAIN stack[t]
           /\ gcCount \in Nat
           /\ IsGc(Top(t)) => gcCount >= 1
<1>1. Stacks /\ gcCount \in Nat
  BY DEF TypeOK, Stacks
<1>2. Len(stack[t]) \in DOMAIN stack[t] /\ Top(t) \in Frame
  BY <1>1 DEF Stacks, Top
<1>3. FrameShape(Top(t))
  BY <1>2 DEF Struct, Shapes, Top
<1>4. IsGc(Top(t)) => gcCount >= 1
  BY <1>2 DEF Struct, OneGc, Top
<1> QED BY <1>1, <1>2, <1>3, <1>4

\* A step within a call.
LEMMA GoOn ==
    ASSUME TypeOK, Struct, NEW t \in Threads, stack[t] # <<>>, NEW f \in Frame,
           SetTop(t, f), FrameShape(f), f.op = Top(t).op,
           IsGc(f) => IsGc(Top(t)), gcCount' = gcCount
    PROVE  Stacks' /\ Struct'
<1>1. IsGc(f) => gcCount' >= 1 /\ (IsGc(Top(t)) \/ gcCount = 0)
  BY TopFacts
<1>2. gcCount \in Nat /\ gcCount' \in Nat /\ gcCount' >= gcCount /\ Stacks
  BY TopFacts
<1> QED BY <1>1, <1>2, StructSetTop, SetTopFacts

\* A call returns without having collected.
LEMMA Leave ==
    ASSUME TypeOK, Struct, NEW t \in Threads, stack[t] # <<>>, Pop(t), gcCount' = gcCount
    PROVE  Stacks' /\ Struct'
  BY TopFacts, StructPop, PopFacts

\* A step that is not about the stacks.
LEMMA Aside ==
    ASSUME TypeOK, Struct, stack' = stack, gcCount' = gcCount
    PROVE  Stacks' /\ Struct'
  BY DEF TypeOK, Stacks, Struct, Shapes, FrameShape, GcPCs, Nested, LockExclusive,
         HoldsLoadLock, OneGc, IsGc

\* Every step preserves the types and the structure of the stacks.
LEMMA TypeStep ==
    ASSUME TypeOK, Struct, [Next]_vars
    PROVE  TypeOK' /\ Struct'
<1> USE ImagesAssumption, CallsAssumption
<1>1. CASE UNCHANGED vars
  BY <1>1, Aside DEF vars, imageVars, countVars, notifyVars, TypeOK
<1>2. ASSUME NEW t \in Threads, UserCall(t) PROVE TypeOK' /\ Struct'
  <2>0. Stacks
    BY DEF TypeOK, Stacks
  <2>1. ASSUME NEW i \in Images, DlopenCached(t, i) PROVE TypeOK' /\ Struct'
    <3>1. Stacks' /\ Struct'
      BY <2>1, Aside DEF DlopenCached
    <3> QED BY <2>1, <3>1 DEF DlopenCached, TypeOK, imageVars, notifyVars
  <2>2. ASSUME NEW i \in Images, Dlclose(t, i) PROVE TypeOK' /\ Struct'
    <3> DEFINE f == NewFrame("dlclose", "find", i, {})
    <3>1. f \in Frame /\ FrameShape(f) /\ ~IsGc(f) /\ f.op \in APIs
      BY DEF NewFrame, Frame, FrameShape, IsGc, GcPCs, PCs, APIs
    <3>2. stack[t] # <<>> => Top(t).op \in APIs /\ Top(t).pc \in UserPCs
      BY <2>2, TopFacts DEF Dlclose, MayEnter, Frame
    <3> HIDE DEF f
    <3>3. Push(t, f) /\ LoadLockFree(t) /\ gcCount' = gcCount
      BY <2>2 DEF Dlclose, f
    <3>4. Stacks' /\ Struct'
      BY <2>0, <3>1, <3>2, <3>3, StructPush, PushFacts
    <3> QED BY <2>2, <3>4 DEF Dlclose, TypeOK, Stacks, imageVars, notifyVars
  <2>3. ASSUME NEW i \in Images, NEW mode \in Modes, DlopenLoaded(t, i, mode)
        PROVE  TypeOK' /\ Struct'
    <3> DEFINE f == NewFrame("dlopen", "init", i, {})
    <3>1. f \in Frame /\ FrameShape(f) /\ ~IsGc(f) /\ f.op \in APIs
      BY DEF NewFrame, Frame, FrameShape, IsGc, GcPCs, PCs, APIs
    <3>2. stack[t] # <<>> => Top(t).op \in APIs /\ Top(t).pc \in UserPCs
      BY <2>3, TopFacts DEF DlopenLoaded, MayEnter, Frame
    <3> HIDE DEF f
    <3>3. Push(t, f) \/ stack' = stack
      BY <2>3 DEF DlopenLoaded, f
    <3>4. Stacks' /\ Struct'
      <4>1. LoadLockFree(t) /\ gcCount' = gcCount
        BY <2>3 DEF DlopenLoaded
      <4> QED BY <2>0, <3>1, <3>2, <3>3, <4>1, StructPush, PushFacts, Aside
    <3>5. refs' \in [Images -> Nat] /\ handles' \in [Images -> Nat]
      BY <2>3 DEF DlopenLoaded, TypeOK
    <3>6. hidden' \subseteq Images /\ leave' \subseteq Images
      BY <2>3 DEF DlopenLoaded, TypeOK
    <3> QED BY <2>3, <3>4, <3>5, <3>6 DEF DlopenLoaded, TypeOK, Stacks, notifyVars
  <2>4. ASSUME NEW i \in Images, NEW mode \in Modes, DlopenNew(t, i, mode)
        PROVE  TypeOK' /\ Struct'
    <3> DEFINE new == Closure(i) \ Loaded
               f == NewFrame("dlopen", "map", i, new)
    <3>0. new \subseteq Images
      BY DEF Closure, Reach
    <3>1. f \in Frame /\ FrameShape(f) /\ ~IsGc(f) /\ f.op \in APIs
      BY <3>0 DEF NewFrame, Frame, FrameShape, IsGc, GcPCs, PCs, APIs
    <3>2. stack[t] # <<>> => Top(t).op \in APIs /\ Top(t).pc \in UserPCs
      BY <2>4, TopFacts DEF DlopenNew, MayEnter, Frame
    <3>5. never' \subseteq Images
      BY <2>4, <3>0 DEF DlopenNew, NeverChoices, TypeOK
    <3> HIDE DEF f
    <3>3. Push(t, f) /\ LoadLockFree(t) /\ gcCount' = gcCount
      BY <2>4 DEF DlopenNew, f
    <3>4. Stacks' /\ Struct'
      BY <2>0, <3>1, <3>2, <3>3, StructPush, PushFacts
    <3> HIDE DEF new
    <3> QED BY <2>4, <3>0, <3>4, <3>5 DEF DlopenNew, TypeOK, Stacks, countVars, notifyVars, new
  <2>5. ASSUME NEW g \in Funcs, AddLoadNotifier(t, g) PROVE TypeOK' /\ Struct'
    <3> DEFINE f == [NewFrame("register", "telling", g, {}) EXCEPT !.todo = {g} \X Loaded]
    <3>1. f \in Frame /\ FrameShape(f) /\ ~IsGc(f) /\ f.op \notin APIs
      BY DEF NewFrame, Frame, FrameShape, IsGc, GcPCs, PCs, APIs, Callees, Loaded
    <3> HIDE DEF f
    <3>2. Push(t, f) /\ stack[t] = <<>> /\ gcCount' = gcCount
      BY <2>5 DEF AddLoadNotifier, f
    <3>3. Stacks' /\ Struct'
      BY <2>0, <3>1, <3>2, StructPush, PushFacts
    <3> QED BY <2>5, <3>3 DEF AddLoadNotifier, TypeOK, Stacks, imageVars, countVars, notifyVars
  <2>6. ASSUME NEW g \in Funcs, AddUnloadNotifier(t, g) PROVE TypeOK' /\ Struct'
    <3>1. Stacks' /\ Struct'
      BY <2>6, Aside DEF AddUnloadNotifier
    <3> QED BY <2>6, <3>1 DEF AddUnloadNotifier, TypeOK, imageVars, countVars
  <2> QED BY <1>2, <2>1, <2>2, <2>3, <2>4, <2>5, <2>6 DEF UserCall
<1>3. ASSUME NEW t \in Threads, UserReturns(t) PROVE TypeOK' /\ Struct'
  <2>1. CASE AddNotifierReturns(t)
    <3> DEFINE f == [Top(t) EXCEPT !.pc = "telling"]
    <3>0. stack[t] # <<>> /\ Top(t) \in Frame /\ FrameShape(Top(t))
      BY <2>1, TopFacts DEF AddNotifierReturns, At
    <3>1. /\ f \in Frame /\ FrameShape(f) /\ f.op = Top(t).op
          /\ IsGc(f) => IsGc(Top(t))
      BY <2>1, <3>0 DEF AddNotifierReturns, At, Frame, FrameShape, IsGc, GcPCs, PCs, UserPCs
    <3> HIDE DEF f
    <3>2. SetTop(t, f) /\ gcCount' = gcCount
      BY <2>1 DEF AddNotifierReturns, Goto, f
    <3>3. Stacks' /\ Struct'
      BY <3>0, <3>1, <3>2, GoOn
    <3> QED BY <2>1, <3>0, <3>3 DEF AddNotifierReturns, TypeOK, Stacks, imageVars, countVars, notifyVars
  <2>2. CASE InitReturns(t)
    <3> DEFINE f == [Top(t) EXCEPT !.pc = "init", !.k = @ + 1]
    <3>0. stack[t] # <<>> /\ Top(t) \in Frame /\ FrameShape(Top(t))
      BY <2>2, TopFacts DEF InitReturns, At, AtInit
    <3>1. /\ f \in Frame /\ FrameShape(f) /\ f.op = Top(t).op
          /\ IsGc(f) => IsGc(Top(t))
      <4>1. Top(t).k + 1 \in Nat
        BY <3>0 DEF Frame
      <4> QED BY <2>2, <3>0, <4>1 DEF InitReturns, At, Frame, FrameShape, IsGc, GcPCs, PCs, UserPCs, AtInit
    <3> HIDE DEF f
    <3>2. SetTop(t, f) /\ gcCount' = gcCount
      BY <2>2 DEF InitReturns, Goto, f
    <3>3. Stacks' /\ Struct'
      BY <3>0, <3>1, <3>2, GoOn
    <3> QED BY <2>2, <3>0, <3>3 DEF InitReturns, TypeOK, Stacks, countVars, notifyVars
  <2>3. CASE TerminatorReturns(t)
    <3> DEFINE f == [Top(t) EXCEPT !.pc = "terminate"]
    <3>0. stack[t] # <<>> /\ Top(t) \in Frame /\ FrameShape(Top(t))
      BY <2>3, TopFacts DEF TerminatorReturns, At
    <3>1. /\ f \in Frame /\ FrameShape(f) /\ f.op = Top(t).op
          /\ IsGc(f) => IsGc(Top(t))
      BY <2>3, <3>0 DEF TerminatorReturns, At, Frame, FrameShape, IsGc, GcPCs, PCs, UserPCs
    <3> HIDE DEF f
    <3>2. SetTop(t, f) /\ gcCount' = gcCount
      BY <2>3 DEF TerminatorReturns, Goto, f
    <3>3. Stacks' /\ Struct'
      BY <3>0, <3>1, <3>2, GoOn
    <3> QED BY <2>3, <3>0, <3>3 DEF TerminatorReturns, TypeOK, Stacks, imageVars, countVars, notifyVars
  <2>4. CASE RemoveNotifierReturns(t)
    <3> DEFINE f == [Top(t) EXCEPT !.pc = "removing"]
    <3>0. stack[t] # <<>> /\ Top(t) \in Frame /\ FrameShape(Top(t))
      BY <2>4, TopFacts DEF RemoveNotifierReturns, At
    <3>1. /\ f \in Frame /\ FrameShape(f) /\ f.op = Top(t).op
          /\ IsGc(f) => IsGc(Top(t))
      BY <2>4, <3>0 DEF RemoveNotifierReturns, At, Frame, FrameShape, IsGc, GcPCs, PCs, UserPCs
    <3> HIDE DEF f
    <3>2. SetTop(t, f) /\ gcCount' = gcCount
      BY <2>4 DEF RemoveNotifierReturns, Goto, f
    <3>3. Stacks' /\ Struct'
      BY <3>0, <3>1, <3>2, GoOn
    <3> QED BY <2>4, <3>0, <3>3 DEF RemoveNotifierReturns, TypeOK, Stacks, imageVars, countVars, notifyVars
  <2> QED BY <1>3, <2>1, <2>2, <2>3, <2>4 DEF UserReturns
<1>4. ASSUME NEW t \in Threads, DyldStep(t) PROVE TypeOK' /\ Struct'
  <2>1. CASE LoadFails(t)
    <3>0. stack[t] # <<>> /\ Top(t) \in Frame /\ FrameShape(Top(t))
      BY <2>1, TopFacts DEF LoadFails, At
    <3>1. Pop(t) /\ gcCount' = gcCount
      BY <2>1 DEF LoadFails
    <3>2. Stacks' /\ Struct'
      BY <3>0, <3>1, Leave
    <3> QED BY <2>1, <3>0, <3>2 DEF LoadFails, At, TypeOK, Stacks, FrameShape, Frame, countVars, notifyVars
  <2>2. CASE AddImages(t)
    <3> DEFINE f == [Top(t) EXCEPT !.pc = "tell"]
    <3>0. stack[t] # <<>> /\ Top(t) \in Frame /\ FrameShape(Top(t))
      BY <2>2, TopFacts DEF AddImages, At
    <3>1. /\ f \in Frame /\ FrameShape(f) /\ f.op = Top(t).op
          /\ IsGc(f) => IsGc(Top(t))
      BY <2>2, <3>0 DEF AddImages, At, Frame, FrameShape, IsGc, GcPCs, PCs, UserPCs
    <3> HIDE DEF f
    <3>2. SetTop(t, f) /\ gcCount' = gcCount
      BY <2>2 DEF AddImages, Goto, f
    <3>3. Stacks' /\ Struct'
      BY <3>0, <3>1, <3>2, GoOn
    <3>4. Top(t).arg \in Images /\ Top(t).set \subseteq Images
      BY <2>2, <3>0 DEF AddImages, At, FrameShape, Frame
    <3>5. /\ refs' \in [Images -> Nat] /\ batch' \in [Images -> SUBSET Images]
          /\ st' \in [Images -> {"unloaded", "fixedUp", "beingInited", "inited"}]
      BY <2>2, <3>4 DEF AddImages, TypeOK
    <3> QED BY <2>2, <3>3, <3>5 DEF AddImages, TypeOK, Stacks, notifyVars
  <2>3. CASE RunImageCallbacks(t)
    <3> DEFINE f == [Top(t) EXCEPT !.pc = "telling", !.todo = loadFuncs \X Top(t).set]
    <3>0. stack[t] # <<>> /\ Top(t) \in Frame /\ FrameShape(Top(t))
      BY <2>3, TopFacts DEF RunImageCallbacks, At
    <3>1. /\ f \in Frame /\ FrameShape(f) /\ f.op = Top(t).op
          /\ IsGc(f) => IsGc(Top(t))
      BY <2>3, <3>0 DEF RunImageCallbacks, At, Frame, FrameShape, IsGc, GcPCs, PCs, UserPCs, Callees, TypeOK
    <3> HIDE DEF f
    <3>2. SetTop(t, f) /\ gcCount' = gcCount
      BY <2>3 DEF RunImageCallbacks, Goto, f
    <3>3. Stacks' /\ Struct'
      BY <3>0, <3>1, <3>2, GoOn
    <3> QED BY <2>3, <3>0, <3>3 DEF RunImageCallbacks, TypeOK, Stacks, imageVars, countVars, notifyVars
  <2>4. CASE ImageCallbacksDone(t)
    <3> DEFINE f == [Top(t) EXCEPT !.pc = "init"]
    <3>0. stack[t] # <<>> /\ Top(t) \in Frame /\ FrameShape(Top(t))
      BY <2>4, TopFacts DEF ImageCallbacksDone, At
    <3>1. /\ f \in Frame /\ FrameShape(f) /\ f.op = Top(t).op
          /\ IsGc(f) => IsGc(Top(t))
      BY <2>4, <3>0 DEF ImageCallbacksDone, At, Frame, FrameShape, IsGc, GcPCs, PCs, UserPCs
    <3> HIDE DEF f
    <3>2. SetTop(t, f) /\ gcCount' = gcCount
      BY <2>4 DEF ImageCallbacksDone, Goto, f
    <3>3. Stacks' /\ Struct'
      BY <3>0, <3>1, <3>2, GoOn
    <3> QED BY <2>4, <3>0, <3>3 DEF ImageCallbacksDone, TypeOK, Stacks, imageVars, countVars, notifyVars
  <2>5. CASE StartInit(t)
    <3> DEFINE f == [Top(t) EXCEPT !.pc = "inInit"]
    <3>0. stack[t] # <<>> /\ Top(t) \in Frame /\ FrameShape(Top(t))
      BY <2>5, TopFacts DEF StartInit, At, AtInit
    <3>1. /\ f \in Frame /\ FrameShape(f) /\ f.op = Top(t).op
          /\ IsGc(f) => IsGc(Top(t))
      BY <2>5, <3>0 DEF StartInit, At, Frame, FrameShape, IsGc, GcPCs, PCs, UserPCs, AtInit
    <3> HIDE DEF f
    <3>2. SetTop(t, f) /\ gcCount' = gcCount
      BY <2>5 DEF StartInit, Goto, f
    <3>3. Stacks' /\ Struct'
      BY <3>0, <3>1, <3>2, GoOn
    <3> QED BY <2>5, <3>0, <3>3 DEF StartInit, TypeOK, Stacks, countVars, notifyVars
  <2>6. CASE SkipInit(t)
    <3> DEFINE f == [Top(t) EXCEPT !.k = @ + 1]
    <3>0. stack[t] # <<>> /\ Top(t) \in Frame /\ FrameShape(Top(t))
      BY <2>6, TopFacts DEF SkipInit, At, AtInit
    <3>1. /\ f \in Frame /\ FrameShape(f) /\ f.op = Top(t).op
          /\ IsGc(f) => IsGc(Top(t))
      <4>1. Top(t).k + 1 \in Nat
        BY <3>0 DEF Frame
      <4> QED BY <2>6, <3>0, <4>1 DEF SkipInit, At, Frame, FrameShape, IsGc, GcPCs, PCs, UserPCs, AtInit
    <3> HIDE DEF f
    <3>2. SetTop(t, f) /\ gcCount' = gcCount
      BY <2>6 DEF SkipInit, Goto, f
    <3>3. Stacks' /\ Struct'
      BY <3>0, <3>1, <3>2, GoOn
    <3> QED BY <2>6, <3>0, <3>3 DEF SkipInit, TypeOK, Stacks, imageVars, countVars, notifyVars
  <2>7. CASE DlopenReturns(t)
    <3>0. stack[t] # <<>> /\ Top(t) \in Frame /\ FrameShape(Top(t))
      BY <2>7, TopFacts DEF DlopenReturns, At
    <3>1. Pop(t) /\ gcCount' = gcCount
      BY <2>7 DEF DlopenReturns
    <3>2. Stacks' /\ Struct'
      BY <3>0, <3>1, Leave
    <3> QED BY <2>7, <3>0, <3>2 DEF DlopenReturns, At, TypeOK, Stacks, FrameShape, imageVars, notifyVars
  <2>8. CASE DecRefCount(t)
    <3> DEFINE f == [Top(t) EXCEPT !.pc = "mark"]
    <3>0. /\ stack[t] # <<>> /\ Top(t) \in Frame /\ FrameShape(Top(t)) /\ Stacks
          /\ gcCount \in Nat
      BY <2>8, TopFacts DEF DecRefCount, At
    <3>1. /\ f \in Frame /\ FrameShape(f) /\ f.op = Top(t).op
      BY <2>8, <3>0 DEF DecRefCount, At, Frame, FrameShape, GcPCs, PCs
    <3> HIDE DEF f
    <3>2. /\ gcCount' \in Nat /\ gcCount' >= gcCount
          /\ Pop(t) \/ (SetTop(t, f) /\ gcCount = 0 /\ gcCount' = 1)
      BY <2>8, <3>0 DEF DecRefCount, Goto, f
    <3>3. Stacks' /\ Struct'
      BY <3>0, <3>1, <3>2, StructPop, StructSetTop, PopFacts, SetTopFacts
    <3>4. refs' \in [Images -> Nat]
      BY <2>8 DEF DecRefCount, TypeOK, Loaded
    <3> QED BY <2>8, <3>2, <3>3, <3>4 DEF DecRefCount, TypeOK, Stacks, imageVars, notifyVars
  <2>9. CASE Mark(t)
    <3> DEFINE f == [Top(t) EXCEPT !.pc = IF Unloadables \ InUse = {} THEN "recheck" ELSE "terminate",
                                  !.set = Unloadables \ InUse,
                                  !.todo = {"terminator"} \X (Unloadables \ InUse)]
    <3>0. stack[t] # <<>> /\ Top(t) \in Frame /\ FrameShape(Top(t))
      BY <2>9, TopFacts DEF Mark, At
    <3>1. /\ f \in Frame /\ FrameShape(f) /\ f.op = Top(t).op
          /\ IsGc(f) => IsGc(Top(t))
      BY <2>9, <3>0 DEF Mark, At, Frame, FrameShape, IsGc, GcPCs, PCs, UserPCs, Unloadables, Loaded, Callees
    <3> HIDE DEF f
    <3>2. SetTop(t, f) /\ gcCount' = gcCount
      BY <2>9 DEF Mark, Goto, f
    <3>3. Stacks' /\ Struct'
      BY <3>0, <3>1, <3>2, GoOn
    <3> QED BY <2>9, <3>0, <3>3 DEF Mark, TypeOK, Stacks, imageVars, countVars, notifyVars
  <2>10. CASE RunRemoveCallbacks(t)
    <3> DEFINE f == [Top(t) EXCEPT !.pc = "removing", !.todo = removeFuncs \X Top(t).set]
    <3>0. stack[t] # <<>> /\ Top(t) \in Frame /\ FrameShape(Top(t))
      BY <2>10, TopFacts DEF RunRemoveCallbacks, At
    <3>1. /\ f \in Frame /\ FrameShape(f) /\ f.op = Top(t).op
          /\ IsGc(f) => IsGc(Top(t))
      <4>1. removeFuncs \X Top(t).set \in SUBSET (Callees \X Images)
        BY <3>0 DEF Frame, Callees, TypeOK
      <4>2. f \in Frame /\ f.op = Top(t).op
        BY <3>0, <4>1 DEF Frame, PCs
      <4> QED BY <2>10, <3>0, <4>2 DEF RunRemoveCallbacks, At, Frame, FrameShape, IsGc, GcPCs
    <3> HIDE DEF f
    <3>2. SetTop(t, f) /\ gcCount' = gcCount
      BY <2>10 DEF RunRemoveCallbacks, Goto, f
    <3>3. Stacks' /\ Struct'
      BY <3>0, <3>1, <3>2, GoOn
    <3> QED BY <2>10, <3>0, <3>3 DEF RunRemoveCallbacks, TypeOK, Stacks, imageVars, countVars, notifyVars
  <2>11. CASE RemoveCallbacksDone(t)
    <3> DEFINE f == [Top(t) EXCEPT !.pc = "erase"]
    <3>0. stack[t] # <<>> /\ Top(t) \in Frame /\ FrameShape(Top(t))
      BY <2>11, TopFacts DEF RemoveCallbacksDone, At
    <3>1. /\ f \in Frame /\ FrameShape(f) /\ f.op = Top(t).op
          /\ IsGc(f) => IsGc(Top(t))
      BY <2>11, <3>0 DEF RemoveCallbacksDone, At, Frame, FrameShape, IsGc, GcPCs, PCs, UserPCs
    <3> HIDE DEF f
    <3>2. SetTop(t, f) /\ gcCount' = gcCount
      BY <2>11 DEF RemoveCallbacksDone, Goto, f
    <3>3. Stacks' /\ Struct'
      BY <3>0, <3>1, <3>2, GoOn
    <3> QED BY <2>11, <3>0, <3>3 DEF RemoveCallbacksDone, TypeOK, Stacks, imageVars, countVars, notifyVars
  <2>12. CASE Erase(t)
    <3> DEFINE f == [Top(t) EXCEPT !.pc = "unmap"]
    <3>0. stack[t] # <<>> /\ Top(t) \in Frame /\ FrameShape(Top(t))
      BY <2>12, TopFacts DEF Erase, At
    <3>1. /\ f \in Frame /\ FrameShape(f) /\ f.op = Top(t).op
          /\ IsGc(f) => IsGc(Top(t))
      BY <2>12, <3>0 DEF Erase, At, Frame, FrameShape, IsGc, GcPCs, PCs, UserPCs
    <3> HIDE DEF f
    <3>2. SetTop(t, f) /\ gcCount' = gcCount
      BY <2>12 DEF Erase, Goto, f
    <3>3. Stacks' /\ Struct'
      BY <3>0, <3>1, <3>2, GoOn
    <3> QED BY <2>12, <3>0, <3>3 DEF Erase, TypeOK, Stacks, countVars
  <2>13. CASE Unmap(t)
    <3> DEFINE f == [Top(t) EXCEPT !.pc = "recheck"]
    <3>0. stack[t] # <<>> /\ Top(t) \in Frame /\ FrameShape(Top(t))
      BY <2>13, TopFacts DEF Unmap, At
    <3>1. /\ f \in Frame /\ FrameShape(f) /\ f.op = Top(t).op
          /\ IsGc(f) => IsGc(Top(t))
      BY <2>13, <3>0 DEF Unmap, At, Frame, FrameShape, IsGc, GcPCs, PCs, UserPCs
    <3> HIDE DEF f
    <3>2. SetTop(t, f) /\ gcCount' = gcCount
      BY <2>13 DEF Unmap, Goto, f
    <3>3. Stacks' /\ Struct'
      BY <3>0, <3>1, <3>2, GoOn
    <3> QED BY <2>13, <3>0, <3>3 DEF Unmap, TypeOK, Stacks, Frame, countVars
  <2>14. CASE Recheck(t)
    <3> DEFINE f == NewFrame("dlclose", "mark", Top(t).arg, {})
    <3>0. /\ stack[t] # <<>> /\ Top(t) \in Frame /\ FrameShape(Top(t)) /\ Stacks
          /\ gcCount \in Nat /\ IsGc(Top(t)) /\ gcCount >= 1 /\ Top(t).op = "dlclose"
      BY <2>14, TopFacts DEF Recheck, At, IsGc, GcPCs
    <3>1. /\ f \in Frame /\ FrameShape(f) /\ f.op = "dlclose"
      BY <3>0 DEF NewFrame, Frame, FrameShape, GcPCs, PCs, APIs
    <3> HIDE DEF f
    <3>2. /\ gcCount' \in Nat
          /\ Pop(t) \/ (SetTop(t, f) /\ gcCount' >= 1)
      BY <2>14, <3>0 DEF Recheck, f
    <3>3. Stacks' /\ Struct'
      BY <3>0, <3>1, <3>2, StructPop, StructSetTop, PopFacts, SetTopFacts
    <3> QED BY <2>14, <3>2, <3>3 DEF Recheck, TypeOK, Stacks, imageVars, countVars, notifyVars
  <2>15. CASE AddLoadNotifierTold(t)
    <3> DEFINE f == [Top(t) EXCEPT !.pc = "append"]
    <3>0. stack[t] # <<>> /\ Top(t) \in Frame /\ FrameShape(Top(t))
      BY <2>15, TopFacts DEF AddLoadNotifierTold, At
    <3>1. /\ f \in Frame /\ FrameShape(f) /\ f.op = Top(t).op
          /\ IsGc(f) => IsGc(Top(t))
      BY <2>15, <3>0 DEF AddLoadNotifierTold, At, Frame, FrameShape, IsGc, GcPCs, PCs, UserPCs
    <3> HIDE DEF f
    <3>2. SetTop(t, f) /\ gcCount' = gcCount
      BY <2>15 DEF AddLoadNotifierTold, Goto, f
    <3>3. Stacks' /\ Struct'
      BY <3>0, <3>1, <3>2, GoOn
    <3> QED BY <2>15, <3>0, <3>3 DEF AddLoadNotifierTold, TypeOK, Stacks, imageVars, countVars, notifyVars
  <2>16. CASE AppendLoadNotifier(t)
    <3>0. stack[t] # <<>> /\ Top(t) \in Frame /\ FrameShape(Top(t))
      BY <2>16, TopFacts DEF AppendLoadNotifier, At
    <3>1. Pop(t) /\ gcCount' = gcCount
      BY <2>16 DEF AppendLoadNotifier
    <3>2. Stacks' /\ Struct'
      BY <3>0, <3>1, Leave
    <3> QED BY <2>16, <3>0, <3>2 DEF AppendLoadNotifier, At, TypeOK, Stacks, FrameShape, imageVars, countVars
  <2>17. ASSUME NEW i \in Images, CallTerminator(t, i) PROVE TypeOK' /\ Struct'
    <3> DEFINE f == [Top(t) EXCEPT !.pc = "inTerm", !.todo = @ \ {<<"terminator", i>>}]
    <3>0. stack[t] # <<>> /\ Top(t) \in Frame /\ FrameShape(Top(t))
      BY <2>17, TopFacts DEF CallTerminator, At
    <3>1. /\ f \in Frame /\ FrameShape(f) /\ f.op = Top(t).op
          /\ IsGc(f) => IsGc(Top(t))
      BY <2>17, <3>0 DEF CallTerminator, At, Frame, FrameShape, IsGc, GcPCs, PCs, UserPCs
    <3> HIDE DEF f
    <3>2. SetTop(t, f) /\ gcCount' = gcCount
      BY <2>17 DEF CallTerminator, Goto, f
    <3>3. Stacks' /\ Struct'
      BY <3>0, <3>1, <3>2, GoOn
    <3>4. farewell' \in [Images -> SUBSET Callees]
      BY <2>17 DEF CallTerminator, TypeOK, Callees
    <3> QED BY <2>17, <3>3, <3>4 DEF CallTerminator, TypeOK, Stacks, imageVars, countVars
  <2>18. ASSUME NEW g \in Funcs, NEW i \in Images, CallAddNotifier(t, g, i) PROVE TypeOK' /\ Struct'
    <3> DEFINE f == [Top(t) EXCEPT !.pc = "inAdd", !.todo = @ \ {<<g, i>>}]
    <3>0. stack[t] # <<>> /\ Top(t) \in Frame /\ FrameShape(Top(t))
      BY <2>18, TopFacts DEF CallAddNotifier, At
    <3>1. /\ f \in Frame /\ FrameShape(f) /\ f.op = Top(t).op
          /\ IsGc(f) => IsGc(Top(t))
      BY <2>18, <3>0 DEF CallAddNotifier, At, Frame, FrameShape, IsGc, GcPCs, PCs, UserPCs
    <3> HIDE DEF f
    <3>2. SetTop(t, f) /\ gcCount' = gcCount
      BY <2>18 DEF CallAddNotifier, Goto, f
    <3>3. Stacks' /\ Struct'
      BY <3>0, <3>1, <3>2, GoOn
    <3>4. told' \in [Funcs -> [Images -> Nat]]
      <4>1. told[g] \in [Images -> Nat] /\ told[g][i] + 1 \in Nat
        BY DEF TypeOK
      <4>2. [told[g] EXCEPT ![i] = told[g][i] + 1] \in [Images -> Nat]
        BY <4>1
      <4> QED BY <2>18, <4>2 DEF CallAddNotifier, TypeOK
    <3> QED BY <2>18, <3>3, <3>4 DEF CallAddNotifier, TypeOK, Stacks, imageVars, countVars
  <2>19. ASSUME NEW g \in Funcs, NEW i \in Images, CallRemoveNotifier(t, g, i) PROVE TypeOK' /\ Struct'
    <3> DEFINE f == [Top(t) EXCEPT !.pc = "inRemove", !.todo = @ \ {<<g, i>>}]
    <3>0. stack[t] # <<>> /\ Top(t) \in Frame /\ FrameShape(Top(t))
      BY <2>19, TopFacts DEF CallRemoveNotifier, At
    <3>1. /\ f \in Frame /\ FrameShape(f) /\ f.op = Top(t).op
          /\ IsGc(f) => IsGc(Top(t))
      BY <2>19, <3>0 DEF CallRemoveNotifier, At, Frame, FrameShape, IsGc, GcPCs, PCs, UserPCs
    <3> HIDE DEF f
    <3>2. SetTop(t, f) /\ gcCount' = gcCount
      BY <2>19 DEF CallRemoveNotifier, Goto, f
    <3>3. Stacks' /\ Struct'
      BY <3>0, <3>1, <3>2, GoOn
    <3>4. farewell' \in [Images -> SUBSET Callees]
      BY <2>19 DEF CallRemoveNotifier, TypeOK, Callees
    <3> QED BY <2>19, <3>3, <3>4 DEF CallRemoveNotifier, TypeOK, Stacks, imageVars, countVars
  <2> QED BY <1>4, <2>1, <2>2, <2>3, <2>4, <2>5, <2>6, <2>7, <2>8, <2>9, <2>10, <2>11, <2>12, <2>13, <2>14, <2>15, <2>16, <2>17, <2>18, <2>19 DEF DyldStep
<1> QED BY <1>1, <1>2, <1>3, <1>4 DEF Next

\* At the start nothing is in progress.
LEMMA TypeInit ==
    ASSUME Init
    PROVE  TypeOK /\ Struct
<1> USE ImagesAssumption
<1>1. TypeOK
  BY DEF Init, TypeOK
<1>2. \A t \in Threads : stack[t] = <<>> /\ DOMAIN stack[t] = {}
  BY DEF Init
<1>3. Struct
  BY <1>2 DEF Struct, Shapes, Nested, LockExclusive, HoldsLoadLock, OneGc
<1> QED BY <1>1, <1>3

\* In every behaviour of dlopen(), dlclose(), their collections and the
\* callbacks they make, the state keeps its types; in particular _gcCount never
\* falls below zero, as garbageCollectImages() supposes when it decrements it.
THEOREM TypeCorrect == Spec => []TypeOK
<1>1. Init => TypeOK /\ Struct
  BY TypeInit
<1>2. TypeOK /\ Struct /\ [Next]_vars => (TypeOK /\ Struct)'
  BY TypeStep
<1> QED BY <1>1, <1>2, PTL DEF Spec

\* _sMutex keeps the calls apart and _gcCount the collections.
THEOREM StructHolds == Spec => []Struct
<1>1. Init => TypeOK /\ Struct
  BY TypeInit
<1>2. TypeOK /\ Struct /\ [Next]_vars => (TypeOK /\ Struct)'
  BY TypeStep
<1> QED BY <1>1, <1>2, PTL DEF Spec

-----------------------------------------------------------------------------
(* The data part of the invariant. *)

\* What cannot be unloaded.
Fixed == Pinned \cup InCache \cup Initial

IsMap(f) == f.op = "dlopen" /\ f.pc = "map"

\* newImages, before they are appended to _loadedImages: they bring along all
\* they link with.
NewOK(f, loaded, map, nev) ==
    /\ f.set \cap loaded = {}
    /\ f.set \subseteq map
    /\ f.arg \in f.set
    /\ \A i \in f.set : Deps[i] \subseteq f.set \cup loaded
    /\ f.set \cap Fixed \subseteq nev

\* The dead images, until they are erased: nobody outside needs them.
DeadOK(f, loaded, nev, count) ==
    /\ f.set \subseteq loaded
    /\ f.set \cap nev = {}
    /\ \A i \in f.set : count[i] = 0
    /\ \A i \in loaded \ f.set : Deps[i] \cap f.set = {}

FrameOK(f, loaded, map, nev, count) ==
    /\ IsMap(f) => NewOK(f, loaded, map, nev)
    /\ f.op = "dlclose" /\ f.pc \in {"terminate", "inTerm", "removing", "inRemove", "erase"}
           => DeadOK(f, loaded, nev, count)
    /\ f.op = "dlclose" /\ f.pc = "unmap" => f.set \cap loaded = {}

Frames ==
    \A t \in Threads : \A n \in DOMAIN stack[t] :
        FrameOK(stack[t][n], Loaded, mapped, never, refs)

\* The images themselves.
Core ==
    /\ \A i \in Images : refs[i] > 0 => i \in Loaded
    /\ \A i \in Loaded : Deps[i] \subseteq Loaded
    /\ Loaded \subseteq mapped
    /\ Loaded \cap Fixed \subseteq never
    /\ never \subseteq Fixed
    /\ Initial \subseteq Loaded

Data == ClosesInGc /\ Core /\ Frames

IInv == TypeOK /\ Struct /\ Data

-----------------------------------------------------------------------------
(* Who is not in the middle of something when the images change. *)

\* A frame that does not collect and has nothing mapped remembers nothing.
LEMMA PlainFrame ==
    ASSUME NEW f, NEW loaded, NEW map, NEW nev, NEW count, ~IsGc(f), ~IsMap(f)
    PROVE  FrameOK(f, loaded, map, nev, count)
  BY DEF FrameOK, IsGc, IsMap, GcPCs

\* While dlopen() is on top, or a collection is, every other frame is plain.
LEMMA OthersPlain ==
    ASSUME IInv, NEW t \in Threads, stack[t] # <<>>,
           Top(t).op = "dlopen" \/ IsGc(Top(t)),
           NEW u \in Threads, NEW n \in DOMAIN stack[u],
           u # t \/ n # Len(stack[t])
    PROVE  ~IsGc(stack[u][n]) /\ ~IsMap(stack[u][n])
<1>1. /\ Len(stack[t]) \in DOMAIN stack[t] /\ DOMAIN stack[t] = 1..Len(stack[t])
      /\ Len(stack[t]) \in Nat /\ Top(t) = stack[t][Len(stack[t])]
  BY TopFacts DEF IInv, Stacks, Top
<1>2. CASE u # t
  <2>1. HoldsLoadLock(t)
    BY <1>1 DEF HoldsLoadLock, APIs, IsGc
  <2>2. stack[u][n].op \notin APIs
    BY <1>2, <2>1 DEF IInv, Struct, LockExclusive, HoldsLoadLock
  <2> QED BY <2>2 DEF APIs, IsGc, IsMap
<1>3. CASE u = t
  <2>1. n < Len(stack[t])
    BY <1>1, <1>3
  <2>2. ~IsMap(stack[u][n])
    BY <1>3, <2>1 DEF IInv, Struct, Nested, UserPCs, IsMap
  <2>3. ~IsGc(stack[u][n])
    <3>1. CASE Top(t).op = "dlopen"
      BY <3>1, <1>1, <1>3, <2>1 DEF IInv, Data, ClosesInGc
    <3>2. CASE IsGc(Top(t))
      BY <3>2, <1>1, <1>3, <2>1 DEF IInv, Struct, OneGc
    <3> QED BY <3>1, <3>2
  <2> QED BY <2>2, <2>3
<1> QED BY <1>2, <1>3

\* When dlopen() is called every frame is plain.
LEMMA OpeningPlain ==
    ASSUME TerminatorsDoNotOpen, IInv, NEW t \in Threads,
           MayEnter(t, "dlopen"), LoadLockFree(t),
           NEW u \in Threads, NEW n \in DOMAIN stack[u]
    PROVE  ~IsGc(stack[u][n]) /\ ~IsMap(stack[u][n])
<1>1. CASE u # t
  BY <1>1 DEF LoadLockFree, HoldsLoadLock, APIs, IsGc, IsMap
<1>2. CASE u = t
  <2>1. stack[t] # <<>>
    BY <1>2 DEF IInv, TypeOK
  <2>2. Top(t) = stack[t][Len(stack[t])] /\ Top(t) \in Frame /\ FrameShape(Top(t))
    BY <2>1, TopFacts DEF IInv, Top
  <2>3. /\ Top(t).op # "register" /\ Top(t).pc \in UserPCs
        /\ "dlopen" \in MayCall[Top(t).pc]
    BY <2>1 DEF MayEnter
  <2>4. Top(t).pc \in {"inAdd", "inInit"}
    BY <2>3 DEF TerminatorsDoNotOpen, UserPCs
  <2>5. Top(t).op = "dlopen" /\ ~IsGc(Top(t)) /\ ~IsMap(Top(t))
    BY <2>2, <2>3, <2>4 DEF Frame, APIs, FrameShape, GcPCs, IsGc, IsMap
  <2>6. CASE n = Len(stack[t])
    BY <1>2, <2>2, <2>5, <2>6
  <2>7. CASE n # Len(stack[t])
    BY <1>2, <2>1, <2>5, <2>7, OthersPlain
  <2> QED BY <2>6, <2>7
<1> QED BY <1>1, <1>2

-----------------------------------------------------------------------------
(* The frames of the data part under the three kinds of step on a stack. *)

\* A call enters: the new frame must be right, and the old ones still are.
LEMMA DataPush ==
    ASSUME IInv, NEW t \in Threads, NEW f \in Frame, Push(t, f), ~IsGc(f),
           f.op = "dlclose" \/ \A n \in DOMAIN stack[t] : ~IsGc(stack[t][n]),
           FrameOK(f, Loaded', mapped', never', refs'),
           \A u \in Threads : \A n \in DOMAIN stack[u] :
               FrameOK(stack[u][n], Loaded', mapped', never', refs')
    PROVE  ClosesInGc' /\ Frames'
<1>0. Stacks
  BY DEF IInv, TypeOK, Stacks
<1> DEFINE l == Len(stack[t])
<1>1. \A u \in Threads : \A n \in DOMAIN stack'[u] :
         \/ n \in DOMAIN stack[u] /\ stack'[u][n] = stack[u][n]
         \/ u = t /\ n = l + 1 /\ stack'[u][n] = f
  BY <1>0, PushFacts
<1>2. l \in Nat /\ DOMAIN stack[t] = 1..l
  BY <1>0, PushFacts
<1>3. ClosesInGc'
  <2> SUFFICES ASSUME NEW u \in Threads,
                      NEW m \in DOMAIN stack'[u], NEW n \in DOMAIN stack'[u],
                      IsGc(stack'[u][m]), m < n
               PROVE  stack'[u][n].op = "dlclose"
    BY DEF ClosesInGc, IsGc
  <2>1. m \in DOMAIN stack[u] /\ stack'[u][m] = stack[u][m]
    BY <1>1
  <2>2. CASE n \in DOMAIN stack[u] /\ stack'[u][n] = stack[u][n]
    BY <2>1, <2>2 DEF IInv, Data, ClosesInGc
  <2>3. CASE u = t /\ n = l + 1 /\ stack'[u][n] = f
    BY <2>1, <2>3
  <2> QED BY <1>1, <2>2, <2>3
<1>4. Frames'
  BY <1>1 DEF Frames
<1> QED BY <1>3, <1>4

\* A call goes on: its frame must be right, and the others still are.
LEMMA DataSetTop ==
    ASSUME IInv, NEW t \in Threads, stack[t] # <<>>, NEW f \in Frame, SetTop(t, f),
           f.op = Top(t).op,
           FrameOK(f, Loaded', mapped', never', refs'),
           \A u \in Threads : \A n \in DOMAIN stack[u] :
               (u # t \/ n # Len(stack[t])) =>
                   FrameOK(stack[u][n], Loaded', mapped', never', refs')
    PROVE  ClosesInGc' /\ Frames'
<1>0. Stacks
  BY DEF IInv, TypeOK, Stacks
<1> DEFINE l == Len(stack[t])
<1>1. \A u \in Threads : \A n \in DOMAIN stack'[u] :
         /\ n \in DOMAIN stack[u]
         /\ \/ stack'[u][n] = stack[u][n] /\ (u # t \/ n # l)
            \/ u = t /\ n = l /\ stack'[u][n] = f
  BY <1>0, SetTopFacts
<1>2. l \in Nat \ {0} /\ DOMAIN stack[t] = 1..l /\ stack[t][l].op = f.op
  BY <1>0, SetTopFacts DEF Top
<1>3. ClosesInGc'
  <2> SUFFICES ASSUME NEW u \in Threads,
                      NEW m \in DOMAIN stack'[u], NEW n \in DOMAIN stack'[u],
                      IsGc(stack'[u][m]), m < n
               PROVE  stack'[u][n].op = "dlclose"
    BY DEF ClosesInGc, IsGc
  <2>1. m \in DOMAIN stack[u] /\ n \in DOMAIN stack[u] /\ ~(u = t /\ m = l)
    BY <1>1, <1>2
  <2>2. IsGc(stack[u][m]) /\ stack'[u][n].op = stack[u][n].op
    BY <1>1, <1>2, <2>1
  <2> QED BY <2>1, <2>2 DEF IInv, Data, ClosesInGc
<1>4. Frames'
  BY <1>1 DEF Frames
<1> QED BY <1>3, <1>4

\* A call returns: the others must still be right.
LEMMA DataPop ==
    ASSUME IInv, NEW t \in Threads, stack[t] # <<>>, Pop(t),
           \A u \in Threads : \A n \in DOMAIN stack[u] :
               (u # t \/ n # Len(stack[t])) =>
                   FrameOK(stack[u][n], Loaded', mapped', never', refs')
    PROVE  ClosesInGc' /\ Frames'
<1>0. Stacks
  BY DEF IInv, TypeOK, Stacks
<1>1. \A u \in Threads : \A n \in DOMAIN stack'[u] :
         n \in DOMAIN stack[u] /\ stack'[u][n] = stack[u][n] /\ (u # t \/ n # Len(stack[t]))
  <2> DEFINE l == Len(stack[t])
  <2>1. /\ \A u \in Threads \ {t} : stack'[u] = stack[u]
        /\ DOMAIN stack'[t] = 1..(l - 1) /\ DOMAIN stack[t] = 1..l /\ l \in Nat \ {0}
        /\ \A n \in 1..(l - 1) : stack'[t][n] = stack[t][n]
    BY <1>0, PopFacts
  <2> HIDE DEF l
  <2>2. \A n \in 1..(l - 1) : n \in 1..l /\ n # l
    BY <2>1
  <2> QED BY <2>1, <2>2 DEF l
<1>2. ClosesInGc'
  BY <1>1 DEF IInv, Data, ClosesInGc, IsGc
<1>3. Frames'
  BY <1>1 DEF Frames
<1> QED BY <1>2, <1>3

-----------------------------------------------------------------------------
(* Steps that leave the images, their counts and their marks alone. *)

SameImages == Loaded' = Loaded /\ UNCHANGED <<mapped, never, refs>>

\* A step within a call that changes no image keeps the data part, if the new
\* top frame is right.
LEMMA DataGoOn ==
    ASSUME IInv, SameImages, NEW t \in Threads, stack[t] # <<>>, NEW f \in Frame,
           SetTop(t, f), f.op = Top(t).op,
           FrameOK(f, Loaded, mapped, never, refs)
    PROVE  Data'
<1>1. \A u \in Threads : \A n \in DOMAIN stack[u] :
          FrameOK(stack[u][n], Loaded', mapped', never', refs')
  BY DEF IInv, Data, Frames, SameImages
<1>2. FrameOK(f, Loaded', mapped', never', refs')
  BY DEF SameImages
<1>3. ClosesInGc' /\ Frames'
  BY <1>1, <1>2, DataSetTop
<1>4. Core'
  BY DEF IInv, Data, Core, SameImages
<1> QED BY <1>3, <1>4 DEF Data

\* A call that returns and changes no image keeps the data part.
LEMMA DataLeave ==
    ASSUME IInv, SameImages, NEW t \in Threads, stack[t] # <<>>, Pop(t)
    PROVE  Data'
<1>1. \A u \in Threads : \A n \in DOMAIN stack[u] :
          FrameOK(stack[u][n], Loaded', mapped', never', refs')
  BY DEF IInv, Data, Frames, SameImages
<1>2. ClosesInGc' /\ Frames'
  BY <1>1, DataPop
<1>3. Core'
  BY DEF IInv, Data, Core, SameImages
<1> QED BY <1>2, <1>3 DEF Data

\* A step that changes neither a stack nor an image keeps the data part.
LEMMA DataAside ==
    ASSUME IInv, SameImages, stack' = stack
    PROVE  Data'
<1>1. ClosesInGc' /\ Frames'
  BY DEF IInv, Data, ClosesInGc, IsGc, Frames, SameImages
<1>2. Core'
  BY DEF IInv, Data, Core, SameImages
<1> QED BY <1>1, <1>2 DEF Data

\* The frame on top is right.
LEMMA TopOK ==
    ASSUME IInv, NEW t \in Threads, stack[t] # <<>>
    PROVE  /\ Top(t) \in Frame /\ FrameShape(Top(t)) /\ Stacks
           /\ FrameOK(Top(t), Loaded, mapped, never, refs)
<1>1. Len(stack[t]) \in DOMAIN stack[t] /\ Top(t) \in Frame /\ FrameShape(Top(t)) /\ Stacks
  BY TopFacts DEF IInv
<1>2. FrameOK(Top(t), Loaded, mapped, never, refs)
  BY <1>1 DEF IInv, Data, Frames, Top
<1> QED BY <1>1, <1>2

-----------------------------------------------------------------------------
(* The closures. *)

\* A closure stays within any set that is closed under the links.
LEMMA ReachWithin ==
    ASSUME NEW S, NEW within, NEW T \in SUBSET Images, S \subseteq T,
           \A x \in T \cap within : Deps[x] \subseteq T
    PROVE  Reach(S, within) \subseteq T
  BY DEF Reach

\* A closure has what it starts from, and the links of what it holds.
LEMMA ReachCloses ==
    ASSUME NEW S \in SUBSET Images, NEW within
    PROVE  /\ S \subseteq Reach(S, within)
           /\ \A x \in Reach(S, within) \cap within : Deps[x] \subseteq Reach(S, within)
<1> USE ImagesAssumption
<1>1. S \subseteq Reach(S, within)
  BY DEF Reach
<1>2. ASSUME NEW x \in Reach(S, within) \cap within, NEW y \in Deps[x]
      PROVE  y \in Reach(S, within)
  <2>1. x \in Images /\ y \in Images
    BY <1>2 DEF Reach
  <2>2. ASSUME NEW T \in SUBSET Images, S \subseteq T,
               \A z \in T \cap within : Deps[z] \subseteq T
        PROVE  y \in T
    BY <1>2, <2>2 DEF Reach
  <2> QED BY <2>1, <2>2 DEF Reach
<1> QED BY <1>1, <1>2

\* What cannot be unloaded links only with what cannot be unloaded.
LEMMA FixedCloses ==
    ASSUME PinnedIsClosed
    PROVE  Fixed \subseteq Images /\ \A i \in Fixed : Deps[i] \subseteq Fixed
  BY ImagesAssumption DEF PinnedIsClosed, Fixed

-----------------------------------------------------------------------------
(* Every step preserves the data part. *)

\* Every step of dlopen(), dlclose() and their callbacks keeps the data part:
\* one case per action.
LEMMA DataStep ==
    ASSUME TerminatorsDoNotOpen, PinnedIsClosed, IInv, [Next]_vars
    PROVE  Data'
<1> USE ImagesAssumption, CallsAssumption
<1>1. CASE UNCHANGED vars
  BY <1>1, DataAside DEF vars, imageVars, countVars, SameImages, Loaded
<1>2. ASSUME NEW t \in Threads, UserCall(t) PROVE Data'
  <2>1. ASSUME NEW i \in Images, DlopenCached(t, i) PROVE Data'
    BY <2>1, DataAside DEF DlopenCached, imageVars, SameImages, Loaded
  <2>2. ASSUME NEW i \in Images, Dlclose(t, i) PROVE Data'
    <3> DEFINE f == NewFrame("dlclose", "find", i, {})
    <3>1. f \in Frame /\ ~IsGc(f) /\ ~IsMap(f) /\ f.op = "dlclose"
      BY DEF NewFrame, Frame, IsGc, IsMap, GcPCs, PCs, APIs
    <3> HIDE DEF f
    <3>2. Push(t, f) /\ SameImages
      BY <2>2 DEF Dlclose, f, imageVars, SameImages, Loaded
    <3>3. FrameOK(f, Loaded', mapped', never', refs')
      BY <3>1, PlainFrame
    <3>4. \A u \in Threads : \A n \in DOMAIN stack[u] :
              FrameOK(stack[u][n], Loaded', mapped', never', refs')
      BY <3>2 DEF IInv, Data, Frames, SameImages
    <3>5. ClosesInGc' /\ Frames'
      BY <3>1, <3>2, <3>3, <3>4, DataPush
    <3>6. Core'
      BY <3>2 DEF IInv, Data, Core, SameImages
    <3> QED BY <3>5, <3>6 DEF Data
  <2>3. ASSUME NEW i \in Images, NEW mode \in Modes, DlopenLoaded(t, i, mode) PROVE Data'
    <3> DEFINE f == NewFrame("dlopen", "init", i, {})
    <3>1. f \in Frame /\ ~IsGc(f) /\ ~IsMap(f)
      BY DEF NewFrame, Frame, IsGc, IsMap, GcPCs, PCs, APIs
    <3> HIDE DEF f
    <3>2. Push(t, f) \/ stack' = stack
      BY <2>3 DEF DlopenLoaded, f
    <3>3. \A u \in Threads : \A n \in DOMAIN stack[u] :
              ~IsGc(stack[u][n]) /\ ~IsMap(stack[u][n])
      BY <2>3, OpeningPlain DEF DlopenLoaded
    <3>4. /\ FrameOK(f, Loaded', mapped', never', refs')
          /\ \A u \in Threads : \A n \in DOMAIN stack[u] :
                 FrameOK(stack[u][n], Loaded', mapped', never', refs')
      BY <3>1, <3>3, PlainFrame
    <3>5. ClosesInGc' /\ Frames'
      <4>1. CASE Push(t, f)
        BY <3>1, <3>3, <3>4, <4>1, DataPush
      <4>2. CASE stack' = stack
        BY <3>4, <4>2 DEF IInv, Data, ClosesInGc, IsGc, Frames
      <4> QED BY <3>2, <4>1, <4>2
    <3>6. Core'
      <4>1. /\ Loaded' = Loaded /\ UNCHANGED <<mapped, never>>
            /\ i \in Loaded /\ refs' = [refs EXCEPT ![i] = @ + 1]
        BY <2>3 DEF DlopenLoaded, Loaded
      <4>2. \A j \in Images : refs'[j] > 0 => j \in Loaded
        BY <4>1 DEF IInv, Data, Core, TypeOK
      <4> QED BY <4>1, <4>2 DEF IInv, Data, Core
    <3> QED BY <3>5, <3>6 DEF Data
  <2>4. ASSUME NEW i \in Images, NEW mode \in Modes, DlopenNew(t, i, mode) PROVE Data'
    <3> DEFINE new == Closure(i) \ Loaded
               f == NewFrame("dlopen", "map", i, new)
    <3>0. /\ new \subseteq Images /\ i \in new
          /\ \A j \in new : Deps[j] \subseteq new \cup Loaded
      <4>1. {i} \subseteq Closure(i) /\ \A x \in Closure(i) \cap Images : Deps[x] \subseteq Closure(i)
        BY ReachCloses DEF Closure
      <4>2. Closure(i) \subseteq Images
        BY DEF Closure, Reach
      <4> QED BY <2>4, <4>1, <4>2 DEF DlopenNew
    <3>1. /\ f \in Frame /\ ~IsGc(f) /\ f.set = new /\ f.arg = i
          /\ f.op = "dlopen" /\ f.pc = "map"
      BY <3>0 DEF NewFrame, Frame, IsGc, GcPCs, PCs, APIs
    <3>2. PICK N \in NeverChoices(i, new) : never' = never \cup N
      BY <2>4 DEF DlopenNew
    <3>3. N \subseteq new /\ new \cap SelfMarked \subseteq N /\ N \subseteq Reach(N \cap SelfMarked, N)
      BY <3>2 DEF NeverChoices
    <3>4. N \subseteq Fixed
      <4>1. Reach(N \cap SelfMarked, N) \subseteq Fixed
        <5>1. N \cap SelfMarked \subseteq Fixed
          BY DEF SelfMarked, Fixed
        <5> QED BY <5>1, FixedCloses, ReachWithin
      <4> QED BY <3>3, <4>1
    <3> HIDE DEF new, f
    <3>5. /\ Push(t, f) /\ Loaded' = Loaded /\ mapped' = mapped \cup new /\ refs' = refs
          /\ new \cap Loaded = {}
      BY <2>4 DEF DlopenNew, f, new, countVars, Loaded
    <3>6. FrameOK(f, Loaded', mapped', never', refs')
      <4>1. new \cap Fixed \subseteq never'
        BY <3>2, <3>3, <3>5 DEF Fixed, SelfMarked, IInv, Data, Core
      <4> QED BY <3>0, <3>1, <3>5, <4>1 DEF FrameOK, NewOK
    <3>7. \A u \in Threads : \A n \in DOMAIN stack[u] :
              ~IsGc(stack[u][n]) /\ ~IsMap(stack[u][n])
      BY <2>4, OpeningPlain DEF DlopenNew
    <3>8. \A u \in Threads : \A n \in DOMAIN stack[u] :
              FrameOK(stack[u][n], Loaded', mapped', never', refs')
      BY <3>7, PlainFrame
    <3>9. ClosesInGc' /\ Frames'
      BY <3>1, <3>5, <3>6, <3>7, <3>8, DataPush
    <3>10. Core'
      BY <3>2, <3>4, <3>5 DEF IInv, Data, Core
    <3> QED BY <3>9, <3>10 DEF Data
  <2>5. ASSUME NEW g \in Funcs, AddLoadNotifier(t, g) PROVE Data'
    <3> DEFINE f == [NewFrame("register", "telling", g, {}) EXCEPT !.todo = {g} \X Loaded]
    <3>1. f \in Frame /\ ~IsGc(f) /\ ~IsMap(f)
      BY DEF NewFrame, Frame, IsGc, IsMap, GcPCs, PCs, APIs, Callees, Loaded
    <3> HIDE DEF f
    <3>2. Push(t, f) /\ SameImages /\ stack[t] = <<>>
      BY <2>5 DEF AddLoadNotifier, f, imageVars, countVars, SameImages, Loaded
    <3>3. FrameOK(f, Loaded', mapped', never', refs')
      BY <3>1, PlainFrame
    <3>4. \A u \in Threads : \A n \in DOMAIN stack[u] :
              FrameOK(stack[u][n], Loaded', mapped', never', refs')
      BY <3>2 DEF IInv, Data, Frames, SameImages
    <3>5. ClosesInGc' /\ Frames'
      BY <3>1, <3>2, <3>3, <3>4, DataPush
    <3>6. Core'
      BY <3>2 DEF IInv, Data, Core, SameImages
    <3> QED BY <3>5, <3>6 DEF Data
  <2>6. ASSUME NEW g \in Funcs, AddUnloadNotifier(t, g) PROVE Data'
    BY <2>6, DataAside DEF AddUnloadNotifier, imageVars, countVars, SameImages, Loaded
  <2> QED BY <1>2, <2>1, <2>2, <2>3, <2>4, <2>5, <2>6 DEF UserCall
<1>3. ASSUME NEW t \in Threads, UserReturns(t) PROVE Data'
  <2>1. CASE AddNotifierReturns(t)
    <3> DEFINE f == [Top(t) EXCEPT !.pc = "telling"]
    <3>0. /\ stack[t] # <<>> /\ Top(t) \in Frame /\ FrameShape(Top(t))
          /\ FrameOK(Top(t), Loaded, mapped, never, refs)
      BY <2>1, TopOK DEF AddNotifierReturns, At
    <3>1. f \in Frame /\ f.op = Top(t).op
      BY <2>1, <3>0 DEF AddNotifierReturns, At, Frame, PCs, UserPCs
    <3>2. FrameOK(f, Loaded, mapped, never, refs)
      BY <2>1, <3>0 DEF AddNotifierReturns, At, FrameOK, IsMap, DeadOK, NewOK, FrameShape, GcPCs, UserPCs, Frame
    <3> HIDE DEF f
    <3>3. SetTop(t, f) /\ SameImages
      BY <2>1 DEF AddNotifierReturns, Goto, f, SameImages, Loaded, imageVars, countVars
    <3> QED BY <3>0, <3>1, <3>2, <3>3, DataGoOn
  <2>2. CASE InitReturns(t)
    <3> DEFINE f == [Top(t) EXCEPT !.pc = "init", !.k = @ + 1]
    <3>0. /\ stack[t] # <<>> /\ Top(t) \in Frame /\ FrameShape(Top(t))
          /\ FrameOK(Top(t), Loaded, mapped, never, refs)
      BY <2>2, TopOK DEF InitReturns, At
    <3>4. Top(t).k + 1 \in Nat
      BY <3>0 DEF Frame
    <3>1. f \in Frame /\ f.op = Top(t).op
      BY <2>2, <3>0, <3>4 DEF InitReturns, At, Frame, PCs, UserPCs
    <3>2. FrameOK(f, Loaded, mapped, never, refs)
      BY <2>2, <3>0 DEF InitReturns, At, FrameOK, IsMap, DeadOK, NewOK, FrameShape, GcPCs, UserPCs, Frame, AtInit
    <3> HIDE DEF f
    <3>3. SetTop(t, f) /\ SameImages
      BY <2>2 DEF InitReturns, Goto, f, SameImages, Loaded, TypeOK, IInv, countVars
    <3> QED BY <3>0, <3>1, <3>2, <3>3, DataGoOn
  <2>3. CASE TerminatorReturns(t)
    <3> DEFINE f == [Top(t) EXCEPT !.pc = "terminate"]
    <3>0. /\ stack[t] # <<>> /\ Top(t) \in Frame /\ FrameShape(Top(t))
          /\ FrameOK(Top(t), Loaded, mapped, never, refs)
      BY <2>3, TopOK DEF TerminatorReturns, At
    <3>1. f \in Frame /\ f.op = Top(t).op
      BY <2>3, <3>0 DEF TerminatorReturns, At, Frame, PCs, UserPCs
    <3>2. FrameOK(f, Loaded, mapped, never, refs)
      BY <2>3, <3>0 DEF TerminatorReturns, At, FrameOK, IsMap, DeadOK, NewOK, FrameShape, GcPCs, UserPCs, Frame
    <3> HIDE DEF f
    <3>3. SetTop(t, f) /\ SameImages
      BY <2>3 DEF TerminatorReturns, Goto, f, SameImages, Loaded, imageVars, countVars
    <3> QED BY <3>0, <3>1, <3>2, <3>3, DataGoOn
  <2>4. CASE RemoveNotifierReturns(t)
    <3> DEFINE f == [Top(t) EXCEPT !.pc = "removing"]
    <3>0. /\ stack[t] # <<>> /\ Top(t) \in Frame /\ FrameShape(Top(t))
          /\ FrameOK(Top(t), Loaded, mapped, never, refs)
      BY <2>4, TopOK DEF RemoveNotifierReturns, At
    <3>1. f \in Frame /\ f.op = Top(t).op
      BY <2>4, <3>0 DEF RemoveNotifierReturns, At, Frame, PCs, UserPCs
    <3>2. FrameOK(f, Loaded, mapped, never, refs)
      BY <2>4, <3>0 DEF RemoveNotifierReturns, At, FrameOK, IsMap, DeadOK, NewOK, FrameShape, GcPCs, UserPCs, Frame
    <3> HIDE DEF f
    <3>3. SetTop(t, f) /\ SameImages
      BY <2>4 DEF RemoveNotifierReturns, Goto, f, SameImages, Loaded, imageVars, countVars
    <3> QED BY <3>0, <3>1, <3>2, <3>3, DataGoOn
  <2> QED BY <1>3, <2>1, <2>2, <2>3, <2>4 DEF UserReturns
<1>4. ASSUME NEW t \in Threads, DyldStep(t) PROVE Data'
  <2>1. CASE LoadFails(t)
    <3>1. /\ stack[t] # <<>> /\ Top(t).op = "dlopen" /\ Pop(t)
          /\ NewOK(Top(t), Loaded, mapped, never)
          /\ Loaded' = Loaded /\ refs' = refs
          /\ mapped' = mapped \ (Top(t).set \ InCache) /\ never' = never \ Top(t).set
      BY <2>1, TopOK DEF LoadFails, At, FrameOK, IsMap, Loaded, countVars
    <3>2. \A u \in Threads : \A n \in DOMAIN stack[u] :
              (u # t \/ n # Len(stack[t])) =>
                  FrameOK(stack[u][n], Loaded', mapped', never', refs')
      BY <3>1, OthersPlain, PlainFrame
    <3>3. ClosesInGc' /\ Frames'
      BY <3>1, <3>2, DataPop
    <3>4. Core'
      BY <3>1 DEF IInv, Data, Core, NewOK
    <3> QED BY <3>3, <3>4 DEF Data
  <2>2. CASE AddImages(t)
    <3> DEFINE new == Top(t).set
               f == [Top(t) EXCEPT !.pc = "tell"]
    <3>0. /\ stack[t] # <<>> /\ Top(t).op = "dlopen" /\ Top(t) \in Frame
          /\ NewOK(Top(t), Loaded, mapped, never)
      BY <2>2, TopOK DEF AddImages, At, FrameOK, IsMap
    <3>1. f \in Frame /\ f.op = Top(t).op /\ ~IsGc(f) /\ ~IsMap(f)
      BY <3>0 DEF Frame, PCs, IsGc, IsMap
    <3> HIDE DEF f
    <3>2. /\ SetTop(t, f) /\ Loaded' = Loaded \cup new /\ UNCHANGED <<mapped, never>>
          /\ \A j \in Images : refs'[j] > 0 => refs[j] > 0 \/ j \in new
      <4>1. SetTop(t, f) /\ UNCHANGED <<mapped, never>>
        BY <2>2 DEF AddImages, Goto, f
      <4>2. Loaded' = Loaded \cup new
        BY <2>2, <3>0 DEF AddImages, Loaded, IInv, TypeOK, Frame
      <4>3. \A j \in Images : refs'[j] > 0 => refs[j] > 0 \/ j \in new
        BY <2>2, <3>0 DEF AddImages, NewOK, IInv, TypeOK
      <4> QED BY <4>1, <4>2, <4>3
    <3>3. \A u \in Threads : \A n \in DOMAIN stack[u] :
              (u # t \/ n # Len(stack[t])) =>
                  FrameOK(stack[u][n], Loaded', mapped', never', refs')
      BY <3>0, OthersPlain, PlainFrame
    <3>4. ClosesInGc' /\ Frames'
      BY <3>0, <3>1, <3>2, <3>3, PlainFrame, DataSetTop
    <3>5. Core'
      BY <3>0, <3>2 DEF IInv, Data, Core, NewOK
    <3> QED BY <3>4, <3>5 DEF Data
  <2>3. CASE RunImageCallbacks(t)
    <3> DEFINE f == [Top(t) EXCEPT !.pc = "telling", !.todo = loadFuncs \X Top(t).set]
    <3>0. /\ stack[t] # <<>> /\ Top(t) \in Frame /\ FrameShape(Top(t))
          /\ FrameOK(Top(t), Loaded, mapped, never, refs)
      BY <2>3, TopOK DEF RunImageCallbacks, At
    <3>1. f \in Frame /\ f.op = Top(t).op
      BY <2>3, <3>0 DEF RunImageCallbacks, At, Frame, PCs, UserPCs, Callees, IInv, TypeOK
    <3>2. FrameOK(f, Loaded, mapped, never, refs)
      BY <2>3, <3>0 DEF RunImageCallbacks, At, FrameOK, IsMap, DeadOK, NewOK, FrameShape, GcPCs, UserPCs, Frame
    <3> HIDE DEF f
    <3>3. SetTop(t, f) /\ SameImages
      BY <2>3 DEF RunImageCallbacks, Goto, f, SameImages, Loaded, imageVars, countVars
    <3> QED BY <3>0, <3>1, <3>2, <3>3, DataGoOn
  <2>4. CASE ImageCallbacksDone(t)
    <3> DEFINE f == [Top(t) EXCEPT !.pc = "init"]
    <3>0. /\ stack[t] # <<>> /\ Top(t) \in Frame /\ FrameShape(Top(t))
          /\ FrameOK(Top(t), Loaded, mapped, never, refs)
      BY <2>4, TopOK DEF ImageCallbacksDone, At
    <3>1. f \in Frame /\ f.op = Top(t).op
      BY <2>4, <3>0 DEF ImageCallbacksDone, At, Frame, PCs, UserPCs
    <3>2. FrameOK(f, Loaded, mapped, never, refs)
      BY <2>4, <3>0 DEF ImageCallbacksDone, At, FrameOK, IsMap, DeadOK, NewOK, FrameShape, GcPCs, UserPCs, Frame
    <3> HIDE DEF f
    <3>3. SetTop(t, f) /\ SameImages
      BY <2>4 DEF ImageCallbacksDone, Goto, f, SameImages, Loaded, imageVars, countVars
    <3> QED BY <3>0, <3>1, <3>2, <3>3, DataGoOn
  <2>5. CASE StartInit(t)
    <3> DEFINE f == [Top(t) EXCEPT !.pc = "inInit"]
    <3>0. /\ stack[t] # <<>> /\ Top(t) \in Frame /\ FrameShape(Top(t))
          /\ FrameOK(Top(t), Loaded, mapped, never, refs)
      BY <2>5, TopOK DEF StartInit, At, AtInit
    <3>1. f \in Frame /\ f.op = Top(t).op
      BY <2>5, <3>0 DEF StartInit, At, AtInit, Frame, PCs, UserPCs
    <3>2. FrameOK(f, Loaded, mapped, never, refs)
      BY <2>5, <3>0 DEF StartInit, At, AtInit, FrameOK, IsMap, DeadOK, NewOK, FrameShape, GcPCs, UserPCs, Frame
    <3> HIDE DEF f
    <3>3. SetTop(t, f) /\ SameImages
      BY <2>5 DEF StartInit, Goto, f, SameImages, Loaded, IInv, TypeOK, countVars
    <3> QED BY <3>0, <3>1, <3>2, <3>3, DataGoOn
  <2>6. CASE SkipInit(t)
    <3> DEFINE f == [Top(t) EXCEPT !.k = @ + 1]
    <3>0. /\ stack[t] # <<>> /\ Top(t) \in Frame /\ FrameShape(Top(t))
          /\ FrameOK(Top(t), Loaded, mapped, never, refs)
      BY <2>6, TopOK DEF SkipInit, At, AtInit
    <3>4. Top(t).k + 1 \in Nat
      BY <3>0 DEF Frame
    <3>1. f \in Frame /\ f.op = Top(t).op
      BY <2>6, <3>0, <3>4 DEF SkipInit, At, Frame, PCs, UserPCs
    <3>2. FrameOK(f, Loaded, mapped, never, refs)
      BY <2>6, <3>0 DEF SkipInit, At, FrameOK, IsMap, DeadOK, NewOK, FrameShape, GcPCs, UserPCs, Frame, AtInit
    <3> HIDE DEF f
    <3>3. SetTop(t, f) /\ SameImages
      BY <2>6 DEF SkipInit, Goto, f, SameImages, Loaded, imageVars, countVars
    <3> QED BY <3>0, <3>1, <3>2, <3>3, DataGoOn
  <2>7. CASE DlopenReturns(t)
    <3>1. stack[t] # <<>> /\ Pop(t) /\ SameImages
      BY <2>7 DEF DlopenReturns, At, SameImages, Loaded, imageVars
    <3> QED BY <3>1, DataLeave
  <2>8. CASE DecRefCount(t)
    <3> DEFINE f == [Top(t) EXCEPT !.pc = "mark"]
    <3>0. /\ stack[t] # <<>> /\ Top(t) \in Frame /\ Top(t).op = "dlclose" /\ Top(t).pc = "find"
      BY <2>8, TopOK DEF DecRefCount, At
    <3>1. /\ f \in Frame /\ f.op = Top(t).op
          /\ FrameOK(f, Loaded', mapped', never', refs')
      BY <3>0 DEF Frame, PCs, FrameOK, IsMap
    <3> HIDE DEF f
    <3>2. /\ Pop(t) \/ SetTop(t, f)
          /\ Loaded' = Loaded /\ UNCHANGED <<mapped, never>>
          /\ \A j \in Images : refs[j] = 0 => refs'[j] = 0
          /\ \A j \in Images : refs'[j] \in Nat /\ refs[j] \in Nat
      <4>1. (Pop(t) \/ SetTop(t, f)) /\ Loaded' = Loaded /\ UNCHANGED <<mapped, never>>
        BY <2>8 DEF DecRefCount, Goto, f, imageVars, Loaded
      <4>2. /\ \A j \in Images : refs[j] = 0 => refs'[j] = 0
            /\ \A j \in Images : refs'[j] \in Nat /\ refs[j] \in Nat
        BY <2>8 DEF DecRefCount, IInv, TypeOK, Loaded
      <4> QED BY <4>1, <4>2
    <3>3. \A u \in Threads : \A n \in DOMAIN stack[u] :
              FrameOK(stack[u][n], Loaded', mapped', never', refs')
      BY <3>2 DEF IInv, Data, Frames, FrameOK, NewOK, DeadOK, Loaded
    <3>4. ClosesInGc' /\ Frames'
      BY <3>0, <3>1, <3>2, <3>3, DataPop, DataSetTop
    <3>5. Core'
      <4>1. \A j \in Images : refs'[j] > 0 => refs[j] > 0
        BY <3>2
      <4> QED BY <3>2, <4>1 DEF IInv, Data, Core
    <3> QED BY <3>4, <3>5 DEF Data
  <2>9. CASE Mark(t)
    <3> DEFINE roots == {i \in Unloadables : refs[i] > 0}
               dead == Unloadables \ InUse
               f == [Top(t) EXCEPT !.pc = IF dead = {} THEN "recheck" ELSE "terminate",
                                   !.set = dead,
                                   !.todo = {"terminator"} \X dead]
    <3>0. stack[t] # <<>> /\ Top(t) \in Frame /\ Top(t).op = "dlclose"
      BY <2>9, TopOK DEF Mark, At
    <3>1. f \in Frame /\ f.op = Top(t).op /\ f.set = dead /\ f.pc \in {"recheck", "terminate"}
      BY <3>0 DEF Frame, PCs, Callees, Unloadables, Loaded
    <3>2. /\ roots \subseteq InUse
          /\ \A x \in InUse : Deps[x] \cap Unloadables \subseteq InUse
      <4>1. roots \in SUBSET Images
        BY DEF Unloadables, Loaded
      <4>2. /\ roots \subseteq Reach(roots, Unloadables)
            /\ \A x \in Reach(roots, Unloadables) \cap Unloadables :
                   Deps[x] \subseteq Reach(roots, Unloadables)
        BY <4>1, ReachCloses
      <4> QED BY <4>2 DEF InUse
    <3>3. \A x \in Loaded \cap never : Deps[x] \subseteq never
      BY FixedCloses DEF IInv, Data, Core
    <3>4. DeadOK(f, Loaded, never, refs)
      <4>1. \A x \in dead : refs[x] = 0
        <5>1. \A x \in dead : x \in Images /\ refs[x] \in Nat /\ ~(refs[x] > 0)
          BY <3>2 DEF IInv, TypeOK, Unloadables, Loaded
        <5> QED BY <5>1
      <4>2. \A x \in Loaded \ dead : Deps[x] \cap dead = {}
        BY <3>2, <3>3 DEF Unloadables
      <4> QED BY <3>1, <4>1, <4>2 DEF DeadOK, Unloadables
    <3>5. FrameOK(f, Loaded, mapped, never, refs)
      BY <3>0, <3>1, <3>4 DEF FrameOK, IsMap
    <3> HIDE DEF f
    <3>6. SetTop(t, f) /\ SameImages
      BY <2>9 DEF Mark, f, SameImages, Loaded, imageVars, countVars
    <3> QED BY <3>0, <3>1, <3>5, <3>6, DataGoOn
  <2>10. CASE RunRemoveCallbacks(t)
    <3> DEFINE f == [Top(t) EXCEPT !.pc = "removing", !.todo = removeFuncs \X Top(t).set]
    <3>0. /\ stack[t] # <<>> /\ Top(t) \in Frame /\ FrameShape(Top(t))
          /\ FrameOK(Top(t), Loaded, mapped, never, refs)
      BY <2>10, TopOK DEF RunRemoveCallbacks, At
    <3>1. f \in Frame /\ f.op = Top(t).op
      <4>1. removeFuncs \X Top(t).set \in SUBSET (Callees \X Images)
        BY <3>0 DEF Frame, Callees, IInv, TypeOK
      <4> QED BY <3>0, <4>1 DEF Frame, PCs
    <3>2. FrameOK(f, Loaded, mapped, never, refs)
      BY <2>10, <3>0 DEF RunRemoveCallbacks, At, FrameOK, IsMap, DeadOK, NewOK, FrameShape, GcPCs, UserPCs, Frame
    <3> HIDE DEF f
    <3>3. SetTop(t, f) /\ SameImages
      BY <2>10 DEF RunRemoveCallbacks, Goto, f, SameImages, Loaded, imageVars, countVars
    <3> QED BY <3>0, <3>1, <3>2, <3>3, DataGoOn
  <2>11. CASE RemoveCallbacksDone(t)
    <3> DEFINE f == [Top(t) EXCEPT !.pc = "erase"]
    <3>0. /\ stack[t] # <<>> /\ Top(t) \in Frame /\ FrameShape(Top(t))
          /\ FrameOK(Top(t), Loaded, mapped, never, refs)
      BY <2>11, TopOK DEF RemoveCallbacksDone, At
    <3>1. f \in Frame /\ f.op = Top(t).op
      BY <2>11, <3>0 DEF RemoveCallbacksDone, At, Frame, PCs, UserPCs
    <3>2. FrameOK(f, Loaded, mapped, never, refs)
      BY <2>11, <3>0 DEF RemoveCallbacksDone, At, FrameOK, IsMap, DeadOK, NewOK, FrameShape, GcPCs, UserPCs, Frame
    <3> HIDE DEF f
    <3>3. SetTop(t, f) /\ SameImages
      BY <2>11 DEF RemoveCallbacksDone, Goto, f, SameImages, Loaded, imageVars, countVars
    <3> QED BY <3>0, <3>1, <3>2, <3>3, DataGoOn
  <2>12. CASE Erase(t)
    <3> DEFINE dead == Top(t).set
               f == [Top(t) EXCEPT !.pc = "unmap"]
    <3>0. /\ stack[t] # <<>> /\ Top(t).op = "dlclose" /\ Top(t) \in Frame /\ IsGc(Top(t))
          /\ DeadOK(Top(t), Loaded, never, refs)
      BY <2>12, TopOK DEF Erase, At, FrameOK, IsGc, GcPCs
    <3>1. f \in Frame /\ f.op = Top(t).op /\ f.pc = "unmap" /\ f.set = dead
      BY <3>0 DEF Frame, PCs
    <3> HIDE DEF f
    <3>2. SetTop(t, f) /\ Loaded' = Loaded \ dead /\ UNCHANGED <<mapped, never, refs>>
      <4>1. SetTop(t, f) /\ UNCHANGED <<mapped, never, refs>>
        BY <2>12 DEF Erase, Goto, f, countVars
      <4>2. Loaded' = Loaded \ dead
        BY <2>12, <3>0 DEF Erase, Loaded
      <4> QED BY <4>1, <4>2
    <3>3. FrameOK(f, Loaded', mapped', never', refs')
      BY <3>0, <3>1, <3>2 DEF FrameOK, IsMap
    <3>4. \A u \in Threads : \A n \in DOMAIN stack[u] :
              (u # t \/ n # Len(stack[t])) =>
                  FrameOK(stack[u][n], Loaded', mapped', never', refs')
      BY <3>0, OthersPlain, PlainFrame
    <3>5. ClosesInGc' /\ Frames'
      BY <3>0, <3>1, <3>2, <3>3, <3>4, DataSetTop
    <3>6. Core'
      <4>1. \A i \in dead : ~(refs[i] > 0)
        BY <3>0 DEF DeadOK
      <4>2. Initial \cap dead = {}
        BY <3>0 DEF DeadOK, IInv, Data, Core, Fixed
      <4> QED BY <3>0, <3>2, <4>1, <4>2 DEF IInv, Data, Core, DeadOK
    <3> QED BY <3>5, <3>6 DEF Data
  <2>13. CASE Unmap(t)
    <3> DEFINE dead == Top(t).set
               f == [Top(t) EXCEPT !.pc = "recheck"]
    <3>0. /\ stack[t] # <<>> /\ Top(t).op = "dlclose" /\ Top(t) \in Frame /\ IsGc(Top(t))
          /\ dead \cap Loaded = {}
      BY <2>13, TopOK DEF Unmap, At, FrameOK, IsGc, GcPCs
    <3>1. f \in Frame /\ f.op = Top(t).op /\ f.op = "dlclose" /\ f.pc = "recheck"
      BY <3>0 DEF Frame, PCs
    <3> HIDE DEF f
    <3>2. /\ SetTop(t, f) /\ Loaded' = Loaded /\ mapped' = mapped \ dead
          /\ UNCHANGED <<never, refs>>
      BY <2>13 DEF Unmap, Goto, f, countVars, Loaded
    <3>3. FrameOK(f, Loaded', mapped', never', refs')
      BY <3>1 DEF FrameOK, IsMap
    <3>4. \A u \in Threads : \A n \in DOMAIN stack[u] :
              (u # t \/ n # Len(stack[t])) =>
                  FrameOK(stack[u][n], Loaded', mapped', never', refs')
      BY <3>0, OthersPlain, PlainFrame
    <3>5. ClosesInGc' /\ Frames'
      BY <3>0, <3>1, <3>2, <3>3, <3>4, DataSetTop
    <3>6. Core'
      BY <3>0, <3>2 DEF IInv, Data, Core
    <3> QED BY <3>5, <3>6 DEF Data
  <2>14. CASE Recheck(t)
    <3> DEFINE f == NewFrame("dlclose", "mark", Top(t).arg, {})
    <3>0. /\ stack[t] # <<>> /\ Top(t) \in Frame /\ Top(t).op = "dlclose"
          /\ FrameOK(Top(t), Loaded, mapped, never, refs)
      BY <2>14, TopOK DEF Recheck, At
    <3>1. f \in Frame /\ f.op = "dlclose" /\ FrameOK(f, Loaded, mapped, never, refs)
      BY <3>0 DEF NewFrame, Frame, PCs, APIs, FrameOK, IsMap
    <3> HIDE DEF f
    <3>2. SameImages /\ (Pop(t) \/ SetTop(t, f))
      BY <2>14 DEF Recheck, f, SameImages, Loaded, imageVars, countVars
    <3> QED BY <3>0, <3>1, <3>2, DataLeave, DataGoOn
  <2>15. CASE AddLoadNotifierTold(t)
    <3> DEFINE f == [Top(t) EXCEPT !.pc = "append"]
    <3>0. /\ stack[t] # <<>> /\ Top(t) \in Frame /\ FrameShape(Top(t))
          /\ FrameOK(Top(t), Loaded, mapped, never, refs)
      BY <2>15, TopOK DEF AddLoadNotifierTold, At
    <3>1. f \in Frame /\ f.op = Top(t).op
      BY <2>15, <3>0 DEF AddLoadNotifierTold, At, Frame, PCs, UserPCs
    <3>2. FrameOK(f, Loaded, mapped, never, refs)
      BY <2>15, <3>0 DEF AddLoadNotifierTold, At, FrameOK, IsMap, DeadOK, NewOK, FrameShape, GcPCs, UserPCs, Frame
    <3> HIDE DEF f
    <3>3. SetTop(t, f) /\ SameImages
      BY <2>15 DEF AddLoadNotifierTold, Goto, f, SameImages, Loaded, imageVars, countVars
    <3> QED BY <3>0, <3>1, <3>2, <3>3, DataGoOn
  <2>16. CASE AppendLoadNotifier(t)
    <3>1. stack[t] # <<>> /\ Pop(t) /\ SameImages
      BY <2>16 DEF AppendLoadNotifier, At, SameImages, Loaded, imageVars, countVars
    <3> QED BY <3>1, DataLeave
  <2>17. ASSUME NEW i \in Images, CallTerminator(t, i) PROVE Data'
    <3> DEFINE f == [Top(t) EXCEPT !.pc = "inTerm", !.todo = @ \ {<<"terminator", i>>}]
    <3>0. /\ stack[t] # <<>> /\ Top(t) \in Frame /\ FrameShape(Top(t))
          /\ FrameOK(Top(t), Loaded, mapped, never, refs)
      BY <2>17, TopOK DEF CallTerminator, At
    <3>1. f \in Frame /\ f.op = Top(t).op
      BY <2>17, <3>0 DEF CallTerminator, At, Frame, PCs, UserPCs
    <3>2. FrameOK(f, Loaded, mapped, never, refs)
      BY <2>17, <3>0 DEF CallTerminator, At, FrameOK, IsMap, DeadOK, NewOK, FrameShape, GcPCs, UserPCs, Frame
    <3> HIDE DEF f
    <3>3. SetTop(t, f) /\ SameImages
      BY <2>17 DEF CallTerminator, Goto, f, SameImages, Loaded, imageVars, countVars
    <3> QED BY <3>0, <3>1, <3>2, <3>3, DataGoOn
  <2>18. ASSUME NEW g \in Funcs, NEW i \in Images, CallAddNotifier(t, g, i) PROVE Data'
    <3> DEFINE f == [Top(t) EXCEPT !.pc = "inAdd", !.todo = @ \ {<<g, i>>}]
    <3>0. /\ stack[t] # <<>> /\ Top(t) \in Frame /\ FrameShape(Top(t))
          /\ FrameOK(Top(t), Loaded, mapped, never, refs)
      BY <2>18, TopOK DEF CallAddNotifier, At
    <3>1. f \in Frame /\ f.op = Top(t).op
      BY <2>18, <3>0 DEF CallAddNotifier, At, Frame, PCs, UserPCs
    <3>2. FrameOK(f, Loaded, mapped, never, refs)
      BY <2>18, <3>0 DEF CallAddNotifier, At, FrameOK, IsMap, DeadOK, NewOK, FrameShape, GcPCs, UserPCs, Frame
    <3> HIDE DEF f
    <3>3. SetTop(t, f) /\ SameImages
      BY <2>18 DEF CallAddNotifier, Goto, f, SameImages, Loaded, imageVars, countVars
    <3> QED BY <3>0, <3>1, <3>2, <3>3, DataGoOn
  <2>19. ASSUME NEW g \in Funcs, NEW i \in Images, CallRemoveNotifier(t, g, i) PROVE Data'
    <3> DEFINE f == [Top(t) EXCEPT !.pc = "inRemove", !.todo = @ \ {<<g, i>>}]
    <3>0. /\ stack[t] # <<>> /\ Top(t) \in Frame /\ FrameShape(Top(t))
          /\ FrameOK(Top(t), Loaded, mapped, never, refs)
      BY <2>19, TopOK DEF CallRemoveNotifier, At
    <3>1. f \in Frame /\ f.op = Top(t).op
      BY <2>19, <3>0 DEF CallRemoveNotifier, At, Frame, PCs, UserPCs
    <3>2. FrameOK(f, Loaded, mapped, never, refs)
      BY <2>19, <3>0 DEF CallRemoveNotifier, At, FrameOK, IsMap, DeadOK, NewOK, FrameShape, GcPCs, UserPCs, Frame
    <3> HIDE DEF f
    <3>3. SetTop(t, f) /\ SameImages
      BY <2>19 DEF CallRemoveNotifier, Goto, f, SameImages, Loaded, imageVars, countVars
    <3> QED BY <3>0, <3>1, <3>2, <3>3, DataGoOn
  <2> QED BY <1>4, <2>1, <2>2, <2>3, <2>4, <2>5, <2>6, <2>7, <2>8, <2>9, <2>10, <2>11, <2>12, <2>13, <2>14, <2>15, <2>16, <2>17, <2>18, <2>19 DEF DyldStep
<1> QED BY <1>1, <1>2, <1>3, <1>4 DEF Next


-----------------------------------------------------------------------------
(* The theorems. *)

\* With only the launch closure loaded the data part holds.
LEMMA DataInit ==
    ASSUME Init
    PROVE  Data
<1>1. \A t \in Threads : stack[t] = <<>> /\ DOMAIN stack[t] = {}
  BY DEF Init
<1>2. ClosesInGc /\ Frames
  BY <1>1 DEF ClosesInGc, Frames
<1>3. Loaded = Initial
  BY ImagesAssumption DEF Init, Loaded
<1>4. \A i \in Images : ~(refs[i] > 0)
  <2>1. refs = [i \in Images |-> 0]
    BY DEF Init
  <2> SUFFICES ASSUME NEW i \in Images PROVE ~(refs[i] > 0)
    OBVIOUS
  <2>2. refs[i] = 0
    BY <2>1
  <2>3. ~(0 > 0)
    OBVIOUS
  <2> QED BY <2>2, <2>3
<1>5. Core
  BY <1>3, <1>4, ImagesAssumption DEF Core, Init, Fixed
<1> QED BY <1>2, <1>5 DEF Data

\* The inductive invariant holds in every behaviour, under the two conditions
\* on user code and link graphs.
LEMMA IInvHolds ==
    ASSUME TerminatorsDoNotOpen, PinnedIsClosed
    PROVE  Spec => []IInv
<1>1. Init => IInv
  BY TypeInit, DataInit DEF IInv
<1>2. IInv /\ [Next]_vars => IInv'
  BY TypeStep, DataStep DEF IInv
<1> QED BY <1>1, <1>2, PTL DEF Spec

\* However threads, initializers, terminators and registered functions
\* interleave their dlopen() and dlclose() calls, and whatever the link graph,
\* the collection never removes or unmaps an image with a dlopen() reference or
\* anything such an image needs, provided that terminators and remove-image
\* functions do not dlopen() and that an image that cannot be unloaded links
\* only with such images.
THEOREM UsedImagesStay ==
    ASSUME TerminatorsDoNotOpen, PinnedIsClosed
    PROVE  Spec => []InUseStaysLoaded
<1>1. Spec => []IInv
  BY IInvHolds
<1>2. IInv => InUseStaysLoaded
  <2> SUFFICES ASSUME IInv, NEW i \in Images, refs[i] > 0
               PROVE  Closure(i) \subseteq Loaded \cap mapped
    BY DEF InUseStaysLoaded
  <2>1. i \in Loaded /\ Loaded \subseteq Images /\ Loaded \subseteq mapped
    BY DEF IInv, Data, Core, Loaded
  <2>2. \A x \in Loaded \cap Images : Deps[x] \subseteq Loaded
    BY DEF IInv, Data, Core
  <2>3. Closure(i) \subseteq Loaded
    BY <2>1, <2>2, ReachWithin DEF Closure
  <2> QED BY <2>1, <2>3
<1> QED BY <1>1, <1>2, PTL

\* Under the same conditions no image of _loadedImages ever links with an image
\* that the collection has removed.
THEOREM LinkedImagesStay ==
    ASSUME TerminatorsDoNotOpen, PinnedIsClosed
    PROVE  Spec => []LinkedStaysLoaded
<1>1. Spec => []IInv
  BY IInvHolds
<1>2. IInv => LinkedStaysLoaded
  BY DEF IInv, Data, Core, LinkedStaysLoaded
<1> QED BY <1>1, <1>2, PTL

\* _loadedImages only changes when dlopen() appends to it and when a collection
\* erases from it.
LEMMA LoadedChanges ==
    ASSUME TypeOK, [Next]_vars,
           \A t \in Threads : ~AddImages(t) /\ ~Erase(t)
    PROVE  Loaded' = Loaded
<1>1. CASE st' = st
  BY <1>1 DEF Loaded
<1>2. ASSUME NEW t \in Threads, StartInit(t) \/ InitReturns(t)
      PROVE  Loaded' = Loaded
  BY <1>2 DEF StartInit, InitReturns, Loaded, TypeOK
<1>3. CASE \E t \in Threads : UserCall(t) \/ UserReturns(t) \/ DyldStep(t)
  <2> SUFFICES ASSUME NEW t \in Threads, UserCall(t) \/ UserReturns(t) \/ DyldStep(t)
               PROVE  Loaded' = Loaded
    BY <1>3
  <2>1. CASE UserCall(t)
    BY <1>1, <2>1 DEF UserCall, DlopenCached, Dlclose, DlopenLoaded, DlopenNew,
       AddLoadNotifier, AddUnloadNotifier, imageVars
  <2>2. CASE UserReturns(t)
    BY <1>1, <1>2, <2>2 DEF UserReturns, AddNotifierReturns, TerminatorReturns,
       RemoveNotifierReturns, imageVars
  <2>3. CASE DyldStep(t)
    BY <1>1, <1>2, <2>3 DEF DyldStep, LoadFails, RunImageCallbacks, ImageCallbacksDone,
       SkipInit, DlopenReturns, DecRefCount, Mark, RunRemoveCallbacks,
       RemoveCallbacksDone, Unmap, Recheck, AddLoadNotifierTold, AppendLoadNotifier,
       CallTerminator, CallAddNotifier, CallRemoveNotifier, imageVars
  <2> QED BY <2>1, <2>2, <2>3
<1> QED BY <1>1, <1>3 DEF Next, vars, imageVars

\* The Reaper's pointers into _loadedImages stay valid while terminators run:
\* under the same conditions nothing is added to the array or erased from it
\* until the last terminator has returned.
THEOREM ReaperPointersStay ==
    ASSUME TerminatorsDoNotOpen, PinnedIsClosed
    PROVE  Spec => ReaperPointersValid
<1> DEFINE P == (\E t \in Threads : \E n \in DOMAIN stack[t] :
               stack[t][n].op = "dlclose" /\ stack[t][n].pc \in {"terminate", "inTerm"})
           => Loaded' = Loaded
<1>1. IInv /\ [Next]_vars => [P]_vars
  <2> SUFFICES ASSUME IInv, [Next]_vars, NEW u \in Threads, NEW n \in DOMAIN stack[u],
                      stack[u][n].op = "dlclose",
                      stack[u][n].pc \in {"terminate", "inTerm"}
               PROVE  Loaded' = Loaded
    OBVIOUS
  <2>1. IsGc(stack[u][n]) /\ stack[u][n].op # "dlopen" /\ stack[u][n].pc # "erase"
    BY DEF IsGc, GcPCs
  <2>2. ASSUME NEW t \in Threads, AddImages(t) \/ Erase(t)
        PROVE  FALSE
    <3>1. /\ Top(t).op = "dlopen" \/ IsGc(Top(t))
          /\ Top(t).op = "dlopen" \/ Top(t).pc = "erase"
          /\ Top(t) = stack[t][Len(stack[t])]
      BY <2>2 DEF AddImages, Erase, At, IsGc, GcPCs, Top
    <3>2. stack[t] # <<>>
      BY <2>2 DEF AddImages, Erase, At
    <3>3. u = t /\ n = Len(stack[t])
      BY <2>1, <3>1, <3>2, OthersPlain
    <3> QED BY <2>1, <3>1, <3>3
  <2> QED BY <2>2, LoadedChanges DEF IInv
<1>2. Spec => []IInv
  BY IInvHolds
<1> QED BY <1>1, <1>2, PTL DEF Spec, ReaperPointersValid

=============================================================================
