---------------------------- MODULE Dyld2_proofs ----------------------------
(****************************************************************************)
(* dlopen() and dlclose() of the dyld2 loader, for every set of threads and *)
(* images, every graph of libraries, cycles and upward links included, and  *)
(* every number of calls: reference counts are exact, initializers run      *)
(* once, terminators once before an image is deleted, what is in use stays  *)
(* loaded, and nothing else does.                                           *)
(*                                                                          *)
(* Terminators are taken not to dlopen(): what one opens that the           *)
(* collection has found dead is deleted all the same, and what the results  *)
(* exclude then happens (see InUseStaysLoaded).  They may dlclose().        *)
(****************************************************************************)
EXTENDS Dyld2, Selection_proofs

-----------------------------------------------------------------------------
(* The invariant *)

Op(t, n)  == stack[t][n].op
Img(t, n) == stack[t][n].img

OpenOps == {"load", "depths", "process", "failed", "undo"} \* a reference is held
LockOps == {"load", "depths", "failed", "undo", "close"}   \* the global lock is held
Linking == {"load", "depths", "failed"}
Pending == {"load", "depths", "failed", "undo"}            \* dlopen() before its image is bound
Locked  == LockOps \cup {"gc", "term"}
Busy    == {"deps", "compare", "push", "ready", "running"} \* the image is locked
Visits  == Busy \cup {"enter", "init"}                     \* in processInitializers()
Ops     == Locked \cup Visits \cup {"process"}

Names == Images \cup {l.img : l \in UNION {Range(Libs[i]) : i \in Images}}
Tasks == {"clear", "enter", "upward", "leave"} \X Names
Todo  == Names \cup Tasks \cup UNION {Range(Libs[i]) : i \in Images}
Frames == [op : Ops, img : Images \cup {None}, todo : Seq(Todo), ups : Seq(Images), val : Nat]

\* What an entry of a stack can hold.
FrameOK(f) ==
    /\ f \in Frames
    /\ f.op # "gc" => f.img \in Images
    /\ f.op = "load" => \A k \in 1..Len(f.todo) : f.todo[k] \in Images => f.todo[k] \in Tree(f.img)
    /\ f.op = "load" => \A k \in 1..Len(f.todo) : f.todo[k] \in Names
    /\ f.op = "depths" => \A k \in 1..Len(f.todo) : f.todo[k] \in Tasks
    /\ f.op = "process" => /\ \A k \in 1..Len(f.todo) : f.todo[k] \in Tree(f.img)
                           /\ \A k \in 1..Len(f.ups) : f.ups[k] \in Tree(f.img)
    /\ f.op \in {"deps", "compare"} => \A k \in 1..Len(f.todo) : f.todo[k] \in Range(Libs[f.img])
    /\ f.op = "compare" => f.todo # <<>> /\ Head(f.todo).img \in Images
    /\ f.op = "gc" => \A k \in 1..Len(f.todo) : f.todo[k] \in Images

DataTypes ==
    /\ all \in Seq(Images) /\ state \in [Images -> 0..6]
    /\ count \in [Images -> Nat] /\ depth \in [Images -> 0..(DepthLimit - 1)]
    /\ marked \in [Images -> BOOLEAN] /\ refs \subseteq DynRefs
    /\ cells \in Seq(Images) /\ end \in 0..Len(cells)
    /\ handles \in [Images -> Nat] /\ opens \in 0..MaxOpens
    /\ inits \in [Images -> Nat]
StackTypes ==
    /\ DOMAIN stack = Threads
    /\ \A t \in Threads : /\ stack[t] \in Seq(Frames)
                          /\ \A n \in 1..Len(stack[t]) :
                                /\ FrameOK(stack[t][n])
                                /\ Op(t, n) = "push" => stack[t][n].val <= Len(cells)
Types == DataTypes /\ StackTypes
Flags == doingGC \in BOOLEAN /\ redo \in BOOLEAN

\* How the entries of a stack lie on each other.  Nothing is opened or initialized
\* on top of what holds the global lock, so a dlopen() that is not bound is alone.
ShapeAt(t, n) ==
    /\ Op(t, n) = "init" => n > 1 /\ Op(t, n - 1) = "running" /\ Img(t, n - 1) = Img(t, n)
    /\ Op(t, n) = "gc" => n > 1 /\ Op(t, n - 1) \in LockOps
    /\ Op(t, n) \in Linking => n = Len(stack[t])
    /\ \A m \in 1..(n - 1) : Op(t, m) \in Locked => Op(t, n) \in Locked \ Pending
    /\ Op(t, n) \in Visits =>
          \E p \in 1..(n - 1) : /\ Op(t, p) = "process" /\ Img(t, n) \in Tree(Img(t, p))
                                /\ \A m \in (p + 1)..n : Op(t, m) # "process"
Shape == \A t \in Threads : \A n \in 1..Len(stack[t]) : ShapeAt(t, n)

LockPlaces(t) == {n \in 1..Len(stack[t]) : Op(t, n) \in LockOps}

\* The global lock is held as often as the stack of its owner says.
Locks ==
    /\ glock \in [owner : Threads \cup {None}, held : Nat]
    /\ glock.owner = None => glock.held = 0
    /\ \A t \in Threads : IF glock.owner = t
                          THEN LockPlaces(t) # {} /\ glock.held = Cardinality(LockPlaces(t))
                          ELSE LockPlaces(t) = {}

\* There is one collection, when sDoingGC says so.
OneGC ==
    /\ \A t, u \in Threads : \A n \in 1..Len(stack[t]), m \in 1..Len(stack[u]) :
          Op(t, n) = "gc" /\ Op(u, m) = "gc" => t = u /\ n = m
    /\ \A t \in Threads : \A n \in 1..Len(stack[t]) : Op(t, n) = "gc" => doingGC
    /\ doingGC => \E t \in Threads : \E n \in 1..Len(stack[t]) : Op(t, n) = "gc"

Core == {i \in Images : state[i] >= Bound}
Kept == {i \in Images : doingGC => marked[i]}

\* What is bound, and what refers to it.
States ==
    /\ IsInjective(all)
    /\ \A i \in Images : (state[i] = Absent) <=> (i \notin Loaded)
    /\ NeverUnload \subseteq Core
    /\ \A r \in refs : r[1] \in Core /\ r[2] \in Core
    /\ \A i \in Images : handles[i] > 0 => i \in Core
    /\ \A i \in Images : inits[i] <= 1 /\ (state[i] < DependentsInited => inits[i] = 0)

\* A dlopen() that loads: what has its libraries, and what is still to get them.
LoadAt(t, n) ==
    /\ Op(t, n) = "load" =>
          /\ \A i \in Loaded : state[i] = Mapped => \E k \in 1..Len(stack[t][n].todo) : stack[t][n].todo[k] = i
          /\ \A k \in 1..Len(stack[t][n].todo) : stack[t][n].todo[k] \in Images => stack[t][n].todo[k] \in Loaded
    /\ Op(t, n) = "depths" => \A i \in Loaded : state[i] # Mapped
    /\ Op(t, n) \in {"load", "depths"} =>
          \A i \in Loaded : state[i] = DependentsMapped => LibImages[i] \subseteq Loaded
Loading == \A t \in Threads : \A n \in 1..Len(stack[t]) : LoadAt(t, n)

\* What is bound and not about to be deleted has its libraries.  What is loaded and
\* not bound belongs to the dlopen() under way, or to a collection.
Linked ==
    /\ \A i \in Core \cap Kept : LibImages[i] \subseteq Core \cap Kept
    /\ \A i \in Loaded \ Core :
          \/ doingGC
          \/ \E t \in Threads : \E n \in 1..Len(stack[t]) : Op(t, n) \in Pending /\ i \in Tree(Img(t, n))
    /\ \A t \in Threads : \A n \in 1..Len(stack[t]) :
          /\ Op(t, n) = "process" => Img(t, n) \in Core \cap Kept
          /\ Op(t, n) \in Pending => Img(t, n) \in Loaded
    /\ Loading

\* What a collection has marked, and what is there when there is none.
Marks ==
    /\ doingGC => /\ \A i \in Kept : LibImages[i] \subseteq Kept
                  /\ \A r \in refs : r[1] \in Kept => r[2] \in Kept
                  /\ NeverUnload \subseteq Kept
                  /\ \A i \in Images : count[i] # 0 => i \in Kept
                  /\ ~redo => Kept \subseteq InUse(count)
    /\ ~doingGC => Loaded \subseteq InUse(count)

Counts ==
    \A i \in Images : /\ IsFiniteSet(Calls(i)) /\ count[i] = handles[i] + Cardinality(Calls(i))
                      /\ count[i] <= opens

Free == [owner |-> None, held |-> 0]

\* Every image being initialized is so on one place of one stack, whose thread has
\* its lock.
Visiting ==
    /\ \A t \in Threads : \A n \in 1..Len(stack[t]) :
          Op(t, n) \in Busy =>
             /\ state[Img(t, n)] = IF Op(t, n) = "running" THEN DependentsInited ELSE Initializing
             /\ ilock[Img(t, n)] = [owner |-> t, held |-> 1]
    /\ \A t \in Threads : \A n, m \in 1..Len(stack[t]) :
          Op(t, n) \in Busy /\ Op(t, m) \in Busy /\ Img(t, n) = Img(t, m) => n = m
    /\ DOMAIN ilock = Images
    /\ \A i \in Images :
          \/ ilock[i] = Free
          \/ \E t \in Threads : \E n \in 1..Len(stack[t]) : Op(t, n) \in Busy /\ Img(t, n) = i

Inv == Types /\ Flags /\ Shape /\ Locks /\ OneGC /\ States /\ Linked /\ Marks /\ Counts /\ Visiting

-----------------------------------------------------------------------------
(* What is reached from a set of images *)

\* What an image links and can be found is an image.
LEMMA LibsAreImages == \A i \in Images : LibImages[i] \subseteq Images
  BY DEF LibImages

\* A closure holds its roots, and all its members link and refer to.
LEMMA ClosureFacts ==
    ASSUME NEW S \in SUBSET Images, NEW R \in SUBSET (Images \X Images)
    PROVE  /\ S \subseteq Closure(S, R) /\ Closure(S, R) \subseteq Images
           /\ \A i \in Closure(S, R) : LibImages[i] \subseteq Closure(S, R)
           /\ \A r \in R : r[1] \in Closure(S, R) => r[2] \in Closure(S, R)
  <1>1. S \subseteq Closure(S, R) /\ Closure(S, R) \subseteq Images
    BY DEF Closure
  <1>2. ASSUME NEW i \in Closure(S, R), NEW j \in LibImages[i]
        PROVE  j \in Closure(S, R)
    BY <1>2, LibsAreImages DEF Closure, LinkClosed
  <1>3. ASSUME NEW r \in R, r[1] \in Closure(S, R)
        PROVE  r[2] \in Closure(S, R)
    BY <1>3 DEF Closure
  <1> QED
    BY <1>1, <1>2, <1>3

\* A closure lies in every closed set that holds its roots.
LEMMA ClosureLeast ==
    ASSUME NEW S, NEW R, NEW T \in SUBSET Images, S \subseteq T,
           \A i \in T : LibImages[i] \subseteq T, \A r \in R : r[1] \in T => r[2] \in T
    PROVE  Closure(S, R) \subseteq T
  BY DEF Closure, LinkClosed

\* The tree of an image holds the image and all its members link.
LEMMA TreeFacts ==
    ASSUME NEW i \in Images
    PROVE  /\ i \in Tree(i) /\ Tree(i) \subseteq Images
           /\ \A j \in Tree(i) : LibImages[j] \subseteq Tree(i)
  BY ClosureFacts DEF Tree

\* The tree of an image lies in every closed set that holds it.
LEMMA TreeLeast ==
    ASSUME NEW i, NEW T \in SUBSET Images, i \in T, \A j \in T : LibImages[j] \subseteq T
    PROVE  Tree(i) \subseteq T
  BY ClosureLeast DEF Tree

\* What the main executable links is closed under links.
LEMMA NeverUnloaded ==
    /\ NeverUnload \in SUBSET Images /\ IsFiniteSet(NeverUnload)
    /\ \A i \in NeverUnload : LibImages[i] \subseteq NeverUnload
  BY Dyld2Assumption

\* Dynamic references are between images.
LEMMA DynamicReferences == DynRefs \in SUBSET (Images \X Images)
  BY Dyld2Assumption

\* What is bound is loaded.
LEMMA LoadedImages ==
    ASSUME Types, States
    PROVE  Loaded \subseteq Images /\ Core \subseteq Loaded
  <1>1. Loaded \subseteq Images
    BY DEF Types, DataTypes, Loaded, Range
  <1>2. ASSUME NEW i \in Core PROVE i \in Loaded
    <2>1. i \in Images /\ state[i] >= 3 /\ state[i] \in 0..6
      BY DEF Core, Types, DataTypes, Bound
    <2>2. state[i] # 0
      BY <2>1
    <2> QED
      BY <2>1, <2>2 DEF States, Absent
  <1> QED
    BY <1>1, <1>2

\* The roots of a collection.
Roots(c) == {i \in Images : c[i] # 0} \cup NeverUnload

\* The mark phase starts at what has references and what is never unloaded.
LEMMA UsedIsClosure ==
    ASSUME Types, States, NEW c, \A i \in Images : c[i] # 0 => i \in Loaded
    PROVE  /\ InUse(c) = Closure(Roots(c), refs)
           /\ Roots(c) \in SUBSET Images /\ refs \in SUBSET (Images \X Images)
  <1>1. Roots(c) \in SUBSET Images /\ refs \in SUBSET (Images \X Images)
    <2>1. Roots(c) \in SUBSET Images
      BY NeverUnloaded DEF Roots
    <2>2. refs \in SUBSET (Images \X Images)
      BY DynamicReferences DEF Types, DataTypes
    <2> QED
      BY <2>1, <2>2
  <1>2. NeverUnload \subseteq Loaded /\ Loaded \subseteq Images
    BY LoadedImages, NeverUnloaded DEF States
  <1>3. \A i \in NeverUnload : i \in Images /\ state[i] >= Bound
    BY DEF States, Core
  <1>4. {i \in Loaded : c[i] # 0 \/ (i \in NeverUnload /\ state[i] >= Bound)} = Roots(c)
    BY <1>2, <1>3 DEF Roots
  <1> QED
    BY <1>1, <1>4 DEF InUse

StatesInRange == \A i \in Images : state[i] \in 0..6

\* States are in their range.
LEMMA StateType == DataTypes => StatesInRange
  BY DEF DataTypes, StatesInRange

-----------------------------------------------------------------------------
(* Steps on a stack *)

\* Thread t goes on with what is on its stack up to k, and something above it.
Above(t, k) ==
    /\ DOMAIN stack' = Threads /\ \A u \in Threads : u # t => stack'[u] = stack[u]
    /\ stack'[t] \in Seq(Frames)
    /\ k \in Nat /\ k <= Len(stack[t]) /\ k <= Len(stack'[t])
    /\ \A n \in 1..k : stack'[t][n].op = stack[t][n].op /\ stack'[t][n].img = stack[t][n].img
Exact(t, k) == \A n \in 1..k : stack'[t][n] = stack[t][n]

\* The entries of every stack are well formed.
LEMMA StackType ==
    ASSUME Types
    PROVE  /\ DOMAIN stack = Threads
           /\ \A t \in Threads : stack[t] \in Seq(Frames) /\ Len(stack[t]) \in Nat
           /\ \A t \in Threads : \A n \in 1..Len(stack[t]) : FrameOK(stack[t][n]) /\ stack[t][n] \in Frames
  <1>1. DOMAIN stack = Threads /\ \A t \in Threads : stack[t] \in Seq(Frames)
    BY DEF Types, StackTypes
  <1>2. \A t \in Threads : \A n \in 1..Len(stack[t]) : FrameOK(stack[t][n])
    BY DEF Types, StackTypes
  <1>3. \A t \in Threads : \A n \in 1..Len(stack[t]) : stack[t][n] \in Frames
    BY <1>2 DEF FrameOK
  <1> QED
    BY <1>1, <1>2, <1>3

\* The top of a stack is its last entry, and is well formed.
LEMMA TopFrame ==
    ASSUME Types, NEW t \in Threads, stack[t] # <<>>
    PROVE  /\ Len(stack[t]) \in Nat /\ Len(stack[t]) > 0
           /\ Top(t) = stack[t][Len(stack[t])] /\ FrameOK(Top(t)) /\ Top(t) \in Frames
  <1>1. stack[t] \in Seq(Frames) /\ Len(stack[t]) \in Nat
    BY StackType
  <1>2. Len(stack[t]) > 0
    BY <1>1
  <1>3. Top(t) = stack[t][Len(stack[t])]
    BY DEF Top, Last
  <1> QED
    BY <1>1, <1>2, <1>3, StackType

\* A stack without its top.
LEMMA FrontFrames ==
    ASSUME NEW s \in Seq(Frames), s # <<>>
    PROVE  /\ Front(s) \in Seq(Frames) /\ Len(Front(s)) = Len(s) - 1
           /\ \A n \in 1..(Len(s) - 1) : Front(s)[n] = s[n]
  BY DEF Front

\* A stack with an entry more.
LEMMA AppendFrames ==
    ASSUME NEW s \in Seq(Frames), NEW f \in Frames
    PROVE  /\ Append(s, f) \in Seq(Frames) /\ Len(Append(s, f)) = Len(s) + 1
           /\ \A n \in 1..Len(s) : Append(s, f)[n] = s[n]
           /\ Append(s, f)[Len(s) + 1] = f
  BY AppendProperties

\* Replacing the top leaves the entries under it.
LEMMA Replaced ==
    ASSUME Types, NEW t \in Threads, stack[t] # <<>>, NEW f \in Frames, Replace(t, f)
    PROVE  /\ Above(t, Len(stack[t]) - 1) /\ Exact(t, Len(stack[t]) - 1)
           /\ Len(stack'[t]) = Len(stack[t]) /\ stack'[t][Len(stack[t])] = f
  <1>1. stack[t] \in Seq(Frames) /\ Len(stack[t]) \in Nat /\ Len(stack[t]) > 0 /\ DOMAIN stack = Threads
    BY TopFrame, StackType
  <1>2. stack' = [stack EXCEPT ![t] = Append(Front(stack[t]), f)]
    BY DEF Replace
  <1> DEFINE s == Append(Front(stack[t]), f)
  <1>3. /\ s \in Seq(Frames) /\ Len(s) = Len(stack[t]) /\ s[Len(stack[t])] = f
        /\ \A n \in 1..(Len(stack[t]) - 1) : s[n] = stack[t][n]
    BY <1>1, FrontFrames, AppendFrames
  <1> HIDE DEF s
  <1>4. DOMAIN stack' = Threads /\ stack'[t] = s /\ \A u \in Threads : u # t => stack'[u] = stack[u]
    BY <1>1, <1>2 DEF s
  <1> QED
    BY <1>1, <1>3, <1>4 DEF Above, Exact

\* A call leaves all entries, and puts one on top.
LEMMA Called ==
    ASSUME Types, NEW t \in Threads, NEW f \in Frames, Call(t, f)
    PROVE  /\ Above(t, Len(stack[t])) /\ Exact(t, Len(stack[t]))
           /\ Len(stack'[t]) = Len(stack[t]) + 1 /\ stack'[t][Len(stack[t]) + 1] = f
  <1>1. stack[t] \in Seq(Frames) /\ Len(stack[t]) \in Nat /\ DOMAIN stack = Threads
    BY StackType
  <1> DEFINE s == Append(stack[t], f)
  <1>2. stack' = [stack EXCEPT ![t] = s]
    BY DEF Call
  <1>3. /\ s \in Seq(Frames) /\ Len(s) = Len(stack[t]) + 1 /\ s[Len(stack[t]) + 1] = f
        /\ \A n \in 1..Len(stack[t]) : s[n] = stack[t][n]
    BY <1>1, AppendFrames
  <1> HIDE DEF s
  <1>4. DOMAIN stack' = Threads /\ stack'[t] = s /\ \A u \in Threads : u # t => stack'[u] = stack[u]
    BY <1>1, <1>2
  <1> QED
    BY <1>1, <1>3, <1>4 DEF Above, Exact

\* A return leaves the entries under the top.
LEMMA Returned ==
    ASSUME Types, NEW t \in Threads, stack[t] # <<>>, Return(t)
    PROVE  /\ Above(t, Len(stack[t]) - 1) /\ Exact(t, Len(stack[t]) - 1)
           /\ Len(stack'[t]) = Len(stack[t]) - 1
  <1>1. stack[t] \in Seq(Frames) /\ Len(stack[t]) \in Nat /\ Len(stack[t]) > 0 /\ DOMAIN stack = Threads
    BY TopFrame, StackType
  <1> DEFINE s == Front(stack[t])
  <1>2. stack' = [stack EXCEPT ![t] = s]
    BY DEF Return
  <1>3. /\ s \in Seq(Frames) /\ Len(s) = Len(stack[t]) - 1
        /\ \A n \in 1..(Len(stack[t]) - 1) : s[n] = stack[t][n]
    BY <1>1, FrontFrames
  <1> HIDE DEF s
  <1>4. DOMAIN stack' = Threads /\ stack'[t] = s /\ \A u \in Threads : u # t => stack'[u] = stack[u]
    BY <1>1, <1>2
  <1> QED
    BY <1>1, <1>3, <1>4 DEF Above, Exact

\* Replacing the top and calling from it.
LEMMA ReplacedAndCalled ==
    ASSUME Types, NEW t \in Threads, stack[t] # <<>>, NEW f \in Frames, NEW g \in Frames,
           ReplaceAndCall(t, f, g)
    PROVE  /\ Above(t, Len(stack[t]) - 1) /\ Exact(t, Len(stack[t]) - 1)
           /\ Len(stack'[t]) = Len(stack[t]) + 1
           /\ stack'[t][Len(stack[t])] = f /\ stack'[t][Len(stack[t]) + 1] = g
  <1>1. stack[t] \in Seq(Frames) /\ Len(stack[t]) \in Nat /\ Len(stack[t]) > 0 /\ DOMAIN stack = Threads
    BY TopFrame, StackType
  <1> DEFINE s == Front(stack[t]) \o <<f, g>>
  <1>2. stack' = [stack EXCEPT ![t] = s]
    BY DEF ReplaceAndCall
  <1>3. /\ Front(stack[t]) \in Seq(Frames) /\ Len(Front(stack[t])) = Len(stack[t]) - 1
        /\ \A n \in 1..(Len(stack[t]) - 1) : Front(stack[t])[n] = stack[t][n]
    BY <1>1, FrontFrames
  <1>4. <<f, g>> \in Seq(Frames) /\ Len(<<f, g>>) = 2 /\ <<f, g>>[1] = f /\ <<f, g>>[2] = g
    OBVIOUS
  <1>5. /\ s \in Seq(Frames) /\ Len(s) = Len(stack[t]) + 1
        /\ s[Len(stack[t])] = f /\ s[Len(stack[t]) + 1] = g
        /\ \A n \in 1..(Len(stack[t]) - 1) : s[n] = stack[t][n]
    BY <1>1, <1>3, <1>4, ConcatProperties
  <1> HIDE DEF s
  <1>6. DOMAIN stack' = Threads /\ stack'[t] = s /\ \A u \in Threads : u # t => stack'[u] = stack[u]
    BY <1>1, <1>2
  <1> QED
    BY <1>1, <1>5, <1>6 DEF Above, Exact

-----------------------------------------------------------------------------
(* What a step leaves as it is *)

\* If the entries above the k-th are well formed, all are.
LEMMA StackTypesKept ==
    ASSUME Types, NEW t \in Threads, NEW k, Above(t, k), Exact(t, k),
           Len(cells) \in Nat, Len(cells') \in Nat, Len(cells) <= Len(cells'),
           \A n \in (k + 1)..Len(stack'[t]) :
              FrameOK(stack'[t][n]) /\ (stack'[t][n].op = "push" => stack'[t][n].val <= Len(cells'))
    PROVE  StackTypes'
  <1>1. ASSUME NEW u \in Threads, NEW n \in 1..Len(stack'[u]), u # t \/ n <= k
        PROVE  stack'[u][n] = stack[u][n] /\ n \in 1..Len(stack[u])
    BY <1>1, StackType DEF Above, Exact
  <1>2. ASSUME NEW u \in Threads, NEW n \in 1..Len(stack'[u])
        PROVE  FrameOK(stack'[u][n]) /\ (stack'[u][n].op = "push" => stack'[u][n].val <= Len(cells'))
    <2>1. CASE u # t \/ n <= k
      <3>1. stack[u][n] \in Frames /\ FrameOK(stack[u][n])
        BY <1>1, <2>1, StackType
      <3>2. stack[u][n].val \in Nat
        BY <3>1 DEF Frames
      <3>3. stack[u][n].op = "push" => stack[u][n].val <= Len(cells)
        BY <1>1, <2>1 DEF Types, StackTypes, Op
      <3> QED
        BY <1>1, <2>1, <3>1, <3>2, <3>3
    <2>2. CASE u = t /\ ~(n <= k)
      <3>1. n \in (k + 1)..Len(stack'[t])
        BY <2>2 DEF Above
      <3> QED
        BY <2>2, <3>1
    <2> QED
      BY <2>1, <2>2
  <1>3. \A u \in Threads : stack'[u] \in Seq(Frames)
    BY StackType DEF Above
  <1> QED
    BY <1>2, <1>3 DEF StackTypes, Op, Above

\* If the entries above the k-th lie as they should, all do.
LEMMA ShapeKept ==
    ASSUME Types, Shape, NEW t \in Threads, NEW k, Above(t, k),
           k < Len(stack[t]) \/ k = Len(stack'[t]) \/ k = 0 \/ Op(t, k) \notin Linking,
           \A n \in (k + 1)..Len(stack'[t]) : ShapeAt(t, n)'
    PROVE  Shape'
  <1>1. ASSUME NEW u \in Threads, NEW n \in 1..Len(stack'[u])
        PROVE  ShapeAt(u, n)'
    <2>1. CASE u # t
      <3>1. stack'[u] = stack[u] /\ n \in 1..Len(stack[u])
        BY <2>1 DEF Above
      <3>2. ShapeAt(u, n)
        BY <3>1 DEF Shape
      <3> QED
        BY <3>1, <3>2 DEF ShapeAt, Op, Img
    <2>2. CASE u = t /\ n <= k
      <3>1. n \in 1..Len(stack[t]) /\ n \in Nat /\ k \in Nat /\ ShapeAt(t, n) /\ Len(stack[t]) \in Nat
        BY <2>2, StackType DEF Above, Shape
      <3>2. \A m \in 1..n : Op(t, m)' = Op(t, m) /\ Img(t, m)' = Img(t, m)
        BY <2>2, <3>1 DEF Above, Op, Img
      <3>3. Op(t, n) \in Linking => n = Len(stack'[t])
        BY <2>2, <3>1 DEF ShapeAt, Above
      <3>4. \A m \in 1..(n - 1) : m \in 1..n
        BY <3>1
      <3>5. n \in 1..n /\ (n > 1 => n - 1 \in 1..n)
        BY <3>1
      <3>6. \A p \in 1..(n - 1) : \A m \in (p + 1)..n : m \in 1..n
        BY <3>1
      <3>7. (Op(t, n)' \in Visits =>
          \E p \in 1..(n - 1) : /\ Op(t, p)' = "process" /\ Img(t, n)' \in Tree(Img(t, p)')
                                /\ \A m \in (p + 1)..n : Op(t, m)' # "process")
        BY <3>1, <3>2, <3>4, <3>5, <3>6 DEF ShapeAt
      <3> QED
        BY <2>2, <3>1, <3>2, <3>3, <3>4, <3>5, <3>7 DEF ShapeAt
    <2>3. CASE u = t /\ ~(n <= k)
      BY <2>3 DEF Above
    <2> QED
      BY <2>1, <2>2, <2>3
  <1> QED
    BY <1>1 DEF Shape

\* The places where something of X is done.
Has(u, n, X) == n \in 1..Len(stack[u]) /\ stack[u][n].op \in X
Unmoved(X) ==
    \A u \in Threads : \A n \in Nat :
       /\ Has(u, n, X)' <=> Has(u, n, X)
       /\ Has(u, n, X) => stack'[u][n].img = stack[u][n].img

\* Entries of a kind are where they were if those above the k-th are.
LEMMA UnmovedAbove ==
    ASSUME Types, NEW t \in Threads, NEW k, Above(t, k), NEW X,
           \A n \in Nat : n > k => /\ Has(t, n, X)' <=> Has(t, n, X)
                                   /\ Has(t, n, X) => stack'[t][n].img = stack[t][n].img
    PROVE  Unmoved(X)
  <1> SUFFICES ASSUME NEW u \in Threads, NEW n \in Nat
               PROVE  /\ Has(u, n, X)' <=> Has(u, n, X)
                      /\ Has(u, n, X) => stack'[u][n].img = stack[u][n].img
    BY DEF Unmoved
  <1>1. CASE u # t
    BY <1>1 DEF Above, Has
  <1>2. CASE u = t /\ n <= k
    BY <1>2, StackType DEF Above, Has
  <1>3. CASE u = t /\ n > k
    BY <1>3
  <1> QED
    BY <1>1, <1>2, <1>3 DEF Above

\* The lock is held as the stacks say if neither has changed.
LEMMA UnmovedLocks ==
    ASSUME Types, Locks, Unmoved(LockOps), glock' = glock
    PROVE  Locks'
  <1>1. ASSUME NEW u \in Threads PROVE LockPlaces(u)' = LockPlaces(u)
    BY DEF Unmoved, Has, LockPlaces, Op
  <1> QED
    BY <1>1 DEF Locks

\* There is one collection if there was, and none began or ended.
LEMMA UnmovedGC ==
    ASSUME Types, OneGC, Unmoved({"gc"}), doingGC' = doingGC
    PROVE  OneGC'
  <1>1. ASSUME NEW u \in Threads, NEW n
        PROVE  (n \in 1..Len(stack'[u]) /\ Op(u, n)' = "gc") <=> (n \in 1..Len(stack[u]) /\ Op(u, n) = "gc")
    BY DEF Unmoved, Has, Op
  <1>2. \A t, u \in Threads : \A n \in 1..Len(stack'[t]), m \in 1..Len(stack'[u]) :
           Op(t, n)' = "gc" /\ Op(u, m)' = "gc" => t = u /\ n = m
    BY <1>1 DEF OneGC
  <1>3. \A t \in Threads : \A n \in 1..Len(stack'[t]) : Op(t, n)' = "gc" => doingGC'
    BY <1>1 DEF OneGC
  <1>4. doingGC' => \E t \in Threads : \E n \in 1..Len(stack'[t]) : Op(t, n)' = "gc"
    BY <1>1 DEF OneGC
  <1> QED
    BY <1>2, <1>3, <1>4 DEF OneGC

CallsAreOpen ==
    \A i : /\ \A p \in Calls(i) : p \in Threads \X Nat
           /\ \A u \in Threads : \A n \in Nat :
                 <<u, n>> \in Calls(i) <=> Has(u, n, OpenOps) /\ stack[u][n].img = i

\* The calls of dlopen() under way are the entries that hold a reference.
LEMMA CallsMeans == StackTypes => CallsAreOpen
  <1> SUFFICES ASSUME StackTypes, NEW i
               PROVE  /\ \A p \in Calls(i) : p \in Threads \X Nat
                      /\ \A u \in Threads : \A n \in Nat :
                            <<u, n>> \in Calls(i) <=> Has(u, n, OpenOps) /\ stack[u][n].img = i
    BY DEF CallsAreOpen
  <1>1. \A u \in Threads : DOMAIN stack[u] = 1..Len(stack[u]) /\ Len(stack[u]) \in Nat
    BY DEF StackTypes
  <1>2. \A u \in Threads : Opening(u) = {n \in 1..Len(stack[u]) : stack[u][n].op \in OpenOps}
    BY <1>1 DEF Opening, OpenOps
  <1>3. \A p : p \in Calls(i) <=> \E u \in Threads : p \in {u} \X {n \in Opening(u) : stack[u][n].img = i}
    BY DEF Calls
  <1>4. ASSUME NEW p \in Calls(i) PROVE p \in Threads \X Nat
    BY <1>1, <1>2, <1>3
  <1>5. ASSUME NEW u \in Threads, NEW n \in Nat
        PROVE  <<u, n>> \in Calls(i) <=> Has(u, n, OpenOps) /\ stack[u][n].img = i
    <2>1. <<u, n>> \in Calls(i) <=> n \in {m \in Opening(u) : stack[u][m].img = i}
      BY <1>3
    <2> QED
      BY <1>2, <2>1 DEF Has
  <1> QED
    BY <1>4, <1>5

\* Calls under way stay under way, one is added, or one is taken away.
LEMMA UnmovedCalls ==
    ASSUME StackTypes, StackTypes', Unmoved(OpenOps), NEW i
    PROVE  Calls(i)' = Calls(i)
  <1>1. CallsAreOpen /\ CallsAreOpen'
    BY CallsMeans, PTL
  <1>2. ASSUME NEW u \in Threads, NEW n \in Nat
        PROVE  <<u, n>> \in Calls(i)' <=> <<u, n>> \in Calls(i)
    <2>1. <<u, n>> \in Calls(i) <=> Has(u, n, OpenOps) /\ stack[u][n].img = i
      BY <1>1 DEF CallsAreOpen
    <2>2. <<u, n>> \in Calls(i)' <=> Has(u, n, OpenOps)' /\ stack'[u][n].img = i
      BY <1>1 DEF CallsAreOpen
    <2>3. /\ Has(u, n, OpenOps)' <=> Has(u, n, OpenOps)
          /\ Has(u, n, OpenOps) => stack'[u][n].img = stack[u][n].img
      BY DEF Unmoved
    <2> QED
      BY <2>1, <2>2, <2>3
  <1>3. (\A p \in Calls(i) : p \in Threads \X Nat) /\ (\A p \in Calls(i)' : p \in Threads \X Nat)
    BY <1>1 DEF CallsAreOpen
  <1> QED
    BY <1>2, <1>3

-----------------------------------------------------------------------------
(* What the invariant says *)

\* What has a handle or a dlopen() under way has references, and is loaded.
LEMMA CountMeans ==
    ASSUME Inv
    PROVE  /\ \A i \in Images : handles[i] > 0 => count[i] # 0
           /\ \A t \in Threads : \A n \in 1..Len(stack[t]) :
                 Op(t, n) \in OpenOps => Img(t, n) \in Images /\ count[Img(t, n)] # 0
           /\ \A i \in Images : count[i] # 0 => i \in Loaded
  <1>1. CallsAreOpen /\ Types
    BY CallsMeans DEF Inv, Types
  <1>2. \A i \in Images : /\ IsFiniteSet(Calls(i)) /\ Cardinality(Calls(i)) \in Nat /\ handles[i] \in Nat
                          /\ count[i] = handles[i] + Cardinality(Calls(i))
    <2>1. \A i \in Images : IsFiniteSet(Calls(i)) /\ count[i] = handles[i] + Cardinality(Calls(i))
      BY DEF Inv, Counts
    <2>2. \A i \in Images : handles[i] \in Nat
      BY <1>1 DEF Types, DataTypes
    <2> QED
      BY <2>1, <2>2, FS_CardinalityType
  <1>3. \A i \in Images : handles[i] > 0 => count[i] # 0
    BY <1>2
  <1>4. ASSUME NEW t \in Threads, NEW n \in 1..Len(stack[t]), Op(t, n) \in OpenOps
        PROVE  Img(t, n) \in Images /\ count[Img(t, n)] # 0
    <2>1. FrameOK(stack[t][n]) /\ n \in Nat
      BY <1>1, StackType
    <2>2. Img(t, n) \in Images
      BY <1>4, <2>1 DEF FrameOK, Op, Img, OpenOps
    <2>3. Has(t, n, OpenOps)
      BY <1>4 DEF Has, Op
    <2>4. <<t, n>> \in Calls(Img(t, n))
      BY <1>1, <2>1, <2>3 DEF CallsAreOpen, Img
    <2>5. Cardinality(Calls(Img(t, n))) # 0
      BY <1>2, <2>2, <2>4, FS_EmptySet
    <2> QED
      BY <1>2, <2>2, <2>5
  <1>5. ASSUME NEW i \in Images, count[i] # 0
        PROVE  i \in Loaded
    <2>1. CASE handles[i] > 0
      BY <1>1, <2>1, LoadedImages DEF Inv, States
    <2>2. CASE handles[i] = 0
      <3>1. Calls(i) # {}
        BY <1>2, <1>5, <2>2, FS_EmptySet
      <3>2. PICK p \in Calls(i) : p \in Threads \X Nat
        BY <1>1, <3>1 DEF CallsAreOpen
      <3>3. PICK u \in Threads, n \in Nat : p = <<u, n>>
        BY <3>2
      <3>4. Has(u, n, OpenOps) /\ stack[u][n].img = i
        BY <1>1, <3>2, <3>3 DEF CallsAreOpen
      <3>5. n \in 1..Len(stack[u]) /\ (Op(u, n) = "process" \/ Op(u, n) \in Pending) /\ Img(u, n) = i
        BY <3>4 DEF Has, OpenOps, Op, Pending, Img
      <3>6. i \in Core \/ i \in Loaded
        BY <3>5 DEF Inv, Linked
      <3> QED
        BY <1>1, <3>6, LoadedImages DEF Inv
    <2> QED
      BY <1>2, <2>1, <2>2
  <1> QED
    BY <1>3, <1>4, <1>5

\* What is in use is closed, and is marked during a collection.
LEMMA UsedMeans ==
    ASSUME Inv
    PROVE  /\ InUse(count) = Closure(Roots(count), refs) /\ InUse(count) \subseteq Images
           /\ Roots(count) \in SUBSET Images /\ refs \in SUBSET (Images \X Images)
           /\ Roots(count) \subseteq InUse(count)
           /\ \A i \in InUse(count) : LibImages[i] \subseteq InUse(count)
           /\ \A r \in refs : r[1] \in InUse(count) => r[2] \in InUse(count)
           /\ doingGC => InUse(count) \subseteq Kept
  <1>1. /\ InUse(count) = Closure(Roots(count), refs)
        /\ Roots(count) \in SUBSET Images /\ refs \in SUBSET (Images \X Images)
    BY CountMeans, UsedIsClosure DEF Inv
  <1>2. doingGC => InUse(count) \subseteq Kept
    <2> SUFFICES ASSUME doingGC PROVE InUse(count) \subseteq Kept
      OBVIOUS
    <2>1. Roots(count) \subseteq Kept /\ Kept \in SUBSET Images
      BY DEF Inv, Marks, Roots, Kept
    <2>2. (\A i \in Kept : LibImages[i] \subseteq Kept) /\ (\A r \in refs : r[1] \in Kept => r[2] \in Kept)
      BY DEF Inv, Marks
    <2> QED
      BY <1>1, <2>1, <2>2, ClosureLeast
  <1> DEFINE C == Closure(Roots(count), refs)
  <1>3. /\ Roots(count) \subseteq C /\ C \subseteq Images
        /\ \A i \in C : LibImages[i] \subseteq C
        /\ \A r \in refs : r[1] \in C => r[2] \in C
    BY <1>1, ClosureFacts
  <1> HIDE DEF C
  <1>4. InUse(count) = C
    BY <1>1 DEF C
  <1> QED
    BY <1>1, <1>2, <1>3, <1>4

\* What is being initialized is bound, and no collection deletes it.
LEMMA VisitsKept ==
    ASSUME Inv, NEW t \in Threads, NEW n \in 1..Len(stack[t]), Op(t, n) \in Visits
    PROVE  Img(t, n) \in Images /\ Img(t, n) \in Core /\ Img(t, n) \in Kept
  <1>1. PICK p \in 1..(n - 1) : Op(t, p) = "process" /\ Img(t, n) \in Tree(Img(t, p))
    BY DEF Inv, Shape, ShapeAt
  <1>2. p \in 1..Len(stack[t])
    BY <1>1, StackType DEF Inv
  <1>3. Img(t, p) \in Core \cap Kept
    BY <1>1, <1>2 DEF Inv, Linked
  <1>4. (\A j \in Core \cap Kept : LibImages[j] \subseteq Core \cap Kept) /\ Core \cap Kept \in SUBSET Images
    BY DEF Inv, Linked, Core, Kept
  <1>5. Tree(Img(t, p)) \subseteq Core \cap Kept
    BY <1>3, <1>4, TreeLeast
  <1> QED
    BY <1>1, <1>5 DEF Core

\* Whoever holds the lock by its stack, or collects, owns it.
LEMMA OwnerIs ==
    ASSUME Inv, NEW t \in Threads, NEW n \in 1..Len(stack[t]), Op(t, n) \in LockOps \cup {"gc"}
    PROVE  glock.owner = t
  <1>1. CASE Op(t, n) \in LockOps
    BY <1>1 DEF Inv, Locks, LockPlaces
  <1>2. CASE Op(t, n) = "gc"
    <2>1. n > 1 /\ Op(t, n - 1) \in LockOps /\ n - 1 \in 1..Len(stack[t])
      BY <1>2, StackType DEF Inv, Shape, ShapeAt
    <2> QED
      BY <2>1 DEF Inv, Locks, LockPlaces
  <1> QED
    BY <1>1, <1>2

\* No dlopen() is being linked and no image collected when the lock can be taken by
\* a thread in an initializer, or in no call at all.
LEMMA LockIsFree ==
    ASSUME Inv, NEW t \in Threads, stack[t] = <<>> \/ At(t, "init"), glock.owner \in {None, t}
    PROVE  /\ glock.owner = None /\ LockPlaces(t) = {} /\ ~doingGC
           /\ \A u \in Threads : \A n \in 1..Len(stack[u]) : Op(u, n) \notin LockOps \cup {"gc"}
           /\ Loaded \subseteq Core
  <1>1. ASSUME NEW n \in 1..Len(stack[t]) PROVE Op(t, n) \notin LockOps
    <2> SUFFICES ASSUME Op(t, n) \in LockOps PROVE FALSE
      OBVIOUS
    <2>1. Len(stack[t]) \in Nat /\ n \in Nat /\ stack[t] \in Seq(Frames)
      BY StackType DEF Inv
    <2>2. stack[t] # <<>>
      BY <2>1
    <2>3. Op(t, Len(stack[t])) = "init"
      BY <2>2, TopFrame DEF At, Op, Inv
    <2>4. n # Len(stack[t])
      BY <2>3 DEF LockOps
    <2>5. ShapeAt(t, Len(stack[t])) /\ n \in 1..(Len(stack[t]) - 1) /\ Op(t, n) \in Locked
      BY <2>1, <2>4 DEF Inv, Shape, Locked
    <2>6. Op(t, Len(stack[t])) \in Locked
      BY <2>5 DEF ShapeAt
    <2> QED
      BY <2>3, <2>6 DEF Locked, LockOps
  <1>2. LockPlaces(t) = {}
    BY <1>1 DEF LockPlaces
  <1>3. glock.owner = None
    BY <1>2 DEF Inv, Locks
  <1>4. \A u \in Threads : \A n \in 1..Len(stack[u]) : Op(u, n) \notin LockOps \cup {"gc"}
    BY <1>3, OwnerIs, Dyld2Assumption
  <1>5. ~doingGC
    BY <1>4 DEF Inv, OneGC
  <1>6. Loaded \subseteq Core
    BY <1>4, <1>5 DEF Inv, Linked, Pending, LockOps
  <1> QED
    BY <1>2, <1>3, <1>4, <1>5, <1>6

\* A dlopen() that is being linked is the only one, and there is no collection.
LEMMA LinkingAlone ==
    ASSUME Inv, NEW t \in Threads, stack[t] # <<>>, Top(t).op \in Pending
    PROVE  /\ ~doingGC
           /\ \A u \in Threads : \A n \in 1..Len(stack[u]) :
                 Op(u, n) \in Pending \cup {"gc"} => u = t /\ n = Len(stack[t])
  <1>1. Len(stack[t]) \in 1..Len(stack[t]) /\ Op(t, Len(stack[t])) \in Pending
    BY TopFrame DEF Op, Inv
  <1>2. glock.owner = t
    BY <1>1, OwnerIs DEF Pending, LockOps
  <1>3. ASSUME NEW u \in Threads, NEW n \in 1..Len(stack[u]), Op(u, n) \in Pending \cup {"gc"}
        PROVE  u = t /\ n = Len(stack[t])
    <2>1. glock.owner = u
      BY <1>3, OwnerIs DEF Pending, LockOps
    <2>2. u = t
      BY <1>2, <2>1
    <2>3. ASSUME n # Len(stack[t]) PROVE FALSE
      <3>1. ShapeAt(t, Len(stack[t])) /\ n \in 1..(Len(stack[t]) - 1)
        BY <1>1, <2>2, <2>3, StackType DEF Inv, Shape
      <3>2. Op(t, n) \in Locked
        BY <1>3, <2>2 DEF Locked, Pending, LockOps
      <3> QED
        BY <1>1, <3>1, <3>2 DEF ShapeAt
    <2> QED
      BY <2>2, <2>3
  <1>4. ~doingGC
    <2> SUFFICES ASSUME doingGC PROVE FALSE
      OBVIOUS
    <2>1. PICK u \in Threads : \E n \in 1..Len(stack[u]) : Op(u, n) = "gc"
      BY DEF Inv, OneGC
    <2>2. PICK n \in 1..Len(stack[u]) : Op(u, n) = "gc"
      BY <2>1
    <2> QED
      BY <1>1, <1>3, <2>2 DEF Pending
  <1> QED
    BY <1>3, <1>4

-----------------------------------------------------------------------------
(* Initializers: the steps without the global lock *)

\* Images stay locked by those who initialize them if no one begins or ends.
LEMMA VisitingKept ==
    ASSUME Types, Visiting, Unmoved(Busy), Unmoved({"running"}), ilock' = ilock,
           \A u \in Threads : \A n \in 1..Len(stack[u]) :
              Op(u, n) \in Busy => state'[Img(u, n)] = state[Img(u, n)]
    PROVE  Visiting'
  <1>1. ASSUME NEW u \in Threads, NEW n
        PROVE  /\ (n \in 1..Len(stack'[u]) /\ Op(u, n)' \in Busy)
                     <=> (n \in 1..Len(stack[u]) /\ Op(u, n) \in Busy)
               /\ (n \in 1..Len(stack[u]) /\ Op(u, n) \in Busy) =>
                     /\ Img(u, n)' = Img(u, n) /\ (Op(u, n)' = "running" <=> Op(u, n) = "running")
                     /\ state'[Img(u, n)] = state[Img(u, n)]
    BY DEF Unmoved, Has, Op, Img
  <1>2. \A t \in Threads : \A n \in 1..Len(stack'[t]) :
          Op(t, n)' \in Busy =>
             /\ state'[Img(t, n)'] = IF Op(t, n)' = "running" THEN DependentsInited ELSE Initializing
             /\ ilock'[Img(t, n)'] = [owner |-> t, held |-> 1]
    BY <1>1 DEF Visiting
  <1>3. \A t \in Threads : \A n, m \in 1..Len(stack'[t]) :
          Op(t, n)' \in Busy /\ Op(t, m)' \in Busy /\ Img(t, n)' = Img(t, m)' => n = m
    BY <1>1 DEF Visiting
  <1>4. \A i \in Images :
          \/ ilock'[i] = Free
          \/ \E t \in Threads : \E n \in 1..Len(stack'[t]) : Op(t, n)' \in Busy /\ Img(t, n)' = i
    BY <1>1 DEF Visiting
  <1> QED
    BY <1>2, <1>3, <1>4 DEF Visiting, Free

\* A step that only goes on with initializers keeps the rest of the invariant.
LEMMA VisitStep ==
    ASSUME Inv, DataTypes', StackTypes', NEW t \in Threads, NEW k, Above(t, k), stack[t] # <<>>,
           Top(t).op \notin Linking,
           \A n \in (k + 1)..Len(stack[t]) : Op(t, n) \in Visits,
           \A n \in (k + 1)..Len(stack'[t]) : Op(t, n)' \in Visits,
           UNCHANGED <<all, count, marked, refs, glock, gcVars, handles, opens>>,
           \A i \in Images : state'[i] # state[i] => state[i] >= Bound /\ state'[i] >= Bound
    PROVE  /\ Locks' /\ OneGC' /\ Linked' /\ Marks' /\ Counts' /\ Core' = Core /\ Loaded' = Loaded
  <1>1. /\ Types /\ Types' /\ k \in Nat /\ Len(stack[t]) \in Nat
        /\ all' = all /\ count' = count /\ marked' = marked /\ refs' = refs /\ glock' = glock
        /\ doingGC' = doingGC /\ redo' = redo /\ handles' = handles /\ opens' = opens
    BY StackType DEF Inv, Types, Above, gcVars
  <1>2. ASSUME NEW X, X \cap Visits = {} PROVE Unmoved(X)
    <2>1. \A n \in Nat : n > k => ~Has(t, n, X) /\ ~Has(t, n, X)'
      BY <1>1, <1>2 DEF Has, Op
    <2> QED
      BY <1>1, <2>1, UnmovedAbove
  <1>3. Unmoved(LockOps) /\ Unmoved({"gc"}) /\ Unmoved(OpenOps) /\ Unmoved({"process"}) /\ Unmoved(Pending)
    BY <1>2 DEF LockOps, OpenOps, Visits, Busy, Pending
  <1>4. Locks' /\ OneGC'
    BY <1>1, <1>3, UnmovedLocks, UnmovedGC DEF Inv
  <1>5. Counts'
    <2>1. \A i \in Images : Calls(i)' = Calls(i)
      BY <1>1, <1>3, UnmovedCalls DEF Types
    <2> QED
      BY <1>1, <2>1 DEF Inv, Counts
  <1>6. Core' = Core /\ Kept' = Kept /\ Loaded' = Loaded
    BY <1>1 DEF Core, Kept, Loaded
  <1>7. InUse(count)' = InUse(count)
    <2>1. Loaded \subseteq Images
      BY LoadedImages DEF Inv
    <2>2. \A i \in Images : state'[i] >= Bound <=> state[i] >= Bound
      OBVIOUS
    <2>3. {i \in Loaded : count[i] # 0 \/ (i \in NeverUnload /\ state'[i] >= Bound)}
            = {i \in Loaded : count[i] # 0 \/ (i \in NeverUnload /\ state[i] >= Bound)}
      BY <2>1, <2>2
    <2> QED
      BY <1>1, <1>6, <2>3 DEF InUse
  <1>8. Marks'
    BY <1>1, <1>6, <1>7 DEF Inv, Marks
  <1>9. ASSUME NEW u \in Threads, NEW n
        PROVE  /\ (n \in 1..Len(stack'[u]) /\ Op(u, n)' \in Pending)
                     <=> (n \in 1..Len(stack[u]) /\ Op(u, n) \in Pending)
               /\ (n \in 1..Len(stack'[u]) /\ Op(u, n)' = "process")
                     <=> (n \in 1..Len(stack[u]) /\ Op(u, n) = "process")
               /\ (n \in 1..Len(stack[u]) /\ Op(u, n) \in Pending \cup {"process"}) => Img(u, n)' = Img(u, n)
    BY <1>3 DEF Unmoved, Has, Op, Img
  <1>10. ASSUME NEW u \in Threads, NEW n \in 1..Len(stack'[u]), Op(u, n)' \in Linking
         PROVE  n \in 1..Len(stack[u]) /\ stack'[u][n] = stack[u][n] /\ Op(u, n)' = Op(u, n)
    <2>1. CASE u # t
      BY <2>1 DEF Above, Op
    <2>2. CASE u = t
      <3>1. n \in 1..Len(stack[t]) /\ n <= k
        BY <1>1, <1>10, <2>2 DEF Above, Visits, Busy, Linking
      <3>2. Op(t, n) \in Linking
        BY <1>10, <2>2, <3>1 DEF Above, Op
      <3>3. n = Len(stack[t])
        BY <3>1, <3>2 DEF Inv, Shape, ShapeAt
      <3> QED
        BY <1>1, <3>2, <3>3, TopFrame DEF Op
    <2> QED
      BY <2>1, <2>2
  <1>11. Linked'
    <2>1. \A i \in Core' \cap Kept' : LibImages[i] \subseteq Core' \cap Kept'
      BY <1>6 DEF Inv, Linked
    <2>2. \A i \in Loaded' \ Core' :
             \/ doingGC'
             \/ \E u \in Threads : \E n \in 1..Len(stack'[u]) : Op(u, n)' \in Pending /\ i \in Tree(Img(u, n)')
      BY <1>1, <1>6, <1>9 DEF Inv, Linked
    <2>3. ASSUME NEW u \in Threads, NEW n \in 1..Len(stack'[u])
          PROVE  /\ Op(u, n)' = "process" => Img(u, n)' \in Core' \cap Kept'
                 /\ Op(u, n)' \in Pending => Img(u, n)' \in Loaded'
      BY <1>6, <1>9 DEF Inv, Linked
    <2>4. \A i \in Images : (state'[i] = Mapped <=> state[i] = Mapped)
                            /\ (state'[i] = DependentsMapped <=> state[i] = DependentsMapped)
      <3>1. \A i \in Images : state[i] \in 0..6
        BY <1>1, StateType DEF Types, StatesInRange
      <3>2. StatesInRange'
        BY StateType, PTL
      <3> QED
        BY <3>1, <3>2 DEF Mapped, DependentsMapped, Bound, StatesInRange
    <2>5. Loaded \subseteq Images
      BY LoadedImages DEF Inv
    <2>6. ASSUME NEW u \in Threads, NEW n \in 1..Len(stack'[u])
          PROVE  LoadAt(u, n)'
      <3>1. CASE Op(u, n)' \in {"load", "depths"}
        <4>1. n \in 1..Len(stack[u]) /\ stack'[u][n] = stack[u][n] /\ Op(u, n)' = Op(u, n)
          BY <1>10, <3>1 DEF Linking
        <4>2. LoadAt(u, n)
          BY <4>1 DEF Inv, Linked, Loading
        <4> QED
          BY <1>6, <2>4, <2>5, <4>1, <4>2 DEF LoadAt
      <3>2. CASE Op(u, n)' \notin {"load", "depths"}
        BY <3>2 DEF LoadAt
      <3> QED
        BY <3>1, <3>2
    <2> QED
      BY <2>1, <2>2, <2>3, <2>6 DEF Linked, Loading
  <1> QED
    BY <1>4, <1>5, <1>6, <1>8, <1>11

\* So does a step that changes no state of an image, no lock and no count of
\* initializers.
LEMMA QuietVisit ==
    ASSUME Inv, DataTypes', StackTypes', Shape', NEW t \in Threads, NEW k, Above(t, k), stack[t] # <<>>,
           Top(t).op \notin Linking,
           \A n \in (k + 1)..Len(stack[t]) : Op(t, n) \in Visits,
           \A n \in (k + 1)..Len(stack'[t]) : Op(t, n)' \in Visits,
           UNCHANGED <<all, count, marked, refs, glock, gcVars, handles, opens, state, ilock, inits>>,
           Unmoved(Busy), Unmoved({"running"})
    PROVE  Inv'
  <1>1. /\ all' = all /\ count' = count /\ marked' = marked /\ refs' = refs /\ glock' = glock
        /\ gcVars' = gcVars /\ handles' = handles /\ opens' = opens
        /\ state' = state /\ ilock' = ilock /\ inits' = inits
    OBVIOUS
  <1>2. Locks' /\ OneGC' /\ Linked' /\ Marks' /\ Counts' /\ Core' = Core /\ Loaded' = Loaded
    BY <1>1, VisitStep
  <1>3. States'
    BY <1>1, <1>2 DEF Inv, States
  <1>4. Visiting'
    BY <1>1, VisitingKept DEF Inv
  <1> QED
    BY <1>1, <1>2, <1>3, <1>4 DEF Inv, Types, Flags, gcVars

\* A new entry is well formed.
LEMMA FrameIs ==
    ASSUME NEW op \in Ops \ {"load", "depths", "process", "deps", "compare", "gc"}, NEW i \in Images
    PROVE  /\ FrameOK(Frame(op, i, <<>>)) /\ Frame(op, i, <<>>) \in Frames
           /\ Frame(op, i, <<>>).op = op /\ Frame(op, i, <<>>).img = i
  BY DEF FrameOK, Frame, Frames

\* A new entry in processInitializers(), on top of one of the list or of an image.
LEMMA VisitShape ==
    ASSUME Inv, NEW t \in Threads, NEW k, Above(t, k), k > 0,
           Op(t, k) \in {"process", "deps", "compare"},
           k + 1 \in 1..Len(stack'[t]), Op(t, k + 1)' \in Visits \ {"init"},
           \/ Op(t, k) = "process" /\ Img(t, k + 1)' \in Tree(Img(t, k))
           \/ Op(t, k) # "process" /\ Img(t, k + 1)' \in LibImages[Img(t, k)]
    PROVE  ShapeAt(t, k + 1)'
  <1>1. /\ k \in Nat /\ k \in 1..Len(stack[t]) /\ Len(stack[t]) \in Nat /\ k + 1 - 1 = k
        /\ \A m \in 1..k : Op(t, m)' = Op(t, m) /\ Img(t, m)' = Img(t, m)
    BY StackType DEF Inv, Above, Op, Img
  <1>2. ShapeAt(t, k)
    BY <1>1 DEF Inv, Shape
  <1>3. ASSUME NEW m \in 1..k PROVE Op(t, m)' \notin Locked
    <2>1. m # k => m \in 1..(k - 1)
      BY <1>1
    <2>2. Op(t, k) \notin Locked
      BY DEF Locked, LockOps
    <2> QED
      BY <1>1, <1>2, <2>1, <2>2 DEF ShapeAt
  <1>4. \E p \in 1..k : /\ Op(t, p)' = "process" /\ Img(t, k + 1)' \in Tree(Img(t, p)')
                         /\ \A m \in (p + 1)..(k + 1) : Op(t, m)' # "process"
    <2>0. Op(t, k + 1)' # "process"
      BY DEF Visits, Busy
    <2>1. CASE Op(t, k) = "process"
      <3>1. \A m \in (k + 1)..(k + 1) : m = k + 1
        BY <1>1
      <3> QED
        BY <1>1, <2>0, <2>1, <3>1
    <2>2. CASE Op(t, k) # "process"
      <3>1. PICK p \in 1..(k - 1) : /\ Op(t, p) = "process" /\ Img(t, k) \in Tree(Img(t, p))
                                    /\ \A m \in (p + 1)..k : Op(t, m) # "process"
        BY <1>2, <2>2 DEF ShapeAt, Visits, Busy
      <3>2. p \in 1..k /\ p \in 1..Len(stack[t]) /\ \A m \in (p + 1)..(k + 1) : m = k + 1 \/ (m \in (p + 1)..k /\ m \in 1..k)
        BY <1>1
      <3>3. Img(t, p) \in Images
        BY <3>1, <3>2, CountMeans DEF OpenOps
      <3>4. Img(t, k + 1)' \in Tree(Img(t, p))
        BY <2>2, <3>1, <3>3, TreeFacts
      <3>5. \A m \in (p + 1)..(k + 1) : Op(t, m)' # "process"
        BY <1>1, <2>0, <3>1, <3>2
      <3> QED
        BY <1>1, <3>1, <3>2, <3>4, <3>5
    <2> QED
      BY <2>1, <2>2
  <1>5. Op(t, k + 1)' # "init" /\ Op(t, k + 1)' # "gc" /\ Op(t, k + 1)' \notin Linking
    BY DEF Visits, Busy, Linking
  <1> QED
    BY <1>1, <1>3, <1>4, <1>5 DEF ShapeAt

\* An entry stays what it was, or goes on with the same image.
LEMMA SameShape ==
    ASSUME Inv, NEW t \in Threads, NEW k, Above(t, k), k + 1 \in 1..Len(stack[t]), k + 1 \in 1..Len(stack'[t]),
           Op(t, k + 1) \in Visits \ {"init"}, Op(t, k + 1)' \in Visits \ {"init"}, Img(t, k + 1)' = Img(t, k + 1)
    PROVE  ShapeAt(t, k + 1)'
  <1>1. /\ k \in Nat /\ Len(stack[t]) \in Nat /\ k + 1 - 1 = k
        /\ \A m \in 1..k : Op(t, m)' = Op(t, m) /\ Img(t, m)' = Img(t, m)
    BY StackType DEF Inv, Above, Op, Img
  <1>2. ShapeAt(t, k + 1)
    BY DEF Inv, Shape
  <1>3. Op(t, k + 1)' \notin {"init", "gc", "process"} \cup Linking /\ Op(t, k + 1) \notin Locked
    BY DEF Visits, Busy, Linking, Locked, LockOps
  <1>4. \A m \in 1..k : Op(t, m)' \notin Locked
    BY <1>1, <1>2, <1>3 DEF ShapeAt
  <1>5. PICK p \in 1..k : /\ Op(t, p) = "process" /\ Img(t, k + 1) \in Tree(Img(t, p))
                          /\ \A m \in (p + 1)..(k + 1) : Op(t, m) # "process"
    BY <1>1, <1>2 DEF ShapeAt
  <1>6. \A m \in (p + 1)..(k + 1) : m = k + 1 \/ m \in 1..k
    BY <1>1
  <1>7. \A m \in (p + 1)..(k + 1) : Op(t, m)' # "process"
    BY <1>1, <1>3, <1>5, <1>6
  <1>8. \E q \in 1..k : /\ Op(t, q)' = "process" /\ Img(t, k + 1)' \in Tree(Img(t, q)')
                         /\ \A m \in (q + 1)..(k + 1) : Op(t, m)' # "process"
    BY <1>1, <1>5, <1>7
  <1> QED
    BY <1>1, <1>3, <1>4, <1>8 DEF ShapeAt

\* The data is well formed if it has not changed.
LEMMA DataKept ==
    ASSUME DataTypes,
           UNCHANGED <<all, state, count, depth, marked, refs, cells, end, handles, opens, inits>>
    PROVE  DataTypes'
  BY DEF DataTypes

\* The memory of the termination list has a length.
LEMMA CellsLen ==
    ASSUME Types
    PROVE  Len(cells) \in Nat
  BY DEF Types, DataTypes

\* The entries of a tail.
LEMMA TailOf ==
    ASSUME NEW s \in Seq(Todo), s # <<>>
    PROVE  /\ Head(s) = s[1] /\ Len(s) \in Nat /\ 1 \in 1..Len(s)
           /\ Tail(s) \in Seq(Todo) /\ Len(Tail(s)) = Len(s) - 1
           /\ \A k \in 1..Len(Tail(s)) : k + 1 \in 1..Len(s) /\ Tail(s)[k] = s[k + 1]
  OBVIOUS

\* An entry stays well formed when what it does first is done.
LEMMA TodoTail ==
    ASSUME NEW f, FrameOK(f), f.op # "compare", f.todo # <<>>
    PROVE  /\ FrameOK([f EXCEPT !.todo = Tail(@)]) /\ [f EXCEPT !.todo = Tail(@)] \in Frames
           /\ [f EXCEPT !.todo = Tail(@)].op = f.op /\ [f EXCEPT !.todo = Tail(@)].img = f.img
  <1> DEFINE g == [f EXCEPT !.todo = Tail(@)]
             s == f.todo
  <1>1. f \in Frames /\ s \in Seq(Todo)
    BY DEF FrameOK, Frames
  <1>2. /\ Tail(s) \in Seq(Todo)
        /\ \A k \in 1..Len(Tail(s)) : k + 1 \in 1..Len(s) /\ Tail(s)[k] = s[k + 1]
    BY <1>1, TailOf
  <1>3. g \in Frames /\ g.op = f.op /\ g.img = f.img /\ g.todo = Tail(s) /\ g.ups = f.ups
    BY <1>1, <1>2 DEF Frames
  <1> HIDE DEF g
  <1>4. FrameOK(g)
    BY <1>2, <1>3 DEF FrameOK
  <1> QED
    BY <1>3, <1>4 DEF g

\* Entries of no other kind than before, above k.
LEMMA NothingBusy ==
    ASSUME Types, NEW t \in Threads, NEW k, Above(t, k), NEW X,
           \A n \in (k + 1)..Len(stack[t]) : Op(t, n) \notin X,
           \A n \in (k + 1)..Len(stack'[t]) : Op(t, n)' \notin X
    PROVE  Unmoved(X)
  <1>1. k \in Nat /\ Len(stack[t]) \in Nat /\ Len(stack'[t]) \in Nat
    BY StackType DEF Above
  <1>2. \A n \in Nat : n > k => ~Has(t, n, X) /\ ~Has(t, n, X)'
    BY <1>1 DEF Has, Op
  <1> QED
    BY <1>2, UnmovedAbove

\* processInitializers() visits images of the tree of the image opened.
LEMMA ProcessInitializersInv ==
    ASSUME Inv, NEW t \in Threads, ProcessInitializers(t)
    PROVE  Inv'
  <1> DEFINE f == Top(t)
  <1>0. stack[t] # <<>> /\ f.op = "process" /\ Types
    BY DEF ProcessInitializers, At, Inv
  <1> PICK n \in Nat : n = Len(stack[t])
    BY <1>0, TopFrame
  <1>1. /\ Types /\ n \in Nat /\ n > 0 /\ n \in 1..n /\ f = stack[t][n] /\ FrameOK(f) /\ f \in Frames
        /\ f.op = "process" /\ stack[t] # <<>> /\ f.img \in Images
    BY <1>0, TopFrame DEF FrameOK
  <1>2. UNCHANGED <<all, count, marked, refs, glock, gcVars, handles, opens, state, ilock, inits, depth, cells, end>>
    BY DEF ProcessInitializers, imageVars, termVars, history
  <1>3. DataTypes' /\ Len(cells) \in Nat
    BY <1>1, <1>2, DataKept, CellsLen DEF Types
  <1>4. CASE f.todo # <<>> /\ ReplaceAndCall(t, [f EXCEPT !.todo = Tail(@)], Frame("enter", Head(f.todo), <<>>))
    <2> DEFINE g == [f EXCEPT !.todo = Tail(@)]
               h == Frame("enter", Head(f.todo), <<>>)
    <2>1. FrameOK(g) /\ g \in Frames /\ g.op = "process" /\ g.img = f.img
      BY <1>1, <1>4, TodoTail
    <2>2. Head(f.todo) \in Tree(f.img) /\ Head(f.todo) \in Images
      <3>1. f.todo \in Seq(Todo)
        BY <1>1 DEF Frames
      <3>2. Head(f.todo) = f.todo[1] /\ 1 \in 1..Len(f.todo)
        BY <1>4, <3>1, TailOf
      <3> QED
        BY <1>1, <3>2, TreeFacts DEF FrameOK
    <2>3. FrameOK(h) /\ h \in Frames /\ h.op = "enter" /\ h.img = Head(f.todo)
      BY <2>2, FrameIs DEF Ops, Visits
    <2> HIDE DEF g, h
    <2>4. /\ Above(t, n - 1) /\ Exact(t, n - 1) /\ Len(stack'[t]) = n + 1
          /\ stack'[t][n] = g /\ stack'[t][n + 1] = h
      BY <1>1, <1>4, <2>1, <2>3, ReplacedAndCalled DEF g, h
    <2>5. Above(t, n)
      BY <1>1, <2>1, <2>4 DEF Above
    <2>6. \A m \in ((n - 1) + 1)..Len(stack'[t]) : stack'[t][m] \in {g, h}
      BY <1>1, <2>4
    <2>7. StackTypes'
      BY <1>1, <1>2, <1>3, <2>1, <2>3, <2>4, <2>6, StackTypesKept
    <2>8. \A m \in (n + 1)..Len(stack'[t]) : m = n + 1 /\ Op(t, m)' = "enter"
      BY <1>1, <2>3, <2>4 DEF Op
    <2>9. ShapeAt(t, n + 1)'
      <3>1. Op(t, n) = "process" /\ Img(t, n) = f.img /\ Op(t, n + 1)' = "enter" /\ Img(t, n + 1)' = Head(f.todo)
        BY <1>1, <2>3, <2>4 DEF Op, Img
      <3>2. n + 1 \in 1..Len(stack'[t]) /\ "enter" \in Visits \ {"init"}
        BY <1>1, <2>4 DEF Visits
      <3> QED
        BY <1>1, <2>2, <2>5, <3>1, <3>2, VisitShape
    <2>10. Shape'
      <3>1. Op(t, n) \notin Linking
        BY <1>1 DEF Op, Linking
      <3>2. \A m \in (n + 1)..Len(stack'[t]) : ShapeAt(t, m)'
        BY <2>8, <2>9
      <3> QED
        BY <1>1, <2>5, <3>1, <3>2, ShapeKept DEF Inv
    <2>11. \A m \in (n + 1)..n : FALSE
      BY <1>1
    <2>12. Unmoved(Busy) /\ Unmoved({"running"})
      BY <1>1, <2>5, <2>8, <2>11, NothingBusy DEF Busy
    <2> QED
      BY <1>1, <1>2, <1>3, <2>5, <2>7, <2>8, <2>10, <2>11, <2>12, QuietVisit DEF Linking, Visits
  <1>5. CASE f.todo = <<>> /\ f.ups # <<>> /\ Replace(t, [f EXCEPT !.todo = f.ups, !.ups = <<>>])
    <2> DEFINE g == [f EXCEPT !.todo = f.ups, !.ups = <<>>]
    <2>1. FrameOK(g) /\ g \in Frames /\ g.op = "process" /\ g.img = f.img
      <3>1. f.ups \in Seq(Images) /\ f.ups \in Seq(Todo)
        BY <1>1, SeqMonotonic DEF Frames, Todo, Names
      <3>2. g \in Frames /\ g.op = "process" /\ g.img = f.img /\ g.todo = f.ups /\ g.ups = <<>>
        <4>1. <<>> \in Seq(Images)
          OBVIOUS
        <4> QED
          BY <1>1, <3>1, <4>1 DEF Frames
      <3> HIDE DEF g
      <3>3. FrameOK(g)
        BY <1>1, <3>2 DEF FrameOK
      <3> QED
        BY <3>2, <3>3
    <2> HIDE DEF g
    <2>2. Above(t, n - 1) /\ Exact(t, n - 1) /\ Len(stack'[t]) = n /\ stack'[t][n] = g
      BY <1>1, <1>5, <2>1, Replaced DEF g
    <2>3. Above(t, n)
      BY <1>1, <2>1, <2>2 DEF Above
    <2>4. \A m \in ((n - 1) + 1)..Len(stack'[t]) : stack'[t][m] = g
      BY <1>1, <2>2
    <2>5. StackTypes'
      BY <1>1, <1>2, <1>3, <2>1, <2>2, <2>4, StackTypesKept
    <2>6. (\A m \in (n + 1)..n : FALSE) /\ Len(stack'[t]) = n
      BY <1>1, <2>2
    <2>7. Shape'
      BY <1>1, <2>3, <2>6, ShapeKept DEF Inv
    <2>8. Unmoved(Busy) /\ Unmoved({"running"})
      BY <1>1, <2>3, <2>6, NothingBusy
    <2> QED
      BY <1>1, <1>2, <1>3, <2>3, <2>5, <2>6, <2>7, <2>8, QuietVisit DEF Linking
  <1> QED
    BY <1>1, <1>4, <1>5 DEF ProcessInitializers


\* A step that leaves what every entry is about as it is.
LEMMA QuietSame ==
    ASSUME Inv, DataTypes', StackTypes', NEW t \in Threads, NEW n, n = Len(stack[t]), n > 0,
           Above(t, n), Len(stack'[t]) = n, Top(t).op \notin Linking,
           UNCHANGED <<all, count, marked, refs, glock, gcVars, handles, opens, state, ilock, inits>>
    PROVE  Inv'
  <1>1. Types /\ n \in Nat /\ stack[t] # <<>>
    BY StackType DEF Inv
  <1>2. (\A m \in (n + 1)..n : FALSE) /\ Len(stack'[t]) = n
    BY <1>1
  <1>3. Shape'
    BY <1>1, <1>2, ShapeKept DEF Inv
  <1>4. Unmoved(Busy) /\ Unmoved({"running"})
    BY <1>1, <1>2, NothingBusy
  <1> QED
    BY <1>1, <1>2, <1>3, <1>4, QuietVisit

\* A library on top of the image that links it.
LibraryOnTop ==
    \A t \in Threads : \A k \in Nat :
       k + 1 \in 1..Len(stack[t]) /\ k > 0 /\ ShapeAt(t, k) /\ Op(t, k) \in {"deps", "compare"}
          /\ Op(t, k + 1) = "enter" /\ Img(t, k + 1) \in LibImages[Img(t, k)]
       => ShapeAt(t, k + 1)

\* An image visited from another is one of its libraries.
LEMMA OnTop == StackTypes => LibraryOnTop
  <1> SUFFICES ASSUME StackTypes, NEW t \in Threads, NEW k \in Nat,
                      k + 1 \in 1..Len(stack[t]), k > 0, ShapeAt(t, k), Op(t, k) \in {"deps", "compare"},
                      Op(t, k + 1) = "enter", Img(t, k + 1) \in LibImages[Img(t, k)]
               PROVE  ShapeAt(t, k + 1)
    BY DEF LibraryOnTop
  <1>1. PICK p \in 1..(k - 1) : /\ Op(t, p) = "process" /\ Img(t, k) \in Tree(Img(t, p))
                                /\ \A m \in (p + 1)..k : Op(t, m) # "process"
    BY DEF ShapeAt, Visits, Busy
  <1>2. p \in 1..Len(stack[t]) /\ p \in 1..k /\ Len(stack[t]) \in Nat /\ k + 1 - 1 = k
    BY DEF StackTypes
  <1>3. Img(t, p) \in Images
    BY <1>1, <1>2 DEF StackTypes, FrameOK, Op, Img
  <1>4. Img(t, k + 1) \in Tree(Img(t, p))
    BY <1>1, <1>3, TreeFacts
  <1>5. \A m \in (p + 1)..(k + 1) : m = k + 1 \/ m \in (p + 1)..k
    BY <1>2
  <1>6. \A m \in (p + 1)..(k + 1) : Op(t, m) # "process"
    BY <1>1, <1>5
  <1>7. \A m \in 1..k : Op(t, m) \notin Locked
    <2>1. \A m \in 1..k : m = k \/ m \in 1..(k - 1)
      OBVIOUS
    <2>2. Op(t, k) \notin Locked
      BY DEF Locked, LockOps
    <2> QED
      BY <2>1, <2>2 DEF ShapeAt
  <1>8. Op(t, k + 1) \notin {"init", "gc"} /\ Op(t, k + 1) \notin Linking
    BY DEF Linking
  <1>9. \E q \in 1..k : /\ Op(t, q) = "process" /\ Img(t, k + 1) \in Tree(Img(t, q))
                         /\ \A m \in (q + 1)..(k + 1) : Op(t, m) # "process"
    BY <1>1, <1>2, <1>4, <1>6
  <1> QED
    BY <1>2, <1>7, <1>8, <1>9 DEF ShapeAt

\* A thread goes on with the image it is initializing, or enters one of its libraries.
LEMMA GoOnVisit ==
    ASSUME Inv, DataTypes', NEW t \in Threads, NEW n, n = Len(stack[t]), n > 0,
           Len(cells') \in Nat, Len(cells) <= Len(cells'),
           Top(t).op \in Busy \ {"running"}, Above(t, n - 1), Exact(t, n - 1),
           FrameOK(stack'[t][n]), stack'[t][n].img = Top(t).img, stack'[t][n].op \in Busy \ {"running"},
           stack'[t][n].op = "push" => stack'[t][n].val <= Len(cells'),
           \/ Len(stack'[t]) = n
           \/ /\ Len(stack'[t]) = n + 1 /\ FrameOK(stack'[t][n + 1]) /\ stack'[t][n + 1].op = "enter"
              /\ stack'[t][n + 1].img \in LibImages[Top(t).img] /\ stack'[t][n].op \in {"deps", "compare"},
           UNCHANGED <<all, count, marked, refs, glock, gcVars, handles, opens, state, ilock, inits>>
    PROVE  Inv'
  <1>1. /\ Types /\ n \in Nat /\ n - 1 \in Nat /\ stack[t] # <<>> /\ n \in 1..n /\ Len(cells) \in Nat
        /\ Op(t, n) = Top(t).op /\ Img(t, n) = Top(t).img /\ (n - 1) + 1 = n
    BY StackType, CellsLen, TopFrame DEF Inv, Op, Img
  <1>2. \A m \in n..Len(stack'[t]) : m = n \/ (m = n + 1 /\ m = Len(stack'[t]))
    BY <1>1
  <1>3. StackTypes'
    <2>1. \A m \in ((n - 1) + 1)..Len(stack'[t]) :
              FrameOK(stack'[t][m]) /\ (stack'[t][m].op = "push" => stack'[t][m].val <= Len(cells'))
      BY <1>1, <1>2
    <2> QED
      BY <1>1, <2>1, StackTypesKept
  <1>4. n \in 1..Len(stack'[t])
    BY <1>1
  <1>5. ShapeAt(t, n)'
    <2>1. Op(t, n) \in Visits \ {"init"} /\ Op(t, n)' \in Visits \ {"init"} /\ Img(t, n)' = Img(t, n)
      BY <1>1 DEF Visits, Busy, Op, Img
    <2> QED
      BY <1>1, <1>4, <2>1, SameShape
  <1>6. \A m \in n..Len(stack'[t]) : ShapeAt(t, m)'
    <2>1. LibraryOnTop'
      BY <1>3, OnTop, PTL
    <2>2. ASSUME Len(stack'[t]) = n + 1 PROVE ShapeAt(t, n + 1)'
      <3>1. /\ n + 1 \in 1..Len(stack'[t]) /\ Op(t, n)' \in {"deps", "compare"} /\ Op(t, n + 1)' = "enter"
            /\ Img(t, n + 1)' \in LibImages[Img(t, n)']
        BY <1>1, <2>2 DEF Op, Img
      <3> QED
        BY <1>1, <1>5, <2>1, <3>1 DEF LibraryOnTop
    <2>3. \A m \in n..Len(stack'[t]) : m = n \/ (m = n + 1 /\ Len(stack'[t]) = n + 1)
      BY <1>2
    <2> QED
      BY <1>5, <2>2, <2>3
  <1>7. Shape'
    BY <1>1, <1>6, ShapeKept DEF Inv
  <1>8. ASSUME NEW X, X \in {Busy, {"running"}} PROVE Unmoved(X)
    <2>1. /\ Has(t, n, X)' <=> Has(t, n, X)
          /\ stack'[t][n].img = stack[t][n].img
      BY <1>1, <1>4, <1>8 DEF Has, Op, Img, Busy
    <2>2. ASSUME NEW m \in Nat, m > n PROVE ~Has(t, m, X) /\ ~Has(t, m, X)'
      <3>1. m \notin 1..Len(stack[t]) /\ (m \in 1..Len(stack'[t]) => m = n + 1 /\ stack'[t][m].op = "enter")
        BY <1>1, <1>2, <2>2
      <3>2. "enter" \notin X
        BY <1>8 DEF Busy
      <3> QED
        BY <3>1, <3>2 DEF Has
    <2>3. \A m \in Nat : m > n - 1 => m = n \/ m > n
      BY <1>1
    <2> QED
      BY <1>1, <2>1, <2>2, <2>3, UnmovedAbove
  <1>9. Top(t).op \notin Linking
    BY DEF Busy, Linking
  <1>10. (\A m \in n..Len(stack[t]) : Op(t, m) \in Visits) /\ (\A m \in n..Len(stack'[t]) : Op(t, m)' \in Visits)
    <2>1. \A m \in n..Len(stack[t]) : m = n
      BY <1>1
    <2>2. \A m \in n..Len(stack'[t]) : Op(t, m)' \in Busy \cup {"enter"}
      BY <1>2 DEF Op
    <2> QED
      BY <1>1, <2>1, <2>2 DEF Visits
  <1> QED
    BY <1>1, <1>3, <1>7, <1>8, <1>9, <1>10, QuietVisit

\* The libraries of an image that are found.
LEMMA LibrariesOf ==
    ASSUME NEW i \in Images, NEW l \in Range(Libs[i]), l.img \in Images
    PROVE  l.img \in LibImages[i]
  BY DEF LibImages

\* Whatever the depths are, only a library is visited next.
LEMMA CompareDepthInv ==
    ASSUME Inv, NEW t \in Threads, CompareDepth(t)
    PROVE  Inv'
  <1> DEFINE f == Top(t)
             j == Head(f.todo).img
             g == [f EXCEPT !.op = "deps", !.todo = Tail(@), !.val = 0]
             h == Frame("enter", j, <<>>)
  <1>0. stack[t] # <<>> /\ f.op = "compare" /\ Types
    BY DEF CompareDepth, At, Inv
  <1> PICK n \in Nat : n = Len(stack[t])
    BY <1>0, TopFrame
  <1>1. /\ n > 0 /\ FrameOK(f) /\ f \in Frames /\ f.img \in Images
    BY <1>0, TopFrame DEF FrameOK
  <1>2. UNCHANGED <<all, count, marked, refs, glock, gcVars, handles, opens, state, ilock, inits, depth, cells, end>>
    BY DEF CompareDepth, imageVars, termVars
  <1>3. DataTypes' /\ Len(cells) \in Nat
    BY <1>0, <1>2, DataKept, CellsLen DEF Types
  <1>4. /\ f.todo \in Seq(Todo) /\ f.todo # <<>> /\ j \in Images
        /\ \A k \in 1..Len(f.todo) : f.todo[k] \in Range(Libs[f.img])
    BY <1>0, <1>1 DEF FrameOK, Frames
  <1>5. /\ Head(f.todo) = f.todo[1] /\ 1 \in 1..Len(f.todo) /\ Tail(f.todo) \in Seq(Todo)
        /\ \A k \in 1..Len(Tail(f.todo)) : Tail(f.todo)[k] \in Range(Libs[f.img])
    BY <1>4, TailOf
  <1>6. j \in LibImages[f.img]
    BY <1>1, <1>4, <1>5, LibrariesOf
  <1>7. g \in Frames /\ g.op = "deps" /\ g.img = f.img /\ g.todo = Tail(f.todo)
    BY <1>1, <1>5 DEF Frames, Ops, Visits, Busy
  <1>8. FrameOK(h) /\ h \in Frames /\ h.op = "enter" /\ h.img = j
    BY <1>4, FrameIs DEF Ops, Visits
  <1> HIDE DEF g, h
  <1>9. FrameOK(g)
    BY <1>1, <1>5, <1>7 DEF FrameOK
  <1>10. \/ ReplaceAndCall(t, g, h)
         \/ Replace(t, g)
    BY DEF CompareDepth, g, h
  <1>11. /\ Above(t, n - 1) /\ Exact(t, n - 1) /\ stack'[t][n] = g
         /\ \/ Len(stack'[t]) = n
            \/ Len(stack'[t]) = n + 1 /\ stack'[t][n + 1] = h
    BY <1>0, <1>7, <1>8, <1>10, Replaced, ReplacedAndCalled
  <1>12. f.op \in Busy \ {"running"} /\ g.op \in Busy \ {"running"} /\ g.op # "push"
    BY <1>0, <1>7 DEF Busy
  <1>13. /\ Len(cells') \in Nat /\ Len(cells) <= Len(cells') /\ f.op \in Busy \ {"running"}
         /\ FrameOK(stack'[t][n]) /\ stack'[t][n].img = f.img /\ stack'[t][n].op \in Busy \ {"running"}
         /\ stack'[t][n].op # "push"
    BY <1>2, <1>3, <1>7, <1>9, <1>11, <1>12
  <1>14. \/ Len(stack'[t]) = n
         \/ /\ Len(stack'[t]) = n + 1 /\ FrameOK(stack'[t][n + 1]) /\ stack'[t][n + 1].op = "enter"
            /\ stack'[t][n + 1].img \in LibImages[f.img] /\ stack'[t][n].op \in {"deps", "compare"}
    BY <1>6, <1>7, <1>8, <1>11
  <1> HIDE DEF f, j
  <1> QED
    BY <1>1, <1>2, <1>3, <1>11, <1>13, <1>14, GoOnVisit DEF f

\* Reading the end of the termination list changes nothing shared.
LEMMA RecordTerminationInv ==
    ASSUME Inv, NEW t \in Threads, RecordTermination(t)
    PROVE  Inv'
  <1> DEFINE f == Top(t)
             g == [f EXCEPT !.op = "push", !.val = end]
             h == [f EXCEPT !.op = "ready"]
  <1>0. stack[t] # <<>> /\ f.op = "deps" /\ Types
    BY DEF RecordTermination, At, Inv
  <1> PICK n \in Nat : n = Len(stack[t])
    BY <1>0, TopFrame
  <1>1. /\ n > 0 /\ FrameOK(f) /\ f \in Frames /\ f.img \in Images
    BY <1>0, TopFrame DEF FrameOK
  <1>2. UNCHANGED <<all, count, marked, refs, glock, gcVars, handles, opens, state, ilock, inits, depth, cells, end>>
    BY DEF RecordTermination, imageVars, termVars
  <1>3. DataTypes' /\ Len(cells) \in Nat /\ end \in Nat /\ end <= Len(cells)
    <2>1. DataTypes' /\ Len(cells) \in Nat
      BY <1>0, <1>2, DataKept, CellsLen DEF Types
    <2>2. end \in 0..Len(cells)
      BY <1>0 DEF Types, DataTypes
    <2> QED
      BY <2>1, <2>2
  <1>4. g \in Frames /\ g.op = "push" /\ g.img = f.img /\ g.val = end
    BY <1>1, <1>3 DEF Frames, Ops, Visits, Busy
  <1>5. h \in Frames /\ h.op = "ready" /\ h.img = f.img
    BY <1>1 DEF Frames, Ops, Visits, Busy
  <1>6. Replace(t, g) \/ Replace(t, h)
    BY DEF RecordTermination
  <1> HIDE DEF g, h
  <1>7. FrameOK(g) /\ FrameOK(h)
    BY <1>1, <1>4, <1>5 DEF FrameOK
  <1>8. Above(t, n - 1) /\ Exact(t, n - 1) /\ Len(stack'[t]) = n /\ stack'[t][n] \in {g, h}
    BY <1>0, <1>4, <1>5, <1>6, Replaced
  <1>9. f.op \in Busy \ {"running"} /\ g.op \in Busy \ {"running"} /\ h.op \in Busy \ {"running"} /\ h.op # "push"
    BY <1>0, <1>4, <1>5 DEF Busy
  <1> QED
    BY <1>0, <1>1, <1>2, <1>3, <1>4, <1>5, <1>7, <1>8, <1>9, GoOnVisit

\* A push_back() writes within the list's memory or just behind it.
LEMMA PushBackInv ==
    ASSUME Inv, NEW t \in Threads, PushBack(t)
    PROVE  Inv'
  <1> DEFINE f == Top(t)
             g == [f EXCEPT !.op = "ready", !.val = 0]
  <1>0. stack[t] # <<>> /\ f.op = "push" /\ Types
    BY DEF PushBack, At, Inv
  <1> PICK n \in Nat : n = Len(stack[t])
    BY <1>0, TopFrame
  <1>1. /\ n > 0 /\ f = stack[t][n] /\ FrameOK(f) /\ f \in Frames /\ f.img \in Images
    BY <1>0, TopFrame DEF FrameOK
  <1>2. UNCHANGED <<all, count, marked, refs, glock, gcVars, handles, opens, state, ilock, inits, depth>>
    BY DEF PushBack, imageVars, history
  <1>3. f.val \in Nat /\ f.val <= Len(cells) /\ Len(cells) \in Nat /\ cells \in Seq(Images)
    <2>1. n \in 1..Len(stack[t])
      BY <1>1
    <2>2. f.val <= Len(cells)
      BY <1>0, <1>1, <2>1 DEF Types, StackTypes, Op
    <2> QED
      BY <1>0, <1>1, <2>2 DEF Frames, Types, DataTypes
  <1>4. cells' \in Seq(Images) /\ end' \in 0..Len(cells') /\ Len(cells') \in Nat /\ Len(cells) <= Len(cells')
    <2>1. cells' = (IF f.val + 1 <= Len(cells) THEN [cells EXCEPT ![f.val + 1] = f.img] ELSE Append(cells, f.img))
          /\ end' = f.val + 1
      BY DEF PushBack
    <2>2. CASE f.val + 1 <= Len(cells)
      <3>1. cells' = [cells EXCEPT ![f.val + 1] = f.img] /\ f.val + 1 \in 1..Len(cells)
        BY <1>3, <2>1, <2>2
      <3>2. cells' \in Seq(Images) /\ Len(cells') = Len(cells)
        BY <1>1, <1>3, <3>1, ExceptSeq
      <3> QED
        BY <1>3, <2>1, <2>2, <3>2
    <2>3. CASE ~(f.val + 1 <= Len(cells))
      <3>1. cells' \in Seq(Images) /\ Len(cells') = Len(cells) + 1
        BY <1>1, <1>3, <2>1, <2>3, AppendProperties
      <3> QED
        BY <1>3, <2>1, <2>3, <3>1
    <2> QED
      BY <2>2, <2>3
  <1>5. DataTypes'
    BY <1>0, <1>2, <1>4 DEF Types, DataTypes
  <1>6. g \in Frames /\ g.op = "ready" /\ g.img = f.img
    BY <1>1 DEF Frames, Ops, Visits, Busy
  <1>7. Replace(t, g)
    BY DEF PushBack
  <1> HIDE DEF g
  <1>8. FrameOK(g)
    BY <1>1, <1>6 DEF FrameOK
  <1>9. Above(t, n - 1) /\ Exact(t, n - 1) /\ Len(stack'[t]) = n /\ stack'[t][n] = g
    BY <1>0, <1>6, <1>7, Replaced
  <1>10. f.op \in Busy \ {"running"} /\ g.op \in Busy \ {"running"} /\ g.op # "push"
    BY <1>0, <1>6 DEF Busy
  <1> QED
    BY <1>0, <1>1, <1>2, <1>4, <1>5, <1>6, <1>8, <1>9, <1>10, GoOnVisit

\* An upward link is put off to the processInitializers() it was met in.
LEMMA NextLibraryInv ==
    ASSUME Inv, NEW t \in Threads, NextLibrary(t)
    PROVE  Inv'
  <1> DEFINE f == Top(t)
             l == Head(f.todo)
             P == {m \in DOMAIN stack[t] : stack[t][m].op = "process"}
             p == Max(P)
             g == [f EXCEPT !.todo = Tail(f.todo)]
             h == [f EXCEPT !.op = "compare", !.val = depth[l.img]]
  <1>0. stack[t] # <<>> /\ f.op = "deps" /\ Types /\ f.todo # <<>>
    BY DEF NextLibrary, At, Inv
  <1> PICK n \in Nat : n = Len(stack[t])
    BY <1>0, TopFrame
  <1>1. /\ n > 0 /\ f = stack[t][n] /\ FrameOK(f) /\ f \in Frames /\ f.img \in Images /\ n \in 1..n
        /\ stack[t] \in Seq(Frames) /\ DOMAIN stack = Threads /\ DOMAIN stack[t] = 1..n
    BY <1>0, TopFrame, StackType DEF FrameOK
  <1>2. UNCHANGED <<all, count, marked, refs, glock, gcVars, handles, opens, state, ilock, inits, depth, cells, end>>
    BY DEF NextLibrary, imageVars, termVars, history
  <1>3. DataTypes' /\ Len(cells) \in Nat
    BY <1>0, <1>2, DataKept, CellsLen DEF Types
  <1>4. /\ f.todo \in Seq(Todo)
        /\ \A k \in 1..Len(f.todo) : f.todo[k] \in Range(Libs[f.img])
    BY <1>0, <1>1 DEF FrameOK, Frames
  <1>5. l = f.todo[1] /\ 1 \in 1..Len(f.todo) /\ l \in Range(Libs[f.img])
    BY <1>0, <1>4, TailOf
  <1>6. FrameOK(g) /\ g \in Frames /\ g.op = "deps" /\ g.img = f.img
    BY <1>0, <1>1, TodoTail
  <1>7. CASE l.img \notin Images /\ stack' = [stack EXCEPT ![t][Len(stack[t])].todo = Tail(@)]
    <2>1. stack' = [stack EXCEPT ![t] = [stack[t] EXCEPT ![n] = g]]
      BY <1>1, <1>7
    <2> HIDE DEF g
    <2>2. /\ stack'[t] = [stack[t] EXCEPT ![n] = g] /\ DOMAIN stack' = Threads
          /\ \A u \in Threads : u # t => stack'[u] = stack[u]
      BY <1>1, <2>1
    <2>3. stack'[t] \in Seq(Frames) /\ Len(stack'[t]) = n /\ \A m \in 1..n : stack'[t][m] = IF m = n THEN g ELSE stack[t][m]
      BY <1>1, <1>6, <2>2, ExceptSeq
    <2>4. Above(t, n - 1) /\ Exact(t, n - 1) /\ stack'[t][n] = g
      BY <1>1, <2>2, <2>3 DEF Above, Exact
    <2>5. f.op \in Busy \ {"running"} /\ g.op \in Busy \ {"running"} /\ g.op # "push"
      BY <1>0, <1>6 DEF Busy
    <2> HIDE DEF f
    <2> QED
      BY <1>1, <1>2, <1>3, <1>6, <2>3, <2>4, <2>5, GoOnVisit DEF f
  <1>8. CASE /\ l.img \in Images
             /\ stack' = [stack EXCEPT ![t][Len(stack[t])].op = "compare", ![t][Len(stack[t])].val = depth[l.img]]
    <2>0. depth[l.img] \in Nat
      <3>1. DepthLimit \in Nat /\ DepthLimit > 0
        BY DEF DepthLimit
      <3>2. depth[l.img] \in 0..(DepthLimit - 1)
        BY <1>0, <1>8 DEF Types, DataTypes
      <3> QED
        BY <3>1, <3>2
    <2>1. stack' = [stack EXCEPT ![t] = [stack[t] EXCEPT ![n] = h]]
      BY <1>1, <1>8
    <2>2. h \in Frames /\ h.op = "compare" /\ h.img = f.img /\ h.todo = f.todo
      BY <1>1, <2>0 DEF Frames, Ops, Visits, Busy
    <2> HIDE DEF h
    <2>3. FrameOK(h)
      BY <1>0, <1>1, <1>4, <1>8, <2>2 DEF FrameOK
    <2>4. /\ stack'[t] = [stack[t] EXCEPT ![n] = h] /\ DOMAIN stack' = Threads
          /\ \A u \in Threads : u # t => stack'[u] = stack[u]
      BY <1>1, <2>1
    <2>5. stack'[t] \in Seq(Frames) /\ Len(stack'[t]) = n /\ \A m \in 1..n : stack'[t][m] = IF m = n THEN h ELSE stack[t][m]
      BY <1>1, <2>2, <2>4, ExceptSeq
    <2>6. Above(t, n - 1) /\ Exact(t, n - 1) /\ stack'[t][n] = h
      BY <1>1, <2>4, <2>5 DEF Above, Exact
    <2>7. f.op \in Busy \ {"running"} /\ h.op \in Busy \ {"running"} /\ h.op # "push"
      BY <1>0, <2>2 DEF Busy
    <2> HIDE DEF f
    <2> QED
      BY <1>1, <1>2, <1>3, <2>2, <2>3, <2>5, <2>6, <2>7, GoOnVisit DEF f
  <1>9. CASE /\ l.img \in Images
             /\ stack' = [stack EXCEPT ![t][Len(stack[t])].todo = Tail(@), ![t][p].ups = Append(@, l.img)]
    <2>1. PICK q \in 1..(n - 1) : /\ Op(t, q) = "process" /\ Img(t, n) \in Tree(Img(t, q))
                                  /\ \A m \in (q + 1)..n : Op(t, m) # "process"
      <3>1. ShapeAt(t, n) /\ Op(t, n) \in Visits
        BY <1>0, <1>1 DEF Inv, Shape, Op, Visits, Busy
      <3> QED
        BY <3>1 DEF ShapeAt
    <2>2. p = q /\ p # n /\ p \in 1..n
      <3>1. P \in SUBSET (1..n) /\ q \in P
        BY <1>1, <2>1 DEF Op
      <3>2. p \in P /\ q <= p
        BY <3>1, LastPlace
      <3>3. p \in 1..n /\ p \notin (q + 1)..n
        BY <2>1, <3>1, <3>2 DEF Op
      <3> QED
        BY <3>2, <3>3
    <2> DEFINE e == stack[t][p]
               d == [e EXCEPT !.ups = Append(e.ups, l.img)]
    <2> HIDE DEF p
    <2>3. stack' = [stack EXCEPT ![t] = [[stack[t] EXCEPT ![n] = g] EXCEPT ![p] = d]]
      BY <1>1, <1>9, <2>2
    <2>4. e \in Frames /\ FrameOK(e) /\ e.op = "process" /\ e.ups \in Seq(Images)
      BY <1>0, <1>1, <2>1, <2>2, StackType DEF Op, Frames
    <2>5. l.img \in Tree(e.img)
      <3>1. l.img \in LibImages[f.img]
        BY <1>1, <1>5, <1>9, LibrariesOf
      <3>2. e.img \in Images /\ f.img \in Tree(e.img)
        BY <1>1, <2>1, <2>2, <2>4 DEF FrameOK, Img
      <3> QED
        BY <3>1, <3>2, TreeFacts
    <2>6. d \in Frames /\ d.op = "process" /\ d.img = e.img /\ d.todo = e.todo /\ d.ups = Append(e.ups, l.img)
      <3>1. Append(e.ups, l.img) \in Seq(Images)
        BY <1>9, <2>4
      <3> QED
        BY <2>4, <3>1 DEF Frames
    <2>7. FrameOK(d)
      <3>1. \A k \in 1..Len(e.ups) : e.ups[k] \in Tree(e.img)
        BY <2>4 DEF FrameOK
      <3> HIDE DEF d, e
      <3>2. \A k \in 1..Len(Append(e.ups, l.img)) : Append(e.ups, l.img)[k] \in Tree(e.img)
        BY <1>9, <2>4, <2>5, <3>1
      <3> QED
        BY <2>4, <2>6, <3>2 DEF FrameOK
    <2> HIDE DEF g, d
    <2>8. /\ stack'[t] = [[stack[t] EXCEPT ![n] = g] EXCEPT ![p] = d] /\ DOMAIN stack' = Threads
          /\ \A u \in Threads : u # t => stack'[u] = stack[u]
      BY <1>1, <2>3
    <2>9. /\ [stack[t] EXCEPT ![n] = g] \in Seq(Frames) /\ Len([stack[t] EXCEPT ![n] = g]) = n
          /\ \A m \in 1..n : [stack[t] EXCEPT ![n] = g][m] = IF m = n THEN g ELSE stack[t][m]
      BY <1>1, <1>6, ExceptSeq
    <2>10. /\ stack'[t] \in Seq(Frames) /\ Len(stack'[t]) = n
           /\ \A m \in 1..n : stack'[t][m] = IF m = p THEN d ELSE IF m = n THEN g ELSE stack[t][m]
      BY <2>2, <2>6, <2>8, <2>9, ExceptSeq
    <2>11. Above(t, n)
      BY <1>0, <1>1, <1>6, <2>2, <2>4, <2>6, <2>8, <2>10 DEF Above
    <2>12. StackTypes'
      <3>1. ASSUME NEW u \in Threads, NEW m \in 1..Len(stack'[u])
            PROVE  FrameOK(stack'[u][m]) /\ (stack'[u][m].op = "push" => stack'[u][m].val <= Len(cells'))
        <4>1. CASE u # t \/ (m # n /\ m # p)
          <5>1. stack'[u][m] = stack[u][m] /\ m \in 1..Len(stack[u])
            BY <2>8, <2>10, <4>1
          <5> QED
            BY <1>0, <1>2, <5>1 DEF Types, StackTypes, Op
        <4>2. CASE u = t /\ m \in {n, p}
          <5>1. stack'[u][m] \in {g, d}
            BY <2>2, <2>10, <4>2
          <5> QED
            BY <1>6, <2>6, <2>7, <5>1
        <4> QED
          BY <4>1, <4>2
      <3>2. \A u \in Threads : stack'[u] \in Seq(Frames)
        BY <1>0, <2>8, <2>10, StackType
      <3> QED
        BY <2>8, <3>1, <3>2 DEF StackTypes, Op
    <2> QED
      BY <1>0, <1>1, <1>2, <1>3, <2>10, <2>11, <2>12, QuietSame DEF Linking
  <1> QED
    BY <1>7, <1>8, <1>9 DEF NextLibrary

\* An image is initialized at one place.
LEMMA OnePlace ==
    ASSUME Types, Visiting, NEW t \in Threads, NEW n, Has(t, n, Busy), NEW u \in Threads, NEW m, Has(u, m, Busy),
           stack[t][n].img = stack[u][m].img
    PROVE  u = t /\ m = n
  <1>1. /\ n \in 1..Len(stack[t]) /\ Op(t, n) \in Busy /\ m \in 1..Len(stack[u]) /\ Op(u, m) \in Busy
        /\ Img(t, n) = Img(u, m)
    BY DEF Has, Op, Img
  <1>2. ilock[Img(t, n)] = [owner |-> t, held |-> 1] /\ ilock[Img(t, n)] = [owner |-> u, held |-> 1]
    BY <1>1 DEF Visiting
  <1>3. u = t
    BY <1>2
  <1> QED
    BY <1>1, <1>3 DEF Visiting

\* The initialization of image i begins, goes on or ends at place n of a stack.
LEMMA VisitingMoved ==
    ASSUME Types, Visiting, NEW t \in Threads, NEW n \in Nat, NEW i \in Images,
           \A u \in Threads : \A m \in Nat : (u # t \/ m # n) =>
              /\ Has(u, m, Busy)' <=> Has(u, m, Busy)
              /\ Has(u, m, Busy) => /\ stack'[u][m].img = stack[u][m].img /\ stack[u][m].img # i
                                    /\ stack'[u][m].op = "running" <=> stack[u][m].op = "running",
           Has(t, n, Busy) => stack[t][n].img = i,
           DOMAIN ilock' = Images,
           \A j \in Images : j # i => state'[j] = state[j] /\ ilock'[j] = ilock[j],
           \/ /\ Has(t, n, Busy)' /\ stack'[t][n].img = i /\ ilock'[i] = [owner |-> t, held |-> 1]
              /\ state'[i] = IF stack'[t][n].op = "running" THEN DependentsInited ELSE Initializing
           \/ ~Has(t, n, Busy)' /\ ilock'[i] = Free
    PROVE  Visiting'
  <1>1. ASSUME NEW u \in Threads, NEW m, Has(u, m, Busy)
        PROVE  stack[u][m].img \in Images /\ m \in Nat
    <2>1. m \in 1..Len(stack[u]) /\ stack[u][m].op \in Busy /\ FrameOK(stack[u][m]) /\ m \in Nat
      BY <1>1, StackType DEF Has
    <2> QED
      BY <2>1 DEF FrameOK, Busy
  <1>2. ASSUME NEW u \in Threads, NEW m \in 1..Len(stack'[u]), Op(u, m)' \in Busy
        PROVE  /\ state'[Img(u, m)'] = IF Op(u, m)' = "running" THEN DependentsInited ELSE Initializing
               /\ ilock'[Img(u, m)'] = [owner |-> u, held |-> 1]
    <2>1. Has(u, m, Busy)' /\ m \in Nat
      BY <1>2 DEF Has, Op
    <2>2. CASE u = t /\ m = n
      BY <2>1, <2>2 DEF Op, Img
    <2>3. CASE u # t \/ m # n
      <3>1. /\ Has(u, m, Busy) /\ stack'[u][m].img = stack[u][m].img /\ stack[u][m].img # i
            /\ (stack'[u][m].op = "running" <=> stack[u][m].op = "running") /\ stack[u][m].img \in Images
        BY <1>1, <2>1, <2>3
      <3>2. m \in 1..Len(stack[u]) /\ Op(u, m) \in Busy
        BY <3>1 DEF Has, Op
      <3>3. /\ state[Img(u, m)] = IF Op(u, m) = "running" THEN DependentsInited ELSE Initializing
            /\ ilock[Img(u, m)] = [owner |-> u, held |-> 1]
        BY <3>2 DEF Visiting
      <3> QED
        BY <3>1, <3>3 DEF Op, Img
    <2> QED
      BY <2>2, <2>3
  <1>3. ASSUME NEW u \in Threads, NEW m \in 1..Len(stack'[u]), NEW l \in 1..Len(stack'[u]),
               Op(u, m)' \in Busy, Op(u, l)' \in Busy, Img(u, m)' = Img(u, l)'
        PROVE  m = l
    <2>1. Has(u, m, Busy)' /\ Has(u, l, Busy)' /\ m \in Nat /\ l \in Nat /\ stack'[u][m].img = stack'[u][l].img
      BY <1>3 DEF Has, Op, Img
    <2>2. CASE u = t /\ m = n
      BY <2>1, <2>2
    <2>3. CASE u = t /\ l = n
      BY <2>1, <2>3
    <2>4. CASE (u # t \/ m # n) /\ (u # t \/ l # n)
      <3>1. Has(u, m, Busy) /\ Has(u, l, Busy) /\ stack[u][m].img = stack[u][l].img
        BY <2>1, <2>4
      <3> QED
        BY <3>1, OnePlace
    <2> QED
      BY <2>2, <2>3, <2>4
  <1>4. ASSUME NEW j \in Images, ilock'[j] # Free
        PROVE  \E u \in Threads : \E m \in 1..Len(stack'[u]) : Op(u, m)' \in Busy /\ Img(u, m)' = j
    <2>1. CASE j = i
      <3>1. Has(t, n, Busy)' /\ stack'[t][n].img = i
        BY <1>4, <2>1
      <3> QED
        BY <2>1, <3>1 DEF Has, Op, Img
    <2>2. CASE j # i
      <3>1. PICK u \in Threads : \E m \in 1..Len(stack[u]) : Op(u, m) \in Busy /\ Img(u, m) = j
        BY <1>4, <2>2 DEF Visiting
      <3>2. PICK m \in 1..Len(stack[u]) : Op(u, m) \in Busy /\ Img(u, m) = j
        BY <3>1
      <3>3. Has(u, m, Busy) /\ stack[u][m].img = j /\ m \in Nat
        BY <3>2 DEF Has, Op, Img
      <3>4. Has(u, m, Busy)' /\ stack'[u][m].img = j
        BY <2>2, <3>3
      <3> QED
        BY <3>4 DEF Has, Op, Img
    <2> QED
      BY <2>1, <2>2
  <1>5. \A j \in Images :
          \/ ilock'[j] = Free
          \/ \E u \in Threads : \E m \in 1..Len(stack'[u]) : Op(u, m)' \in Busy /\ Img(u, m)' = j
    BY <1>4
  <1>6. Free' = Free
    BY DEF Free
  <1> QED
    BY <1>2, <1>3, <1>5, <1>6 DEF Visiting

\* What is bound stays so when an image's initialization goes on.
LEMMA StatesMoved ==
    ASSUME Inv, NEW i \in Core, NEW v \in 3..6, state' = [state EXCEPT ![i] = v],
           Core' = Core, Loaded' = Loaded, UNCHANGED <<all, refs, handles>>,
           \A j \in Images : inits'[j] <= 1 /\ (state'[j] < DependentsInited => inits'[j] = 0)
    PROVE  States'
  <1>1. i \in Images /\ i \in Loaded /\ state \in [Images -> 0..6]
    BY LoadedImages DEF Core, Inv, Types, DataTypes
  <1>2. \A j \in Images : (state'[j] = Absent) <=> (j \notin Loaded)
    BY <1>1 DEF Inv, States, Absent
  <1> QED
    BY <1>2 DEF Inv, States

\* An image that needs initialization is locked by nobody: it becomes this thread's.
LEMMA EnterImageInv ==
    ASSUME Inv, NEW t \in Threads, EnterImage(t)
    PROVE  Inv'
  <1> DEFINE f == Top(t)
             i == f.img
             g == Frame("deps", i, Libs[i])
  <1>0. stack[t] # <<>> /\ f.op = "enter" /\ Types
    BY DEF EnterImage, At, Inv
  <1> PICK n \in Nat : n = Len(stack[t])
    BY <1>0, TopFrame
  <1>1. /\ n > 0 /\ f = stack[t][n] /\ FrameOK(f) /\ f \in Frames /\ i \in Images /\ n \in 1..n
        /\ Op(t, n) = "enter" /\ Img(t, n) = i
    BY <1>0, TopFrame DEF FrameOK, Op, Img
  <1>2. UNCHANGED <<all, count, marked, refs, glock, gcVars, handles, opens, inits, depth, cells, end>>
    BY DEF EnterImage, termVars
  <1>3. Len(cells) \in Nat /\ DataTypes
    BY <1>0, CellsLen DEF Types
  <1>4. i \in Core /\ i \in Kept
    BY <1>1, VisitsKept DEF Visits
  <1>5. \A m \in n..Len(stack[t]) : m = n
    BY <1>1
  <1>6. CASE NeedsInit(i)
    <2>1. /\ ilock' = [ilock EXCEPT ![i] = [owner |-> t, held |-> ilock[i].held + 1]]
          /\ state' = [state EXCEPT ![i] = Initializing]
          /\ Replace(t, g)
      BY <1>6 DEF EnterImage
    <2>2. state[i] = 3 /\ state \in [Images -> 0..6] /\ Initializing = 4
      <3>1. state \in [Images -> 0..6]
        BY <1>3 DEF DataTypes
      <3>2. state[i] \in 0..6 /\ state[i] >= 3 /\ state[i] < 4
        BY <1>1, <1>4, <1>6, <3>1 DEF NeedsInit, Initializing, Core, Bound
      <3> QED
        BY <3>1, <3>2 DEF Initializing
    <2>3. DataTypes'
      <3>1. state' \in [Images -> 0..6]
        BY <1>1, <2>1, <2>2
      <3> QED
        BY <1>2, <1>3, <3>1 DEF DataTypes
    <2>4. ASSUME NEW u \in Threads, NEW m, Has(u, m, Busy) PROVE stack[u][m].img # i
      <3>1. m \in 1..Len(stack[u]) /\ Op(u, m) \in Busy
        BY <2>4 DEF Has, Op
      <3>2. state[Img(u, m)] = IF Op(u, m) = "running" THEN DependentsInited ELSE Initializing
        BY <3>1 DEF Inv, Visiting
      <3> QED
        BY <2>2, <3>2 DEF Img, DependentsInited
    <2>5. ilock[i] = Free
      <3> SUFFICES ASSUME ilock[i] # Free PROVE FALSE
        OBVIOUS
      <3>1. PICK u \in Threads : \E m \in 1..Len(stack[u]) : Op(u, m) \in Busy /\ Img(u, m) = i
        BY <1>1 DEF Inv, Visiting
      <3>2. PICK m \in 1..Len(stack[u]) : Op(u, m) \in Busy /\ Img(u, m) = i
        BY <3>1
      <3> QED
        BY <2>4, <3>2 DEF Has, Op, Img
    <2>6. ilock'[i] = [owner |-> t, held |-> 1] /\ DOMAIN ilock' = Images
      <3>1. DOMAIN ilock = Images /\ ilock[i].held = 0
        BY <2>5 DEF Inv, Visiting, Free
      <3> QED
        BY <1>1, <2>1, <3>1
    <2>7. FrameOK(g) /\ g \in Frames /\ g.op = "deps" /\ g.img = i
      <3>1. Libs[i] \in Seq(Range(Libs[i])) /\ Range(Libs[i]) \subseteq Todo
        BY <1>1, Dyld2Assumption DEF Todo
      <3>2. Libs[i] \in Seq(Todo) /\ \A k \in 1..Len(Libs[i]) : Libs[i][k] \in Range(Libs[i])
        BY <3>1, SeqMonotonic
      <3>3. g \in Frames /\ g.op = "deps" /\ g.img = i /\ g.todo = Libs[i]
        <4>1. <<>> \in Seq(Images) /\ "deps" \in Ops
          BY DEF Ops, Visits, Busy
        <4> QED
          BY <1>1, <3>2, <4>1 DEF Frame, Frames
      <3> HIDE DEF g
      <3> QED
        BY <1>1, <3>2, <3>3 DEF FrameOK
    <2> HIDE DEF g
    <2>8. Above(t, n - 1) /\ Exact(t, n - 1) /\ Len(stack'[t]) = n /\ stack'[t][n] = g
      BY <1>0, <2>1, <2>7, Replaced
    <2>9. (\A m \in ((n - 1) + 1)..Len(stack'[t]) : m = n /\ stack'[t][m] = g) /\ (n - 1) + 1 = n
      BY <1>1, <2>8
    <2>10. StackTypes'
      BY <1>0, <1>2, <1>3, <2>7, <2>8, <2>9, StackTypesKept
    <2>11. Op(t, n)' = "deps" /\ Img(t, n)' = i
      BY <2>7, <2>8 DEF Op, Img
    <2>12. Shape'
      <3>1. ShapeAt(t, n)'
        <4>1. "deps" \in Visits \ {"init"} /\ "enter" \in Visits \ {"init"}
          BY DEF Visits, Busy
        <4> QED
          BY <1>1, <2>8, <2>9, <2>11, <4>1, SameShape
      <3> QED
        BY <1>0, <1>1, <2>8, <2>9, <3>1, ShapeKept DEF Inv
    <2>13. /\ Locks' /\ OneGC' /\ Linked' /\ Marks' /\ Counts' /\ Core' = Core /\ Loaded' = Loaded
      <3>1. \A m \in ((n - 1) + 1)..Len(stack[t]) : Op(t, m) \in Visits
        BY <1>1, <1>5, <2>9 DEF Visits
      <3>2. \A m \in ((n - 1) + 1)..Len(stack'[t]) : Op(t, m)' \in Visits
        BY <2>9, <2>11 DEF Visits, Busy
      <3>3. \A j \in Images : state'[j] # state[j] => state[j] >= Bound /\ state'[j] >= Bound
        BY <2>1, <2>2 DEF Bound
      <3> QED
        BY <1>0, <1>2, <2>3, <2>8, <2>10, <3>1, <3>2, <3>3, VisitStep DEF Linking
    <2>14. States'
      <3>1. \A j \in Images : inits'[j] <= 1 /\ (state'[j] < DependentsInited => inits'[j] = 0)
        <4>1. \A j \in Images : inits[j] <= 1 /\ (state[j] < 5 => inits[j] = 0)
          BY DEF Inv, States, DependentsInited
        <4> QED
          BY <1>1, <1>2, <2>1, <2>2, <4>1 DEF DependentsInited
      <3> QED
        <4>1. Initializing \in 3..6
          BY <2>2
        <4> QED
          BY <1>2, <1>4, <2>1, <2>13, <3>1, <4>1, StatesMoved
    <2>15. Visiting'
      <3>1. ASSUME NEW u \in Threads, NEW m \in Nat, u # t \/ m # n
            PROVE  /\ Has(u, m, Busy)' <=> Has(u, m, Busy)
                   /\ Has(u, m, Busy) => stack'[u][m] = stack[u][m]
        <4>1. CASE u # t
          BY <2>8, <4>1 DEF Above, Has
        <4>2. CASE u = t /\ m # n
          BY <1>1, <2>8, <4>2 DEF Above, Exact, Has
        <4> QED
          BY <3>1, <4>1, <4>2
      <3>2. Has(t, n, Busy)' /\ stack'[t][n].img = i /\ ~Has(t, n, Busy) /\ stack'[t][n].op # "running"
        BY <1>1, <2>7, <2>8 DEF Has, Busy, Op
      <3>3. \A j \in Images : j # i => state'[j] = state[j] /\ ilock'[j] = ilock[j]
        <4>1. DOMAIN ilock = Images
          BY DEF Inv, Visiting
        <4> QED
          BY <2>1, <2>2, <4>1
      <3>4. state'[i] = Initializing
        BY <1>1, <2>1, <2>2
      <3> HIDE DEF f, i
      <3> QED
        BY <1>0, <1>1, <2>4, <2>6, <3>1, <3>2, <3>3, <3>4, VisitingMoved DEF Inv
    <2> QED
      BY <1>2, <2>3, <2>10, <2>12, <2>13, <2>14, <2>15 DEF Inv, Types, Flags, gcVars
  <1>7. CASE ~NeedsInit(i)
    <2>1. Return(t) /\ ilock' = ilock /\ state' = state
      BY <1>7 DEF EnterImage
    <2>2. DataTypes'
      BY <1>2, <1>3, <2>1, DataKept
    <2>3. Above(t, n - 1) /\ Exact(t, n - 1) /\ Len(stack'[t]) = n - 1
      BY <1>0, <2>1, Returned
    <2>4. (\A m \in ((n - 1) + 1)..Len(stack'[t]) : FALSE) /\ (n - 1) + 1 = n
      BY <1>1, <2>3
    <2>5. StackTypes'
      BY <1>0, <1>2, <1>3, <2>3, <2>4, StackTypesKept
    <2>6. Shape'
      BY <1>0, <1>1, <2>3, <2>4, ShapeKept DEF Inv
    <2>7. \A m \in ((n - 1) + 1)..Len(stack[t]) : Op(t, m) = "enter"
      BY <1>1, <1>5, <2>4
    <2>8. Unmoved(Busy) /\ Unmoved({"running"})
      BY <1>0, <2>3, <2>4, <2>7, NothingBusy DEF Busy
    <2>9. \A m \in ((n - 1) + 1)..Len(stack[t]) : Op(t, m) \in Visits
      BY <2>7 DEF Visits
    <2> QED
      BY <1>0, <1>2, <2>1, <2>2, <2>3, <2>4, <2>5, <2>6, <2>8, <2>9, QuietVisit DEF Linking
  <1> QED
    BY <1>6, <1>7

\* Initializers start on an image whose initializers were not started.
LEMMA RunInitializersInv ==
    ASSUME Inv, NEW t \in Threads, RunInitializers(t)
    PROVE  Inv'
  <1> DEFINE f == Top(t)
             i == f.img
             g == [f EXCEPT !.op = "running"]
             h == Frame("init", i, <<>>)
  <1>0. stack[t] # <<>> /\ f.op = "ready" /\ Types
    BY DEF RunInitializers, At, Inv
  <1> PICK n \in Nat : n = Len(stack[t])
    BY <1>0, TopFrame
  <1>1. /\ n > 0 /\ f = stack[t][n] /\ FrameOK(f) /\ f \in Frames /\ i \in Images /\ n \in 1..n
        /\ Op(t, n) = "ready" /\ Img(t, n) = i /\ Has(t, n, Busy)
    BY <1>0, TopFrame DEF FrameOK, Op, Img, Has, Busy
  <1>2. UNCHANGED <<all, count, marked, refs, glock, gcVars, handles, opens, ilock, depth, cells, end>>
    BY DEF RunInitializers, termVars
  <1>3. Len(cells) \in Nat /\ DataTypes
    BY <1>0, CellsLen DEF Types
  <1>4. i \in Core
    BY <1>1, VisitsKept DEF Visits, Busy
  <1>5. \A m \in n..Len(stack[t]) : m = n
    BY <1>1
  <1>6. /\ state' = [state EXCEPT ![i] = DependentsInited]
        /\ inits' = [inits EXCEPT ![i] = inits[i] + 1]
        /\ ReplaceAndCall(t, g, h)
    BY DEF RunInitializers
  <1>7. /\ state \in [Images -> 0..6] /\ inits \in [Images -> Nat] /\ DependentsInited = 5
        /\ state[i] = 4 /\ ilock[i] = [owner |-> t, held |-> 1]
    <2>1. state \in [Images -> 0..6] /\ inits \in [Images -> Nat]
      BY <1>3 DEF DataTypes
    <2>2. state[i] = Initializing /\ ilock[i] = [owner |-> t, held |-> 1]
      BY <1>1 DEF Inv, Visiting, Busy
    <2> QED
      BY <2>1, <2>2 DEF DependentsInited, Initializing
  <1>8. DataTypes'
    <2>1. state' \in [Images -> 0..6] /\ inits' \in [Images -> Nat]
      BY <1>1, <1>6, <1>7
    <2> QED
      BY <1>2, <1>3, <2>1 DEF DataTypes
  <1>9. g \in Frames /\ g.op = "running" /\ g.img = i
    BY <1>1 DEF Frames, Ops, Visits, Busy
  <1>10. h \in Frames /\ h.op = "init" /\ h.img = i /\ FrameOK(h)
    BY <1>1, FrameIs DEF Ops, Visits
  <1> HIDE DEF g, h
  <1>11. FrameOK(g)
    BY <1>1, <1>9 DEF FrameOK
  <1>12. /\ Above(t, n - 1) /\ Exact(t, n - 1) /\ Len(stack'[t]) = n + 1
         /\ stack'[t][n] = g /\ stack'[t][n + 1] = h
    BY <1>0, <1>6, <1>9, <1>10, ReplacedAndCalled
  <1>13. /\ \A m \in ((n - 1) + 1)..Len(stack'[t]) : m = n \/ m = n + 1
         /\ (n - 1) + 1 = n /\ n \in 1..Len(stack'[t]) /\ n + 1 \in 1..Len(stack'[t])
    BY <1>1, <1>12
  <1>14. StackTypes'
    <2>1. \A m \in ((n - 1) + 1)..Len(stack'[t]) : FrameOK(stack'[t][m]) /\ stack'[t][m].op # "push"
      BY <1>9, <1>10, <1>11, <1>12, <1>13
    <2> QED
      BY <1>0, <1>2, <1>3, <1>12, <2>1, StackTypesKept
  <1>15. Op(t, n)' = "running" /\ Img(t, n)' = i /\ Op(t, n + 1)' = "init" /\ Img(t, n + 1)' = i
    BY <1>9, <1>10, <1>12 DEF Op, Img
  <1>16. Shape'
    <2>1. ShapeAt(t, n)'
      <3>1. "ready" \in Visits \ {"init"} /\ "running" \in Visits \ {"init"}
        BY DEF Visits, Busy
      <3> QED
        BY <1>1, <1>12, <1>13, <1>15, <3>1, SameShape
    <2>2. ShapeAt(t, n + 1)'
      <3>1. /\ Op(t, n)' \notin Locked /\ \A m \in 1..(n - 1) : Op(t, m)' \notin Locked
        <4>1. \A m \in 1..(n - 1) : Op(t, m)' \in Locked => Op(t, n)' \in Locked
          BY <2>1 DEF ShapeAt
        <4> QED
          BY <1>15, <4>1 DEF Locked, LockOps
      <3>2. PICK p \in 1..(n - 1) : /\ Op(t, p)' = "process" /\ i \in Tree(Img(t, p)')
                                    /\ \A m \in (p + 1)..n : Op(t, m)' # "process"
        BY <1>15, <2>1 DEF ShapeAt, Visits, Busy
      <3>3. (\A m \in 1..((n + 1) - 1) : m = n \/ m \in 1..(n - 1)) /\ n + 1 > 1 /\ (n + 1) - 1 = n
        BY <1>1
      <3>4. p \in 1..((n + 1) - 1) /\ \A m \in (p + 1)..(n + 1) : m = n + 1 \/ m \in (p + 1)..n
        BY <1>1
      <3>5. \A m \in (p + 1)..(n + 1) : Op(t, m)' # "process"
        BY <1>15, <3>2, <3>4
      <3>6. Op(t, n + 1)' \notin Linking /\ Op(t, n + 1)' # "gc"
        BY <1>15 DEF Linking
      <3>7. \A m \in 1..((n + 1) - 1) : Op(t, m)' \notin Locked
        BY <3>1, <3>3
      <3> QED
        BY <1>15, <3>2, <3>3, <3>4, <3>5, <3>6, <3>7 DEF ShapeAt
    <2>3. \A m \in ((n - 1) + 1)..Len(stack'[t]) : ShapeAt(t, m)'
      BY <1>13, <2>1, <2>2
    <2> QED
      BY <1>0, <1>1, <1>12, <2>3, ShapeKept DEF Inv
  <1>17. /\ Locks' /\ OneGC' /\ Linked' /\ Marks' /\ Counts' /\ Core' = Core /\ Loaded' = Loaded
    <2>1. \A m \in ((n - 1) + 1)..Len(stack[t]) : Op(t, m) \in Visits
      BY <1>1, <1>5, <1>13 DEF Visits, Busy
    <2>2. \A m \in ((n - 1) + 1)..Len(stack'[t]) : Op(t, m)' \in Visits
      BY <1>13, <1>15 DEF Visits, Busy
    <2>3. \A j \in Images : state'[j] # state[j] => state[j] >= Bound /\ state'[j] >= Bound
      BY <1>6, <1>7 DEF Bound
    <2> QED
      BY <1>0, <1>2, <1>8, <1>12, <1>14, <2>1, <2>2, <2>3, VisitStep DEF Linking
  <1>18. States'
    <2>1. \A j \in Images : inits[j] <= 1 /\ (state[j] < 5 => inits[j] = 0)
      BY DEF Inv, States, DependentsInited
    <2>2. \A j \in Images : inits'[j] <= 1 /\ (state'[j] < DependentsInited => inits'[j] = 0)
      BY <1>1, <1>6, <1>7, <2>1
    <2>3. DependentsInited \in 3..6
      BY <1>7
    <2> QED
      BY <1>2, <1>4, <1>6, <1>17, <2>2, <2>3, StatesMoved
  <1>19. Visiting'
    <2>1. ASSUME NEW u \in Threads, NEW m \in Nat, u # t \/ m # n
          PROVE  /\ Has(u, m, Busy)' <=> Has(u, m, Busy)
                 /\ Has(u, m, Busy) => stack'[u][m] = stack[u][m] /\ stack[u][m].img # i
      <3>1. Has(u, m, Busy) => stack[u][m].img # i
        BY <1>0, <1>1, <2>1, OnePlace DEF Inv
      <3>2. CASE u # t
        BY <1>12, <3>1, <3>2 DEF Above, Has
      <3>3. CASE u = t /\ m < n
        BY <1>1, <1>12, <3>1, <3>3 DEF Above, Exact, Has
      <3>4. CASE u = t /\ m > n
        <4>1. ~Has(t, m, Busy)
          BY <3>4 DEF Has
        <4>2. ~Has(t, m, Busy)'
          BY <1>10, <1>12, <3>4 DEF Has, Busy
        <4> QED
          BY <3>4, <4>1, <4>2
      <3> QED
        BY <2>1, <3>2, <3>3, <3>4
    <2>2. Has(t, n, Busy)' /\ stack'[t][n].img = i /\ stack[t][n].img = i /\ stack'[t][n].op = "running"
      BY <1>1, <1>9, <1>12, <1>13 DEF Has, Busy
    <2>3. \A j \in Images : j # i => state'[j] = state[j] /\ ilock'[j] = ilock[j]
      BY <1>2, <1>6, <1>7
    <2>4. state'[i] = DependentsInited /\ ilock'[i] = [owner |-> t, held |-> 1] /\ DOMAIN ilock' = Images
      BY <1>1, <1>2, <1>6, <1>7 DEF Inv, Visiting
    <2> HIDE DEF f, i
    <2> QED
      BY <1>0, <1>1, <2>1, <2>2, <2>3, <2>4, VisitingMoved DEF Inv
  <1> QED
    BY <1>2, <1>8, <1>14, <1>16, <1>17, <1>18, <1>19 DEF Inv, Types, Flags, gcVars

\* The lock of an image is held once, so its initializers' return frees it.
LEMMA InitializersReturnInv ==
    ASSUME Inv, NEW t \in Threads, InitializersReturn(t)
    PROVE  Inv'
  <1> DEFINE f == Top(t)
             i == f.img
  <1>0. stack[t] # <<>> /\ f.op = "init" /\ Types
    BY DEF InitializersReturn, At, Inv
  <1> PICK n \in Nat : n = Len(stack[t])
    BY <1>0, TopFrame
  <1>1. /\ n > 0 /\ f = stack[t][n] /\ FrameOK(f) /\ i \in Images /\ n \in 1..n
        /\ Op(t, n) = "init" /\ Img(t, n) = i /\ stack[t] \in Seq(Frames) /\ DOMAIN stack = Threads
    BY <1>0, TopFrame, StackType DEF FrameOK, Op, Img
  <1>2. n > 1 /\ Op(t, n - 1) = "running" /\ Img(t, n - 1) = i
    BY <1>1 DEF Inv, Shape, ShapeAt
  <1>r. PICK r \in Nat : n = r + 1 /\ r = n - 1
    <2>1. n - 1 \in Nat /\ n = (n - 1) + 1
      BY <1>2
    <2> QED
      BY <2>1
  <1>3. /\ r \in 1..n /\ r \in 1..Len(stack[t]) /\ r > 0 /\ Op(t, r) = "running" /\ Img(t, r) = i
        /\ Has(t, r, Busy) /\ r - 1 \in Nat
    BY <1>2, <1>r DEF Has, Busy, Op, Img
  <1>4. UNCHANGED <<all, count, marked, refs, glock, gcVars, handles, opens, depth, cells, end, inits>>
    BY DEF InitializersReturn, termVars, history
  <1>5. Len(cells) \in Nat /\ DataTypes
    BY <1>0, CellsLen DEF Types
  <1>6. i \in Core
    BY <1>1, VisitsKept DEF Visits
  <1>7. /\ state \in [Images -> 0..6] /\ Initialized = 6
        /\ state[i] = 5 /\ ilock[i] = [owner |-> t, held |-> 1] /\ DOMAIN ilock = Images
    <2>1. state \in [Images -> 0..6]
      BY <1>5 DEF DataTypes
    <2>2. state[i] = DependentsInited /\ ilock[i] = [owner |-> t, held |-> 1] /\ DOMAIN ilock = Images
      <3>1. r \in 1..Len(stack[t]) /\ Op(t, r) \in Busy
        BY <1>3 DEF Busy
      <3> QED
        BY <1>3, <3>1 DEF Inv, Visiting
    <2> QED
      BY <2>1, <2>2 DEF DependentsInited, Initialized
  <1>8. /\ state' = [state EXCEPT ![i] = Initialized]
        /\ ilock' = [ilock EXCEPT ![i] = [owner |-> IF ilock[i].held = 1 THEN None ELSE t,
                                          held |-> ilock[i].held - 1]]
        /\ stack' = [stack EXCEPT ![t] = SubSeq(stack[t], 1, n - 2)]
    BY DEF InitializersReturn
  <1>9. ilock'[i] = Free
    BY <1>1, <1>7, <1>8 DEF Free
  <1>10. DataTypes'
    <2>1. state' \in [Images -> 0..6]
      BY <1>1, <1>7, <1>8
    <2> QED
      BY <1>4, <1>5, <2>1 DEF DataTypes
  <1>11. Above(t, r - 1) /\ Exact(t, r - 1) /\ Len(stack'[t]) = r - 1
    <2> DEFINE s == SubSeq(stack[t], 1, n - 2)
    <2>0. n - 2 = r - 1 /\ \A m \in 1..(r - 1) : m \in 1..Len(stack[t])
      BY <1>3, <1>r
    <2>1. n - 2 = r - 1 /\ \A m \in 1..(r - 1) : stack[t][m] \in Frames
      BY <1>1, <2>0
    <2>2. s \in Seq(Frames) /\ Len(s) = r - 1 /\ \A m \in 1..(r - 1) : s[m] = stack[t][m]
      BY <1>3, <2>1, SubSeqProperties
    <2> HIDE DEF s
    <2>3. DOMAIN stack' = Threads /\ stack'[t] = s /\ \A u \in Threads : u # t => stack'[u] = stack[u]
      BY <1>1, <1>8 DEF s
    <2>4. r - 1 <= Len(stack[t])
      BY <1>r
    <2> QED
      BY <1>1, <1>3, <2>2, <2>3, <2>4 DEF Above, Exact
  <1>12. (\A m \in ((r - 1) + 1)..Len(stack'[t]) : FALSE) /\ \A m \in ((r - 1) + 1)..Len(stack[t]) : m = r \/ m = n
    BY <1>1, <1>3, <1>r, <1>11
  <1>13. StackTypes'
    BY <1>0, <1>4, <1>5, <1>11, <1>12, StackTypesKept
  <1>14. Shape'
    BY <1>0, <1>11, <1>12, ShapeKept DEF Inv
  <1>15. /\ Locks' /\ OneGC' /\ Linked' /\ Marks' /\ Counts' /\ Core' = Core /\ Loaded' = Loaded
    <2>1. \A m \in ((r - 1) + 1)..Len(stack[t]) : Op(t, m) \in Visits
      BY <1>1, <1>3, <1>12 DEF Visits, Busy
    <2>2. \A j \in Images : state'[j] # state[j] => state[j] >= Bound /\ state'[j] >= Bound
      BY <1>7, <1>8 DEF Bound
    <2> QED
      BY <1>0, <1>4, <1>10, <1>11, <1>12, <1>13, <2>1, <2>2, VisitStep DEF Linking
  <1>16. States'
    <2>1. \A j \in Images : inits[j] <= 1 /\ (state[j] < 5 => inits[j] = 0)
      BY DEF Inv, States, DependentsInited
    <2>2. \A j \in Images : inits'[j] <= 1 /\ (state'[j] < DependentsInited => inits'[j] = 0)
      BY <1>1, <1>4, <1>7, <1>8, <2>1 DEF DependentsInited
    <2>3. Initialized \in 3..6
      BY <1>7
    <2> QED
      BY <1>4, <1>6, <1>8, <1>15, <2>2, <2>3, StatesMoved
  <1>17. Visiting'
    <2>1. ASSUME NEW u \in Threads, NEW m \in Nat, u # t \/ m # r
          PROVE  /\ Has(u, m, Busy)' <=> Has(u, m, Busy)
                 /\ Has(u, m, Busy) => stack'[u][m] = stack[u][m] /\ stack[u][m].img # i
      <3>1. Has(u, m, Busy) => stack[u][m].img # i
        BY <1>0, <1>3, <2>1, OnePlace DEF Inv, Img
      <3>2. CASE u # t
        BY <1>11, <3>1, <3>2 DEF Above, Has
      <3>3. CASE u = t /\ m < r
        <4>1. m > 0 => m \in 1..(r - 1) /\ m \in 1..Len(stack[t]) /\ m \in 1..Len(stack'[t])
          BY <1>3, <1>r, <1>11, <3>3
        <4>2. m > 0 => stack'[t][m] = stack[t][m]
          BY <1>11, <4>1 DEF Exact
        <4> QED
          BY <3>1, <3>3, <4>1, <4>2 DEF Has
      <3>4. CASE u = t /\ m > r
        <4>1. ~Has(t, m, Busy)
          BY <1>1, <1>r, <3>4 DEF Has, Busy, Op
        <4>2. ~Has(t, m, Busy)'
          BY <1>11, <3>4 DEF Has
        <4> QED
          BY <3>4, <4>1, <4>2
      <3> QED
        BY <2>1, <3>2, <3>3, <3>4
    <2>2. ~Has(t, r, Busy)' /\ stack[t][r].img = i
      BY <1>3, <1>11 DEF Has, Img
    <2>3. (\A j \in Images : j # i => state'[j] = state[j] /\ ilock'[j] = ilock[j]) /\ DOMAIN ilock' = Images
      BY <1>7, <1>8
    <2> HIDE DEF f, i
    <2> QED
      BY <1>0, <1>1, <1>9, <2>1, <2>2, <2>3, VisitingMoved DEF Inv
  <1> QED
    BY <1>4, <1>10, <1>13, <1>14, <1>15, <1>16, <1>17 DEF Inv, Types, Flags, gcVars

-----------------------------------------------------------------------------
(* References and the lock *)

\* The same places but one.
UnmovedBut(X, t, n) ==
    \A u \in Threads : \A m \in Nat : (u # t \/ m # n) =>
       /\ Has(u, m, X)' <=> Has(u, m, X)
       /\ Has(u, m, X) => stack'[u][m].img = stack[u][m].img

\* Entries of a kind are where they were, but for one place, if those above the k-th are.
LEMMA UnmovedButAbove ==
    ASSUME Types, NEW t \in Threads, NEW k, Above(t, k), NEW n \in Nat, n > k, NEW X,
           \A m \in Nat : m > k /\ m # n => /\ Has(t, m, X)' <=> Has(t, m, X)
                                            /\ Has(t, m, X) => stack'[t][m].img = stack[t][m].img
    PROVE  UnmovedBut(X, t, n)
  <1> SUFFICES ASSUME NEW u \in Threads, NEW m \in Nat, u # t \/ m # n
               PROVE  /\ Has(u, m, X)' <=> Has(u, m, X)
                      /\ Has(u, m, X) => stack'[u][m].img = stack[u][m].img
    BY DEF UnmovedBut
  <1>1. CASE u # t
    BY <1>1 DEF Above, Has
  <1>2. CASE u = t /\ m <= k
    BY <1>2, StackType DEF Above, Has
  <1>3. CASE u = t /\ m > k
    BY <1>3
  <1> QED
    BY <1>1, <1>2, <1>3 DEF Above

\* Calls under way are what they were, but for one place.
LEMMA CallsBut ==
    ASSUME StackTypes, StackTypes', NEW t \in Threads, NEW n \in Nat, UnmovedBut(OpenOps, t, n), NEW i
    PROVE  /\ \A p : p # <<t, n>> => (p \in Calls(i)' <=> p \in Calls(i))
           /\ <<t, n>> \in Calls(i) <=> Has(t, n, OpenOps) /\ stack[t][n].img = i
           /\ <<t, n>> \in Calls(i)' <=> Has(t, n, OpenOps)' /\ stack'[t][n].img = i
  <1>1. CallsAreOpen /\ CallsAreOpen'
    BY CallsMeans, PTL
  <1>2. \A u \in Threads : \A m \in Nat : <<u, m>> \in Calls(i) <=> Has(u, m, OpenOps) /\ stack[u][m].img = i
    BY <1>1 DEF CallsAreOpen
  <1>3. \A u \in Threads : \A m \in Nat : <<u, m>> \in Calls(i)' <=> Has(u, m, OpenOps)' /\ stack'[u][m].img = i
    BY <1>1 DEF CallsAreOpen
  <1>4. (\A p \in Calls(i) : p \in Threads \X Nat) /\ (\A p \in Calls(i)' : p \in Threads \X Nat)
    BY <1>1 DEF CallsAreOpen
  <1>5. ASSUME NEW p, p # <<t, n>> PROVE p \in Calls(i)' <=> p \in Calls(i)
    <2>1. CASE p \in Threads \X Nat
      <3>1. PICK u \in Threads, m \in Nat : p = <<u, m>>
        BY <2>1
      <3>2. u # t \/ m # n
        BY <1>5, <3>1
      <3>3. /\ Has(u, m, OpenOps)' <=> Has(u, m, OpenOps)
            /\ Has(u, m, OpenOps) => stack'[u][m].img = stack[u][m].img
        BY <3>2 DEF UnmovedBut
      <3> QED
        BY <1>2, <1>3, <3>1, <3>3
    <2>2. CASE p \notin Threads \X Nat
      BY <1>4, <2>2
    <2> QED
      BY <2>1, <2>2
  <1> QED
    BY <1>2, <1>3, <1>5

\* A call of dlopen() for image i begins at place n ...
LEMMA CallAdded ==
    ASSUME StackTypes, StackTypes', NEW t \in Threads, NEW n \in Nat, UnmovedBut(OpenOps, t, n), NEW i,
           ~Has(t, n, OpenOps), Has(t, n, OpenOps)', stack'[t][n].img = i
    PROVE  /\ \A j : j # i => Calls(j)' = Calls(j)
           /\ IsFiniteSet(Calls(i)) => /\ IsFiniteSet(Calls(i)')
                                       /\ Cardinality(Calls(i)') = Cardinality(Calls(i)) + 1
  <1>1. ASSUME NEW j, j # i PROVE Calls(j)' = Calls(j)
    <2>1. (\A p : p # <<t, n>> => (p \in Calls(j)' <=> p \in Calls(j)))
      BY CallsBut
    <2>2. <<t, n>> \notin Calls(j) /\ <<t, n>> \notin Calls(j)'
      BY <1>1, CallsBut
    <2> QED
      BY <2>1, <2>2
  <1>2. Calls(i)' = Calls(i) \cup {<<t, n>>} /\ <<t, n>> \notin Calls(i)
    BY CallsBut
  <1>3. ASSUME NEW C, NEW p, IsFiniteSet(C), p \notin C
        PROVE  IsFiniteSet(C \cup {p}) /\ Cardinality(C \cup {p}) = Cardinality(C) + 1
    BY <1>3, FS_AddElement
  <1>4. ASSUME IsFiniteSet(Calls(i))
        PROVE  IsFiniteSet(Calls(i)') /\ Cardinality(Calls(i)') = Cardinality(Calls(i)) + 1
    <2> PICK C, D, p : C = Calls(i) /\ D = Calls(i)' /\ p = <<t, n>>
      OBVIOUS
    <2>1. p \notin C /\ IsFiniteSet(C) /\ D = C \cup {p}
      BY <1>2, <1>4
    <2>2. IsFiniteSet(D) /\ Cardinality(D) = Cardinality(C) + 1
      BY <1>3, <2>1
    <2> QED
      BY <2>2
  <1> QED
    BY <1>1, <1>4

\* ... or ends there.
LEMMA CallRemoved ==
    ASSUME StackTypes, StackTypes', NEW t \in Threads, NEW n \in Nat, UnmovedBut(OpenOps, t, n), NEW i,
           Has(t, n, OpenOps), ~Has(t, n, OpenOps)', stack[t][n].img = i
    PROVE  /\ \A j : j # i => Calls(j)' = Calls(j)
           /\ IsFiniteSet(Calls(i)) => /\ IsFiniteSet(Calls(i)')
                                       /\ Cardinality(Calls(i)') = Cardinality(Calls(i)) - 1
  <1>1. ASSUME NEW j, j # i PROVE Calls(j)' = Calls(j)
    <2>1. (\A p : p # <<t, n>> => (p \in Calls(j)' <=> p \in Calls(j)))
      BY CallsBut
    <2>2. <<t, n>> \notin Calls(j) /\ <<t, n>> \notin Calls(j)'
      BY <1>1, CallsBut
    <2> QED
      BY <2>1, <2>2
  <1>2. Calls(i)' = Calls(i) \ {<<t, n>>} /\ <<t, n>> \in Calls(i)
    BY CallsBut
  <1>3. ASSUME NEW C, NEW p \in C, IsFiniteSet(C)
        PROVE  IsFiniteSet(C \ {p}) /\ Cardinality(C \ {p}) = Cardinality(C) - 1
    BY <1>3, FS_RemoveElement
  <1>4. ASSUME IsFiniteSet(Calls(i))
        PROVE  IsFiniteSet(Calls(i)') /\ Cardinality(Calls(i)') = Cardinality(Calls(i)) - 1
    <2> PICK C, D, p : C = Calls(i) /\ D = Calls(i)' /\ p = <<t, n>>
      OBVIOUS
    <2>1. p \in C /\ IsFiniteSet(C) /\ D = C \ {p}
      BY <1>2, <1>4
    <2>2. IsFiniteSet(D) /\ Cardinality(D) = Cardinality(C) - 1
      BY <1>3, <2>1
    <2> QED
      BY <2>2
  <1> QED
    BY <1>1, <1>4

\* The places of a stack that hold the lock are finitely many.
LEMMA LockPlacesFinite ==
    ASSUME Types, NEW t \in Threads
    PROVE  IsFiniteSet(LockPlaces(t)) /\ Cardinality(LockPlaces(t)) \in Nat
  <1>1. Len(stack[t]) \in Nat
    BY StackType
  <1>2. IsFiniteSet(1..Len(stack[t])) /\ LockPlaces(t) \subseteq 1..Len(stack[t])
    BY <1>1, FS_Interval DEF LockPlaces
  <1> QED
    BY <1>2, FS_Subset, FS_CardinalityType

\* Places that hold the lock are what they were, but for one.
LEMMA PlacesBut ==
    ASSUME NEW t \in Threads, NEW n \in Nat, UnmovedBut(LockOps, t, n)
    PROVE  /\ \A u \in Threads : u # t => LockPlaces(u)' = LockPlaces(u)
           /\ \A m : m # n => (m \in LockPlaces(t)' <=> m \in LockPlaces(t))
           /\ n \in LockPlaces(t) <=> Has(t, n, LockOps)
           /\ n \in LockPlaces(t)' <=> Has(t, n, LockOps)'
  <1>1. \A u \in Threads : \A m : (m \in LockPlaces(u) <=> Has(u, m, LockOps)) /\ (m \in LockPlaces(u)' <=> Has(u, m, LockOps)')
    BY DEF LockPlaces, Has, Op
  <1>2. \A u \in Threads : \A m : (Has(u, m, LockOps) => m \in Nat) /\ (Has(u, m, LockOps)' => m \in Nat)
    BY DEF Has
  <1> QED
    BY <1>1, <1>2 DEF UnmovedBut

\* Taking the lock adds one place to those that hold it.
LEMMA LockTaken ==
    ASSUME Types, Locks, NEW t \in Threads, NEW n \in Nat, UnmovedBut(LockOps, t, n),
           ~Has(t, n, LockOps), Has(t, n, LockOps)', GlobalLockAcquire(t)
    PROVE  Locks'
  <1>1. /\ \A u \in Threads : u # t => LockPlaces(u)' = LockPlaces(u)
        /\ LockPlaces(t)' = LockPlaces(t) \cup {n} /\ n \notin LockPlaces(t)
    BY PlacesBut
  <1>2. IsFiniteSet(LockPlaces(t)) /\ Cardinality(LockPlaces(t)) \in Nat
    BY LockPlacesFinite
  <1>3. Cardinality(LockPlaces(t)') = Cardinality(LockPlaces(t)) + 1
    BY <1>1, <1>2, FS_AddElement
  <1>4. glock.held = Cardinality(LockPlaces(t)) /\ \A u \in Threads : u # t => LockPlaces(u) = {}
    <2>1. CASE glock.owner = t
      BY <2>1 DEF Locks
    <2>2. CASE glock.owner = None
      <3>1. \A u \in Threads : LockPlaces(u) = {}
        BY <2>2, Dyld2Assumption DEF Locks
      <3> QED
        BY <2>2, <3>1, FS_EmptySet DEF Locks
    <2> QED
      BY <2>1, <2>2 DEF GlobalLockAcquire
  <1>5. /\ glock' = [owner |-> t, held |-> glock.held + 1] /\ t # None
    BY Dyld2Assumption DEF GlobalLockAcquire
  <1>6. glock'.owner = t /\ glock'.held = Cardinality(LockPlaces(t)') /\ glock' \in [owner : Threads \cup {None}, held : Nat]
    BY <1>2, <1>3, <1>4, <1>5
  <1> QED
    BY <1>1, <1>4, <1>5, <1>6 DEF Locks

\* Releasing the lock takes one place from those that hold it.
LEMMA LockReleased ==
    ASSUME Types, Locks, NEW t \in Threads, NEW n \in Nat, UnmovedBut(LockOps, t, n),
           Has(t, n, LockOps), ~Has(t, n, LockOps)', GlobalLockRelease(t)
    PROVE  Locks'
  <1>1. /\ \A u \in Threads : u # t => LockPlaces(u)' = LockPlaces(u)
        /\ LockPlaces(t)' = LockPlaces(t) \ {n} /\ n \in LockPlaces(t)
    BY PlacesBut
  <1>2. IsFiniteSet(LockPlaces(t)) /\ Cardinality(LockPlaces(t)) \in Nat
    BY LockPlacesFinite
  <1>3. IsFiniteSet(LockPlaces(t)') /\ Cardinality(LockPlaces(t)') = Cardinality(LockPlaces(t)) - 1
    BY <1>1, <1>2, FS_RemoveElement
  <1>4. Cardinality(LockPlaces(t)') \in Nat /\ (Cardinality(LockPlaces(t)') = 0 <=> LockPlaces(t)' = {})
    BY <1>3, FS_CardinalityType, FS_EmptySet
  <1>5. glock.owner = t /\ glock.held = Cardinality(LockPlaces(t)) /\ \A u \in Threads : u # t => LockPlaces(u) = {}
    BY <1>1 DEF Locks
  <1>6. glock' = [owner |-> IF glock.held = 1 THEN None ELSE t, held |-> glock.held - 1] /\ t # None
    BY Dyld2Assumption DEF GlobalLockRelease
  <1>7. /\ glock'.owner = (IF LockPlaces(t)' = {} THEN None ELSE t) /\ glock'.held = Cardinality(LockPlaces(t)')
        /\ glock' \in [owner : Threads \cup {None}, held : Nat]
    BY <1>2, <1>3, <1>4, <1>5, <1>6
  <1>8. \A u \in Threads : u # t => LockPlaces(u)' = {}
    BY <1>1, <1>5
  <1>9. \A u \in Threads : u # None
    BY Dyld2Assumption
  <1>10. glock'.owner = None => glock'.held = 0
    BY <1>4, <1>6, <1>7
  <1> QED
    BY <1>6, <1>7, <1>8, <1>9, <1>10 DEF Locks

-----------------------------------------------------------------------------
(* Steps under the lock that load, bind and delete nothing *)

\* Entries of a kind are where they were if only the top changed, to the same kind.
LEMMA UnmovedTop ==
    ASSUME Types, NEW t \in Threads, NEW n \in Nat, n = Len(stack[t]), n > 0, Above(t, n - 1),
           Len(stack'[t]) = n, NEW X, Op(t, n)' \in X <=> Op(t, n) \in X, Img(t, n)' = Img(t, n)
    PROVE  Unmoved(X)
  <1>1. Has(t, n, X)' <=> Has(t, n, X)
    BY DEF Has, Op
  <1>2. \A m \in Nat : m > n => ~Has(t, m, X) /\ ~Has(t, m, X)'
    BY DEF Has
  <1>3. \A m \in Nat : m > n - 1 => m = n \/ m > n
    OBVIOUS
  <1>4. stack'[t][n].img = stack[t][n].img
    BY DEF Img
  <1> QED
    BY <1>1, <1>2, <1>3, <1>4, UnmovedAbove

\* What is being loaded stays so if nothing is added or bound.
LEMMA LoadingKept ==
    ASSUME Inv, NEW t \in Threads, NEW k, Above(t, k), Exact(t, k), all' = all, state' = state,
           \A n \in (k + 1)..Len(stack'[t]) : LoadAt(t, n)'
    PROVE  Loading'
  <1>1. ASSUME NEW u \in Threads, NEW n \in 1..Len(stack'[u]), u # t \/ n <= k
        PROVE  stack'[u][n] = stack[u][n] /\ n \in 1..Len(stack[u])
    BY <1>1, StackType DEF Above, Exact, Inv
  <1>2. ASSUME NEW u \in Threads, NEW n \in 1..Len(stack'[u])
        PROVE  LoadAt(u, n)'
    <2>1. CASE u # t \/ n <= k
      <3>1. stack'[u][n] = stack[u][n] /\ LoadAt(u, n)
        BY <1>1, <2>1 DEF Inv, Linked, Loading
      <3> QED
        BY <3>1 DEF LoadAt, Op, Loaded
    <2>2. CASE u = t /\ ~(n <= k)
      BY <2>2 DEF Above
    <2> QED
      BY <2>1, <2>2
  <1> QED
    BY <1>2 DEF Loading

\* What is linked stays so if nothing is added, bound or marked.
LEMMA LinkedKept ==
    ASSUME Inv, Loading', UNCHANGED <<all, state, marked, doingGC>>, Unmoved(Pending),
           \A u \in Threads : \A n \in Nat : Has(u, n, {"process"})' =>
              Has(u, n, {"process"}) /\ stack'[u][n].img = stack[u][n].img
    PROVE  Linked'
  <1>1. Core' = Core /\ Kept' = Kept /\ Loaded' = Loaded
    BY DEF Core, Kept, Loaded
  <1>2. ASSUME NEW u \in Threads, NEW n
        PROVE  /\ (n \in 1..Len(stack'[u]) /\ Op(u, n)' \in Pending)
                     <=> (n \in 1..Len(stack[u]) /\ Op(u, n) \in Pending)
               /\ (n \in 1..Len(stack'[u]) /\ Op(u, n)' \in Pending) => Img(u, n)' = Img(u, n)
               /\ (n \in 1..Len(stack'[u]) /\ Op(u, n)' = "process") =>
                     n \in 1..Len(stack[u]) /\ Op(u, n) = "process" /\ Img(u, n)' = Img(u, n)
    BY DEF Unmoved, Has, Op, Img
  <1>3. \A i \in Core' \cap Kept' : LibImages[i] \subseteq Core' \cap Kept'
    BY <1>1 DEF Inv, Linked
  <1>4. \A i \in Loaded' \ Core' :
           \/ doingGC'
           \/ \E u \in Threads : \E n \in 1..Len(stack'[u]) : Op(u, n)' \in Pending /\ i \in Tree(Img(u, n)')
    BY <1>1, <1>2 DEF Inv, Linked
  <1>5. ASSUME NEW u \in Threads, NEW n \in 1..Len(stack'[u])
        PROVE  /\ Op(u, n)' = "process" => Img(u, n)' \in Core' \cap Kept'
               /\ Op(u, n)' \in Pending => Img(u, n)' \in Loaded'
    BY <1>1, <1>2 DEF Inv, Linked
  <1> QED
    BY <1>3, <1>4, <1>5 DEF Linked

\* Marks stay right if nothing is added, marked or counted.
LEMMA MarksKept ==
    ASSUME Inv, UNCHANGED <<all, state, marked, refs, count, doingGC, redo>>
    PROVE  Marks'
  <1>1. Kept' = Kept /\ Loaded' = Loaded
    BY DEF Kept, Loaded
  <1>2. InUse(count)' = InUse(count)
    BY <1>1 DEF InUse
  <1> QED
    BY <1>1, <1>2 DEF Inv, Marks

Still ==
    /\ Unmoved(Busy) /\ Unmoved({"running"}) /\ Unmoved(OpenOps) /\ Unmoved({"process"})
    /\ Unmoved(Pending) /\ Unmoved({"gc"})

\* A step that changes only the stacks, quietly, keeps the invariant.
LEMMA QuietStep ==
    ASSUME Inv, DataTypes', StackTypes', Shape', Locks', Loading', Still,
           UNCHANGED <<all, state, count, marked, refs, gcVars, handles, opens, inits, ilock>>
    PROVE  Inv'
  <1>1. /\ all' = all /\ state' = state /\ count' = count /\ marked' = marked /\ refs' = refs
        /\ doingGC' = doingGC /\ redo' = redo /\ handles' = handles /\ opens' = opens /\ inits' = inits
        /\ ilock' = ilock /\ Types
    BY DEF gcVars, Inv
  <1>2. OneGC'
    BY <1>1, UnmovedGC DEF Inv, Still
  <1>3. States'
    BY <1>1 DEF Inv, States, Core, Loaded
  <1>4. Linked'
    <2>1. \A u \in Threads : \A n \in Nat : Has(u, n, {"process"})' =>
              Has(u, n, {"process"}) /\ stack'[u][n].img = stack[u][n].img
      BY DEF Still, Unmoved
    <2> QED
      BY <1>1, <2>1, LinkedKept DEF Still
  <1>5. Marks'
    BY <1>1, MarksKept
  <1>6. Counts'
    <2>1. \A i \in Images : Calls(i)' = Calls(i)
      BY <1>1, UnmovedCalls DEF Types, Still
    <2> QED
      BY <1>1, <2>1 DEF Inv, Counts
  <1>7. Visiting'
    BY <1>1, VisitingKept DEF Inv, Still
  <1> QED
    BY <1>1, <1>2, <1>3, <1>4, <1>5, <1>6, <1>7 DEF Inv, Types, Flags

\* The lock is held while what is on top goes on with the same image.
LEMMA QuietTop ==
    ASSUME Inv, DataTypes', NEW t \in Threads, NEW n \in Nat, n = Len(stack[t]), n > 0,
           Above(t, n - 1), Exact(t, n - 1), Len(stack'[t]) = n, Len(cells') \in Nat, cells' = cells,
           FrameOK(stack'[t][n]), Img(t, n)' = Img(t, n), LoadAt(t, n)',
           \/ Op(t, n) \in {"load", "depths"} /\ Op(t, n)' \in {"load", "depths", "failed"}
           \/ Op(t, n) = "gc" /\ Op(t, n)' = "gc",
           UNCHANGED <<all, state, count, marked, refs, gcVars, handles, opens, inits, ilock, glock>>
    PROVE  Inv'
  <1>1. /\ Types /\ n \in 1..n /\ (n - 1) + 1 = n /\ n - 1 \in Nat /\ \A m \in n..n : m = n
    BY DEF Inv
  <1>2. \A X : (Op(t, n)' \in X <=> Op(t, n) \in X) => Unmoved(X)
    BY <1>1, UnmovedTop
  <1>3. Still
    <2>1. Unmoved(Busy) /\ Unmoved({"running"}) /\ Unmoved({"process"})
      BY <1>2 DEF Busy
    <2>2. Unmoved(OpenOps) /\ Unmoved(Pending)
      BY <1>2 DEF OpenOps, Pending
    <2>3. Unmoved({"gc"})
      BY <1>2
    <2> QED
      BY <2>1, <2>2, <2>3 DEF Still
  <1>4. Unmoved(LockOps)
    BY <1>2 DEF LockOps
  <1>5. Locks'
    BY <1>1, <1>4, UnmovedLocks DEF Inv
  <1>6. StackTypes'
    <2>1. stack'[t][n].op # "push"
      BY DEF Op
    <2>2. \A m \in ((n - 1) + 1)..Len(stack'[t]) : FrameOK(stack'[t][m]) /\ stack'[t][m].op # "push"
      BY <1>1, <2>1
    <2> QED
      BY <1>1, <2>2, StackTypesKept
  <1>7. ShapeAt(t, n)'
    <2>1. ShapeAt(t, n)
      BY <1>1 DEF Inv, Shape
    <2>2. \A m \in 1..(n - 1) : Op(t, m)' = Op(t, m)
      BY DEF Above, Op
    <2>3. Op(t, n)' \notin Visits
      BY DEF Visits, Busy
    <2>4. Op(t, n)' # "init" /\ n = Len(stack'[t])
      OBVIOUS
    <2>5. Op(t, n)' = "gc" => n > 1 /\ Op(t, n - 1)' \in LockOps
      <3>1. n > 1 => n - 1 \in 1..(n - 1)
        BY <1>1
      <3> QED
        BY <2>1, <2>2, <3>1 DEF ShapeAt
    <2>6. \A m \in 1..(n - 1) : Op(t, m)' \in Locked => Op(t, n)' \in Locked \ Pending
      <3>1. CASE Op(t, n) = "gc"
        BY <3>1 DEF Locked, Pending
      <3>2. CASE Op(t, n) \in {"load", "depths"}
        BY <2>1, <2>2, <3>2 DEF ShapeAt, Pending
      <3> QED
        BY <3>1, <3>2
    <2> QED
      BY <2>3, <2>4, <2>5, <2>6 DEF ShapeAt
  <1>8. Shape'
    BY <1>1, <1>7, ShapeKept DEF Inv
  <1>9. Loading'
    BY <1>1, LoadingKept
  <1> QED
    BY <1>3, <1>5, <1>6, <1>8, <1>9, QuietStep

\* Code of the program returns, or is called, on top of what goes on.
LEMMA QuietEnd ==
    ASSUME Inv, DataTypes', StackTypes', Shape', Locks', NEW t \in Threads, NEW k, Above(t, k), Exact(t, k),
           \A m \in (k + 1)..Len(stack[t]) : Op(t, m) \in {"term", "close"},
           \A m \in (k + 1)..Len(stack'[t]) : Op(t, m)' \in {"term", "close"},
           UNCHANGED <<all, state, count, marked, refs, gcVars, handles, opens, inits, ilock>>
    PROVE  Inv'
  <1>1. Types
    BY DEF Inv
  <1>2. ASSUME NEW X, "term" \notin X, "close" \notin X PROVE Unmoved(X)
    BY <1>1, <1>2, NothingBusy
  <1>3. Still
    BY <1>2 DEF Still, Busy, OpenOps, Pending
  <1>4. Loading'
    <2>1. \A m \in (k + 1)..Len(stack'[t]) : LoadAt(t, m)'
      BY DEF LoadAt
    <2> QED
      BY <2>1, LoadingKept
  <1> QED
    BY <1>3, <1>4, QuietStep

\* A terminator's return only shortens the stack.
LEMMA TerminatorReturnsInv ==
    ASSUME Inv, NEW t \in Threads, TerminatorReturns(t)
    PROVE  Inv'
  <1>0. stack[t] # <<>> /\ Top(t).op = "term" /\ Types /\ Return(t)
    BY DEF TerminatorReturns, At, Inv
  <1> PICK n \in Nat : n = Len(stack[t])
    BY <1>0, TopFrame
  <1>1. n > 0 /\ Op(t, n) = "term"
    BY <1>0, TopFrame DEF Op
  <1>2. UNCHANGED <<all, state, count, marked, refs, gcVars, handles, opens, inits, ilock, depth, cells, end, glock>>
    BY DEF TerminatorReturns, imageVars, termVars, history
  <1>3. DataTypes' /\ Len(cells) \in Nat
    BY <1>0, <1>2, DataKept, CellsLen DEF Types
  <1>4. Above(t, n - 1) /\ Exact(t, n - 1) /\ Len(stack'[t]) = n - 1
    BY <1>0, Returned
  <1>5. (\A m \in ((n - 1) + 1)..Len(stack'[t]) : FALSE) /\ (\A m \in ((n - 1) + 1)..Len(stack[t]) : m = n)
    BY <1>1, <1>4
  <1>6. StackTypes'
    BY <1>0, <1>2, <1>3, <1>4, <1>5, StackTypesKept
  <1>7. Shape'
    BY <1>0, <1>4, <1>5, ShapeKept DEF Inv
  <1>8. \A m \in ((n - 1) + 1)..Len(stack[t]) : Op(t, m) = "term"
    BY <1>1, <1>5
  <1>9. Unmoved(LockOps)
    BY <1>0, <1>4, <1>5, <1>8, NothingBusy DEF LockOps
  <1>10. Locks'
    BY <1>0, <1>2, <1>9, UnmovedLocks DEF Inv
  <1> QED
    BY <1>2, <1>3, <1>4, <1>5, <1>6, <1>7, <1>8, <1>10, QuietEnd

\* dlclose() and a failed dlopen() release what they took.
LEMMA CloseInv ==
    ASSUME Inv, NEW t \in Threads, Close(t)
    PROVE  Inv'
  <1>0. stack[t] # <<>> /\ Top(t).op = "close" /\ Types /\ Return(t) /\ GlobalLockRelease(t)
    BY DEF Close, At, Inv
  <1> PICK n \in Nat : n = Len(stack[t])
    BY <1>0, TopFrame
  <1>1. n > 0 /\ Op(t, n) = "close"
    BY <1>0, TopFrame DEF Op
  <1>2. UNCHANGED <<all, state, count, marked, refs, gcVars, handles, opens, inits, ilock, depth, cells, end>>
    BY DEF Close, imageVars, termVars, history
  <1>3. DataTypes' /\ Len(cells) \in Nat
    BY <1>0, <1>2, DataKept, CellsLen DEF Types
  <1>4. Above(t, n - 1) /\ Exact(t, n - 1) /\ Len(stack'[t]) = n - 1
    BY <1>0, Returned
  <1>5. (\A m \in ((n - 1) + 1)..Len(stack'[t]) : FALSE) /\ (\A m \in ((n - 1) + 1)..Len(stack[t]) : m = n)
    BY <1>1, <1>4
  <1>6. StackTypes'
    BY <1>0, <1>2, <1>3, <1>4, <1>5, StackTypesKept
  <1>7. Shape'
    BY <1>0, <1>4, <1>5, ShapeKept DEF Inv
  <1>8. \A m \in ((n - 1) + 1)..Len(stack[t]) : Op(t, m) = "close"
    BY <1>1, <1>5
  <1>9. Has(t, n, LockOps) /\ ~Has(t, n, LockOps)'
    BY <1>1, <1>4 DEF Has, LockOps, Op
  <1>10. \A m \in Nat : m > n - 1 /\ m # n => ~Has(t, m, LockOps) /\ ~Has(t, m, LockOps)'
    BY <1>1, <1>4 DEF Has
  <1>11. UnmovedBut(LockOps, t, n)
    BY <1>0, <1>1, <1>4, <1>10, UnmovedButAbove
  <1>12. Locks'
    BY <1>0, <1>9, <1>11, LockReleased DEF Inv
  <1> QED
    BY <1>2, <1>3, <1>4, <1>5, <1>6, <1>7, <1>8, <1>12, QuietEnd

\* Taking an image off the termination list leaves room for every push_back() under way.
LEMMA GcTerminateInv ==
    ASSUME Inv, NEW t \in Threads, GcTerminate(t)
    PROVE  Inv'
  <1> DEFINE f == Top(t)
             i == Head(f.todo)
             first == Min(InTermList(i))
             g == [f EXCEPT !.todo = Tail(@)]
             h == Frame("term", i, <<>>)
  <1>0. stack[t] # <<>> /\ f.op = "gc" /\ Types /\ f.todo # <<>>
    BY DEF GcTerminate, At, Inv
  <1> PICK n \in Nat : n = Len(stack[t])
    BY <1>0, TopFrame
  <1>1. n > 0 /\ f = stack[t][n] /\ FrameOK(f) /\ f \in Frames /\ Op(t, n) = "gc" /\ Img(t, n) = f.img
    BY <1>0, TopFrame DEF Op, Img
  <1>2. UNCHANGED <<all, state, count, marked, refs, gcVars, handles, opens, inits, ilock, depth, glock>>
    BY DEF GcTerminate, imageVars
  <1>3. /\ DataTypes /\ Len(cells) \in Nat /\ cells \in Seq(Images) /\ end \in 0..Len(cells)
    BY <1>0, CellsLen DEF Types, DataTypes
  <1>4. i \in Images
    <2>1. f.todo \in Seq(Todo) /\ \A k \in 1..Len(f.todo) : f.todo[k] \in Images
      BY <1>0, <1>1 DEF FrameOK, Frames
    <2> QED
      BY <1>0, <2>1, TailOf
  <1>5. CASE marked[i] \/ InTermList(i) = {}
    <2>1. Replace(t, g) /\ cells' = cells /\ end' = end
      BY <1>5 DEF GcTerminate, termVars
    <2>2. FrameOK(g) /\ g \in Frames /\ g.op = "gc" /\ g.img = f.img
      BY <1>0, <1>1, TodoTail
    <2> HIDE DEF g
    <2>3. Above(t, n - 1) /\ Exact(t, n - 1) /\ Len(stack'[t]) = n /\ stack'[t][n] = g
      BY <1>0, <2>1, <2>2, Replaced
    <2>4. Op(t, n)' = "gc" /\ Img(t, n)' = Img(t, n)
      BY <1>1, <2>2, <2>3 DEF Op, Img
    <2>5. LoadAt(t, n)'
      BY <2>4 DEF LoadAt
    <2>6. DataTypes'
      BY <1>2, <1>3, <2>1, DataKept
    <2> HIDE DEF f
    <2> QED
      BY <1>1, <1>2, <1>3, <2>1, <2>2, <2>3, <2>4, <2>5, <2>6, QuietTop
  <1>6. CASE ~(marked[i] \/ InTermList(i) = {})
    <2>1. /\ cells' = [m \in DOMAIN cells |-> IF m \in first..(end - 1) THEN cells[m + 1] ELSE cells[m]]
          /\ end' = end - 1 /\ Call(t, h)
      BY <1>6 DEF GcTerminate
    <2>2. end' \in 0..Len(cells)
      <3>1. 1..end # {}
        BY <1>6 DEF InTermList
      <3> QED
        BY <1>3, <2>1, <3>1
    <2>3. cells' \in Seq(Images) /\ Len(cells') = Len(cells)
      <3> DEFINE e(m) == IF m \in first..(end - 1) THEN cells[m + 1] ELSE cells[m]
      <3>1. \A m \in 1..Len(cells) : e(m) \in Images
        <4>1. \A m \in 1..Len(cells) : m \in first..(end - 1) => m + 1 \in 1..Len(cells)
          BY <1>3
        <4> QED
          BY <1>3, <4>1
      <3>2. cells' = [m \in 1..Len(cells) |-> e(m)]
        BY <1>3, <2>1
      <3> HIDE DEF e
      <3>3. cells' \in Seq(Images)
        BY <1>3, <3>1, <3>2, IsASeq
      <3> QED
        BY <1>3, <3>2, <3>3
    <2>4. DataTypes'
      BY <1>2, <1>3, <2>2, <2>3 DEF DataTypes
    <2>5. FrameOK(h) /\ h \in Frames /\ h.op = "term"
      BY <1>4, FrameIs DEF Ops, Locked
    <2> HIDE DEF h
    <2>6. Above(t, n) /\ Exact(t, n) /\ Len(stack'[t]) = n + 1 /\ stack'[t][n + 1] = h
      BY <1>0, <2>1, <2>5, Called
    <2>7. (\A m \in (n + 1)..Len(stack'[t]) : m = n + 1) /\ (\A m \in (n + 1)..Len(stack[t]) : FALSE)
      BY <2>6
    <2>8. StackTypes'
      BY <1>0, <1>3, <2>3, <2>5, <2>6, <2>7, StackTypesKept
    <2>9. Op(t, n + 1)' = "term"
      BY <2>5, <2>6 DEF Op
    <2>10. ShapeAt(t, n + 1)'
      BY <2>9 DEF ShapeAt, Locked, Pending, Linking, Visits, Busy
    <2>11. Shape'
      BY <1>0, <1>1, <2>6, <2>7, <2>10, ShapeKept DEF Inv, Linking
    <2>12. \A m \in (n + 1)..Len(stack'[t]) : Op(t, m)' = "term"
      BY <2>7, <2>9
    <2>13. Unmoved(LockOps)
      BY <1>0, <2>6, <2>7, <2>12, NothingBusy DEF LockOps
    <2>14. Locks'
      BY <1>0, <1>2, <2>13, UnmovedLocks DEF Inv
    <2> QED
      BY <1>2, <2>4, <2>6, <2>7, <2>8, <2>11, <2>12, <2>14, QuietEnd
  <1> QED
    BY <1>5, <1>6

\* When there is nothing left to load, all loaded images have their libraries.
LEMMA StartDepthsInv ==
    ASSUME Inv, NEW t \in Threads, StartDepths(t)
    PROVE  Inv'
  <1> DEFINE f == Top(t)
             clears == [n \in DOMAIN all |-> <<"clear", all[n]>>]
             s == clears \o <<<<"enter", f.img>>>>
             g == Frame("depths", f.img, s)
  <1>0. stack[t] # <<>> /\ f.op = "load" /\ Types /\ f.todo = <<>> /\ Replace(t, g)
    BY DEF StartDepths, At, Inv
  <1> PICK n \in Nat : n = Len(stack[t])
    BY <1>0, TopFrame
  <1>1. /\ n > 0 /\ f = stack[t][n] /\ FrameOK(f) /\ f \in Frames /\ Op(t, n) = "load" /\ Img(t, n) = f.img
        /\ f.img \in Images /\ n \in 1..Len(stack[t])
    BY <1>0, TopFrame DEF Op, Img, FrameOK
  <1>2. UNCHANGED <<all, state, count, marked, refs, gcVars, handles, opens, inits, ilock, depth, glock, cells, end>>
    BY DEF StartDepths, imageVars, termVars
  <1>3. DataTypes' /\ Len(cells) \in Nat
    BY <1>0, <1>2, DataKept, CellsLen DEF Types
  <1>4. s \in Seq(Tasks)
    <2>1. all \in Seq(Images) /\ DOMAIN all = 1..Len(all) /\ Len(all) \in Nat
      BY <1>0 DEF Types, DataTypes
    <2>2. \A m \in 1..Len(all) : <<"clear", all[m]>> \in Tasks
      BY <2>1 DEF Tasks, Names
    <2>3. clears \in Seq(Tasks)
      BY <2>1, <2>2, IsASeq
    <2>4. <<<<"enter", f.img>>>> \in Seq(Tasks)
      BY <1>1 DEF Tasks, Names
    <2> QED
      BY <2>3, <2>4, ConcatProperties
  <1> HIDE DEF s
  <1>5. g \in Frames /\ g.op = "depths" /\ g.img = f.img /\ g.todo = s
    <2>1. s \in Seq(Todo)
      BY <1>4, SeqMonotonic DEF Todo
    <2>2. <<>> \in Seq(Images) /\ "depths" \in Ops
      BY DEF Ops, Locked, LockOps
    <2> QED
      BY <1>1, <2>1, <2>2 DEF Frame, Frames
  <1> HIDE DEF g
  <1>6. FrameOK(g)
    BY <1>1, <1>4, <1>5 DEF FrameOK
  <1>7. Above(t, n - 1) /\ Exact(t, n - 1) /\ Len(stack'[t]) = n /\ stack'[t][n] = g
    BY <1>0, <1>5, Replaced
  <1>8. Op(t, n)' = "depths" /\ Img(t, n)' = Img(t, n)
    BY <1>1, <1>5, <1>7 DEF Op, Img
  <1>9. LoadAt(t, n)'
    <2>1. LoadAt(t, n) /\ \A k \in 1..Len(stack[t][n].todo) : FALSE
      BY <1>0, <1>1 DEF Inv, Linked, Loading
    <2> QED
      BY <1>1, <1>2, <1>8, <2>1 DEF LoadAt, Loaded
  <1> HIDE DEF f
  <1> QED
    BY <1>1, <1>2, <1>3, <1>6, <1>7, <1>8, <1>9, QuietTop

\* The upward links put off are images.
LEMMA DanglingUpwardsInv ==
    ASSUME Inv, NEW t \in Threads, DanglingUpwards(t)
    PROVE  Inv'
  <1> DEFINE f == Top(t)
             s == [n \in DOMAIN f.ups |-> <<"enter", f.ups[n]>>]
             g == [f EXCEPT !.val = 1, !.todo = s]
  <1>0. stack[t] # <<>> /\ f.op = "depths" /\ Types /\ Replace(t, g)
    BY DEF DanglingUpwards, At, Inv
  <1> PICK n \in Nat : n = Len(stack[t])
    BY <1>0, TopFrame
  <1>1. /\ n > 0 /\ f = stack[t][n] /\ FrameOK(f) /\ f \in Frames /\ Op(t, n) = "depths" /\ Img(t, n) = f.img
        /\ f.img \in Images /\ n \in 1..Len(stack[t])
    BY <1>0, TopFrame DEF Op, Img, FrameOK
  <1>2. UNCHANGED <<all, state, count, marked, refs, gcVars, handles, opens, inits, ilock, depth, glock, cells, end>>
    BY DEF DanglingUpwards, imageVars, termVars, history
  <1>3. DataTypes' /\ Len(cells) \in Nat
    BY <1>0, <1>2, DataKept, CellsLen DEF Types
  <1>4. s \in Seq(Tasks)
    <2>1. f.ups \in Seq(Images) /\ DOMAIN f.ups = 1..Len(f.ups) /\ Len(f.ups) \in Nat
      BY <1>1 DEF Frames
    <2>2. \A m \in 1..Len(f.ups) : <<"enter", f.ups[m]>> \in Tasks
      BY <2>1 DEF Tasks, Names
    <2> QED
      BY <2>1, <2>2, IsASeq
  <1> HIDE DEF s
  <1>5. g \in Frames /\ g.op = "depths" /\ g.img = f.img /\ g.todo = s
    <2>1. s \in Seq(Todo)
      BY <1>4, SeqMonotonic DEF Todo
    <2> QED
      BY <1>0, <1>1, <2>1 DEF Frames
  <1> HIDE DEF g
  <1>6. FrameOK(g)
    BY <1>1, <1>4, <1>5 DEF FrameOK
  <1>7. Above(t, n - 1) /\ Exact(t, n - 1) /\ Len(stack'[t]) = n /\ stack'[t][n] = g
    BY <1>0, <1>5, Replaced
  <1>8. Op(t, n)' = "depths" /\ Img(t, n)' = Img(t, n)
    BY <1>1, <1>5, <1>7 DEF Op, Img
  <1>9. LoadAt(t, n)'
    <2>1. LoadAt(t, n)
      BY <1>1 DEF Inv, Linked, Loading
    <2> QED
      BY <1>1, <1>2, <1>8, <2>1 DEF LoadAt, Loaded
  <1> HIDE DEF f
  <1> QED
    BY <1>1, <1>2, <1>3, <1>6, <1>7, <1>8, <1>9, QuietTop

\* Depths are computed modulo 2^15.
LEMMA DepthsFit ==
    ASSUME DataTypes, NEW i \in Images
    PROVE  /\ 0 \in 0..(DepthLimit - 1) /\ Len(all) % DepthLimit \in 0..(DepthLimit - 1)
           /\ DepthOver(i) \in 0..(DepthLimit - 1)
  <1>1. DepthLimit \in Nat /\ DepthLimit > 0
    BY DEF DepthLimit
  <1>2. \A x \in Int : x % DepthLimit \in 0..(DepthLimit - 1)
    BY <1>1
  <1>3. Len(all) \in Nat /\ \A j \in Images : depth[j] \in Nat
    <2>1. all \in Seq(Images) /\ depth \in [Images -> 0..(DepthLimit - 1)]
      BY DEF DataTypes
    <2> QED
      BY <1>1, <2>1
  <1> DEFINE S == {Len(all)} \cup {depth[j] : j \in Down[i]}
  <1>4. S \in SUBSET Nat /\ S # {}
    <2>1. Down[i] \subseteq Images
      BY DEF Down
    <2> QED
      BY <1>3, <2>1
  <1>5. Min(S) \in Nat
    BY <1>4, LeastPlace
  <1> HIDE DEF S
  <1>6. Min(S) - 1 \in Int
    BY <1>5
  <1>7. DepthOver(i) = (Min(S) - 1) % DepthLimit
    BY DEF DepthOver, S
  <1> QED
    BY <1>1, <1>2, <1>3, <1>6, <1>7

\* What is still to be done for the depths is any list of tasks.
LEMMA DepthFrame ==
    ASSUME NEW f, FrameOK(f), f.op = "depths", NEW s \in Seq(Tasks), NEW ups \in Seq(Images)
    PROVE  LET g == [f EXCEPT !.todo = s, !.ups = ups]
           IN  FrameOK(g) /\ g \in Frames /\ g.op = "depths" /\ g.img = f.img
  <1> DEFINE g == [f EXCEPT !.todo = s, !.ups = ups]
  <1>1. f \in Frames /\ f.img \in Images /\ s \in Seq(Todo)
    BY SeqMonotonic DEF FrameOK, Todo
  <1>2. g \in Frames /\ g.op = "depths" /\ g.img = f.img /\ g.todo = s /\ g.ups = ups
    BY <1>1 DEF Frames
  <1> HIDE DEF g
  <1>3. FrameOK(g)
    BY <1>1, <1>2 DEF FrameOK
  <1> QED
    BY <1>2, <1>3 DEF g

\* What is to be done about depths stays well formed.
LEMMA DepthTodo ==
    ASSUME NEW f, FrameOK(f), f.op = "depths", NEW s \in Seq(Tasks)
    PROVE  LET g == [f EXCEPT !.todo = s]
           IN  FrameOK(g) /\ g \in Frames /\ g.op = "depths" /\ g.img = f.img
  <1> DEFINE g == [f EXCEPT !.todo = s]
  <1>1. f \in Frames /\ f.img \in Images /\ s \in Seq(Todo)
    BY SeqMonotonic DEF FrameOK, Todo
  <1>2. g \in Frames /\ g.op = "depths" /\ g.img = f.img /\ g.todo = s
    BY <1>1 DEF Frames
  <1> HIDE DEF g
  <1>3. FrameOK(g)
    BY <1>1, <1>2 DEF FrameOK
  <1> QED
    BY <1>2, <1>3 DEF g

\* Storing a depth changes nothing else that is shared.
LEMMA UpdateDepthInv ==
    ASSUME Inv, NEW t \in Threads, UpdateDepth(t)
    PROVE  Inv'
  <1> DEFINE f == Top(t)
             do == Head(f.todo)
             i == do[2]
             rest == Tail(f.todo)
             libs == [n \in DOMAIN Libs[i] |->
                         <<IF Libs[i][n].upward THEN "upward" ELSE "enter", Libs[i][n].img>>]
             new == libs \o <<<<"leave", i>>>> \o rest
             more == IF depth[i] # 0 \/ Contains(f.ups, i) THEN f.ups ELSE Append(f.ups, i)
  <1>0. stack[t] # <<>> /\ f.op = "depths" /\ Types /\ f.todo # <<>>
    BY DEF UpdateDepth, At, Inv
  <1> PICK n \in Nat : n = Len(stack[t])
    BY <1>0, TopFrame
  <1>1. /\ n > 0 /\ f = stack[t][n] /\ FrameOK(f) /\ f \in Frames /\ Op(t, n) = "depths" /\ Img(t, n) = f.img
        /\ f.img \in Images /\ n \in 1..Len(stack[t])
    BY <1>0, TopFrame DEF Op, Img, FrameOK
  <1>2. UNCHANGED <<all, state, count, marked, refs, gcVars, handles, opens, inits, ilock, glock, cells, end>>
    BY DEF UpdateDepth, imageVars, termVars
  <1>3. DataTypes /\ Len(cells) \in Nat /\ depth \in [Images -> 0..(DepthLimit - 1)]
    BY <1>0, CellsLen DEF Types, DataTypes
  <1>4. rest \in Seq(Tasks) /\ do \in Tasks /\ f.ups \in Seq(Images)
    <2>1. f.todo \in Seq(Todo) /\ f.ups \in Seq(Images) /\ \A k \in 1..Len(f.todo) : f.todo[k] \in Tasks
      BY <1>0, <1>1 DEF FrameOK, Frames
    <2>2. f.todo \in Seq(Tasks)
      <3>1. Len(f.todo) \in Nat /\ f.todo = [k \in 1..Len(f.todo) |-> f.todo[k]]
        BY <2>1
      <3> QED
        BY <2>1, <3>1, IsASeq
    <2> QED
      BY <1>0, <2>1, <2>2, HeadTailProperties
  <1>5. i \in Names
    BY <1>4 DEF Tasks
  <1>6. i \in Images => new \in Seq(Tasks) /\ more \in Seq(Images)
    <2> SUFFICES ASSUME i \in Images PROVE new \in Seq(Tasks) /\ more \in Seq(Images)
      OBVIOUS
    <2>1. more \in Seq(Images)
      BY <1>4
    <2>2. Libs[i] \in Seq(Range(Libs[i]))
      BY Dyld2Assumption
    <2>3. Len(Libs[i]) \in Nat /\ DOMAIN Libs[i] = 1..Len(Libs[i]) /\ \A k \in 1..Len(Libs[i]) : Libs[i][k] \in Range(Libs[i])
      BY <2>2
    <2>4. \A k \in 1..Len(Libs[i]) : Libs[i][k].img \in Names
      BY <2>3 DEF Names
    <2> DEFINE e(k) == <<IF Libs[i][k].upward THEN "upward" ELSE "enter", Libs[i][k].img>>
    <2>5. \A k \in 1..Len(Libs[i]) : e(k) \in Tasks
      BY <2>4 DEF Tasks
    <2>6. libs = [k \in 1..Len(Libs[i]) |-> e(k)]
      BY <2>3
    <2> HIDE DEF e
    <2>7. libs \in Seq(Tasks)
      BY <2>3, <2>5, <2>6, IsASeq
    <2>8. <<<<"leave", i>>>> \in Seq(Tasks)
      BY <1>5 DEF Tasks
    <2> HIDE DEF libs, rest
    <2> QED
      BY <1>4, <2>1, <2>7, <2>8, ConcatProperties
  <1>7. /\ \E g : FrameOK(g) /\ g \in Frames /\ g.op = "depths" /\ g.img = f.img /\ Replace(t, g)
        /\ depth' \in [Images -> 0..(DepthLimit - 1)]
    <2>1. CASE i \notin Images /\ Replace(t, [f EXCEPT !.todo = rest]) /\ depth' = depth
      BY <1>0, <1>1, <1>3, <1>4, <2>1, DepthTodo
    <2>2. CASE depth' = [depth EXCEPT ![i] = 0] /\ Replace(t, [f EXCEPT !.todo = rest])
      <3>1. 0 \in 0..(DepthLimit - 1)
        BY <1>1, <1>3, DepthsFit
      <3>2. depth' \in [Images -> 0..(DepthLimit - 1)]
        BY <1>3, <2>2, <3>1
      <3> QED
        BY <1>0, <1>1, <1>4, <2>2, <3>2, DepthTodo
    <2>3. CASE i \in Images /\ Replace(t, [f EXCEPT !.todo = rest]) /\ depth' = depth
      BY <1>0, <1>1, <1>3, <1>4, <2>3, DepthTodo
    <2>4. CASE i \in Images /\ depth' = [depth EXCEPT ![i] = Len(all) % DepthLimit] /\ Replace(t, [f EXCEPT !.todo = new])
      <3>1. depth' \in [Images -> 0..(DepthLimit - 1)]
        BY <1>3, <2>4, DepthsFit
      <3> QED
        BY <1>0, <1>1, <1>6, <2>4, <3>1, DepthTodo
    <2>5. CASE i \in Images /\ Replace(t, [f EXCEPT !.todo = rest, !.ups = more]) /\ depth' = depth
      <3>1. more \in Seq(Images)
        BY <1>6, <2>5
      <3> HIDE DEF more, rest
      <3>2. LET g == [f EXCEPT !.todo = rest, !.ups = more]
            IN  FrameOK(g) /\ g \in Frames /\ g.op = "depths" /\ g.img = f.img
        BY <1>0, <1>1, <1>4, <3>1, DepthFrame
      <3> QED
        BY <1>3, <2>5, <3>2
    <2>6. CASE depth' = [depth EXCEPT ![i] = DepthOver(i)] /\ Replace(t, [f EXCEPT !.todo = rest])
      <3>1. depth' \in [Images -> 0..(DepthLimit - 1)]
        BY <1>3, <2>6, DepthsFit
      <3> QED
        BY <1>0, <1>1, <1>4, <2>6, <3>1, DepthTodo
    <2> QED
      BY <2>1, <2>2, <2>3, <2>4, <2>5, <2>6 DEF UpdateDepth
  <1>8. DataTypes'
    BY <1>2, <1>3, <1>7 DEF DataTypes
  <1>9. PICK g : FrameOK(g) /\ g \in Frames /\ g.op = "depths" /\ g.img = f.img /\ Replace(t, g)
    BY <1>7
  <1>10. Above(t, n - 1) /\ Exact(t, n - 1) /\ Len(stack'[t]) = n /\ stack'[t][n] = g
    BY <1>0, <1>9, Replaced
  <1>11. Op(t, n)' = "depths" /\ Img(t, n)' = Img(t, n)
    BY <1>1, <1>9, <1>10 DEF Op, Img
  <1>12. LoadAt(t, n)'
    <2>1. LoadAt(t, n)
      BY <1>1 DEF Inv, Linked, Loading
    <2> QED
      BY <1>1, <1>2, <1>11, <2>1 DEF LoadAt, Loaded
  <1>13. Len(cells') \in Nat /\ cells' = cells /\ FrameOK(stack'[t][n])
    BY <1>2, <1>3, <1>9, <1>10
  <1> HIDE DEF f
  <1> QED
    BY <1>1, <1>2, <1>8, <1>10, <1>11, <1>12, <1>13, QuietTop

\* The reference of a dlopen() becomes that of its handle.
LEMMA OpenedInv ==
    ASSUME Inv, NEW t \in Threads, Opened(t)
    PROVE  Inv'
  <1> DEFINE f == Top(t)
  <1>0. stack[t] # <<>> /\ f.op = "process" /\ Types /\ Return(t)
    BY DEF Opened, At, Inv
  <1> PICK n \in Nat : n = Len(stack[t])
    BY <1>0, TopFrame
  <1>i. f.img \in Images
    BY <1>0, TopFrame DEF FrameOK
  <1> PICK i \in Images : i = f.img
    BY <1>i
  <1>1. /\ n > 0 /\ f = stack[t][n] /\ FrameOK(f) /\ i \in Images /\ n \in 1..Len(stack[t])
        /\ Op(t, n) = "process" /\ Img(t, n) = i
    BY <1>0, TopFrame DEF FrameOK, Op, Img
  <1>2. /\ UNCHANGED <<all, state, count, marked, refs, doingGC, redo, opens, inits, ilock, depth, cells, end, glock>>
        /\ handles' = [handles EXCEPT ![i] = handles[i] + 1]
    BY DEF Opened, imageVars, termVars, history, gcVars
  <1>3. DataTypes' /\ Len(cells) \in Nat /\ handles \in [Images -> Nat]
    <2>1. DataTypes /\ handles \in [Images -> Nat]
      BY <1>0 DEF Types, DataTypes
    <2>2. handles' \in [Images -> Nat]
      BY <1>1, <1>2, <2>1
    <2> QED
      BY <1>0, <1>2, <2>1, <2>2, CellsLen DEF DataTypes
  <1>4. Above(t, n - 1) /\ Exact(t, n - 1) /\ Len(stack'[t]) = n - 1
    BY <1>0, Returned
  <1>5. /\ (\A m \in ((n - 1) + 1)..Len(stack'[t]) : FALSE)
        /\ (\A m \in ((n - 1) + 1)..Len(stack[t]) : m = n /\ Op(t, m) = "process")
    BY <1>1, <1>4
  <1>6. StackTypes'
    BY <1>0, <1>2, <1>3, <1>4, <1>5, StackTypesKept
  <1>7. Shape'
    BY <1>0, <1>4, <1>5, ShapeKept DEF Inv
  <1>8. ASSUME NEW X, "process" \notin X PROVE Unmoved(X)
    BY <1>0, <1>4, <1>5, <1>8, NothingBusy
  <1>9. Unmoved(Busy) /\ Unmoved({"running"}) /\ Unmoved(Pending) /\ Unmoved({"gc"}) /\ Unmoved(LockOps)
    BY <1>8 DEF Busy, Pending, LockOps
  <1>10. Locks' /\ OneGC' /\ Visiting'
    BY <1>0, <1>2, <1>9, UnmovedLocks, UnmovedGC, VisitingKept DEF Inv
  <1>11. Loading'
    BY <1>2, <1>4, <1>5, LoadingKept
  <1>12. Linked'
    <2>1. \A u \in Threads : \A m \in Nat : Has(u, m, {"process"})' =>
              Has(u, m, {"process"}) /\ stack'[u][m].img = stack[u][m].img
      <3> SUFFICES ASSUME NEW u \in Threads, NEW m \in Nat, Has(u, m, {"process"})'
                   PROVE  Has(u, m, {"process"}) /\ stack'[u][m].img = stack[u][m].img
        OBVIOUS
      <3>1. CASE u # t
        BY <1>4, <3>1 DEF Above, Has
      <3>2. CASE u = t
        BY <1>1, <1>4, <3>2 DEF Above, Has
      <3> QED
        BY <3>1, <3>2
    <2> QED
      BY <1>2, <1>9, <1>11, <2>1, LinkedKept
  <1>13. Marks'
    BY <1>2, MarksKept
  <1>14. Counts'
    <2>1. Has(t, n, OpenOps) /\ ~Has(t, n, OpenOps)' /\ stack[t][n].img = i
      BY <1>1, <1>4 DEF Has, OpenOps, Op
    <2>2. \A m \in Nat : m > n - 1 /\ m # n => ~Has(t, m, OpenOps) /\ ~Has(t, m, OpenOps)'
      BY <1>1, <1>4 DEF Has
    <2>3. UnmovedBut(OpenOps, t, n)
      BY <1>0, <1>1, <1>4, <2>2, UnmovedButAbove
    <2>4. /\ \A j : j # i => Calls(j)' = Calls(j)
          /\ IsFiniteSet(Calls(i)) => IsFiniteSet(Calls(i)') /\ Cardinality(Calls(i)') = Cardinality(Calls(i)) - 1
      BY <1>0, <1>6, <2>1, <2>3, CallRemoved DEF Types
    <2>5. ASSUME NEW j \in Images
          PROVE  /\ IsFiniteSet(Calls(j)') /\ count'[j] = handles'[j] + Cardinality(Calls(j)') /\ count'[j] <= opens'
      <3>1. /\ IsFiniteSet(Calls(j)) /\ count[j] = handles[j] + Cardinality(Calls(j)) /\ count[j] <= opens
            /\ Cardinality(Calls(j)) \in Nat /\ handles[j] \in Nat
        BY <1>3, FS_CardinalityType DEF Inv, Counts
      <3>2. CASE j = i
        <4>1. IsFiniteSet(Calls(i)) /\ IsFiniteSet(Calls(i)') /\ Cardinality(Calls(i)') = Cardinality(Calls(i)) - 1
          BY <2>4, <3>1, <3>2
        <4>2. handles'[i] = handles[i] + 1 /\ count'[i] = count[i] /\ opens' = opens
          BY <1>2, <1>3
        <4>3. count'[i] = handles'[i] + Cardinality(Calls(i)')
          BY <3>1, <3>2, <4>1, <4>2
        <4> QED
          BY <3>1, <3>2, <4>1, <4>2, <4>3
      <3>3. CASE j # i
        BY <1>2, <1>3, <2>4, <3>1, <3>3
      <3> QED
        BY <3>2, <3>3
    <2> QED
      BY <2>5 DEF Counts
  <1>15. States'
    <2>1. i \in Core
      BY <1>1 DEF Inv, Linked
    <2>2. \A j \in Images : handles'[j] > 0 => j \in Core
      BY <1>2, <1>3, <2>1 DEF Inv, States
    <2>3. Core' = Core /\ Loaded' = Loaded
      BY <1>2 DEF Core, Loaded
    <2> QED
      BY <1>2, <2>2, <2>3 DEF Inv, States
  <1> QED
    BY <1>2, <1>3, <1>6, <1>7, <1>10, <1>12, <1>13, <1>14, <1>15 DEF Inv, Types, Flags

-----------------------------------------------------------------------------
(* Collections *)

\* A call of dlopen() under way is counted.
OpenCounted ==
    \A t \in Threads : \A n \in 1..Len(stack[t]) :
       Op(t, n) \in OpenOps => Img(t, n) \in Images /\ count[Img(t, n)] # 0

\* A dlopen() under way is counted.
LEMMA CountedOpen == DataTypes /\ StackTypes /\ Counts => OpenCounted
  <1> SUFFICES ASSUME DataTypes, StackTypes, Counts, NEW t \in Threads, NEW n \in 1..Len(stack[t]), Op(t, n) \in OpenOps
               PROVE  Img(t, n) \in Images /\ count[Img(t, n)] # 0
    BY DEF OpenCounted
  <1>1. CallsAreOpen /\ Types
    BY CallsMeans DEF Types
  <1>2. FrameOK(stack[t][n]) /\ n \in Nat
    BY <1>1, StackType
  <1>i. Img(t, n) \in Images
    BY <1>2 DEF FrameOK, Op, Img, OpenOps
  <1> PICK i \in Images : i = Img(t, n)
    BY <1>i
  <1>3. Has(t, n, OpenOps) /\ stack[t][n].img = i
    BY DEF Has, Op, Img
  <1>4. <<t, n>> \in Calls(i)
    BY <1>1, <1>2, <1>3 DEF CallsAreOpen
  <1>5. /\ IsFiniteSet(Calls(i)) /\ count[i] = handles[i] + Cardinality(Calls(i)) /\ handles[i] \in Nat
    BY DEF Counts, DataTypes
  <1>6. Cardinality(Calls(i)) \in Nat /\ Cardinality(Calls(i)) # 0
    BY <1>4, <1>5, FS_CardinalityType, FS_EmptySet
  <1> QED
    BY <1>5, <1>6

\* Nothing is loading while the owner of the lock has anything else on top.
LEMMA NothingLoading ==
    ASSUME Inv, NEW t \in Threads, glock.owner \in {None, t},
           stack[t] # <<>> => Top(t).op \notin {"load", "depths"},
           NEW u \in Threads, NEW n \in 1..Len(stack[u])
    PROVE  Op(u, n) \notin {"load", "depths"}
  <1> SUFFICES ASSUME Op(u, n) \in {"load", "depths"} PROVE FALSE
    OBVIOUS
  <1>1. glock.owner = u /\ u # None
    BY OwnerIs, Dyld2Assumption DEF LockOps
  <1>2. u = t /\ Types
    BY <1>1 DEF Inv
  <1>3. n = Len(stack[t]) /\ stack[t] \in Seq(Frames)
    BY <1>2, StackType DEF Inv, Shape, ShapeAt, Linking
  <1>4. stack[t] # <<>>
    BY <1>2, <1>3
  <1>5. Top(t).op = Op(t, n)
    BY <1>2, <1>3, <1>4, TopFrame DEF Op
  <1> QED
    BY <1>2, <1>4, <1>5

\* States stay right if nothing they speak of has changed.
LEMMA StatesHeld ==
    ASSUME Inv, UNCHANGED <<all, state, refs, inits>>,
           \A i \in Images : handles'[i] > 0 => handles[i] > 0
    PROVE  States'
  BY DEF Inv, States, Core, Loaded

\* The mark phase, with fewer references than before or, during a collection, the same.
LEMMA MarkStarts ==
    ASSUME Inv, NEW c, count' = c, \A i \in Images : c[i] # 0 => count[i] # 0, doingGC => c = count,
           UNCHANGED <<all, state, refs>>, marked' = [i \in Images |-> i \in InUse(c)],
           redo' = FALSE, doingGC' = TRUE, OpenCounted',
           \A u \in Threads : \A n \in Nat : ~Has(u, n, {"load", "depths"})',
           \A u \in Threads : \A n \in Nat : Has(u, n, {"process"})' =>
              Has(u, n, {"process"}) /\ stack'[u][n].img = stack[u][n].img,
           \A u \in Threads : \A n \in Nat : Has(u, n, Pending)' => stack'[u][n].img \in Loaded
    PROVE  Marks' /\ Linked'
  <1> DEFINE U == InUse(c)
  <1>1. /\ U = Closure(Roots(c), refs) /\ Roots(c) \in SUBSET Images /\ refs \in SUBSET (Images \X Images)
    <2>1. \A i \in Images : c[i] # 0 => i \in Loaded
      BY CountMeans
    <2> QED
      BY <2>1, UsedIsClosure DEF Inv
  <1> HIDE DEF U
  <1>2. /\ Roots(c) \subseteq U /\ U \subseteq Images
        /\ \A i \in U : LibImages[i] \subseteq U
        /\ \A r \in refs : r[1] \in U => r[2] \in U
    BY <1>1, ClosureFacts
  <1>3. Kept' = U
    BY <1>2 DEF Kept, U
  <1>4. Core' = Core /\ Loaded' = Loaded /\ refs' = refs
    BY DEF Core, Loaded
  <1>5. InUse(count)' = U
    BY <1>4 DEF InUse, U
  <1>6. Marks'
    <2>1. NeverUnload \subseteq U /\ \A i \in Images : count'[i] # 0 => i \in U
      BY <1>2 DEF Roots
    <2> QED
      BY <1>2, <1>3, <1>4, <1>5, <2>1 DEF Marks
  <1>7. U \subseteq Kept
    <2>1. CASE doingGC
      BY <2>1, UsedMeans DEF U
    <2>2. CASE ~doingGC
      BY <1>2, <2>2 DEF Kept
    <2> QED
      BY <2>1, <2>2
  <1>8. \A i \in Core' \cap Kept' : LibImages[i] \subseteq Core' \cap Kept'
    BY <1>2, <1>3, <1>4, <1>7 DEF Inv, Linked
  <1>9. ASSUME NEW u \in Threads, NEW n \in 1..Len(stack'[u])
        PROVE  /\ Op(u, n)' = "process" => Img(u, n)' \in Core' \cap Kept'
               /\ Op(u, n)' \in Pending => Img(u, n)' \in Loaded'
               /\ LoadAt(u, n)'
    <2>1. n \in Nat
      OBVIOUS
    <2>2. Op(u, n)' = "process" => Img(u, n)' \in Core' \cap Kept'
      <3> SUFFICES ASSUME Op(u, n)' = "process" PROVE Img(u, n)' \in Core' \cap Kept'
        OBVIOUS
      <3>1. Has(u, n, {"process"})'
        BY DEF Has, Op
      <3>2. Has(u, n, {"process"}) /\ Img(u, n)' = Img(u, n)
        BY <2>1, <3>1 DEF Img
      <3>3. Img(u, n) \in Core
        BY <3>2 DEF Inv, Linked, Has, Op
      <3>4. Img(u, n)' \in Images /\ c[Img(u, n)'] # 0
        BY DEF OpenCounted, OpenOps
      <3>5. Img(u, n)' \in U
        BY <1>2, <3>4 DEF Roots
      <3> QED
        BY <1>3, <1>4, <3>2, <3>3, <3>5
    <2>3. Op(u, n)' \in Pending => Img(u, n)' \in Loaded'
      BY <1>4, <2>1 DEF Has, Op, Img
    <2>4. Op(u, n)' \notin {"load", "depths"}
      BY <2>1 DEF Has, Op
    <2>5. LoadAt(u, n)'
      BY <2>4 DEF LoadAt
    <2> QED
      BY <2>2, <2>3, <2>5
  <1>10. Linked'
    BY <1>8, <1>9 DEF Linked, Loading
  <1> QED
    BY <1>6, <1>10

\* A collection starts: everything that is not about marks is as the step left it.
LEMMA CollectionStarts ==
    ASSUME Inv, DataTypes', StackTypes', Shape', Locks', Counts', OneGC', NEW t \in Threads, NEW k, Above(t, k),
           glock.owner \in {None, t}, stack[t] # <<>> => Top(t).op \notin {"load", "depths"},
           \A n \in (k + 1)..Len(stack[t]) : Op(t, n) \in {"failed", "undo", "gc"},
           \A n \in (k + 1)..Len(stack'[t]) :
              /\ Op(t, n)' \in {"undo", "close", "gc"} /\ (Op(t, n)' = "undo" => Img(t, n)' \in Loaded),
           NEW c, count' = c, \A i \in Images : c[i] # 0 => count[i] # 0, doingGC => c = count,
           \A i \in Images : handles'[i] > 0 => handles[i] > 0,
           UNCHANGED <<all, state, refs, inits, ilock>>, marked' = [i \in Images |-> i \in InUse(c)],
           redo' = FALSE, doingGC' = TRUE
    PROVE  Inv'
  <1>0. Types /\ k \in Nat
    BY DEF Inv, Above
  <1>1. OpenCounted'
    BY CountedOpen, PTL
  <1>2. ASSUME NEW u \in Threads, NEW n \in Nat, NEW X, Has(u, n, X)', u # t \/ n <= k
        PROVE  Has(u, n, X) /\ stack'[u][n].img = stack[u][n].img
    BY <1>0, <1>2, StackType DEF Above, Has
  <1>3. ASSUME NEW u \in Threads, NEW n \in Nat, NEW X, Has(u, n, X)', ~(u # t \/ n <= k)
        PROVE  u = t /\ n \in (k + 1)..Len(stack'[t]) /\ Op(t, n)' \in X
    BY <1>0, <1>3 DEF Has, Op
  <1>4. ASSUME NEW u \in Threads, NEW n \in Nat, Has(u, n, {"load", "depths"})' PROVE FALSE
    <2>1. CASE u # t \/ n <= k
      <3>1. Has(u, n, {"load", "depths"})
        BY <1>2, <1>4, <2>1
      <3> QED
        BY <3>1, NothingLoading DEF Has, Op
    <2>2. CASE ~(u # t \/ n <= k)
      BY <1>3, <1>4, <2>2
    <2> QED
      BY <2>1, <2>2
  <1>5. ASSUME NEW u \in Threads, NEW n \in Nat, Has(u, n, {"process"})'
        PROVE  Has(u, n, {"process"}) /\ stack'[u][n].img = stack[u][n].img
    <2>1. CASE u # t \/ n <= k
      BY <1>2, <1>5, <2>1
    <2>2. CASE ~(u # t \/ n <= k)
      BY <1>3, <1>5, <2>2
    <2> QED
      BY <2>1, <2>2
  <1>6. ASSUME NEW u \in Threads, NEW n \in Nat, Has(u, n, Pending)'
        PROVE  stack'[u][n].img \in Loaded
    <2>1. CASE u # t \/ n <= k
      <3>1. Has(u, n, Pending) /\ stack'[u][n].img = stack[u][n].img
        BY <1>2, <1>6, <2>1
      <3> QED
        BY <3>1 DEF Inv, Linked, Has, Op, Img
    <2>2. CASE ~(u # t \/ n <= k)
      <3>1. u = t /\ n \in (k + 1)..Len(stack'[t]) /\ Op(t, n)' \in Pending
        BY <1>3, <1>6, <2>2
      <3>2. Op(t, n)' = "undo"
        BY <3>1 DEF Pending
      <3> QED
        BY <3>1, <3>2 DEF Img
    <2> QED
      BY <2>1, <2>2
  <1>7. Marks' /\ Linked'
    BY <1>1, <1>4, <1>5, <1>6, MarkStarts
  <1>8. States'
    BY StatesHeld
  <1>9. Unmoved(Busy) /\ Unmoved({"running"})
    <2>1. ASSUME NEW X, X \in {Busy, {"running"}} PROVE Unmoved(X)
      <3>1. \A n \in (k + 1)..Len(stack[t]) : Op(t, n) \notin X
        BY <2>1 DEF Busy
      <3>2. \A n \in (k + 1)..Len(stack'[t]) : Op(t, n)' \notin X
        BY <2>1 DEF Busy
      <3> QED
        BY <1>0, <3>1, <3>2, NothingBusy
    <2> QED
      BY <2>1
  <1>10. Visiting'
    BY <1>0, <1>9, VisitingKept DEF Inv
  <1> QED
    BY <1>7, <1>8, <1>10 DEF Inv, Types, Flags

\* The entry a collection begins with is well formed.
LEMMA GcFrame ==
    ASSUME DataTypes
    PROVE  LET f == Frame("gc", None, all) IN FrameOK(f) /\ f \in Frames /\ f.op = "gc"
  <1> DEFINE f == Frame("gc", None, all)
  <1>1. all \in Seq(Images) /\ all \in Seq(Todo) /\ <<>> \in Seq(Images)
    BY SeqMonotonic DEF DataTypes, Todo, Names
  <1>2. f \in Frames /\ f.op = "gc" /\ f.todo = all
    BY <1>1 DEF Frame, Frames, Ops, Locked
  <1> HIDE DEF f
  <1>3. FrameOK(f)
    BY <1>1, <1>2 DEF FrameOK
  <1> QED
    BY <1>2, <1>3 DEF f

\* Nothing restricts where "close" lies, and a collection lies on what holds the lock.
LEMMA CloseShape ==
    ASSUME NEW t, NEW n \in Nat, Op(t, n)' = "close"
    PROVE  ShapeAt(t, n)'
  BY DEF ShapeAt, Locked, LockOps, Pending, Linking, Visits, Busy

\* A collection lies on the entry that holds the lock for it.
LEMMA GcShape ==
    ASSUME NEW t, NEW n \in Nat, n > 0, Op(t, n)' \in LockOps, Op(t, n + 1)' = "gc"
    PROVE  ShapeAt(t, n + 1)'
  <1>1. (n + 1) - 1 = n /\ n + 1 > 1
    OBVIOUS
  <1> QED
    BY <1>1 DEF ShapeAt, Locked, Pending, Linking, Visits, Busy

\* A collection that begins when there is none is the only one.
LEMMA NewGC ==
    ASSUME Inv, ~doingGC, doingGC' = TRUE, NEW t \in Threads, NEW n \in Nat,
           UnmovedBut({"gc"}, t, n), Has(t, n, {"gc"})'
    PROVE  OneGC'
  <1>1. \A u \in Threads : \A m \in Nat : ~Has(u, m, {"gc"})
    BY DEF Inv, OneGC, Has, Op
  <1>2. \A u \in Threads : \A m \in Nat : Has(u, m, {"gc"})' => u = t /\ m = n
    BY <1>1 DEF UnmovedBut
  <1>3. ASSUME NEW u \in Threads, NEW m \in 1..Len(stack'[u]), Op(u, m)' = "gc"
        PROVE  u = t /\ m = n
    BY <1>2, <1>3 DEF Has, Op
  <1>4. n \in 1..Len(stack'[t]) /\ Op(t, n)' = "gc"
    BY DEF Has, Op
  <1> QED
    BY <1>3, <1>4 DEF OneGC

\* Replacing the top and putting an entry on it.
LEMMA ReplacedAndAppended ==
    ASSUME Types, NEW t \in Threads, stack[t] # <<>>, NEW f \in Frames, NEW g \in Frames,
           stack' = [stack EXCEPT ![t] = Append(Append(Front(stack[t]), f), g)]
    PROVE  /\ Above(t, Len(stack[t]) - 1) /\ Exact(t, Len(stack[t]) - 1)
           /\ Len(stack'[t]) = Len(stack[t]) + 1
           /\ stack'[t][Len(stack[t])] = f /\ stack'[t][Len(stack[t]) + 1] = g
  <1>1. stack[t] \in Seq(Frames) /\ Len(stack[t]) \in Nat /\ Len(stack[t]) > 0 /\ DOMAIN stack = Threads
    BY TopFrame, StackType
  <1> DEFINE r == Append(Front(stack[t]), f)
             s == Append(r, g)
  <1>2. /\ r \in Seq(Frames) /\ Len(r) = Len(stack[t]) /\ r[Len(stack[t])] = f
        /\ \A n \in 1..(Len(stack[t]) - 1) : r[n] = stack[t][n]
    BY <1>1, FrontFrames, AppendFrames
  <1> HIDE DEF r
  <1>3. /\ s \in Seq(Frames) /\ Len(s) = Len(stack[t]) + 1 /\ s[Len(stack[t]) + 1] = g
        /\ s[Len(stack[t])] = f
        /\ \A n \in 1..(Len(stack[t]) - 1) : s[n] = stack[t][n]
    BY <1>1, <1>2, AppendFrames
  <1> HIDE DEF s
  <1>4. DOMAIN stack' = Threads /\ stack'[t] = s /\ \A u \in Threads : u # t => stack'[u] = stack[u]
    BY <1>1 DEF s, r
  <1> PICK n \in Nat : n = Len(stack[t])
    BY <1>1
  <1>5. Len(stack'[t]) = n + 1 /\ stack'[t][n] = f /\ stack'[t][n + 1] = g
    BY <1>1, <1>3, <1>4
  <1>6. Above(t, n - 1)
    <2>1. n - 1 \in Nat /\ n - 1 <= Len(stack[t]) /\ n - 1 <= Len(stack'[t])
      BY <1>1, <1>5
    <2>2. \A m \in 1..(n - 1) : stack'[t][m] = stack[t][m]
      BY <1>3, <1>4
    <2>3. stack'[t] \in Seq(Frames)
      BY <1>3, <1>4
    <2> QED
      BY <1>4, <2>1, <2>2, <2>3 DEF Above
  <1>7. Exact(t, n - 1)
    BY <1>3, <1>4 DEF Exact
  <1> QED
    BY <1>5, <1>6, <1>7

\* Putting two entries on a stack.
LEMMA AppendedTwice ==
    ASSUME Types, NEW t \in Threads, NEW f \in Frames, NEW g \in Frames,
           stack' = [stack EXCEPT ![t] = Append(Append(stack[t], f), g)]
    PROVE  /\ Above(t, Len(stack[t])) /\ Exact(t, Len(stack[t]))
           /\ Len(stack'[t]) = Len(stack[t]) + 2
           /\ stack'[t][Len(stack[t]) + 1] = f /\ stack'[t][Len(stack[t]) + 2] = g
  <1>1. stack[t] \in Seq(Frames) /\ Len(stack[t]) \in Nat /\ DOMAIN stack = Threads
    BY StackType
  <1> DEFINE r == Append(stack[t], f)
             s == Append(r, g)
  <1>2. /\ r \in Seq(Frames) /\ Len(r) = Len(stack[t]) + 1 /\ r[Len(stack[t]) + 1] = f
        /\ \A n \in 1..Len(stack[t]) : r[n] = stack[t][n]
    BY <1>1, AppendFrames
  <1> HIDE DEF r
  <1>3. /\ s \in Seq(Frames) /\ Len(s) = Len(stack[t]) + 2 /\ s[Len(stack[t]) + 2] = g
        /\ s[Len(stack[t]) + 1] = f
        /\ \A n \in 1..Len(stack[t]) : s[n] = stack[t][n]
    BY <1>1, <1>2, AppendFrames
  <1> HIDE DEF s
  <1>4. DOMAIN stack' = Threads /\ stack'[t] = s /\ \A u \in Threads : u # t => stack'[u] = stack[u]
    BY <1>1 DEF s, r
  <1> PICK n \in Nat : n = Len(stack[t])
    BY <1>1
  <1>5. Len(stack'[t]) = n + 2 /\ stack'[t][n + 1] = f /\ stack'[t][n + 2] = g
    BY <1>1, <1>3, <1>4
  <1>6. Above(t, n)
    BY <1>1, <1>3, <1>4 DEF Above
  <1>7. Exact(t, n)
    BY <1>3, <1>4 DEF Exact
  <1> QED
    BY <1>5, <1>6, <1>7

\* The first collection after a failed link spares the image, which is still counted.
LEMMA LinkFailedInv ==
    ASSUME Inv, NEW t \in Threads, LinkFailed(t)
    PROVE  Inv'
  <1> DEFINE f == Top(t)
             g == Frame("undo", f.img, <<>>)
             h == Frame("gc", None, all)
  <1>0. stack[t] # <<>> /\ f.op = "failed" /\ Types /\ DataTypes
    BY DEF LinkFailed, At, Inv, Types
  <1> PICK n \in Nat : n = Len(stack[t])
    BY <1>0, TopFrame
  <1>1. /\ n > 0 /\ f = stack[t][n] /\ f.img \in Images /\ n \in 1..Len(stack[t])
        /\ Op(t, n) = "failed" /\ Img(t, n) = f.img
    BY <1>0, TopFrame DEF FrameOK, Op, Img
  <1>2. UNCHANGED <<all, state, count, refs, depth, glock, ilock, cells, end, handles, opens, inits>>
    BY DEF LinkFailed, termVars, history
  <1>3. ~doingGC
    BY <1>0, LinkingAlone DEF Pending
  <1>4. /\ doingGC' = TRUE /\ redo' = FALSE /\ marked' = [i \in Images |-> i \in InUse(count)]
        /\ stack' = [stack EXCEPT ![t] = Append(Append(Front(stack[t]), g), h)]
    BY <1>3 DEF LinkFailed, GarbageCollectImages, MarkPhase
  <1>5. g \in Frames /\ FrameOK(g) /\ g.op = "undo" /\ g.img = f.img
    BY <1>1, FrameIs DEF Ops, Locked, LockOps
  <1>6. h \in Frames /\ FrameOK(h) /\ h.op = "gc"
    BY <1>0, GcFrame
  <1> HIDE DEF g, h
  <1>7. /\ Above(t, n - 1) /\ Exact(t, n - 1) /\ Len(stack'[t]) = n + 1
        /\ stack'[t][n] = g /\ stack'[t][n + 1] = h
    <2>1. stack' = [stack EXCEPT ![t] = Append(Append(Front(stack[t]), g), h)]
      BY <1>4
    <2>2. stack[t] # <<>> /\ Types /\ g \in Frames /\ h \in Frames /\ n = Len(stack[t])
      BY <1>0, <1>5, <1>6
    <2> QED
      BY <2>1, <2>2, ReplacedAndAppended
  <1>8. /\ (\A m \in ((n - 1) + 1)..Len(stack'[t]) : m = n \/ m = n + 1) /\ (n - 1) + 1 = n
        /\ (\A m \in ((n - 1) + 1)..Len(stack[t]) : m = n) /\ n \in 1..Len(stack'[t]) /\ n + 1 \in 1..Len(stack'[t])
    BY <1>1, <1>7
  <1>9. Op(t, n)' = "undo" /\ Img(t, n)' = Img(t, n) /\ Op(t, n + 1)' = "gc"
    BY <1>1, <1>5, <1>6, <1>7 DEF Op, Img
  <1>10. DataTypes' /\ Len(cells) \in Nat
    <2>1. marked' \in [Images -> BOOLEAN]
      BY <1>4
    <2> QED
      BY <1>0, <1>2, <2>1, CellsLen DEF DataTypes
  <1>11. StackTypes'
    <2>1. \A m \in ((n - 1) + 1)..Len(stack'[t]) : FrameOK(stack'[t][m]) /\ stack'[t][m].op # "push"
      BY <1>5, <1>6, <1>7, <1>8
    <2> QED
      BY <1>0, <1>2, <1>7, <1>10, <2>1, StackTypesKept
  <1>12. Shape'
    <2>1. ShapeAt(t, n)'
      <3>1. \A m \in 1..(n - 1) : Op(t, m) \notin Locked
        BY <1>1 DEF Inv, Shape, ShapeAt, Pending
      <3>2. \A m \in 1..(n - 1) : Op(t, m)' \notin Locked
        BY <1>7, <3>1 DEF Above, Op
      <3> QED
        BY <1>9, <3>2 DEF ShapeAt, Linking, Visits, Busy
    <2>2. ShapeAt(t, n + 1)'
      BY <1>1, <1>9, GcShape DEF LockOps
    <2>3. \A m \in ((n - 1) + 1)..Len(stack'[t]) : ShapeAt(t, m)'
      BY <1>8, <2>1, <2>2
    <2> QED
      BY <1>0, <1>1, <1>7, <2>3, ShapeKept DEF Inv
  <1>13. ASSUME NEW X, "failed" \in X, "undo" \in X, "gc" \notin X
         PROVE  Unmoved(X)
    <2>1. ASSUME NEW m \in Nat, m > n - 1
          PROVE  /\ Has(t, m, X)' <=> Has(t, m, X)
                 /\ Has(t, m, X) => stack'[t][m].img = stack[t][m].img
      <3>1. CASE m = n
        BY <1>1, <1>8, <1>9, <1>13, <3>1 DEF Has, Op, Img
      <3>2. CASE m > n
        <4>1. ~Has(t, m, X)
          BY <3>2 DEF Has
        <4>2. ~Has(t, m, X)'
          BY <1>6, <1>7, <1>13, <3>2 DEF Has
        <4> QED
          BY <4>1, <4>2
      <3> QED
        BY <2>1, <3>1, <3>2
    <2> QED
      BY <1>0, <1>7, <2>1, UnmovedAbove
  <1>14. Unmoved(LockOps) /\ Unmoved(OpenOps)
    BY <1>13 DEF LockOps, OpenOps
  <1>15. Locks'
    BY <1>0, <1>2, <1>14, UnmovedLocks DEF Inv
  <1>16. Counts'
    <2>1. \A i \in Images : Calls(i)' = Calls(i)
      BY <1>0, <1>11, <1>14, UnmovedCalls DEF Types
    <2> QED
      BY <1>2, <2>1 DEF Inv, Counts
  <1>17. OneGC'
    <2>1. ASSUME NEW m \in Nat, m > n - 1, m # n + 1
          PROVE  ~Has(t, m, {"gc"}) /\ ~Has(t, m, {"gc"})'
      BY <1>1, <1>5, <1>7, <2>1 DEF Has, Op
    <2>2. UnmovedBut({"gc"}, t, n + 1)
      BY <1>0, <1>1, <1>7, <2>1, UnmovedButAbove
    <2>3. Has(t, n + 1, {"gc"})'
      BY <1>8, <1>9 DEF Has, Op
    <2> QED
      BY <1>3, <1>4, <2>2, <2>3, NewGC
  <1>18. glock.owner = t
    BY <1>1, OwnerIs DEF LockOps
  <1>19. Img(t, n) \in Loaded
    BY <1>1 DEF Inv, Linked, Pending
  <1>20. /\ \A m \in ((n - 1) + 1)..Len(stack[t]) : Op(t, m) \in {"failed", "undo", "gc"}
         /\ \A m \in ((n - 1) + 1)..Len(stack'[t]) :
               Op(t, m)' \in {"undo", "close", "gc"} /\ (Op(t, m)' = "undo" => Img(t, m)' \in Loaded)
    BY <1>1, <1>8, <1>9, <1>19
  <1>21. count' = count /\ \A i \in Images : handles'[i] > 0 => handles[i] > 0
    BY <1>2
  <1> HIDE DEF f
  <1> QED
    BY <1>0, <1>2, <1>4, <1>7, <1>10, <1>11, <1>12, <1>15, <1>16, <1>17, <1>18, <1>20, <1>21, CollectionStarts DEF f

\* A count that is not zero has its reason.
CountSources ==
    \A i \in Images : count[i] # 0 =>
       handles[i] > 0 \/ \E u \in Threads : \E n \in Nat : Has(u, n, OpenOps) /\ stack[u][n].img = i

\* What has references has a handle or a dlopen() under way.
LEMMA SourcesOfCount == DataTypes /\ StackTypes /\ Counts => CountSources
  <1> SUFFICES ASSUME DataTypes, StackTypes, Counts, NEW i \in Images, count[i] # 0, ~(handles[i] > 0)
               PROVE  \E u \in Threads : \E n \in Nat : Has(u, n, OpenOps) /\ stack[u][n].img = i
    BY DEF CountSources
  <1>1. CallsAreOpen
    BY CallsMeans
  <1>2. IsFiniteSet(Calls(i)) /\ count[i] = handles[i] + Cardinality(Calls(i)) /\ handles[i] \in Nat
    BY DEF Counts, DataTypes
  <1>3. Calls(i) # {}
    BY <1>2, FS_EmptySet
  <1>4. PICK p \in Calls(i) : p \in Threads \X Nat
    BY <1>1, <1>3 DEF CallsAreOpen
  <1>5. PICK u \in Threads, n \in Nat : p = <<u, n>>
    BY <1>4
  <1> QED
    BY <1>1, <1>4, <1>5 DEF CallsAreOpen

\* What is in use depends on which images have references, not on how many.
LEMMA SameRoots ==
    ASSUME Inv, NEW c, count' = c, \A i \in Images : c[i] # 0 <=> count[i] # 0, UNCHANGED <<all, state, refs>>
    PROVE  InUse(count)' = InUse(count)
  <1>1. Loaded' = Loaded /\ Loaded \subseteq Images
    BY LoadedImages DEF Loaded, Inv
  <1> DEFINE S == {i \in Loaded : count[i] # 0 \/ (i \in NeverUnload /\ state[i] >= Bound)}
             T == {i \in Loaded' : count'[i] # 0 \/ (i \in NeverUnload /\ state'[i] >= Bound)}
  <1>2. S = T
    BY <1>1
  <1>3. InUse(count)' = Closure(T, refs') /\ InUse(count) = Closure(S, refs)
    BY DEF InUse
  <1> QED
    BY <1>2, <1>3

\* The reference goes back; if it was not the last, the image is bound for another call.
LEMMA UndoOpenInv ==
    ASSUME Inv, NEW t \in Threads, UndoOpen(t)
    PROVE  Inv'
  <1> DEFINE f == Top(t)
             g == Frame("close", f.img, <<>>)
             h == Frame("gc", None, all)
  <1>0. stack[t] # <<>> /\ f.op = "undo" /\ Types /\ DataTypes
    BY DEF UndoOpen, At, Inv, Types
  <1> PICK n \in Nat : n = Len(stack[t])
    BY <1>0, TopFrame
  <1>i. f.img \in Images
    BY <1>0, TopFrame DEF FrameOK
  <1> PICK i \in Images : i = f.img
    BY <1>i
  <1>1. /\ n > 0 /\ f = stack[t][n] /\ n \in 1..Len(stack[t])
        /\ Op(t, n) = "undo" /\ Img(t, n) = i
    BY <1>0, TopFrame DEF Op, Img
  <1>2. UNCHANGED <<all, state, refs, depth, glock, ilock, cells, end, handles, opens, inits>>
    BY DEF UndoOpen, termVars, history
  <1>3. /\ ~doingGC
        /\ \A u \in Threads : \A m \in 1..Len(stack[u]) : Op(u, m) \in Pending \cup {"gc"} => u = t /\ m = n
    BY <1>0, LinkingAlone DEF Pending
  <1>4. /\ count \in [Images -> Nat] /\ handles \in [Images -> Nat] /\ opens \in Nat
        /\ count[i] # 0
    <2>1. OpenCounted
      BY <1>0, CountedOpen DEF Inv, Types
    <2>2. count[i] # 0
      BY <1>1, <2>1 DEF OpenCounted, OpenOps
    <2> QED
      BY <1>0, <2>2, Dyld2Assumption DEF DataTypes
  <1> DEFINE c == [count EXCEPT ![i] = count[i] - 1]
  <1>5. count' = c
    BY DEF UndoOpen, BackDown
  <1>6. c \in [Images -> Nat] /\ c[i] = count[i] - 1 /\ \A j \in Images : j # i => c[j] = count[j]
    BY <1>4
  <1>7. g \in Frames /\ FrameOK(g) /\ g.op = "close" /\ g.img = i
    BY <1>1, FrameIs DEF Ops, Locked, LockOps
  <1>8. h \in Frames /\ FrameOK(h) /\ h.op = "gc"
    BY <1>0, GcFrame
  <1>9. \/ /\ c[i] = 0
           /\ doingGC' = TRUE /\ redo' = FALSE /\ marked' = [j \in Images |-> j \in InUse(c)]
           /\ stack' = [stack EXCEPT ![t] = Append(Append(Front(stack[t]), g), h)]
        \/ /\ c[i] # 0 /\ UNCHANGED <<marked, doingGC, redo>>
           /\ Replace(t, g)
    BY <1>3 DEF UndoOpen, BackDown, GarbageCollectImages, MarkPhase, Replace, gcVars
  <1> HIDE DEF g, h, c
  <1>10. /\ Above(t, n - 1) /\ Exact(t, n - 1) /\ stack'[t][n] = g /\ n \in 1..Len(stack'[t])
         /\ c[i] = 0 => Len(stack'[t]) = n + 1 /\ stack'[t][n + 1] = h
         /\ c[i] # 0 => Len(stack'[t]) = n
         /\ Len(stack'[t]) = n \/ (Len(stack'[t]) = n + 1 /\ stack'[t][n + 1] = h)
    <2>1. CASE c[i] = 0
      <3>1. stack' = [stack EXCEPT ![t] = Append(Append(Front(stack[t]), g), h)]
        BY <1>9, <2>1
      <3>2. /\ Above(t, n - 1) /\ Exact(t, n - 1) /\ Len(stack'[t]) = n + 1
            /\ stack'[t][n] = g /\ stack'[t][n + 1] = h
        BY <1>0, <1>7, <1>8, <3>1, ReplacedAndAppended
      <3> QED
        BY <1>1, <2>1, <3>2
    <2>2. CASE c[i] # 0
      <3>1. Replace(t, g)
        BY <1>9, <2>2
      <3> QED
        BY <1>0, <1>1, <1>7, <2>2, <3>1, Replaced
    <2> QED
      BY <2>1, <2>2
  <1>11. /\ (n - 1) + 1 = n /\ (\A m \in ((n - 1) + 1)..Len(stack[t]) : m = n)
         /\ \A m \in ((n - 1) + 1)..Len(stack'[t]) : m = n \/ (m = n + 1 /\ Len(stack'[t]) = n + 1)
    BY <1>1, <1>10
  <1>12. Op(t, n)' = "close" /\ Img(t, n)' = i /\ (Len(stack'[t]) = n + 1 => Op(t, n + 1)' = "gc")
    BY <1>1, <1>7, <1>8, <1>10 DEF Op, Img
  <1>13. DataTypes' /\ Len(cells) \in Nat
    <2>1. marked' \in [Images -> BOOLEAN]
      <3>1. CASE marked' = [j \in Images |-> j \in InUse(c)]
        BY <3>1
      <3>2. CASE marked' = marked
        BY <1>0, <3>2 DEF DataTypes
      <3> QED
        BY <1>9, <3>1, <3>2
    <2> QED
      BY <1>0, <1>2, <1>5, <1>6, <2>1, CellsLen DEF DataTypes
  <1>14. StackTypes'
    <2>1. \A m \in ((n - 1) + 1)..Len(stack'[t]) : FrameOK(stack'[t][m]) /\ stack'[t][m].op # "push"
      BY <1>7, <1>8, <1>10, <1>11
    <2> QED
      BY <1>0, <1>2, <1>10, <1>13, <2>1, StackTypesKept
  <1>15. Shape'
    <2>1. ShapeAt(t, n)'
      BY <1>12, CloseShape
    <2>2. Len(stack'[t]) = n + 1 => ShapeAt(t, n + 1)'
      BY <1>1, <1>12, GcShape DEF LockOps
    <2>3. \A m \in ((n - 1) + 1)..Len(stack'[t]) : ShapeAt(t, m)'
      BY <1>11, <2>1, <2>2
    <2> QED
      BY <1>0, <1>1, <1>10, <2>3, ShapeKept DEF Inv
  <1>16. Locks'
    <2>1. ASSUME NEW m \in Nat, m > n - 1
          PROVE  /\ Has(t, m, LockOps)' <=> Has(t, m, LockOps)
                 /\ Has(t, m, LockOps) => stack'[t][m].img = stack[t][m].img
      <3>1. CASE m = n
        BY <1>1, <1>10, <1>12, <3>1 DEF Has, Op, Img, LockOps
      <3>2. CASE m > n
        <4>1. ~Has(t, m, LockOps)
          BY <3>2 DEF Has
        <4>2. ~Has(t, m, LockOps)'
          BY <1>8, <1>10, <3>2 DEF Has, LockOps
        <4> QED
          BY <4>1, <4>2
      <3> QED
        BY <2>1, <3>1, <3>2
    <2>2. Unmoved(LockOps)
      BY <1>0, <1>10, <2>1, UnmovedAbove
    <2> QED
      BY <1>0, <1>2, <2>2, UnmovedLocks DEF Inv
  <1>17. Counts'
    <2>1. Has(t, n, OpenOps) /\ ~Has(t, n, OpenOps)' /\ stack[t][n].img = i
      BY <1>1, <1>7, <1>10 DEF Has, OpenOps, Op, Img
    <2>2. \A m \in Nat : m > n - 1 /\ m # n => ~Has(t, m, OpenOps) /\ ~Has(t, m, OpenOps)'
      BY <1>1, <1>8, <1>10 DEF Has, OpenOps
    <2>3. UnmovedBut(OpenOps, t, n)
      BY <1>0, <1>1, <1>10, <2>2, UnmovedButAbove
    <2>4. /\ \A j : j # i => Calls(j)' = Calls(j)
          /\ IsFiniteSet(Calls(i)) => IsFiniteSet(Calls(i)') /\ Cardinality(Calls(i)') = Cardinality(Calls(i)) - 1
      BY <1>0, <1>14, <2>1, <2>3, CallRemoved DEF Types
    <2>5. ASSUME NEW j \in Images
          PROVE  /\ IsFiniteSet(Calls(j)') /\ count'[j] = handles'[j] + Cardinality(Calls(j)') /\ count'[j] <= opens'
      <3>1. /\ IsFiniteSet(Calls(j)) /\ count[j] = handles[j] + Cardinality(Calls(j)) /\ count[j] <= opens
            /\ Cardinality(Calls(j)) \in Nat /\ handles[j] \in Nat
        BY <1>4, FS_CardinalityType DEF Inv, Counts
      <3>2. CASE j = i
        <4>1. IsFiniteSet(Calls(i)) /\ IsFiniteSet(Calls(i)') /\ Cardinality(Calls(i)') = Cardinality(Calls(i)) - 1
          BY <2>4, <3>1, <3>2
        <4>2. handles'[i] = handles[i] /\ count'[i] = count[i] - 1 /\ opens' = opens
          BY <1>2, <1>5, <1>6
        <4>3. count[i] = handles[i] + Cardinality(Calls(i)) /\ count[i] \in Nat /\ count[i] <= opens
          BY <1>4, <3>1, <3>2
        <4>4. count'[i] = handles'[i] + Cardinality(Calls(i)')
          BY <3>1, <3>2, <4>1, <4>2, <4>3
        <4>5. count'[i] <= opens'
          BY <1>4, <4>2, <4>3
        <4> QED
          BY <3>2, <4>1, <4>4, <4>5
      <3>3. CASE j # i
        BY <1>2, <1>5, <1>6, <2>4, <3>1, <3>3
      <3> QED
        BY <3>2, <3>3
    <2> QED
      BY <2>5 DEF Counts
  <1>18. glock.owner = t
    BY <1>1, OwnerIs DEF LockOps
  <1>19. \A j \in Images : c[j] # 0 => count[j] # 0
    BY <1>4, <1>6
  <1>20. /\ \A m \in ((n - 1) + 1)..Len(stack[t]) : Op(t, m) \in {"failed", "undo", "gc"}
         /\ \A m \in ((n - 1) + 1)..Len(stack'[t]) :
               Op(t, m)' \in {"undo", "close", "gc"} /\ (Op(t, m)' = "undo" => Img(t, m)' \in Loaded)
    BY <1>1, <1>11, <1>12
  <1>21. \A j \in Images : handles'[j] > 0 => handles[j] > 0
    BY <1>2
  <1>22. CASE c[i] = 0
    <2>1. OneGC'
      <3>1. ASSUME NEW m \in Nat, m > n - 1, m # n + 1
            PROVE  ~Has(t, m, {"gc"}) /\ ~Has(t, m, {"gc"})'
        BY <1>1, <1>7, <1>10, <1>22, <3>1 DEF Has, Op
      <3>2. UnmovedBut({"gc"}, t, n + 1)
        <4>1. n + 1 \in Nat /\ n + 1 > n - 1 /\ Above(t, n - 1)
          BY <1>1, <1>10
        <4> QED
          BY <1>0, <3>1, <4>1, UnmovedButAbove
      <3>3. Has(t, n + 1, {"gc"})'
        BY <1>8, <1>10, <1>22 DEF Has
      <3> QED
        BY <1>3, <1>9, <1>22, <3>2, <3>3, NewGC
    <2>2. doingGC' = TRUE /\ redo' = FALSE /\ marked' = [j \in Images |-> j \in InUse(c)]
      BY <1>9, <1>22
    <2> HIDE DEF f
    <2> QED
      BY <1>0, <1>2, <1>3, <1>5, <1>10, <1>13, <1>14, <1>15, <1>16, <1>17, <1>18, <1>19, <1>20, <1>21,
         <2>1, <2>2, CollectionStarts DEF f
  <1>23. CASE c[i] # 0
    <2>1. UNCHANGED <<marked, doingGC, redo>> /\ Len(stack'[t]) = n
      BY <1>9, <1>10, <1>23
    <2>2. \A X : (Op(t, n)' \in X <=> Op(t, n) \in X) => Unmoved(X)
      BY <1>0, <1>1, <1>10, <1>12, <2>1, UnmovedTop
    <2>3. Unmoved(Busy) /\ Unmoved({"running"}) /\ Unmoved({"gc"})
      BY <1>1, <1>12, <2>2 DEF Busy
    <2>4. OneGC' /\ Visiting' /\ States'
      BY <1>0, <1>2, <1>21, <2>1, <2>3, UnmovedGC, VisitingKept, StatesHeld DEF Inv
    <2>5. Kept = Images /\ Kept' = Images /\ Core' = Core /\ Loaded' = Loaded /\ Core \in SUBSET Images
      BY <1>2, <1>3, <2>1 DEF Kept, Core, Loaded
    <2>6. ASSUME NEW u \in Threads, NEW m \in Nat, Has(u, m, Pending)' PROVE FALSE
      <3>1. CASE u = t /\ m >= n
        BY <1>12, <2>1, <2>6, <3>1 DEF Has, Op, Pending
      <3>2. CASE u # t \/ m < n
        <4>1. Has(u, m, Pending)
          BY <1>1, <1>10, <2>6, <3>2 DEF Above, Has
        <4> QED
          BY <1>3, <3>2, <4>1 DEF Has, Op
      <3> QED
        BY <3>1, <3>2
    <2>7. i \in Core
      <3>1. CountSources'
        BY <1>13, <1>14, <1>17, SourcesOfCount, PTL
      <3>2. handles[i] > 0 \/ \E u \in Threads : \E m \in Nat : Has(u, m, OpenOps)' /\ stack'[u][m].img = i
        BY <1>2, <1>5, <1>23, <3>1 DEF CountSources
      <3>3. CASE handles[i] > 0
        BY <3>3 DEF Inv, States
      <3>4. ASSUME NEW u \in Threads, NEW m \in Nat, Has(u, m, OpenOps)', stack'[u][m].img = i
            PROVE  i \in Core
        <4>1. Has(u, m, {"process"})'
          BY <2>6, <3>4 DEF Has, OpenOps, Pending
        <4>2. u # t \/ m < n
          BY <1>12, <2>1, <4>1 DEF Has, Op
        <4>3. Has(u, m, {"process"}) /\ stack[u][m].img = i
          BY <1>1, <1>10, <3>4, <4>1, <4>2 DEF Above, Has
        <4> QED
          BY <4>3 DEF Inv, Linked, Has, Op, Img
      <3> QED
        BY <3>2, <3>3, <3>4
    <2>8. \A j \in Core : LibImages[j] \subseteq Core
      BY <2>5 DEF Inv, Linked
    <2>9. Loaded \subseteq Core
      <3>1. Tree(i) \subseteq Core
        BY <2>5, <2>7, <2>8, TreeLeast
      <3>2. ASSUME NEW j \in Loaded \ Core PROVE j \in Tree(i)
        <4>1. PICK u \in Threads : \E m \in 1..Len(stack[u]) : Op(u, m) \in Pending /\ j \in Tree(Img(u, m))
          BY <1>3 DEF Inv, Linked
        <4>2. PICK m \in 1..Len(stack[u]) : Op(u, m) \in Pending /\ j \in Tree(Img(u, m))
          BY <4>1
        <4> QED
          BY <1>1, <1>3, <4>2
      <3> QED
        BY <3>1, <3>2
    <2>10. Linked'
      <3>1. ASSUME NEW u \in Threads, NEW m \in 1..Len(stack'[u])
            PROVE  /\ Op(u, m)' = "process" => Img(u, m)' \in Core' \cap Kept'
                   /\ Op(u, m)' \notin Pending
                   /\ LoadAt(u, m)'
        <4>1. m \in Nat
          OBVIOUS
        <4>2. Op(u, m)' \notin Pending
          BY <2>6, <4>1 DEF Has, Op
        <4>3. LoadAt(u, m)'
          BY <4>2 DEF LoadAt, Pending
        <4>4. ASSUME Op(u, m)' = "process" PROVE Img(u, m)' \in Core
          <5>1. Has(u, m, {"process"})' /\ Unmoved({"process"})
            BY <1>1, <1>12, <2>2, <4>4 DEF Has, Op
          <5>2. Has(u, m, {"process"}) /\ Img(u, m)' = Img(u, m)
            BY <4>1, <5>1 DEF Unmoved, Img
          <5> QED
            BY <5>2 DEF Inv, Linked, Has, Op
        <4> QED
          BY <2>5, <4>2, <4>3, <4>4
      <3> QED
        BY <2>5, <2>8, <2>9, <3>1 DEF Linked, Loading
    <2>11. Marks'
      <3>1. \A j \in Images : c[j] # 0 <=> count[j] # 0
        BY <1>4, <1>6, <1>23
      <3>2. InUse(count)' = InUse(count)
        BY <1>2, <1>5, <3>1, SameRoots
      <3> QED
        BY <1>3, <2>1, <2>5, <3>2 DEF Inv, Marks
    <2> QED
      BY <1>13, <1>14, <1>15, <1>16, <1>17, <2>1, <2>4, <2>10, <2>11 DEF Inv, Types, Flags
  <1> QED
    BY <1>22, <1>23

\* A handle less, and as many references.
LEMMA HandleClosed ==
    ASSUME Inv, StackTypes', NEW i \in Images, handles[i] > 0, Unmoved(OpenOps),
           count' = [count EXCEPT ![i] = count[i] - 1], handles' = [handles EXCEPT ![i] = handles[i] - 1], opens' = opens
    PROVE  /\ count' \in [Images -> Nat] /\ handles' \in [Images -> Nat] /\ Counts'
           /\ \A j \in Images : count'[j] # 0 => count[j] # 0
           /\ \A j \in Images : handles'[j] > 0 => handles[j] > 0
           /\ count'[i] # 0 => \A j \in Images : count'[j] # 0 <=> count[j] # 0
  <1>1. /\ count \in [Images -> Nat] /\ handles \in [Images -> Nat] /\ opens \in Nat /\ count[i] # 0
    <2>1. count \in [Images -> Nat] /\ handles \in [Images -> Nat] /\ opens \in 0..MaxOpens
      BY DEF Inv, Types, DataTypes
    <2>2. count[i] # 0
      BY CountMeans
    <2> QED
      BY <2>1, <2>2, Dyld2Assumption
  <1>2. /\ count'[i] = count[i] - 1 /\ handles'[i] = handles[i] - 1
        /\ \A j \in Images : j # i => count'[j] = count[j] /\ handles'[j] = handles[j]
    BY <1>1
  <1>3. count' \in [Images -> Nat] /\ handles' \in [Images -> Nat]
    BY <1>1
  <1>4. ASSUME NEW j \in Images
        PROVE  /\ IsFiniteSet(Calls(j)') /\ count'[j] = handles'[j] + Cardinality(Calls(j)') /\ count'[j] <= opens'
    <2>1. Calls(j)' = Calls(j)
      BY UnmovedCalls DEF Inv, Types
    <2>2. /\ IsFiniteSet(Calls(j)) /\ count[j] = handles[j] + Cardinality(Calls(j)) /\ count[j] <= opens
          /\ Cardinality(Calls(j)) \in Nat /\ handles[j] \in Nat /\ count[j] \in Nat
      BY <1>1, FS_CardinalityType DEF Inv, Counts
    <2>3. CASE j = i
      <3>1. count'[j] = count[j] - 1 /\ handles'[j] = handles[j] - 1
        BY <1>2, <2>3
      <3>2. count'[j] = handles'[j] + Cardinality(Calls(j))
        BY <2>2, <3>1
      <3>3. count'[j] <= opens
        BY <1>1, <2>2, <3>1
      <3> QED
        BY <2>1, <2>2, <3>2, <3>3
    <2>4. CASE j # i
      BY <1>2, <2>1, <2>2, <2>4
    <2> QED
      BY <2>3, <2>4
  <1>5. Counts'
    BY <1>4 DEF Counts
  <1>6. \A j \in Images : count'[j] # 0 => count[j] # 0
    BY <1>1, <1>2
  <1>7. \A j \in Images : handles'[j] > 0 => handles[j] > 0
    BY <1>1, <1>2
  <1> QED
    BY <1>1, <1>2, <1>3, <1>5, <1>6, <1>7

\* dlclose() gives a reference back, and collects or has the collection started over.
LEMMA DlcloseInv ==
    ASSUME Inv, NEW t \in Threads, NEW i \in Images, Dlclose(t, i)
    PROVE  Inv'
  <1> DEFINE g == Frame("close", i, <<>>)
             h == Frame("gc", None, all)
             c == [count EXCEPT ![i] = count[i] - 1]
  <1>0. Types /\ DataTypes /\ handles[i] > 0 /\ StackTypes /\ Len(cells) \in Nat
    BY CellsLen DEF Dlclose, Inv, Types
  <1> PICK n \in Nat : n = Len(stack[t])
    BY <1>0, StackType
  <1>1. /\ UNCHANGED <<all, state, refs, depth, ilock, cells, end, opens, inits>> /\ cells' = cells
        /\ count' = c /\ handles' = [handles EXCEPT ![i] = handles[i] - 1]
    BY DEF Dlclose, termVars, history
  <1>2. glock.owner \in {None, t} /\ (stack[t] # <<>> => Top(t).op \notin Linking)
    BY DEF Dlclose, GlobalLockAcquire, UserRuns, At, Linking
  <1>3. g \in Frames /\ FrameOK(g) /\ g.op = "close" /\ g.img = i
    BY FrameIs DEF Ops, Locked, LockOps
  <1>4. h \in Frames /\ FrameOK(h) /\ h.op = "gc"
    BY <1>0, GcFrame
  <1>5. \/ /\ c[i] = 0 /\ ~doingGC /\ GlobalLockAcquire(t)
           /\ doingGC' = TRUE /\ redo' = FALSE /\ marked' = [j \in Images |-> j \in InUse(c)]
           /\ stack' = [stack EXCEPT ![t] = Append(Append(stack[t], g), h)]
        \/ /\ c[i] = 0 /\ doingGC /\ GlobalLockAcquire(t)
           /\ redo' = TRUE /\ UNCHANGED <<marked, doingGC>> /\ Call(t, g)
        \/ /\ c[i] # 0 /\ UNCHANGED <<glock, stack, marked, doingGC, redo>>
    BY DEF Dlclose, GarbageCollectImages, MarkPhase, Call, gcVars
  <1> HIDE DEF g, h, c
  <1>6. ASSUME StackTypes', Unmoved(OpenOps), marked' \in [Images -> BOOLEAN]
        PROVE  /\ DataTypes' /\ Counts' /\ States'
               /\ \A j \in Images : count'[j] # 0 => count[j] # 0
               /\ \A j \in Images : handles'[j] > 0 => handles[j] > 0
               /\ c[i] # 0 => \A j \in Images : count'[j] # 0 <=> count[j] # 0
    <2>1. /\ count' \in [Images -> Nat] /\ handles' \in [Images -> Nat] /\ Counts'
          /\ \A j \in Images : count'[j] # 0 => count[j] # 0
          /\ \A j \in Images : handles'[j] > 0 => handles[j] > 0
          /\ c[i] # 0 => \A j \in Images : count'[j] # 0 <=> count[j] # 0
      BY <1>0, <1>1, <1>6, HandleClosed DEF c
    <2>2. DataTypes'
      BY <1>0, <1>1, <1>6, <2>1 DEF DataTypes
    <2>3. States'
      BY <1>1, <2>1, StatesHeld
    <2> QED
      BY <2>1, <2>2, <2>3
  <1>7. \A x \in 1..n : x \in 1..Len(stack[t])
    OBVIOUS
  <1>8. n = 0 \/ Op(t, n) \notin Linking
    <2>1. n # 0 => stack[t] # <<>>
      BY <1>0, StackType
    <2> QED
      BY <1>0, <1>2, <2>1, TopFrame DEF Op
  <1>9. CASE /\ c[i] = 0 /\ ~doingGC /\ GlobalLockAcquire(t)
             /\ doingGC' = TRUE /\ redo' = FALSE /\ marked' = [j \in Images |-> j \in InUse(c)]
             /\ stack' = [stack EXCEPT ![t] = Append(Append(stack[t], g), h)]
    <2>1. /\ Above(t, n) /\ Exact(t, n) /\ Len(stack'[t]) = n + 2
          /\ stack'[t][n + 1] = g /\ stack'[t][n + 2] = h
      BY <1>0, <1>3, <1>4, <1>9, AppendedTwice
    <2> DEFINE m == n + 1
    <2>2. /\ m \in Nat /\ m > 0 /\ m > n /\ m + 1 = n + 2 /\ m \in 1..Len(stack'[t]) /\ m + 1 \in 1..Len(stack'[t])
          /\ (\A x \in (n + 1)..Len(stack'[t]) : x = m \/ x = m + 1) /\ (\A x \in (n + 1)..Len(stack[t]) : FALSE)
          /\ (\A x \in Nat : x > n /\ x # m /\ x # m + 1 => x \notin 1..Len(stack'[t]) /\ x \notin 1..Len(stack[t]))
          /\ m \notin 1..Len(stack[t]) /\ m + 1 \notin 1..Len(stack[t])
      <3>1. Len(stack'[t]) = n + 2 /\ Len(stack[t]) = n
        BY <2>1
      <3> QED
        BY <3>1
    <2>3. stack'[t][m] = g /\ stack'[t][m + 1] = h
      BY <2>1, <2>2
    <2> HIDE DEF m
    <2>4. Op(t, m)' = "close" /\ Op(t, m + 1)' = "gc"
      BY <1>3, <1>4, <2>3 DEF Op
    <2>5. StackTypes'
      <3>1. \A x \in (n + 1)..Len(stack'[t]) : FrameOK(stack'[t][x]) /\ stack'[t][x].op # "push"
        BY <1>3, <1>4, <2>2, <2>3
      <3> QED
        BY <1>0, <1>1, <2>1, <3>1, StackTypesKept
    <2>6. Shape'
      <3>1. ShapeAt(t, m)' /\ ShapeAt(t, m + 1)'
        BY <2>2, <2>4, CloseShape, GcShape DEF LockOps
      <3>2. \A x \in (n + 1)..Len(stack'[t]) : ShapeAt(t, x)'
        BY <2>2, <3>1
      <3> QED
        BY <1>0, <1>8, <2>1, <3>2, ShapeKept DEF Inv
    <2>7. Unmoved(OpenOps)
      <3>1. \A x \in (n + 1)..Len(stack[t]) : Op(t, x) \notin OpenOps
        BY <2>2
      <3>2. \A x \in (n + 1)..Len(stack'[t]) : Op(t, x)' \notin OpenOps
        BY <2>2, <2>4 DEF OpenOps
      <3> QED
        BY <1>0, <2>1, <3>1, <3>2, NothingBusy
    <2>8. Locks'
      <3>1. \A x \in Nat : x > n /\ x # m => ~Has(t, x, LockOps) /\ ~Has(t, x, LockOps)'
        BY <1>4, <2>2, <2>3 DEF Has, LockOps
      <3>2. UnmovedBut(LockOps, t, m)
        BY <1>0, <2>1, <2>2, <3>1, UnmovedButAbove
      <3>3. ~Has(t, m, LockOps) /\ Has(t, m, LockOps)'
        BY <1>3, <2>2, <2>3 DEF Has, LockOps
      <3> QED
        BY <1>0, <1>9, <2>2, <3>2, <3>3, LockTaken DEF Inv
    <2>9. OneGC'
      <3>1. \A x \in Nat : x > n /\ x # m + 1 => ~Has(t, x, {"gc"}) /\ ~Has(t, x, {"gc"})'
        BY <1>3, <2>2, <2>3 DEF Has
      <3>2. m + 1 \in Nat /\ m + 1 > n
        BY <2>2
      <3>3. UnmovedBut({"gc"}, t, m + 1)
        BY <1>0, <2>1, <3>1, <3>2, UnmovedButAbove
      <3>4. Has(t, m + 1, {"gc"})'
        BY <1>4, <2>2, <2>3 DEF Has
      <3> QED
        BY <1>9, <3>2, <3>3, <3>4, NewGC
    <2>10. marked' \in [Images -> BOOLEAN]
      BY <1>9
    <2>11. /\ \A x \in (n + 1)..Len(stack[t]) : Op(t, x) \in {"failed", "undo", "gc"}
           /\ \A x \in (n + 1)..Len(stack'[t]) :
                 Op(t, x)' \in {"undo", "close", "gc"} /\ (Op(t, x)' = "undo" => Img(t, x)' \in Loaded)
      BY <2>2, <2>4
    <2>12. DataTypes' /\ Counts' /\ \A j \in Images : c[j] # 0 => count[j] # 0
      BY <1>1, <1>6, <2>5, <2>7, <2>10
    <2>13. stack[t] # <<>> => Top(t).op \notin {"load", "depths"}
      BY <1>2 DEF Linking
    <2>14. \A j \in Images : handles'[j] > 0 => handles[j] > 0
      BY <1>6, <2>5, <2>7, <2>10
    <2> QED
      BY <1>1, <1>2, <1>9, <2>1, <2>5, <2>6, <2>8, <2>9, <2>11, <2>12, <2>13, <2>14, CollectionStarts
  <1>10. CASE /\ c[i] = 0 /\ doingGC /\ GlobalLockAcquire(t)
              /\ redo' = TRUE /\ UNCHANGED <<marked, doingGC>> /\ Call(t, g)
    <2>1. Above(t, n) /\ Exact(t, n) /\ Len(stack'[t]) = n + 1 /\ stack'[t][n + 1] = g
      BY <1>0, <1>3, <1>10, Called
    <2> DEFINE m == n + 1
    <2>2. /\ m \in Nat /\ m > 0 /\ m > n /\ m \in 1..Len(stack'[t])
          /\ (\A x \in (n + 1)..Len(stack'[t]) : x = m) /\ (\A x \in (n + 1)..Len(stack[t]) : FALSE)
          /\ (\A x \in Nat : x > n /\ x # m => x \notin 1..Len(stack'[t]) /\ x \notin 1..Len(stack[t]))
          /\ m \notin 1..Len(stack[t])
      BY <2>1
    <2>3. stack'[t][m] = g /\ Op(t, m)' = "close"
      BY <1>3, <2>1 DEF Op
    <2> HIDE DEF m
    <2>4. StackTypes'
      <3>1. \A x \in (n + 1)..Len(stack'[t]) : FrameOK(stack'[t][x]) /\ stack'[t][x].op # "push"
        BY <1>3, <2>2, <2>3
      <3> QED
        BY <1>0, <1>1, <2>1, <3>1, StackTypesKept
    <2>5. Shape'
      <3>1. \A x \in (n + 1)..Len(stack'[t]) : ShapeAt(t, x)'
        BY <2>2, <2>3, CloseShape
      <3> QED
        BY <1>0, <1>8, <2>1, <3>1, ShapeKept DEF Inv
    <2>6. ASSUME NEW X, "close" \notin X PROVE Unmoved(X)
      <3>1. \A x \in (n + 1)..Len(stack'[t]) : Op(t, x)' \notin X
        BY <2>2, <2>3, <2>6
      <3>2. \A x \in (n + 1)..Len(stack[t]) : Op(t, x) \notin X
        BY <2>2
      <3> QED
        BY <1>0, <2>1, <3>1, <3>2, NothingBusy
    <2>7. /\ Unmoved(OpenOps) /\ Unmoved({"gc"}) /\ Unmoved(Busy) /\ Unmoved({"running"})
          /\ Unmoved(Pending) /\ Unmoved({"process"})
      BY <2>6 DEF OpenOps, Busy, Pending
    <2>8. Locks'
      <3>1. \A x \in Nat : x > n /\ x # m => ~Has(t, x, LockOps) /\ ~Has(t, x, LockOps)'
        BY <2>2 DEF Has
      <3>2. UnmovedBut(LockOps, t, m)
        BY <1>0, <2>1, <2>2, <3>1, UnmovedButAbove
      <3>3. ~Has(t, m, LockOps) /\ Has(t, m, LockOps)'
        BY <1>3, <2>2, <2>3 DEF Has, LockOps
      <3> QED
        BY <1>0, <1>10, <2>2, <3>2, <3>3, LockTaken DEF Inv
    <2>9. marked' \in [Images -> BOOLEAN]
      BY <1>0, <1>10 DEF DataTypes
    <2>10. DataTypes' /\ Counts' /\ States' /\ \A j \in Images : count'[j] # 0 => count[j] # 0
      BY <1>6, <2>4, <2>7, <2>9
    <2>11. OneGC' /\ Visiting'
      BY <1>0, <1>1, <1>10, <2>7, UnmovedGC, VisitingKept DEF Inv
    <2>12. Linked'
      <3>1. Loading'
        <4>1. \A x \in (n + 1)..Len(stack'[t]) : LoadAt(t, x)'
          BY <2>2, <2>3 DEF LoadAt
        <4> QED
          BY <1>1, <2>1, <4>1, LoadingKept
      <3>2. \A u \in Threads : \A x \in Nat : Has(u, x, {"process"})' =>
               Has(u, x, {"process"}) /\ stack'[u][x].img = stack[u][x].img
        BY <2>7 DEF Unmoved
      <3> QED
        BY <1>1, <1>10, <2>7, <3>1, <3>2, LinkedKept
    <2>13. Marks'
      <3>1. Kept' = Kept /\ refs' = refs
        BY <1>1, <1>10 DEF Kept
      <3> QED
        BY <1>10, <2>10, <3>1 DEF Inv, Marks
    <2> QED
      BY <1>10, <2>4, <2>5, <2>8, <2>10, <2>11, <2>12, <2>13 DEF Inv, Types, Flags
  <1>11. CASE c[i] # 0 /\ UNCHANGED <<glock, stack, marked, doingGC, redo>>
    <2>1. stack' = stack
      BY <1>11
    <2>2. StackTypes' /\ Shape' /\ OneGC' /\ Locks' /\ Visiting'
      <3>1. StackTypes'
        BY <1>0, <1>1, <2>1 DEF StackTypes, Op
      <3>2. Shape'
        BY <2>1 DEF Inv, Shape, ShapeAt, Op, Img
      <3>3. OneGC' /\ Locks'
        <4>1. Unmoved({"gc"}) /\ Unmoved(LockOps)
          BY <2>1 DEF Unmoved, Has
        <4> QED
          BY <1>0, <1>11, <4>1, UnmovedGC, UnmovedLocks DEF Inv
      <3>4. Visiting'
        BY <1>1, <1>11 DEF Inv, Visiting, Op, Img
      <3> QED
        BY <3>1, <3>2, <3>3, <3>4
    <2>3. \A X : Unmoved(X)
      BY <2>1 DEF Unmoved, Has
    <2>4. marked' \in [Images -> BOOLEAN]
      BY <1>0, <1>11 DEF DataTypes
    <2>5. /\ DataTypes' /\ Counts' /\ States' /\ (\A j \in Images : count'[j] # 0 => count[j] # 0)
          /\ \A j \in Images : count'[j] # 0 <=> count[j] # 0
      BY <1>6, <1>11, <2>2, <2>3, <2>4
    <2>6. Linked'
      <3>1. Loading'
        <4>1. \A u, x : LoadAt(u, x)' = LoadAt(u, x)
          BY <1>1, <2>1 DEF LoadAt, Op, Loaded
        <4> QED
          BY <2>1, <4>1 DEF Inv, Linked, Loading
      <3>2. \A u \in Threads : \A x \in Nat : Has(u, x, {"process"})' =>
               Has(u, x, {"process"}) /\ stack'[u][x].img = stack[u][x].img
        BY <2>1 DEF Has
      <3> QED
        BY <1>1, <1>11, <2>3, <3>1, <3>2, LinkedKept
    <2>7. Marks'
      <3>1. InUse(count)' = InUse(count)
        BY <1>1, <2>5, SameRoots
      <3>2. Kept' = Kept /\ refs' = refs /\ Loaded' = Loaded
        BY <1>1, <1>11 DEF Kept, Loaded
      <3> QED
        BY <1>11, <2>5, <3>1, <3>2 DEF Inv, Marks
    <2> QED
      BY <1>11, <2>2, <2>5, <2>6, <2>7 DEF Inv, Types, Flags
  <1> QED
    BY <1>5, <1>9, <1>10, <1>11

\* All the collection left is marked.  It starts over, or it is done: what is loaded
\* is then bound, or belongs to the dlopen() that failed.
LEMMA GcDoneInv ==
    ASSUME Inv, NEW t \in Threads, GcDone(t)
    PROVE  Inv'
  <1> DEFINE f == Top(t)
             h == Frame("gc", None, all)
  <1>0. stack[t] # <<>> /\ f.op = "gc" /\ Types /\ DataTypes /\ Len(cells) \in Nat
    BY CellsLen DEF GcDone, At, Inv, Types
  <1> PICK n \in Nat : n = Len(stack[t])
    BY <1>0, TopFrame
  <1>1. n > 0 /\ f = stack[t][n] /\ n \in 1..Len(stack[t]) /\ Op(t, n) = "gc"
    BY <1>0, TopFrame DEF Op
  <1>2. /\ UNCHANGED <<all, state, count, refs, depth, glock, ilock, cells, end, handles, opens, inits>>
        /\ \A i \in Loaded : marked[i]
    BY DEF GcDone, termVars, history
  <1>3. glock.owner = t /\ doingGC
    BY <1>1, OwnerIs DEF Inv, OneGC
  <1>4. ShapeAt(t, n)
    BY <1>1 DEF Inv, Shape
  <1>5. h \in Frames /\ FrameOK(h) /\ h.op = "gc"
    BY <1>0, GcFrame
  <1>6. \/ /\ redo' = FALSE /\ doingGC' = doingGC /\ marked' = [i \in Images |-> i \in InUse(count)]
           /\ Replace(t, h)
        \/ ~redo /\ doingGC' = FALSE /\ Return(t) /\ UNCHANGED <<marked, redo>>
    BY DEF GcDone, MarkPhase, GcAgain, Replace
  <1> HIDE DEF h
  <1>7. CASE /\ redo' = FALSE /\ doingGC' = doingGC /\ marked' = [i \in Images |-> i \in InUse(count)]
             /\ Replace(t, h)
    <2>1. Above(t, n - 1) /\ Exact(t, n - 1) /\ Len(stack'[t]) = n /\ stack'[t][n] = h
      BY <1>0, <1>5, <1>7, Replaced
    <2>2. /\ (n - 1) + 1 = n /\ (\A m \in ((n - 1) + 1)..Len(stack[t]) : m = n)
          /\ \A m \in ((n - 1) + 1)..Len(stack'[t]) : m = n
      BY <1>1, <2>1
    <2>3. Op(t, n)' = "gc"
      BY <1>5, <2>1 DEF Op
    <2>4. StackTypes'
      <3>1. \A m \in ((n - 1) + 1)..Len(stack'[t]) : FrameOK(stack'[t][m]) /\ stack'[t][m].op # "push"
        BY <1>5, <2>1, <2>2
      <3> QED
        BY <1>0, <1>2, <2>1, <3>1, StackTypesKept
    <2>5. Shape'
      <3>1. ShapeAt(t, n)'
        <4>1. n > 1 /\ Op(t, n - 1) \in LockOps /\ n - 1 \in 1..(n - 1)
          BY <1>1, <1>4 DEF ShapeAt
        <4>2. Op(t, n - 1)' \in LockOps
          BY <2>1, <4>1 DEF Above, Op
        <4> QED
          BY <2>3, <4>1, <4>2 DEF ShapeAt, Linking, Locked, Pending, Visits, Busy
      <3>2. \A m \in ((n - 1) + 1)..Len(stack'[t]) : ShapeAt(t, m)'
        BY <2>2, <3>1
      <3> QED
        BY <1>0, <1>1, <2>1, <3>2, ShapeKept DEF Inv
    <2>6. ASSUME NEW X, "gc" \notin X PROVE Unmoved(X)
      <3>1. \A m \in ((n - 1) + 1)..Len(stack[t]) : Op(t, m) \notin X
        BY <1>1, <2>2, <2>6
      <3>2. \A m \in ((n - 1) + 1)..Len(stack'[t]) : Op(t, m)' \notin X
        BY <2>2, <2>3, <2>6
      <3> QED
        BY <1>0, <2>1, <3>1, <3>2, NothingBusy
    <2>7. Unmoved(LockOps) /\ Unmoved(OpenOps)
      BY <2>6 DEF LockOps, OpenOps
    <2>8. Locks'
      BY <1>0, <1>2, <2>7, UnmovedLocks DEF Inv
    <2>9. Counts'
      <3>1. \A i \in Images : Calls(i)' = Calls(i)
        BY <1>0, <2>4, <2>7, UnmovedCalls DEF Types
      <3> QED
        BY <1>2, <3>1 DEF Inv, Counts
    <2>10. OneGC'
      <3>1. ASSUME NEW u \in Threads, NEW m \in Nat
            PROVE  Has(u, m, {"gc"})' <=> Has(u, m, {"gc"})
        <4>1. CASE u # t
          BY <2>1, <4>1 DEF Above, Has
        <4>2. CASE u = t /\ m < n
          BY <1>1, <2>1, <4>2 DEF Above, Has
        <4>3. CASE u = t /\ m >= n
          BY <1>1, <1>5, <2>1, <4>3 DEF Has, Op
        <4> QED
          BY <4>1, <4>2, <4>3
      <3>2. ASSUME NEW u \in Threads, NEW m
            PROVE  (m \in 1..Len(stack'[u]) /\ Op(u, m)' = "gc") <=> (m \in 1..Len(stack[u]) /\ Op(u, m) = "gc")
        <4>1. m \in Nat => (Has(u, m, {"gc"})' <=> Has(u, m, {"gc"}))
          BY <3>1
        <4>2. m \notin Nat => m \notin 1..Len(stack'[u]) /\ m \notin 1..Len(stack[u])
          OBVIOUS
        <4> QED
          BY <4>1, <4>2 DEF Has, Op
      <3>3. \A u, v \in Threads : \A m \in 1..Len(stack'[u]), k \in 1..Len(stack'[v]) :
               Op(u, m)' = "gc" /\ Op(v, k)' = "gc" => u = v /\ m = k
        BY <3>2 DEF Inv, OneGC
      <3>4. doingGC' /\ n \in 1..Len(stack'[t])
        BY <1>1, <1>3, <1>7, <2>1
      <3> QED
        BY <2>3, <3>3, <3>4 DEF OneGC
    <2>11. DataTypes'
      <3>1. marked' \in [Images -> BOOLEAN]
        BY <1>7
      <3> QED
        BY <1>0, <1>2, <3>1 DEF DataTypes
    <2>12. /\ \A m \in ((n - 1) + 1)..Len(stack[t]) : Op(t, m) \in {"failed", "undo", "gc"}
           /\ \A m \in ((n - 1) + 1)..Len(stack'[t]) :
                 Op(t, m)' \in {"undo", "close", "gc"} /\ (Op(t, m)' = "undo" => Img(t, m)' \in Loaded)
      BY <1>1, <2>2, <2>3
    <2>13. /\ count' = count /\ (\A i \in Images : handles'[i] > 0 => handles[i] > 0) /\ doingGC' = TRUE
           /\ (stack[t] # <<>> => Top(t).op \notin {"load", "depths"})
      BY <1>0, <1>2, <1>3, <1>7 DEF Inv, Flags
    <2> HIDE DEF f
    <2> QED
      BY <1>2, <1>3, <1>7, <2>1, <2>4, <2>5, <2>8, <2>9, <2>10, <2>11, <2>12, <2>13, CollectionStarts
  <1>8. CASE ~redo /\ doingGC' = FALSE /\ Return(t) /\ UNCHANGED <<marked, redo>>
    <2>1. Above(t, n - 1) /\ Exact(t, n - 1) /\ Len(stack'[t]) = n - 1
      BY <1>0, <1>8, Returned
    <2>2. /\ (\A m \in ((n - 1) + 1)..Len(stack'[t]) : FALSE)
          /\ (\A m \in ((n - 1) + 1)..Len(stack[t]) : m = n)
      BY <1>1, <2>1
    <2>3. StackTypes'
      BY <1>0, <1>2, <2>1, <2>2, StackTypesKept
    <2>4. Shape'
      BY <1>0, <2>1, <2>2, ShapeKept DEF Inv
    <2>5. ASSUME NEW X, "gc" \notin X PROVE Unmoved(X)
      <3>1. \A m \in ((n - 1) + 1)..Len(stack[t]) : Op(t, m) \notin X
        BY <1>1, <2>2, <2>5
      <3> QED
        BY <1>0, <2>1, <2>2, <3>1, NothingBusy
    <2>6. /\ Unmoved(LockOps) /\ Unmoved(OpenOps) /\ Unmoved(Busy) /\ Unmoved({"running"})
          /\ Unmoved(Pending) /\ Unmoved({"process"})
      BY <2>5 DEF LockOps, OpenOps, Busy, Pending
    <2>7. Locks' /\ Visiting'
      BY <1>0, <1>2, <2>6, UnmovedLocks, VisitingKept DEF Inv
    <2>8. Counts'
      <3>1. \A i \in Images : Calls(i)' = Calls(i)
        BY <1>0, <2>3, <2>6, UnmovedCalls DEF Types
      <3> QED
        BY <1>2, <3>1 DEF Inv, Counts
    <2>9. States'
      BY <1>2, StatesHeld
    <2>10. DataTypes'
      BY <1>0, <1>2, <1>8 DEF DataTypes
    <2>11. OneGC'
      <3>1. ASSUME NEW u \in Threads, NEW m \in 1..Len(stack'[u]), Op(u, m)' = "gc" PROVE FALSE
        <4>1. CASE u # t
          <5>1. m \in 1..Len(stack[u]) /\ Op(u, m) = "gc"
            BY <2>1, <3>1, <4>1 DEF Above, Op
          <5> QED
            BY <1>1, <4>1, <5>1 DEF Inv, OneGC
        <4>2. CASE u = t
          <5>1. m \in 1..Len(stack[t]) /\ Op(t, m) = "gc" /\ m # n
            BY <1>1, <2>1, <3>1, <4>2 DEF Above, Op
          <5> QED
            BY <1>1, <5>1 DEF Inv, OneGC
        <4> QED
          BY <4>1, <4>2
      <3> QED
        BY <1>8, <3>1 DEF OneGC
    <2>12. /\ Kept' = Images /\ Core' = Core /\ Loaded' = Loaded /\ Core \subseteq Loaded /\ Loaded \subseteq Kept
           /\ Kept \subseteq InUse(count) /\ Loaded \subseteq Images
      <3>1. Kept' = Images /\ Core' = Core /\ Loaded' = Loaded
        BY <1>2, <1>8 DEF Kept, Core, Loaded
      <3>2. Core \subseteq Loaded /\ Loaded \subseteq Images
        BY LoadedImages DEF Inv
      <3>3. Loaded \subseteq Kept
        BY <1>2, <3>2 DEF Kept
      <3>4. Kept \subseteq InUse(count)
        BY <1>3, <1>8 DEF Inv, Marks
      <3> QED
        BY <3>1, <3>2, <3>3, <3>4
    <2>13. Marks'
      <3>1. InUse(count)' = InUse(count)
        BY <1>2, SameRoots
      <3> QED
        BY <1>8, <2>12, <3>1 DEF Marks
    <2>14. \A j \in Core : LibImages[j] \subseteq Core
      BY <2>12 DEF Inv, Linked
    <2> DEFINE P == {i \in Images : \E u \in Threads : \E m \in 1..Len(stack[u]) : Op(u, m) \in Pending /\ i \in Tree(Img(u, m))}
    <2>15. InUse(count) \subseteq Core \cup P
      <3>1. InUse(count) = Closure(Roots(count), refs)
        BY UsedMeans
      <3>2. Core \cup P \in SUBSET Images
        BY DEF Core
      <3>3. \A j \in P : LibImages[j] \subseteq P
        <4> SUFFICES ASSUME NEW j \in P, NEW l \in LibImages[j] PROVE l \in P
          OBVIOUS
        <4>1. PICK u \in Threads : \E m \in 1..Len(stack[u]) : Op(u, m) \in Pending /\ j \in Tree(Img(u, m))
          OBVIOUS
        <4>2. PICK m \in 1..Len(stack[u]) : Op(u, m) \in Pending /\ j \in Tree(Img(u, m))
          BY <4>1
        <4>3. Img(u, m) \in Images
          BY <2>12, <4>2 DEF Inv, Linked
        <4>4. l \in Tree(Img(u, m)) /\ l \in Images
          BY <4>2, <4>3, TreeFacts, LibsAreImages
        <4> QED
          BY <4>2, <4>4
      <3>4. Roots(count) \subseteq Core \cup P
        <4>1. CountSources
          BY <1>0, SourcesOfCount DEF Inv, Types
        <4>2. ASSUME NEW i \in Images, count[i] # 0 PROVE i \in Core \cup P
          <5>1. CASE handles[i] > 0
            BY <5>1 DEF Inv, States
          <5>2. ASSUME NEW u \in Threads, NEW m \in Nat, Has(u, m, OpenOps), stack[u][m].img = i
                PROVE  i \in Core \cup P
            <6>1. m \in 1..Len(stack[u]) /\ Img(u, m) = i /\ (Op(u, m) = "process" \/ Op(u, m) \in Pending)
              BY <5>2 DEF Has, OpenOps, Pending, Op, Img
            <6>2. CASE Op(u, m) = "process"
              BY <6>1, <6>2 DEF Inv, Linked
            <6>3. CASE Op(u, m) \in Pending
              <7>1. i \in Tree(i)
                BY TreeFacts
              <7> QED
                BY <6>1, <6>3, <7>1
            <6> QED
              BY <6>1, <6>2, <6>3
          <5> QED
            BY <4>1, <4>2, <5>1, <5>2 DEF CountSources
        <4>3. NeverUnload \subseteq Core
          BY DEF Inv, States
        <4> HIDE DEF P
        <4> QED
          BY <4>2, <4>3 DEF Roots
      <3>5. \A r \in refs : r[1] \in Core \cup P => r[2] \in Core \cup P
        BY DEF Inv, States
      <3> HIDE DEF P
      <3>6. \A j \in Core \cup P : LibImages[j] \subseteq Core \cup P
        BY <2>14, <3>3
      <3>7. Closure(Roots(count), refs) \subseteq Core \cup P
        BY <3>2, <3>4, <3>5, <3>6, ClosureLeast
      <3> QED
        BY <3>1, <3>7
    <2>16. Linked'
      <3>1. ASSUME NEW i \in Loaded' \ Core'
            PROVE  \E u \in Threads : \E m \in 1..Len(stack'[u]) : Op(u, m)' \in Pending /\ i \in Tree(Img(u, m)')
        <4>1. i \in P
          BY <2>12, <2>15
        <4>2. PICK u \in Threads : \E m \in 1..Len(stack[u]) : Op(u, m) \in Pending /\ i \in Tree(Img(u, m))
          BY <4>1
        <4>3. PICK m \in 1..Len(stack[u]) : Op(u, m) \in Pending /\ i \in Tree(Img(u, m))
          BY <4>2
        <4>4. m \in Nat /\ Has(u, m, Pending)
          BY <4>3 DEF Has, Op
        <4>5. Has(u, m, Pending)' /\ stack'[u][m].img = stack[u][m].img
          BY <2>6, <4>4 DEF Unmoved
        <4>6. m \in 1..Len(stack'[u]) /\ Op(u, m)' \in Pending /\ Img(u, m)' = Img(u, m)
          BY <4>5 DEF Has, Op, Img
        <4> QED
          BY <4>3, <4>6
      <3>2. ASSUME NEW u \in Threads, NEW m \in 1..Len(stack'[u])
            PROVE  /\ Op(u, m)' = "process" => Img(u, m)' \in Core' \cap Kept'
                   /\ Op(u, m)' \in Pending => Img(u, m)' \in Loaded'
                   /\ LoadAt(u, m)'
        <4>1. m \in 1..Len(stack[u]) /\ Op(u, m)' = Op(u, m) /\ Img(u, m)' = Img(u, m)
          <5>1. CASE u # t
            BY <2>1, <5>1 DEF Above, Op, Img
          <5>2. CASE u = t
            BY <1>1, <2>1, <5>2 DEF Above, Op, Img
          <5> QED
            BY <5>1, <5>2
        <4>2. Op(u, m) \notin {"load", "depths"}
          BY <1>0, <1>3, <4>1, NothingLoading
        <4>3. LoadAt(u, m)'
          BY <4>1, <4>2 DEF LoadAt
        <4>4. /\ Op(u, m) = "process" => Img(u, m) \in Core /\ Img(u, m) \in Images
              /\ Op(u, m) \in Pending => Img(u, m) \in Loaded
          BY <4>1 DEF Inv, Linked, Core
        <4> QED
          BY <2>12, <4>1, <4>3, <4>4
      <3>3. \A i \in Core' \cap Kept' : LibImages[i] \subseteq Core' \cap Kept'
        BY <2>12, <2>14, LibsAreImages
      <3> HIDE DEF P
      <3> QED
        BY <3>1, <3>2, <3>3 DEF Linked, Loading
    <2> QED
      BY <1>8, <2>3, <2>4, <2>7, <2>8, <2>9, <2>10, <2>11, <2>13, <2>16 DEF Inv, Types, Flags
  <1> QED
    BY <1>6, <1>7, <1>8

\* The shape of the stacks depends on nothing else.
LEMMA ShapeSame ==
    ASSUME Shape, stack' = stack
    PROVE  Shape'
  <1>1. \A t, n : Op(t, n)' = Op(t, n) /\ Img(t, n)' = Img(t, n)
    BY DEF Op, Img
  <1>2. ASSUME NEW t \in Threads, NEW n \in 1..Len(stack[t])
        PROVE  ShapeAt(t, n)'
    <2>1. ShapeAt(t, n)
      BY DEF Shape
    <2> QED
      BY <1>1, <2>1 DEF ShapeAt
  <1> QED
    BY <1>2 DEF Shape

\* What is deleted is not marked: it is nobody's image, and nothing that is used
\* links or refers to it.
LEMMA GcDeleteInv ==
    ASSUME Inv, NEW t \in Threads, GcDelete(t)
    PROVE  Inv'
  <1>0. stack[t] # <<>> /\ Top(t).op = "gc" /\ Types /\ DataTypes /\ Len(cells) \in Nat
    BY CellsLen DEF GcDelete, At, Inv, Types
  <1> PICK n \in Nat : n = Len(stack[t])
    BY <1>0, TopFrame
  <1>1. n \in 1..Len(stack[t]) /\ Op(t, n) = "gc"
    BY <1>0, TopFrame DEF Op
  <1>2. glock.owner = t /\ doingGC
    BY <1>1, OwnerIs DEF Inv, OneGC
  <1>3. /\ UNCHANGED <<marked, glock, ilock, cells, end, doingGC, redo, opens>> /\ stack' = stack
    BY DEF GcDelete, termVars, gcVars
  <1>4. PICK k \in DOMAIN all :
           /\ ~marked[all[k]]
           /\ all' = RemoveAt(all, k)
           /\ state' = [state EXCEPT ![all[k]] = Absent]
           /\ count' = [count EXCEPT ![all[k]] = 0]
           /\ depth' = [depth EXCEPT ![all[k]] = 0]
           /\ refs' = {r \in refs : all[k] \notin {r[1], r[2]}}
           /\ handles' = [handles EXCEPT ![all[k]] = 0]
           /\ inits' = [inits EXCEPT ![all[k]] = 0]
    BY DEF GcDelete
  <1>i. all[k] \in Images /\ all \in Seq(Images)
    BY <1>0 DEF DataTypes
  <1> PICK i \in Images : i = all[k]
    BY <1>i
  <1>5. /\ state' = [state EXCEPT ![i] = 0] /\ count' = [count EXCEPT ![i] = 0]
        /\ depth' = [depth EXCEPT ![i] = 0] /\ refs' = {r \in refs : i \notin {r[1], r[2]}}
        /\ handles' = [handles EXCEPT ![i] = 0] /\ inits' = [inits EXCEPT ![i] = 0]
    BY <1>4 DEF Absent
  <1>6. i \notin Kept /\ Kept' = Kept /\ Kept \subseteq Images
    BY <1>2, <1>3, <1>4 DEF Kept
  <1>7. /\ all' \in Seq(Images) /\ IsInjective(all') /\ Loaded' = Loaded \ {i} /\ i \in Loaded
    <2>1. IsInjective(all)
      BY DEF Inv, States
    <2>2. RemoveAt(all, k) \in Seq(Images) /\ IsInjective(RemoveAt(all, k)) /\ Range(RemoveAt(all, k)) = Range(all) \ {all[k]}
      BY <1>i, <2>1, RemovedDistinct
    <2>3. all' = RemoveAt(all, k) /\ i = all[k]
      BY <1>4
    <2>4. i \in Range(all)
      BY <2>3 DEF Range
    <2> QED
      BY <2>2, <2>3, <2>4 DEF Loaded
  <1>8. /\ count \in [Images -> Nat] /\ handles \in [Images -> Nat] /\ count[i] = 0 /\ handles[i] = 0
        /\ state \in [Images -> 0..6] /\ inits \in [Images -> Nat]
    <2>1. /\ count \in [Images -> Nat] /\ handles \in [Images -> Nat]
          /\ state \in [Images -> 0..6] /\ inits \in [Images -> Nat]
      BY <1>0 DEF DataTypes
    <2>2. count[i] = 0
      BY <1>2, <1>6 DEF Inv, Marks
    <2>3. handles[i] > 0 => count[i] # 0
      BY CountMeans
    <2> QED
      BY <2>1, <2>2, <2>3
  <1>9. count' = count /\ handles' = handles
    BY <1>5, <1>8
  <1>10. /\ \A j \in Images : j # i => state'[j] = state[j] /\ inits'[j] = inits[j]
         /\ state'[i] = 0 /\ inits'[i] = 0
    BY <1>5, <1>8
  <1>11. Core' = Core \ {i} /\ Core \subseteq Images
    BY <1>8, <1>10 DEF Core, Bound
  <1>12. DataTypes'
    <2>1. 0 \in 0..(DepthLimit - 1) /\ depth \in [Images -> 0..(DepthLimit - 1)]
      BY <1>0, DepthsFit DEF DataTypes
    <2>2. depth' \in [Images -> 0..(DepthLimit - 1)]
      BY <1>5, <2>1
    <2>3. state' \in [Images -> 0..6] /\ inits' \in [Images -> Nat]
      BY <1>5, <1>8
    <2>4. refs' \subseteq DynRefs
      BY <1>0, <1>5 DEF DataTypes
    <2> QED
      BY <1>0, <1>3, <1>7, <1>9, <2>2, <2>3, <2>4 DEF DataTypes
  <1>13. \A X : Unmoved(X)
    BY <1>3 DEF Unmoved, Has
  <1>14. StackTypes' /\ Shape' /\ OneGC' /\ Locks'
    <2>1. StackTypes'
      BY <1>0, <1>3 DEF Types, StackTypes, Op
    <2>2. Shape'
      BY <1>3, ShapeSame DEF Inv
    <2> QED
      BY <1>0, <1>3, <1>13, <2>1, <2>2, UnmovedGC, UnmovedLocks DEF Inv
  <1>15. Counts'
    <2>1. \A j \in Images : Calls(j)' = Calls(j)
      BY <1>0, <1>13, <1>14, UnmovedCalls DEF Types
    <2> QED
      BY <1>3, <1>9, <2>1 DEF Inv, Counts
  <1>16. Visiting'
    <2>1. ASSUME NEW u \in Threads, NEW m \in 1..Len(stack[u]), Op(u, m) \in Busy
          PROVE  state'[Img(u, m)] = state[Img(u, m)]
      <3>1. Img(u, m) \in Images /\ Img(u, m) \in Kept
        BY <2>1, VisitsKept DEF Visits
      <3> QED
        BY <1>6, <1>10, <3>1
    <2> QED
      BY <1>0, <1>3, <1>13, <2>1, VisitingKept DEF Inv
  <1>17. States'
    <2>1. \A j \in Images : (state'[j] = Absent) <=> (j \notin Loaded')
      BY <1>7, <1>10 DEF Inv, States, Absent
    <2>2. NeverUnload \subseteq Core'
      BY <1>2, <1>6, <1>11 DEF Inv, States, Marks
    <2>3. \A r \in refs' : r[1] \in Core' /\ r[2] \in Core'
      BY <1>5, <1>11 DEF Inv, States
    <2>4. \A j \in Images : handles'[j] > 0 => j \in Core'
      BY <1>8, <1>9, <1>11 DEF Inv, States
    <2>5. \A j \in Images : inits'[j] <= 1 /\ (state'[j] < DependentsInited => inits'[j] = 0)
      BY <1>10 DEF Inv, States
    <2> QED
      BY <1>7, <2>1, <2>2, <2>3, <2>4, <2>5 DEF States
  <1>18. Linked'
    <2>1. Core' \cap Kept' = Core \cap Kept /\ doingGC'
      BY <1>2, <1>3, <1>6, <1>11
    <2>2. ASSUME NEW u \in Threads, NEW m \in 1..Len(stack'[u])
          PROVE  /\ Op(u, m)' = "process" => Img(u, m)' \in Core' \cap Kept'
                 /\ Op(u, m)' \in Pending => Img(u, m)' \in Loaded'
                 /\ LoadAt(u, m)'
      <3>1. m \in 1..Len(stack[u]) /\ Op(u, m)' = Op(u, m) /\ Img(u, m)' = Img(u, m)
        BY <1>3 DEF Op, Img
      <3>2. Op(u, m) \notin {"load", "depths"}
        BY <1>0, <1>2, <3>1, NothingLoading
      <3>3. LoadAt(u, m)'
        BY <3>1, <3>2 DEF LoadAt
      <3>4. Op(u, m) = "process" => Img(u, m) \in Core \cap Kept
        BY <3>1 DEF Inv, Linked
      <3>5. Op(u, m) \in Pending => Img(u, m) \in Loaded /\ Img(u, m) # i
        <4> SUFFICES ASSUME Op(u, m) \in Pending PROVE Img(u, m) \in Loaded /\ Img(u, m) # i
          OBVIOUS
        <4>1. Img(u, m) \in Images /\ count[Img(u, m)] # 0
          BY <3>1, CountMeans DEF Pending, OpenOps
        <4>2. Img(u, m) \in Loaded
          BY <3>1 DEF Inv, Linked
        <4> QED
          BY <1>8, <4>1, <4>2
      <3> QED
        BY <1>7, <2>1, <3>1, <3>3, <3>4, <3>5
    <2>3. \A j \in Core' \cap Kept' : LibImages[j] \subseteq Core' \cap Kept'
      BY <2>1 DEF Inv, Linked
    <2> QED
      BY <2>1, <2>2, <2>3 DEF Linked, Loading
  <1>19. Marks'
    <2>1. /\ \A j \in Kept : LibImages[j] \subseteq Kept
          /\ \A r \in refs : r[1] \in Kept => r[2] \in Kept
          /\ NeverUnload \subseteq Kept
          /\ \A j \in Images : count[j] # 0 => j \in Kept
          /\ ~redo => Kept \subseteq InUse(count)
      BY <1>2 DEF Inv, Marks
    <2>2. /\ InUse(count) = Closure(Roots(count), refs) /\ Roots(count) \in SUBSET Images
          /\ refs \in SUBSET (Images \X Images) /\ refs' \in SUBSET (Images \X Images)
      BY <1>5, UsedMeans
    <2>3. \A r \in refs : r[1] \in Images /\ r[2] \in Images
      BY <2>2
    <2> DEFINE C == Closure(Roots(count), refs')
    <2>4. /\ Roots(count) \subseteq C /\ C \subseteq Images
          /\ \A j \in C : LibImages[j] \subseteq C
          /\ \A r \in refs' : r[1] \in C => r[2] \in C
      BY <2>2, ClosureFacts
    <2> HIDE DEF C
    <2>5. Roots(count) \subseteq Kept
      BY <2>1 DEF Roots
    <2>6. InUse(count) \subseteq C
      <3>1. C \cap Kept \in SUBSET Images /\ Roots(count) \subseteq C \cap Kept
        BY <2>4, <2>5
      <3>2. \A j \in C \cap Kept : LibImages[j] \subseteq C \cap Kept
        BY <2>1, <2>4
      <3>3. ASSUME NEW r \in refs, r[1] \in C \cap Kept PROVE r[2] \in C \cap Kept
        <4>1. r[2] \in Kept
          BY <2>1, <3>3
        <4>2. r \in refs'
          BY <1>5, <1>6, <3>3, <4>1
        <4> QED
          BY <2>4, <3>3, <4>1, <4>2
      <3>4. Closure(Roots(count), refs) \subseteq C \cap Kept
        BY <3>1, <3>2, <3>3, ClosureLeast
      <3> QED
        BY <2>2, <3>4
    <2>7. InUse(count)' = C
      <3> DEFINE S == {j \in Loaded' : count'[j] # 0 \/ (j \in NeverUnload /\ state'[j] >= Bound)}
      <3>1. InUse(count)' = Closure(S, refs')
        BY DEF InUse
      <3>2. \A j \in Images : count[j] # 0 => j \in Loaded'
        BY <1>7, <1>8, CountMeans
      <3>3. \A j \in NeverUnload : j \in Loaded' /\ j \in Images /\ state'[j] >= Bound
        <4>1. NeverUnload \subseteq Core' /\ Core \subseteq Loaded
          BY <1>0, <1>17, LoadedImages DEF States, Inv
        <4> QED
          BY <1>7, <1>11, <4>1 DEF Core
      <3>4. Loaded' \subseteq Images
        BY <1>0, <1>7, LoadedImages DEF Inv
      <3>5. S = Roots(count)
        BY <1>9, <3>2, <3>3, <3>4 DEF Roots
      <3> QED
        BY <3>1, <3>5 DEF C
    <2>8. \A r \in refs' : r[1] \in Kept' => r[2] \in Kept'
      BY <1>5, <1>6, <2>1
    <2> QED
      BY <1>2, <1>3, <1>6, <1>9, <2>1, <2>6, <2>7, <2>8 DEF Marks
  <1> QED
    BY <1>3, <1>12, <1>14, <1>15, <1>16, <1>17, <1>18, <1>19 DEF Inv, Types, Flags

-----------------------------------------------------------------------------
(* dlopen() *)

\* What loads or binds images leaves in use what is in use.
LEMMA InUseGrows ==
    ASSUME Inv, Loaded \subseteq Loaded', Loaded' \subseteq Images, refs \subseteq refs',
           refs' \subseteq DynRefs, \A j \in Images : count[j] # 0 => count'[j] # 0,
           \A j \in NeverUnload : state'[j] >= Bound
    PROVE  /\ InUse(count) \subseteq InUse(count)'
           /\ \A j \in Loaded' : count'[j] # 0 => j \in InUse(count)'
           /\ \A j \in InUse(count)' : LibImages[j] \subseteq InUse(count)'
  <1> DEFINE S == {j \in Loaded' : count'[j] # 0 \/ (j \in NeverUnload /\ state'[j] >= Bound)}
             C == Closure(S, refs')
  <1>1. InUse(count)' = C
    BY DEF InUse
  <1>2. S \in SUBSET Images /\ refs' \in SUBSET (Images \X Images)
    BY DynamicReferences
  <1>3. Roots(count) \subseteq S
    <2>1. NeverUnload \subseteq Core /\ Core \subseteq Loaded
      BY LoadedImages DEF Inv, States
    <2>2. \A j \in Images : count[j] # 0 => j \in Loaded
      BY CountMeans
    <2> QED
      BY <2>1, <2>2 DEF Roots
  <1>4. \A j \in Loaded' : count'[j] # 0 => j \in S
    OBVIOUS
  <1> HIDE DEF S
  <1>5. /\ S \subseteq C /\ C \subseteq Images
        /\ \A j \in C : LibImages[j] \subseteq C
        /\ \A r \in refs' : r[1] \in C => r[2] \in C
    BY <1>2, ClosureFacts
  <1> HIDE DEF C
  <1>6. Closure(Roots(count), refs) \subseteq C
    BY <1>3, <1>5, ClosureLeast
  <1> QED
    BY <1>1, <1>4, <1>5, <1>6, UsedMeans

\* The entry a dlopen() begins with is well formed.
LEMMA OpenFrame ==
    ASSUME NEW i \in Images, NEW op \in {"load", "process"}
    PROVE  LET f == Frame(op, i, <<i>>)
           IN  FrameOK(f) /\ f \in Frames /\ f.op = op /\ f.img = i /\ f.todo = <<i>>
  <1> DEFINE f == Frame(op, i, <<i>>)
  <1>1. i \in Names /\ i \in Todo /\ i \in Tree(i)
    BY TreeFacts DEF Names, Todo
  <1>2. f \in Frames /\ f.op = op /\ f.img = i /\ f.todo = <<i>> /\ f.ups = <<>>
    BY <1>1 DEF Frame, Frames, Ops, Locked, LockOps
  <1> HIDE DEF f
  <1>3. (\A k \in 1..Len(f.todo) : f.todo[k] = i) /\ (\A k \in 1..Len(f.ups) : FALSE)
    BY <1>2
  <1>4. FrameOK(f)
    BY <1>1, <1>2, <1>3 DEF FrameOK
  <1> QED
    BY <1>2, <1>4 DEF f

\* Nothing below an initializer holds the lock.
LEMMA UserShape ==
    ASSUME Inv, NEW t \in Threads, stack[t] = <<>> \/ At(t, "init"), NEW n \in 1..Len(stack[t])
    PROVE  Op(t, n) \notin Locked
  <1>1. Types /\ Len(stack[t]) \in Nat /\ stack[t] # <<>>
    BY StackType DEF Inv
  <1>2. Op(t, Len(stack[t])) = "init" /\ ShapeAt(t, Len(stack[t]))
    BY <1>1, TopFrame DEF At, Op, Inv, Shape
  <1>3. "init" \notin Locked
    BY DEF Locked, LockOps
  <1>4. n = Len(stack[t]) \/ n \in 1..(Len(stack[t]) - 1)
    BY <1>1
  <1> QED
    BY <1>2, <1>3, <1>4 DEF ShapeAt

\* Only the program and initializers call dlopen().
LEMMA MayOpenMeans ==
    ASSUME TermOpens = {}, NEW t \in Threads, UserRuns(t), NEW i \in MayOpen(t)
    PROVE  stack[t] = <<>> \/ At(t, "init")
  BY DEF UserRuns, MayOpen

\* Marks stay flags when images are added.
LEMMA AddedMarks ==
    ASSUME marked \in [Images -> BOOLEAN], ~doingGC, NEW new, AddImages(new)
    PROVE  marked' \in [Images -> BOOLEAN]
  <1>1. marked' = [j \in Images |-> IF j \in Range(new) THEN j \in {} ELSE marked[j]]
    BY DEF AddImages
  <1>2. ASSUME NEW j \in Images PROVE marked'[j] \in BOOLEAN
    <2>1. CASE j \in Range(new)
      <3>1. marked'[j] = (j \in {})
        BY <1>1, <2>1, Zenon
      <3> QED
        BY <3>1
    <2>2. CASE j \notin Range(new)
      <3>1. marked'[j] = marked[j]
        BY <1>1, <2>2
      <3> QED
        BY <3>1
    <2> QED
      BY <2>1, <2>2
  <1>3. marked' = [j \in Images |-> marked'[j]]
    BY <1>1
  <1> QED
    BY <1>2, <1>3

\* dlopen() finds no other dlopen() linking: it has the lock for itself.
LEMMA DlopenInv ==
    ASSUME Inv, TermOpens = {}, NEW t \in Threads, NEW i \in Images, Dlopen(t, i)
    PROVE  Inv'
  <1> DEFINE g == Frame("load", i, <<i>>)
             new == IF i \in Loaded THEN <<>> ELSE <<i>>
  <1>0. Types /\ DataTypes /\ StackTypes /\ Len(cells) \in Nat
    BY CellsLen DEF Inv, Types
  <1>1. stack[t] = <<>> \/ At(t, "init")
    BY MayOpenMeans DEF Dlopen
  <1>2. /\ UNCHANGED <<refs, depth, ilock, cells, end, doingGC, redo, handles, inits>>
        /\ opens < MaxOpens /\ opens' = opens + 1 /\ GlobalLockAcquire(t) /\ Call(t, g)
        /\ AddImages(new) /\ count' = [count EXCEPT ![i] = count[i] + 1]
        /\ state' = [state EXCEPT ![i] = IF i \in Loaded THEN state[i] ELSE Mapped]
    BY DEF Dlopen, termVars, gcVars, history
  <1>3. /\ ~doingGC /\ Loaded \subseteq Core
        /\ \A u \in Threads : \A n \in 1..Len(stack[u]) : Op(u, n) \notin LockOps \cup {"gc"}
    <2>1. glock.owner \in {None, t}
      BY <1>2 DEF GlobalLockAcquire
    <2> QED
      BY <1>1, <2>1, LockIsFree
  <1>4. /\ g \in Frames /\ FrameOK(g) /\ g.op = "load" /\ g.img = i /\ g.todo = <<i>>
    BY OpenFrame
  <1> HIDE DEF g
  <1> PICK n \in Nat : n = Len(stack[t])
    BY <1>0, StackType
  <1>5. Above(t, n) /\ Exact(t, n) /\ Len(stack'[t]) = n + 1 /\ stack'[t][n + 1] = g
    BY <1>0, <1>2, <1>4, Called
  <1> DEFINE m == n + 1
  <1>6. /\ m \in Nat /\ m > 0 /\ m > n /\ m \in 1..Len(stack'[t]) /\ m = Len(stack'[t])
        /\ (\A x \in (n + 1)..Len(stack'[t]) : x = m) /\ (\A x \in (n + 1)..Len(stack[t]) : FALSE)
        /\ (\A x \in Nat : x > n /\ x # m => x \notin 1..Len(stack'[t]) /\ x \notin 1..Len(stack[t]))
        /\ m \notin 1..Len(stack[t]) /\ (\A x \in 1..(m - 1) : x \in 1..n /\ x \in 1..Len(stack[t]))
    BY <1>5
  <1>7. stack'[t][m] = g /\ Op(t, m)' = "load" /\ Img(t, m)' = i
    BY <1>4, <1>5 DEF Op, Img
  <1> HIDE DEF m
  <1>8. /\ all' \in Seq(Images) /\ IsInjective(all') /\ Loaded' = Loaded \cup {i}
        /\ Loaded \subseteq Images /\ Core \subseteq Loaded
    <2>1. all \in Seq(Images) /\ IsInjective(all) /\ Loaded \subseteq Images /\ Core \subseteq Loaded
      BY <1>0, LoadedImages DEF DataTypes, Inv, States
    <2>2. new \in Seq(Images) /\ IsInjective(new)
      BY DEF IsInjective
    <2>3. Range(new) = IF i \in Loaded THEN {} ELSE {i}
      BY DEF Range
    <2> HIDE DEF new
    <2>4. all \o new \in Seq(Images) /\ IsInjective(all \o new) /\ Range(all \o new) = Range(all) \cup Range(new)
      BY <2>1, <2>2, <2>3, ConcatDistinct DEF Loaded
    <2>5. all' = all \o new
      BY <1>2 DEF AddImages
    <2> QED
      BY <2>1, <2>3, <2>4, <2>5 DEF Loaded
  <1>9. marked' \in [Images -> BOOLEAN]
    BY <1>0, <1>2, <1>3, AddedMarks DEF DataTypes
  <1>10. /\ state \in [Images -> 0..6] /\ count \in [Images -> Nat] /\ handles \in [Images -> Nat]
         /\ opens \in 0..MaxOpens /\ MaxOpens \in Nat
    BY <1>0, Dyld2Assumption DEF DataTypes
  <1>11. /\ \A j \in Images : j # i => state'[j] = state[j] /\ count'[j] = count[j]
         /\ \A j \in Loaded : state'[j] = state[j]
         /\ i \notin Loaded => state'[i] = 1 /\ state[i] = 0
         /\ count'[i] = count[i] + 1 /\ state' \in [Images -> 0..6] /\ count' \in [Images -> Nat]
    <2>1. i \notin Loaded => state[i] = 0
      BY DEF Inv, States, Absent
    <2>2. \A j \in Images : j # i => state'[j] = state[j] /\ count'[j] = count[j]
      BY <1>2, <1>10
    <2>3. \A j \in Loaded : state'[j] = state[j]
      BY <1>2, <1>8, <1>10
    <2>4. i \notin Loaded => state'[i] = 1
      BY <1>2, <1>10 DEF Mapped
    <2>5. count'[i] = count[i] + 1 /\ count' \in [Images -> Nat]
      BY <1>2, <1>10
    <2>6. state' \in [Images -> 0..6]
      BY <1>2, <1>10 DEF Mapped
    <2> QED
      BY <2>1, <2>2, <2>3, <2>4, <2>5, <2>6
  <1>12. DataTypes'
    <2>1. opens' \in 0..MaxOpens
      BY <1>2, <1>10
    <2> QED
      BY <1>0, <1>2, <1>8, <1>9, <1>11, <2>1 DEF DataTypes
  <1>13. StackTypes'
    <2>1. \A x \in (n + 1)..Len(stack'[t]) : FrameOK(stack'[t][x]) /\ stack'[t][x].op # "push"
      BY <1>4, <1>6, <1>7
    <2> QED
      BY <1>0, <1>2, <1>5, <2>1, StackTypesKept
  <1>14. Shape'
    <2>1. \A x \in 1..(m - 1) : Op(t, x)' \notin Locked
      <3>1. \A x \in 1..(m - 1) : Op(t, x) \notin Locked
        BY <1>1, <1>6, UserShape
      <3> QED
        BY <1>5, <1>6, <3>1 DEF Above, Op
    <2>2. ShapeAt(t, m)'
      BY <1>6, <1>7, <2>1 DEF ShapeAt, Visits, Busy
    <2>3. \A x \in (n + 1)..Len(stack'[t]) : ShapeAt(t, x)'
      BY <1>6, <2>2
    <2>4. n = 0 \/ Op(t, n) \notin Linking
      <3>1. n # 0 => n \in 1..Len(stack[t])
        OBVIOUS
      <3> QED
        BY <1>1, <3>1, UserShape DEF Linking, Locked, LockOps
    <2> QED
      BY <1>0, <1>5, <2>3, <2>4, ShapeKept DEF Inv
  <1>15. ASSUME NEW X, "load" \notin X PROVE Unmoved(X)
    <2>1. \A x \in (n + 1)..Len(stack'[t]) : Op(t, x)' \notin X
      BY <1>6, <1>7, <1>15
    <2>2. \A x \in (n + 1)..Len(stack[t]) : Op(t, x) \notin X
      BY <1>6
    <2> QED
      BY <1>0, <1>5, <2>1, <2>2, NothingBusy
  <1>16. /\ Unmoved({"gc"}) /\ Unmoved(Busy) /\ Unmoved({"running"}) /\ Unmoved({"process"})
    BY <1>15 DEF Busy
  <1>17. ASSUME NEW X, "load" \in X
         PROVE  UnmovedBut(X, t, m) /\ ~Has(t, m, X) /\ Has(t, m, X)'
    <2>1. \A x \in Nat : x > n /\ x # m => ~Has(t, x, X) /\ ~Has(t, x, X)'
      BY <1>6 DEF Has
    <2>2. UnmovedBut(X, t, m)
      BY <1>0, <1>5, <1>6, <2>1, UnmovedButAbove
    <2>3. ~Has(t, m, X) /\ Has(t, m, X)'
      BY <1>4, <1>6, <1>7, <1>17 DEF Has
    <2> QED
      BY <2>2, <2>3
  <1>18. Locks'
    <2>1. UnmovedBut(LockOps, t, m) /\ ~Has(t, m, LockOps) /\ Has(t, m, LockOps)'
      BY <1>17 DEF LockOps
    <2> QED
      BY <1>0, <1>2, <1>6, <2>1, LockTaken DEF Inv
  <1>19. OneGC'
    BY <1>0, <1>2, <1>16, UnmovedGC DEF Inv
  <1>20. Counts'
    <2>1. UnmovedBut(OpenOps, t, m) /\ ~Has(t, m, OpenOps) /\ Has(t, m, OpenOps)' /\ stack'[t][m].img = i
      BY <1>4, <1>7, <1>17 DEF OpenOps
    <2>2. /\ \A j : j # i => Calls(j)' = Calls(j)
          /\ IsFiniteSet(Calls(i)) => IsFiniteSet(Calls(i)') /\ Cardinality(Calls(i)') = Cardinality(Calls(i)) + 1
      BY <1>0, <1>6, <1>13, <2>1, CallAdded
    <2>3. ASSUME NEW j \in Images
          PROVE  /\ IsFiniteSet(Calls(j)') /\ count'[j] = handles'[j] + Cardinality(Calls(j)') /\ count'[j] <= opens'
      <3>1. /\ IsFiniteSet(Calls(j)) /\ count[j] = handles[j] + Cardinality(Calls(j)) /\ count[j] <= opens
            /\ Cardinality(Calls(j)) \in Nat /\ handles[j] \in Nat /\ count[j] \in Nat
        BY <1>10, FS_CardinalityType DEF Inv, Counts
      <3>2. CASE j = i
        <4>1. IsFiniteSet(Calls(i)) /\ IsFiniteSet(Calls(i)') /\ Cardinality(Calls(i)') = Cardinality(Calls(i)) + 1
          BY <2>2, <3>1, <3>2
        <4>2. handles'[i] = handles[i] /\ count'[i] = count[i] + 1 /\ opens' = opens + 1
          BY <1>2, <1>11
        <4>3. count[i] = handles[i] + Cardinality(Calls(i)) /\ count[i] \in Nat /\ count[i] <= opens
          BY <3>1, <3>2
        <4>4. count'[i] = handles'[i] + Cardinality(Calls(i)')
          BY <3>1, <3>2, <4>1, <4>2, <4>3
        <4>5. count'[i] <= opens'
          BY <1>10, <4>2, <4>3
        <4> QED
          BY <3>2, <4>1, <4>4, <4>5
      <3>3. CASE j # i
        <4>1. count'[j] = count[j] /\ handles'[j] = handles[j] /\ opens' = opens + 1 /\ Calls(j)' = Calls(j)
          BY <1>2, <1>11, <2>2, <3>3
        <4> QED
          BY <1>10, <3>1, <4>1
      <3> QED
        BY <3>2, <3>3
    <2> QED
      BY <2>3 DEF Counts
  <1>21. Core' = Core
    <2>1. ASSUME NEW j \in Images PROVE state'[j] >= 3 <=> state[j] >= 3
      <3>1. CASE j \in Loaded
        BY <1>11, <3>1
      <3>2. CASE j \notin Loaded /\ j = i
        BY <1>11, <3>2
      <3>3. CASE j # i
        BY <1>11, <3>3
      <3> QED
        BY <3>1, <3>2, <3>3
    <2> QED
      BY <2>1 DEF Core, Bound
  <1>22. States'
    <2>1. \A j \in Images : (state'[j] = Absent) <=> (j \notin Loaded')
      <3>1. ASSUME NEW j \in Images PROVE (state'[j] = 0) <=> (j \notin Loaded')
        <4>1. (state[j] = 0) <=> (j \notin Loaded)
          BY DEF Inv, States, Absent
        <4> QED
          BY <1>8, <1>11, <4>1
      <3> QED
        BY <3>1 DEF Absent
    <2>2. \A j \in Images : inits'[j] <= 1 /\ (state'[j] < DependentsInited => inits'[j] = 0)
      <3>1. \A j \in Images : inits[j] <= 1 /\ (state[j] < 5 => inits[j] = 0)
        BY DEF Inv, States, DependentsInited
      <3> QED
        BY <1>2, <1>11, <3>1 DEF DependentsInited
    <2>3. refs' = refs /\ handles' = handles
      BY <1>2
    <2> QED
      BY <1>8, <1>21, <2>1, <2>2, <2>3 DEF Inv, States
  <1>23. \A j \in Loaded' : state'[j] >= 3 \/ (j = i /\ state'[j] = 1)
    BY <1>3, <1>8, <1>11 DEF Core, Bound
  <1>24. Kept = Images /\ Kept' = Images
    BY <1>2, <1>3 DEF Kept
  <1>25. Linked'
    <2>1. ASSUME NEW u \in Threads, NEW x \in 1..Len(stack'[u]), u # t \/ x # m
          PROVE  x \in 1..Len(stack[u]) /\ Op(u, x)' = Op(u, x) /\ Img(u, x)' = Img(u, x)
      <3>1. CASE u # t
        BY <1>5, <3>1 DEF Above, Op, Img
      <3>2. CASE u = t
        <4>1. x \in 1..n
          BY <1>5, <1>6, <2>1, <3>2
        <4> QED
          BY <1>5, <3>2, <4>1 DEF Above, Op, Img
      <3> QED
        BY <3>1, <3>2
    <2>2. LoadAt(t, m)'
      <3>1. stack'[t][m].todo = <<i>>
        BY <1>4, <1>7
      <3>2. Len(stack'[t][m].todo) = 1 /\ stack'[t][m].todo[1] = i /\ 1 \in 1..1 /\ \A k \in 1..1 : k = 1
        BY <3>1
      <3>3. \A j \in Loaded' : state'[j] = Mapped => \E k \in 1..Len(stack'[t][m].todo) : stack'[t][m].todo[k] = j
        BY <1>8, <1>11, <1>12, <1>23, <3>2 DEF Mapped
      <3>4. \A k \in 1..Len(stack'[t][m].todo) : stack'[t][m].todo[k] \in Images => stack'[t][m].todo[k] \in Loaded'
        BY <1>8, <3>2
      <3>5. \A j \in Loaded' : state'[j] # DependentsMapped
        BY <1>8, <1>11, <1>23 DEF DependentsMapped
      <3> QED
        BY <1>7, <3>3, <3>4, <3>5 DEF LoadAt
    <2>3. ASSUME NEW u \in Threads, NEW x \in 1..Len(stack'[u])
          PROVE  /\ Op(u, x)' = "process" => Img(u, x)' \in Core' \cap Kept'
                 /\ Op(u, x)' \in Pending => Img(u, x)' \in Loaded'
                 /\ LoadAt(u, x)'
      <3>1. CASE u = t /\ x = m
        BY <1>7, <1>8, <2>2, <3>1
      <3>2. CASE u # t \/ x # m
        <4>1. x \in 1..Len(stack[u]) /\ Op(u, x)' = Op(u, x) /\ Img(u, x)' = Img(u, x)
          BY <2>1, <3>2
        <4>2. Op(u, x) \notin Pending /\ Op(u, x) \notin {"load", "depths"}
          BY <1>3, <4>1 DEF Pending, LockOps
        <4>3. Op(u, x) = "process" => Img(u, x) \in Core \cap Kept
          BY <4>1 DEF Inv, Linked
        <4> QED
          BY <1>21, <1>24, <4>1, <4>2, <4>3 DEF LoadAt
      <3> QED
        BY <3>1, <3>2
    <2>4. \A j \in Core' \cap Kept' : LibImages[j] \subseteq Core' \cap Kept'
      BY <1>21, <1>24 DEF Inv, Linked
    <2>5. ASSUME NEW j \in Loaded' \ Core'
          PROVE  \E u \in Threads : \E x \in 1..Len(stack'[u]) : Op(u, x)' \in Pending /\ j \in Tree(Img(u, x)')
      <3>1. j = i /\ i \in Tree(i)
        BY <1>3, <1>8, <1>21, TreeFacts
      <3>2. Op(t, m)' \in Pending /\ m \in 1..Len(stack'[t])
        BY <1>6, <1>7 DEF Pending
      <3> QED
        BY <1>7, <3>1, <3>2
    <2> QED
      BY <2>3, <2>4, <2>5 DEF Linked, Loading
  <1>26. Marks'
    <2>1. \A j \in NeverUnload : state'[j] >= Bound
      BY <1>21 DEF Core, Inv, States
    <2>2. /\ Loaded \subseteq Loaded' /\ Loaded' \subseteq Images /\ refs \subseteq refs' /\ refs' \subseteq DynRefs
          /\ \A j \in Images : count[j] # 0 => count'[j] # 0
      <3>1. \A j \in Images : count[j] # 0 => count'[j] # 0
        BY <1>10, <1>11
      <3> QED
        BY <1>0, <1>2, <1>8, <3>1 DEF DataTypes
    <2>3. /\ InUse(count) \subseteq InUse(count)'
          /\ \A j \in Loaded' : count'[j] # 0 => j \in InUse(count)'
      BY <2>1, <2>2, InUseGrows
    <2>4. count'[i] # 0
      BY <1>10, <1>11
    <2>5. Loaded \subseteq InUse(count)
      BY <1>3 DEF Inv, Marks
    <2> QED
      BY <1>2, <1>3, <1>8, <2>3, <2>4, <2>5 DEF Marks
  <1>27. Visiting'
    <2>1. ASSUME NEW u \in Threads, NEW x \in 1..Len(stack[u]), Op(u, x) \in Busy
          PROVE  state'[Img(u, x)] = state[Img(u, x)]
      <3>1. Img(u, x) \in Core
        BY <2>1, VisitsKept DEF Visits
      <3> QED
        BY <1>8, <1>11, <3>1
    <2> QED
      BY <1>0, <1>2, <1>16, <2>1, VisitingKept DEF Inv
  <1> QED
    BY <1>2, <1>12, <1>13, <1>14, <1>18, <1>19, <1>20, <1>22, <1>25, <1>26, <1>27 DEF Inv, Types, Flags

\* A reference more to a loaded image.
LEMMA DlopenNoLoadInv ==
    ASSUME Inv, TermOpens = {}, NEW t \in Threads, NEW i \in Images, DlopenNoLoad(t, i)
    PROVE  Inv'
  <1>0. Types /\ DataTypes /\ StackTypes /\ i \in Loaded
    BY DEF Inv, Types, DlopenNoLoad
  <1>1. stack[t] = <<>> \/ At(t, "init")
    BY MayOpenMeans DEF DlopenNoLoad
  <1>2. /\ UNCHANGED <<all, state, marked, refs, depth, glock, ilock, cells, end, doingGC, redo, inits>>
        /\ stack' = stack /\ opens < MaxOpens /\ opens' = opens + 1
        /\ count' = [count EXCEPT ![i] = count[i] + 1]
        /\ handles' = [handles EXCEPT ![i] = handles[i] + 1]
    BY DEF DlopenNoLoad, termVars, gcVars
  <1>3. ~doingGC /\ Loaded \subseteq Core
    BY <1>1, LockIsFree DEF DlopenNoLoad
  <1>4. /\ count \in [Images -> Nat] /\ handles \in [Images -> Nat]
        /\ opens \in 0..MaxOpens /\ MaxOpens \in Nat
    BY <1>0, Dyld2Assumption DEF DataTypes
  <1>5. /\ \A j \in Images : j # i => count'[j] = count[j] /\ handles'[j] = handles[j]
        /\ count'[i] = count[i] + 1 /\ handles'[i] = handles[i] + 1
        /\ count' \in [Images -> Nat] /\ handles' \in [Images -> Nat] /\ opens' \in 0..MaxOpens
    BY <1>2, <1>4
  <1>6. DataTypes'
    BY <1>0, <1>2, <1>5 DEF DataTypes
  <1>7. \A X : Unmoved(X)
    BY <1>2 DEF Unmoved, Has
  <1>s. stack' = stack
    BY <1>2
  <1>8. StackTypes' /\ Shape' /\ OneGC' /\ Locks' /\ Visiting'
    <2>1. StackTypes'
      BY <1>0, <1>2 DEF StackTypes, Op
    <2>2. Shape'
      BY <1>s DEF Inv, Shape, ShapeAt, Op, Img
    <2> QED
      BY <1>0, <1>2, <1>7, <2>1, <2>2, UnmovedGC, UnmovedLocks, VisitingKept DEF Inv
  <1>9. Counts'
    <2>1. ASSUME NEW j \in Images
          PROVE  /\ IsFiniteSet(Calls(j)') /\ count'[j] = handles'[j] + Cardinality(Calls(j)') /\ count'[j] <= opens'
      <3>1. /\ IsFiniteSet(Calls(j)) /\ count[j] = handles[j] + Cardinality(Calls(j)) /\ count[j] <= opens
            /\ Cardinality(Calls(j)) \in Nat /\ handles[j] \in Nat /\ count[j] \in Nat
        BY <1>4, FS_CardinalityType DEF Inv, Counts
      <3>2. Calls(j)' = Calls(j)
        BY <1>0, <1>7, <1>8, UnmovedCalls
      <3>3. \/ count'[j] = count[j] /\ handles'[j] = handles[j]
            \/ count'[j] = count[j] + 1 /\ handles'[j] = handles[j] + 1
        BY <1>5
      <3>4. count'[j] = handles'[j] + Cardinality(Calls(j))
        BY <3>1, <3>3
      <3>5. count'[j] <= opens'
        BY <1>2, <1>4, <3>1, <3>3
      <3> QED
        BY <3>1, <3>2, <3>4, <3>5
    <2> QED
      BY <2>1 DEF Counts
  <1>10. Loaded' = Loaded /\ Core' = Core
    BY <1>2 DEF Loaded, Core
  <1>11. States'
    <2>1. \A j \in Images : handles'[j] > 0 => j \in Core'
      BY <1>0, <1>3, <1>5, <1>10 DEF Inv, States
    <2> QED
      BY <1>2, <1>10, <2>1 DEF Inv, States
  <1>12. Linked'
    <2>1. Loading'
      BY <1>2, <1>s DEF Inv, Linked, Loading, LoadAt, Op, Loaded
    <2>2. \A u \in Threads : \A x \in Nat : Has(u, x, {"process"})' =>
             Has(u, x, {"process"}) /\ stack'[u][x].img = stack[u][x].img
      BY <1>s DEF Has
    <2> QED
      BY <1>2, <1>7, <2>1, <2>2, LinkedKept
  <1>13. Marks'
    <2>1. \A j \in NeverUnload : state'[j] >= Bound
      BY <1>10 DEF Core, Inv, States
    <2>2. /\ Loaded \subseteq Loaded' /\ Loaded' \subseteq Images /\ refs \subseteq refs' /\ refs' \subseteq DynRefs
          /\ \A j \in Images : count[j] # 0 => count'[j] # 0
      <3>1. \A j \in Images : count[j] # 0 => count'[j] # 0
        BY <1>4, <1>5
      <3> QED
        BY <1>0, <1>2, <1>10, <3>1, LoadedImages DEF DataTypes, Inv
    <2>3. InUse(count) \subseteq InUse(count)'
      BY <2>1, <2>2, InUseGrows
    <2>4. Loaded \subseteq InUse(count)
      BY <1>3 DEF Inv, Marks
    <2> QED
      BY <1>2, <1>3, <1>10, <2>3, <2>4 DEF Marks
  <1> QED
    BY <1>2, <1>6, <1>8, <1>9, <1>11, <1>12, <1>13 DEF Inv, Types, Flags

\* The image and all it links are bound, and nothing that is loaded is not.
LEMMA BindInv ==
    ASSUME Inv, NEW t \in Threads, Bind(t)
    PROVE  Inv'
  <1> DEFINE f == Top(t)
             g == Frame("process", f.img, <<f.img>>)
  <1>0. stack[t] # <<>> /\ f.op = "depths" /\ Types /\ DataTypes /\ Len(cells) \in Nat
    BY CellsLen DEF Bind, At, Inv, Types
  <1> PICK n \in Nat : n = Len(stack[t])
    BY <1>0, TopFrame
  <1>i. f.img \in Images
    BY <1>0, TopFrame DEF FrameOK
  <1> PICK i \in Images : i = f.img
    BY <1>i
  <1>1. n > 0 /\ n \in 1..Len(stack[t]) /\ Op(t, n) = "depths" /\ Img(t, n) = i
    BY <1>0, TopFrame DEF Op, Img
  <1> DEFINE new == {j \in Tree(i) : state[j] < Bound}
  <1>2. /\ UNCHANGED <<all, count, marked, depth, ilock, cells, end, doingGC, redo, handles, opens, inits>>
        /\ GlobalLockRelease(t) /\ Replace(t, g)
        /\ state' = [j \in Images |-> IF j \in new THEN Bound ELSE state[j]]
        /\ refs' = refs \cup {r \in DynRefs : r[1] \in new /\ r[2] \in Loaded \ LibImages[r[1]]}
    BY DEF Bind, AddDynamicReferences, termVars, gcVars, history
  <1>3. /\ ~doingGC
        /\ \A u \in Threads : \A m \in 1..Len(stack[u]) : Op(u, m) \in Pending \cup {"gc"} => u = t /\ m = n
    BY <1>0, LinkingAlone DEF Pending
  <1>4. /\ g \in Frames /\ FrameOK(g) /\ g.op = "process" /\ g.img = i
    BY <1>i, OpenFrame
  <1> HIDE DEF g
  <1>5. Above(t, n - 1) /\ Exact(t, n - 1) /\ Len(stack'[t]) = n /\ stack'[t][n] = g
    BY <1>0, <1>2, <1>4, Replaced
  <1>6. /\ (n - 1) + 1 = n /\ (\A m \in ((n - 1) + 1)..Len(stack[t]) : m = n)
        /\ (\A m \in ((n - 1) + 1)..Len(stack'[t]) : m = n) /\ n \in 1..Len(stack'[t])
    BY <1>1, <1>5
  <1>7. Op(t, n)' = "process" /\ Img(t, n)' = Img(t, n)
    BY <1>1, <1>4, <1>5 DEF Op, Img
  <1>8. Kept = Images /\ Kept' = Images /\ Loaded' = Loaded
    BY <1>2, <1>3 DEF Kept, Loaded
  <1>9. StatesInRange /\ Loaded \subseteq Images /\ Core \subseteq Loaded /\ Core \subseteq Images
    BY <1>0, StateType, LoadedImages DEF Inv, Core
  <1>10. \A j \in Loaded : LibImages[j] \subseteq Loaded
    <2>1. \A j \in Core : LibImages[j] \subseteq Core
      BY <1>8, <1>9 DEF Inv, Linked
    <2>2. LoadAt(t, n)
      BY <1>1 DEF Inv, Linked, Loading
    <2>3. \A j \in Loaded : state[j] # 1 /\ (state[j] = 2 => LibImages[j] \subseteq Loaded)
      BY <1>1, <2>2 DEF LoadAt, Mapped, DependentsMapped
    <2>4. \A j \in Loaded : state[j] # 0 /\ state[j] \in 0..6
      BY <1>9 DEF Inv, States, Absent, StatesInRange
    <2>5. \A j \in Loaded : j \in Core \/ state[j] = 2
      BY <1>9, <2>3, <2>4 DEF Core, Bound
    <2> QED
      BY <1>9, <2>1, <2>3, <2>5
  <1>11. Tree(i) \subseteq Loaded
    <2>1. i \in Loaded
      BY <1>1 DEF Inv, Linked, Pending
    <2> QED
      BY <1>9, <1>10, <2>1, TreeLeast
  <1>12. Loaded \subseteq Core \cup Tree(i)
    <2>1. ASSUME NEW j \in Loaded \ Core PROVE j \in Tree(i)
      <3>1. PICK u \in Threads : \E m \in 1..Len(stack[u]) : Op(u, m) \in Pending /\ j \in Tree(Img(u, m))
        BY <1>3 DEF Inv, Linked
      <3>2. PICK m \in 1..Len(stack[u]) : Op(u, m) \in Pending /\ j \in Tree(Img(u, m))
        BY <3>1
      <3> QED
        BY <1>1, <1>3, <3>2
    <2> QED
      BY <2>1
  <1>13. /\ \A j \in Images : state'[j] = IF j \in Tree(i) /\ state[j] < 3 THEN 3 ELSE state[j]
         /\ state' \in [Images -> 0..6]
    <2>1. \A j \in Images : state'[j] = IF j \in Tree(i) /\ state[j] < 3 THEN 3 ELSE state[j]
      BY <1>2 DEF Bound
    <2>2. state' = [j \in Images |-> state'[j]]
      BY <1>2
    <2>3. \A j \in Images : state'[j] \in 0..6
      BY <1>9, <2>1 DEF StatesInRange
    <2> QED
      BY <2>1, <2>2, <2>3
  <1>14. Core' = Loaded
    <2>1. ASSUME NEW j \in Images PROVE state'[j] >= 3 <=> j \in Loaded
      <3>1. state[j] \in 0..6 /\ (state[j] >= 3 <=> j \in Core)
        BY <1>9 DEF StatesInRange, Core, Bound
      <3>2. CASE j \in Tree(i)
        BY <1>11, <1>13, <3>1, <3>2
      <3>3. CASE j \notin Tree(i)
        BY <1>9, <1>12, <1>13, <3>1, <3>3
      <3> QED
        BY <3>2, <3>3
    <2> QED
      BY <1>9, <2>1 DEF Core, Bound
  <1>15. \A j \in Core : state'[j] = state[j]
    BY <1>9, <1>13 DEF Core, Bound, StatesInRange
  <1>16. refs \subseteq refs' /\ refs' \subseteq DynRefs /\ \A r \in refs' : r[1] \in Loaded /\ r[2] \in Loaded
    <2>1. refs \subseteq DynRefs /\ \A r \in refs : r[1] \in Loaded /\ r[2] \in Loaded
      BY <1>0, <1>9 DEF DataTypes, Inv, States
    <2>2. new \subseteq Loaded
      BY <1>11
    <2> HIDE DEF new
    <2> QED
      BY <1>2, <2>1, <2>2
  <1>17. DataTypes'
    BY <1>0, <1>2, <1>13, <1>16 DEF DataTypes
  <1>18. StackTypes'
    <2>1. \A m \in ((n - 1) + 1)..Len(stack'[t]) : FrameOK(stack'[t][m]) /\ stack'[t][m].op # "push"
      BY <1>4, <1>5, <1>6
    <2> QED
      BY <1>0, <1>2, <1>5, <2>1, StackTypesKept
  <1>19. Shape'
    <2>1. \A m \in 1..(n - 1) : Op(t, m)' \notin Locked
      <3>1. \A m \in 1..(n - 1) : Op(t, m) \notin Locked
        BY <1>1 DEF Inv, Shape, ShapeAt, Pending
      <3> QED
        BY <1>5, <3>1 DEF Above, Op
    <2>2. ShapeAt(t, n)'
      BY <1>7, <2>1 DEF ShapeAt, Linking, Visits, Busy
    <2>3. \A m \in ((n - 1) + 1)..Len(stack'[t]) : ShapeAt(t, m)'
      BY <1>6, <2>2
    <2> QED
      BY <1>0, <1>1, <1>5, <2>3, ShapeKept DEF Inv
  <1>20. \A X : (Op(t, n)' \in X <=> Op(t, n) \in X) => Unmoved(X)
    BY <1>0, <1>1, <1>5, <1>7, UnmovedTop
  <1>21. Unmoved(Busy) /\ Unmoved({"running"}) /\ Unmoved({"gc"}) /\ Unmoved(OpenOps)
    BY <1>1, <1>7, <1>20 DEF Busy, OpenOps
  <1>22. OneGC'
    BY <1>0, <1>2, <1>21, UnmovedGC DEF Inv
  <1>23. Counts'
    <2>1. \A j \in Images : Calls(j)' = Calls(j)
      BY <1>0, <1>18, <1>21, UnmovedCalls DEF Types
    <2> QED
      BY <1>2, <2>1 DEF Inv, Counts
  <1>24. Visiting'
    <2>1. ASSUME NEW u \in Threads, NEW m \in 1..Len(stack[u]), Op(u, m) \in Busy
          PROVE  state'[Img(u, m)] = state[Img(u, m)]
      BY <1>15, <2>1, VisitsKept DEF Visits
    <2> QED
      BY <1>0, <1>2, <1>21, <2>1, VisitingKept DEF Inv
  <1>25. Locks'
    <2>1. \A m \in Nat : m > n - 1 /\ m # n => ~Has(t, m, LockOps) /\ ~Has(t, m, LockOps)'
      BY <1>1, <1>5 DEF Has
    <2>2. UnmovedBut(LockOps, t, n)
      BY <1>0, <1>1, <1>5, <2>1, UnmovedButAbove
    <2>3. Has(t, n, LockOps) /\ ~Has(t, n, LockOps)'
      BY <1>1, <1>7 DEF Has, LockOps, Op
    <2> QED
      BY <1>0, <1>2, <2>2, <2>3, LockReleased DEF Inv
  <1>26. States'
    <2>1. \A j \in Images : (state'[j] = Absent) <=> (j \notin Loaded')
      <3>1. ASSUME NEW j \in Images PROVE (state'[j] = 0) <=> (j \notin Loaded')
        <4>1. (state[j] = 0) <=> (j \notin Loaded)
          BY DEF Inv, States, Absent
        <4> QED
          BY <1>8, <1>11, <1>13, <4>1
      <3> QED
        BY <3>1 DEF Absent
    <2>2. \A j \in Images : inits'[j] <= 1 /\ (state'[j] < DependentsInited => inits'[j] = 0)
      <3>1. \A j \in Images : inits[j] <= 1 /\ (state[j] < 5 => inits[j] = 0)
        BY DEF Inv, States, DependentsInited
      <3>2. ASSUME NEW j \in Images, state'[j] < 5 PROVE state[j] < 5
        BY <1>9, <1>13, <3>2 DEF StatesInRange
      <3> QED
        BY <1>2, <3>1, <3>2 DEF DependentsInited
    <2>3. NeverUnload \subseteq Core'
      BY <1>9, <1>14 DEF Inv, States
    <2>4. \A j \in Images : handles'[j] > 0 => j \in Core'
      BY <1>2, <1>9, <1>14 DEF Inv, States
    <2>5. IsInjective(all')
      BY <1>2 DEF Inv, States
    <2> QED
      BY <1>14, <1>16, <2>1, <2>2, <2>3, <2>4, <2>5 DEF States
  <1>27. Linked'
    <2>1. ASSUME NEW u \in Threads, NEW m \in 1..Len(stack'[u])
          PROVE  /\ Op(u, m)' = "process" => Img(u, m)' \in Core' \cap Kept'
                 /\ Op(u, m)' \notin Pending
                 /\ LoadAt(u, m)'
      <3>1. CASE u = t /\ m = n
        <4>1. i \in Loaded
          BY <1>11, TreeFacts
        <4>2. Op(u, m)' \notin Pending
          BY <1>7, <3>1 DEF Pending
        <4> QED
          BY <1>1, <1>7, <1>8, <1>14, <3>1, <4>1, <4>2 DEF LoadAt
      <3>2. CASE u # t \/ m # n
        <4>1. m \in 1..Len(stack[u]) /\ Op(u, m)' = Op(u, m) /\ Img(u, m)' = Img(u, m)
          <5>1. CASE u # t
            BY <1>5, <5>1 DEF Above, Op, Img
          <5>2. CASE u = t
            <6>1. m \in 1..(n - 1) /\ m \in 1..Len(stack[t])
              BY <1>1, <1>5, <3>2, <5>2
            <6> QED
              BY <1>5, <5>2, <6>1 DEF Above, Op, Img
          <5> QED
            BY <5>1, <5>2
        <4>2. Op(u, m) \notin Pending
          BY <1>3, <3>2, <4>1
        <4>3. Op(u, m) = "process" => Img(u, m) \in Core
          BY <4>1 DEF Inv, Linked
        <4>4. LoadAt(u, m)'
          BY <4>1, <4>2 DEF LoadAt, Pending
        <4> QED
          BY <1>8, <1>9, <1>14, <4>1, <4>2, <4>3, <4>4
      <3> QED
        BY <3>1, <3>2
    <2>2. \A j \in Core' \cap Kept' : LibImages[j] \subseteq Core' \cap Kept'
      BY <1>8, <1>10, <1>14, LibsAreImages
    <2> QED
      BY <1>8, <1>14, <2>1, <2>2 DEF Linked, Loading
  <1>28. Marks'
    <2>1. \A j \in NeverUnload : state'[j] >= Bound
      BY <1>26 DEF States, Core
    <2>2. Loaded \subseteq Loaded' /\ Loaded' \subseteq Images /\ \A j \in Images : count[j] # 0 => count'[j] # 0
      BY <1>2, <1>8, <1>9
    <2>3. InUse(count) \subseteq InUse(count)'
      BY <1>16, <2>1, <2>2, InUseGrows
    <2>4. Loaded \subseteq InUse(count)
      BY <1>3 DEF Inv, Marks
    <2> QED
      BY <1>2, <1>3, <1>8, <2>3, <2>4 DEF Marks
  <1> QED
    BY <1>2, <1>17, <1>18, <1>19, <1>22, <1>23, <1>24, <1>25, <1>26, <1>27, <1>28 DEF Inv, Types, Flags

\* The images loaded for the libraries of i are libraries of i that were not loaded,
\* and they are all of those unless a required one is missing.
LEMMA NewLibsMeans ==
    ASSUME DataTypes, NEW i \in Images
    PROVE  /\ LibNames(i) \in Seq(Names) /\ LibImages[i] = Images \cap Range(LibNames(i))
           /\ NewLibs(i) \in Seq(Images) /\ IsInjective(NewLibs(i))
           /\ Range(NewLibs(i)) \subseteq LibImages[i] \ Loaded
           /\ MissingLibs(i) = {} => Range(NewLibs(i)) = LibImages[i] \ Loaded
  <1> DEFINE L == Libs[i]
             c == Len(L)
             s == LibNames(i)
             q == [k \in DOMAIN L |-> k]
             S == LoadedAt(i)
             at == Selected(q, S)
             new == [n \in DOMAIN at |-> L[at[n]].img]
  <1>1. c \in Nat /\ DOMAIN L = 1..c /\ \A k \in 1..c : L[k] \in Range(L)
    <2>1. L \in Seq(Range(L))
      BY Dyld2Assumption
    <2> QED
      BY <2>1
  <1>2. \A k \in 1..c : L[k].img \in Names
    BY <1>1 DEF Names
  <1>3. s = [k \in 1..c |-> L[k].img]
    BY <1>1 DEF LibNames
  <1>4. s \in Seq(Names) /\ DOMAIN s = 1..c /\ \A k \in 1..c : s[k] = L[k].img
    BY <1>1, <1>2, <1>3, IsASeq
  <1>5. Range(s) = {l.img : l \in Range(L)}
    BY <1>1, <1>4 DEF Range
  <1>6. LibImages[i] = Images \cap Range(s)
    BY <1>5 DEF LibImages
  <1>7. S \in SUBSET (1..c) /\ \A k \in S : /\ L[k].img \in Images \ Loaded
                                          /\ \A l \in 1..(k - 1) : L[l].img # L[k].img
    BY <1>1 DEF LoadedAt
  <1>8. \A k, l \in S : L[k].img = L[l].img => k = l
    <2> SUFFICES ASSUME NEW k \in S, NEW l \in S, L[k].img = L[l].img, k < l PROVE FALSE
      BY <1>1, <1>7
    <2>1. k \in 1..(l - 1)
      BY <1>1, <1>7
    <2> QED
      BY <1>7, <2>1
  <1>9. MissingLibs(i) = {} => \A j \in LibImages[i] \ Loaded : \E k \in S : L[k].img = j
    <2> SUFFICES ASSUME MissingLibs(i) = {}, NEW j \in LibImages[i] \ Loaded
                 PROVE  \E k \in S : L[k].img = j
      OBVIOUS
    <2> DEFINE P == {k \in 1..c : L[k].img = j}
    <2>1. P \in SUBSET (1..c) /\ P # {}
      BY <1>1, <1>4, <1>6 DEF Range
    <2>2. PICK k \in P : \A l \in P : k <= l
      <3>1. P \in SUBSET Nat /\ P # {}
        BY <1>1, <2>1
      <3> HIDE DEF P
      <3>2. Min(P) \in P /\ \A y \in P : Min(P) <= y
        BY <3>1, LeastPlace
      <3> QED
        BY <3>2
    <2>3. k \in 1..c /\ L[k].img = j /\ j \in Images \ Loaded
      BY <1>6
    <2>4. \A l \in 1..(k - 1) : L[l].img # L[k].img
      BY <1>1, <2>2, <2>3
    <2>5. k \in S
      BY <1>1, <2>3, <2>4 DEF LoadedAt
    <2> QED
      BY <2>3, <2>5
  <1>10. q \in Seq(1..c) /\ DOMAIN q = 1..c /\ Range(q) = 1..c /\ \A k \in 1..c : q[k] = k
    <2>1. q = [k \in 1..c |-> k]
      BY <1>1
    <2> HIDE DEF c, q
    <2>2. q \in Seq(1..c)
      BY <1>1, <2>1, IsASeq
    <2> QED
      BY <2>1, <2>2 DEF Range
  <1>11. NewLibs(i) = new
    BY DEF NewLibs
  <1>12. LibNames(i) = s
    BY DEF s
  <1> HIDE DEF s, S, q, c, L
  <1>13. at \in Seq(1..c) /\ Range(at) = S
    <2>1. at \in Seq(1..c) /\ Range(at) = Range(q) \cap S
      BY <1>10, SelectedSeq
    <2> HIDE DEF at
    <2> QED
      BY <1>7, <1>10, <2>1
  <1>14. IsInjective(at)
    BY <1>10, SelectedDistinct
  <1> HIDE DEF at
  <1>15. /\ Len(at) \in Nat /\ DOMAIN at = 1..Len(at) /\ (\A n \in 1..Len(at) : at[n] \in S)
         /\ \A k \in S : \E n \in 1..Len(at) : at[n] = k
    BY <1>13 DEF Range
  <1>16. DOMAIN new = 1..Len(at) /\ \A n \in 1..Len(at) : new[n] = L[at[n]].img /\ new[n] \in Images \ Loaded
    BY <1>7, <1>15
  <1>17. new \in Seq(Images)
    <2>1. new = [n \in 1..Len(at) |-> new[n]]
      BY <1>15
    <2> HIDE DEF new
    <2> QED
      BY <1>15, <1>16, <2>1, IsASeq
  <1>18. IsInjective(new)
    BY <1>8, <1>14, <1>15, <1>16 DEF IsInjective
  <1>19. Range(new) = {L[k].img : k \in S}
    <2>1. \A n \in 1..Len(at) : new[n] \in {L[k].img : k \in S}
      BY <1>15, <1>16
    <2>2. \A k \in S : \E n \in 1..Len(at) : new[n] = L[k].img
      BY <1>15, <1>16
    <2> HIDE DEF new
    <2> QED
      BY <1>16, <2>1, <2>2 DEF Range
  <1>20. \A k \in S : L[k].img \in LibImages[i] \ Loaded
    <2>1. \A k \in S : s[k] \in Range(s) /\ s[k] = L[k].img
      BY <1>4, <1>7 DEF Range
    <2> QED
      BY <1>6, <1>7, <2>1
  <1> QED
    BY <1>4, <1>6, <1>9, <1>11, <1>12, <1>17, <1>18, <1>19, <1>20

\* Thread t loads N for the libraries of i, and goes on with its image or has failed.
LoadChange(t, n, i, N) ==
    /\ n = Len(stack[t]) /\ n > 0 /\ Op(t, n) = "load"
    /\ Above(t, n - 1) /\ Exact(t, n - 1) /\ Len(stack'[t]) = n
    /\ FrameOK(stack'[t][n]) /\ Img(t, n)' = Img(t, n) /\ Op(t, n)' \in {"load", "failed"} /\ LoadAt(t, n)'
    /\ UNCHANGED <<count, refs, depth, glock, ilock, cells, end, doingGC, redo, handles, opens, inits>>
    /\ i \in Loaded /\ i \in Tree(Img(t, n)) /\ state[i] = 1
    /\ N \in SUBSET LibImages[i] /\ N \cap Loaded = {} /\ Loaded' = Loaded \cup N
    /\ all' \in Seq(Images) /\ IsInjective(all') /\ marked' \in [Images -> BOOLEAN]
    /\ state' \in [Images -> 0..6] /\ state'[i] \in {1, 2} /\ (\A j \in N : state'[j] = 1)
    /\ \A j \in Images : j # i /\ j \notin N => state'[j] = state[j]

\* The images added are mapped.
LEMMA LoadStep ==
    ASSUME Inv, NEW t \in Threads, NEW n \in Nat, NEW i \in Images, NEW N \in SUBSET Images,
           LoadChange(t, n, i, N)
    PROVE  Inv'
  <1> SUFFICES ASSUME n = Len(stack[t]), n > 0, Op(t, n) = "load",
           Above(t, n - 1), Exact(t, n - 1), Len(stack'[t]) = n,
           FrameOK(stack'[t][n]), Img(t, n)' = Img(t, n), Op(t, n)' \in {"load", "failed"}, LoadAt(t, n)',
           UNCHANGED <<count, refs, depth, glock, ilock, cells, end, doingGC, redo, handles, opens, inits>>,
           i \in Loaded, i \in Tree(Img(t, n)), state[i] = 1,
           N \in SUBSET LibImages[i], N \cap Loaded = {}, Loaded' = Loaded \cup N,
           all' \in Seq(Images), IsInjective(all'), marked' \in [Images -> BOOLEAN],
           state' \in [Images -> 0..6], state'[i] \in {1, 2}, \A j \in N : state'[j] = 1,
           \A j \in Images : j # i /\ j \notin N => state'[j] = state[j]
           PROVE  Inv'
    BY DEF LoadChange
  <1>0. Types /\ DataTypes /\ Len(cells) \in Nat /\ n \in 1..Len(stack[t])
    BY CellsLen DEF Inv, Types
  <1>1. stack[t] # <<>> /\ Top(t).op = "load"
    <2>1. stack[t] # <<>>
      BY <1>0, StackType
    <2> QED
      BY <1>0, <2>1, TopFrame DEF Op
  <1>2. /\ ~doingGC
        /\ \A u \in Threads : \A m \in 1..Len(stack[u]) : Op(u, m) \in Pending \cup {"gc"} => u = t /\ m = n
    BY <1>1, LinkingAlone DEF Pending
  <1>3. /\ (n - 1) + 1 = n /\ (\A m \in ((n - 1) + 1)..Len(stack'[t]) : m = n) /\ n \in 1..Len(stack'[t])
    OBVIOUS
  <1>4. DataTypes'
    BY <1>0 DEF DataTypes
  <1>5. StackTypes'
    <2>1. stack'[t][n].op # "push"
      BY DEF Op
    <2>2. \A m \in ((n - 1) + 1)..Len(stack'[t]) : FrameOK(stack'[t][m]) /\ stack'[t][m].op # "push"
      BY <1>3, <2>1
    <2> QED
      BY <1>0, <2>2, StackTypesKept
  <1>6. Shape'
    <2>1. \A m \in 1..(n - 1) : Op(t, m)' \notin Locked
      <3>1. \A m \in 1..(n - 1) : Op(t, m) \notin Locked
        BY <1>0 DEF Inv, Shape, ShapeAt, Pending
      <3> QED
        BY <3>1 DEF Above, Op
    <2>2. ShapeAt(t, n)'
      BY <2>1 DEF ShapeAt, Visits, Busy
    <2>3. \A m \in ((n - 1) + 1)..Len(stack'[t]) : ShapeAt(t, m)'
      BY <1>3, <2>2
    <2> QED
      BY <1>0, <2>3, ShapeKept DEF Inv
  <1>7. \A X : (Op(t, n)' \in X <=> Op(t, n) \in X) => Unmoved(X)
    BY <1>0, UnmovedTop
  <1>8. /\ Unmoved(Busy) /\ Unmoved({"running"}) /\ Unmoved({"gc"}) /\ Unmoved(OpenOps) /\ Unmoved(LockOps)
        /\ Unmoved({"process"})
    BY <1>7 DEF Busy, OpenOps, LockOps
  <1>9. OneGC' /\ Locks'
    BY <1>0, <1>8, UnmovedGC, UnmovedLocks DEF Inv
  <1>10. Counts'
    <2>1. \A j \in Images : Calls(j)' = Calls(j)
      BY <1>0, <1>5, <1>8, UnmovedCalls DEF Types
    <2> QED
      BY <2>1 DEF Inv, Counts
  <1>11. /\ StatesInRange /\ Loaded \subseteq Images /\ Core \subseteq Loaded /\ N \subseteq Images
         /\ \A j \in N : state[j] = 0
    <2>1. StatesInRange /\ Loaded \subseteq Images /\ Core \subseteq Loaded /\ N \subseteq Images
      BY <1>0, StateType, LoadedImages, LibsAreImages DEF Inv
    <2> QED
      BY <2>1 DEF Inv, States, Absent
  <1>12. Core' = Core /\ i \notin Core
    <2>1. ASSUME NEW j \in Images PROVE state'[j] >= 3 <=> state[j] >= 3
      <3>1. CASE j = i
        BY <3>1
      <3>2. CASE j \in N
        BY <1>11, <3>2
      <3>3. CASE j # i /\ j \notin N
        BY <3>3
      <3> QED
        BY <3>1, <3>2, <3>3
    <2> QED
      BY <2>1 DEF Core, Bound
  <1>13. \A j \in Core : state'[j] = state[j]
    BY <1>11, <1>12 DEF Core
  <1>14. Visiting'
    <2>1. ASSUME NEW u \in Threads, NEW m \in 1..Len(stack[u]), Op(u, m) \in Busy
          PROVE  state'[Img(u, m)] = state[Img(u, m)]
      BY <1>13, <2>1, VisitsKept DEF Visits
    <2> QED
      BY <1>0, <1>8, <2>1, VisitingKept DEF Inv
  <1>15. States'
    <2>1. \A j \in Images : (state'[j] = Absent) <=> (j \notin Loaded')
      <3>1. ASSUME NEW j \in Images PROVE (state'[j] = 0) <=> (j \notin Loaded')
        <4>1. (state[j] = 0) <=> (j \notin Loaded)
          BY DEF Inv, States, Absent
        <4> QED
          BY <4>1
      <3> QED
        BY <3>1 DEF Absent
    <2>2. \A j \in Images : inits'[j] <= 1 /\ (state'[j] < DependentsInited => inits'[j] = 0)
      <3>1. \A j \in Images : inits[j] <= 1 /\ (state[j] < 5 => inits[j] = 0)
        BY DEF Inv, States, DependentsInited
      <3> QED
        BY <1>11, <3>1 DEF DependentsInited
    <2>3. /\ NeverUnload \subseteq Core' /\ (\A r \in refs' : r[1] \in Core' /\ r[2] \in Core')
          /\ \A j \in Images : handles'[j] > 0 => j \in Core'
      BY <1>12 DEF Inv, States
    <2> QED
      BY <2>1, <2>2, <2>3 DEF States
  <1>16. Kept = Images /\ Kept' = Images
    BY <1>2 DEF Kept
  <1>17. Linked'
    <2>1. ASSUME NEW u \in Threads, NEW m \in 1..Len(stack'[u])
          PROVE  /\ Op(u, m)' = "process" => Img(u, m)' \in Core' \cap Kept'
                 /\ Op(u, m)' \in Pending => Img(u, m)' \in Loaded'
                 /\ LoadAt(u, m)'
      <3>1. CASE u = t /\ m = n
        <4>1. Img(t, n) \in Loaded
          BY <1>0 DEF Inv, Linked, Pending
        <4> QED
          BY <3>1, <4>1
      <3>2. CASE u # t \/ m # n
        <4>1. m \in 1..Len(stack[u]) /\ Op(u, m)' = Op(u, m) /\ Img(u, m)' = Img(u, m)
          <5>1. CASE u # t
            BY <5>1 DEF Above, Op, Img
          <5>2. CASE u = t
            <6>1. m \in 1..(n - 1) /\ m \in 1..Len(stack[t])
              BY <3>2, <5>2
            <6> QED
              BY <5>2, <6>1 DEF Above, Op, Img
          <5> QED
            BY <5>1, <5>2
        <4>2. Op(u, m) \notin Pending
          BY <1>2, <3>2, <4>1
        <4>3. Op(u, m) = "process" => Img(u, m) \in Core
          BY <4>1 DEF Inv, Linked
        <4>4. LoadAt(u, m)'
          BY <4>1, <4>2 DEF LoadAt, Pending
        <4> QED
          BY <1>11, <1>12, <1>16, <4>1, <4>2, <4>3, <4>4
      <3> QED
        BY <3>1, <3>2
    <2>2. \A j \in Core' \cap Kept' : LibImages[j] \subseteq Core' \cap Kept'
      BY <1>12, <1>16 DEF Inv, Linked
    <2>3. ASSUME NEW j \in Loaded' \ Core'
          PROVE  \E u \in Threads : \E m \in 1..Len(stack'[u]) : Op(u, m)' \in Pending /\ j \in Tree(Img(u, m)')
      <3>1. j \in Tree(Img(t, n))
        <4>1. CASE j \in N
          <5>1. Img(t, n) \in Images
            BY <1>0, <1>11 DEF Inv, Linked, Pending
          <5> QED
            BY <4>1, <5>1, TreeFacts
        <4>2. CASE j \in Loaded
          <5>1. PICK u \in Threads : \E m \in 1..Len(stack[u]) : Op(u, m) \in Pending /\ j \in Tree(Img(u, m))
            BY <1>2, <1>12, <4>2 DEF Inv, Linked
          <5>2. PICK m \in 1..Len(stack[u]) : Op(u, m) \in Pending /\ j \in Tree(Img(u, m))
            BY <5>1
          <5> QED
            BY <1>2, <5>2
        <4> QED
          BY <4>1, <4>2
      <3>2. Op(t, n)' \in Pending
        BY DEF Pending
      <3> QED
        BY <1>3, <3>1, <3>2
    <2> QED
      BY <2>1, <2>2, <2>3 DEF Linked, Loading
  <1>18. Marks'
    <2>1. \A j \in NeverUnload : state'[j] >= Bound
      BY <1>15 DEF States, Core
    <2>2. Loaded \subseteq Loaded' /\ Loaded' \subseteq Images /\ \A j \in Images : count[j] # 0 => count'[j] # 0
      BY <1>11
    <2>3. refs \subseteq refs' /\ refs' \subseteq DynRefs
      BY <1>0 DEF DataTypes
    <2>4. InUse(count) \subseteq InUse(count)' /\ \A j \in InUse(count)' : LibImages[j] \subseteq InUse(count)'
      BY <2>1, <2>2, <2>3, InUseGrows
    <2>5. Loaded \subseteq InUse(count)
      BY <1>2 DEF Inv, Marks
    <2>6. N \subseteq InUse(count)'
      BY <2>4, <2>5
    <2> QED
      BY <1>2, <2>4, <2>5, <2>6 DEF Marks
  <1> QED
    BY <1>4, <1>5, <1>6, <1>9, <1>10, <1>14, <1>15, <1>17, <1>18 DEF Inv, Types, Flags

\* Loading the libraries of an image puts what they link on the list of what is to load.
LEMMA LoadLibrariesInv ==
    ASSUME Inv, NEW t \in Threads, LoadLibraries(t)
    PROVE  Inv'
  <1> DEFINE f == Top(t)
  <1> PICK i : i = Head(f.todo)
    OBVIOUS
  <1>0. stack[t] # <<>> /\ f.op = "load" /\ Types /\ DataTypes /\ Len(cells) \in Nat /\ f.todo # <<>>
    BY CellsLen DEF LoadLibraries, At, Inv, Types
  <1> PICK n \in Nat : n = Len(stack[t])
    BY <1>0, TopFrame
  <1>1. /\ n > 0 /\ n \in 1..Len(stack[t]) /\ Op(t, n) = "load" /\ Img(t, n) = f.img /\ f = stack[t][n]
        /\ f.img \in Images /\ FrameOK(f) /\ f \in Frames
    BY <1>0, TopFrame DEF Op, Img, FrameOK
  <1>2. /\ UNCHANGED <<count, refs, depth, glock, ilock, cells, end, doingGC, redo, handles, opens, inits>>
    BY DEF LoadLibraries, termVars, gcVars, history
  <1>3. ~doingGC
    BY <1>0, LinkingAlone DEF Pending
  <1>4. /\ f.todo \in Seq(Todo) /\ i = f.todo[1] /\ Len(f.todo) \in Nat /\ 1 \in 1..Len(f.todo)
        /\ Tail(f.todo) \in Seq(Todo) /\ Len(Tail(f.todo)) = Len(f.todo) - 1
        /\ \A k \in 1..Len(Tail(f.todo)) : k + 1 \in 1..Len(f.todo) /\ Tail(f.todo)[k] = f.todo[k + 1]
    <2>1. f.todo \in Seq(Todo)
      BY <1>1 DEF Frames
    <2> QED
      BY <1>0, <2>1, TailOf
  <1>5. /\ \A j \in Loaded : state[j] = 1 => \E k \in 1..Len(f.todo) : f.todo[k] = j
        /\ \A k \in 1..Len(f.todo) : f.todo[k] \in Images => f.todo[k] \in Loaded
        /\ \A j \in Loaded : state[j] = 2 => LibImages[j] \subseteq Loaded
    <2>1. LoadAt(t, n)
      BY <1>1 DEF Inv, Linked, Loading
    <2> QED
      BY <1>1, <2>1 DEF LoadAt, Mapped, DependentsMapped
  <1>6. \A j, k : k \in 1..Len(f.todo) /\ f.todo[k] = j /\ j # i => k - 1 \in 1..Len(Tail(f.todo)) /\ Tail(f.todo)[k - 1] = j
    <2> SUFFICES ASSUME NEW k \in 1..Len(f.todo), f.todo[k] # i
                 PROVE  k - 1 \in 1..Len(Tail(f.todo)) /\ Tail(f.todo)[k - 1] = f.todo[k]
      OBVIOUS
    <2>1. k # 1
      BY <1>4
    <2>2. k - 1 \in 1..Len(Tail(f.todo)) /\ (k - 1) + 1 = k
      BY <1>4, <2>1
    <2> QED
      BY <1>4, <2>2
  <1>7. /\ \A k \in 1..Len(f.todo) : f.todo[k] \in Images => f.todo[k] \in Tree(f.img)
        /\ \A k \in 1..Len(f.todo) : f.todo[k] \in Names
    BY <1>0, <1>1 DEF FrameOK
  <1>8. CASE i \notin Images \/ state[i] >= DependentsMapped
    <2> DEFINE g == [f EXCEPT !.todo = Tail(@)]
    <2>1. UNCHANGED <<all, marked, state>> /\ Replace(t, g)
      BY <1>8 DEF LoadLibraries
    <2>2. FrameOK(g) /\ g \in Frames /\ g.op = "load" /\ g.img = f.img
      BY <1>0, <1>1, TodoTail
    <2>3. g.todo = Tail(f.todo)
      BY <1>1 DEF Frames
    <2> HIDE DEF g
    <2>4. Above(t, n - 1) /\ Exact(t, n - 1) /\ Len(stack'[t]) = n /\ stack'[t][n] = g
      BY <1>0, <2>1, <2>2, Replaced
    <2>5. Op(t, n)' = "load" /\ Img(t, n)' = Img(t, n) /\ FrameOK(stack'[t][n])
      BY <1>1, <2>2, <2>4 DEF Op, Img
    <2>6. LoadAt(t, n)'
      <3>1. Loaded' = Loaded /\ state' = state /\ stack'[t][n].todo = Tail(f.todo) /\ Loaded \subseteq Images
        BY <1>0, <2>1, <2>3, <2>4, LoadedImages DEF Loaded, Inv
      <3>2. ASSUME NEW j \in Loaded, state[j] = 1 PROVE \E k \in 1..Len(Tail(f.todo)) : Tail(f.todo)[k] = j
        <4>1. PICK k \in 1..Len(f.todo) : f.todo[k] = j
          BY <1>5, <3>2
        <4>2. j # i
          BY <1>8, <3>1, <3>2 DEF DependentsMapped
        <4> QED
          BY <1>6, <4>1, <4>2
      <3>3. \A k \in 1..Len(Tail(f.todo)) : Tail(f.todo)[k] \in Images => Tail(f.todo)[k] \in Loaded
        BY <1>4, <1>5
      <3> QED
        BY <1>5, <2>5, <3>1, <3>2, <3>3 DEF LoadAt, Mapped, DependentsMapped
    <2>7. DataTypes'
      BY <1>0, <1>2, <2>1 DEF DataTypes
    <2>8. Len(cells') \in Nat /\ cells' = cells
      BY <1>0, <1>2
    <2> HIDE DEF f
    <2> QED
      BY <1>1, <1>2, <2>1, <2>4, <2>5, <2>6, <2>7, <2>8, QuietTop DEF gcVars
  <1>9. CASE i \in Images /\ ~(state[i] >= DependentsMapped)
    <2> DEFINE new == NewLibs(i)
               N == Range(new)
               s == LibNames(i)
               missing == MissingLibs(i)
               v == IF missing = {} THEN DependentsMapped ELSE Mapped
               st == [j \in Images |-> IF j \in N THEN Mapped ELSE state[j]]
               g == [f EXCEPT !.todo = s \o Tail(@)]
               h == Frame("failed", f.img, <<>>)
    <2>1. AddImages(new) /\ state' = [st EXCEPT ![i] = v] /\ Replace(t, IF missing = {} THEN g ELSE h)
      BY <1>9 DEF LoadLibraries
    <2>2. i \in Loaded /\ i \in Tree(f.img) /\ state[i] = 1 /\ StatesInRange /\ Loaded \subseteq Images
      <3>1. i \in Loaded /\ i \in Tree(f.img)
        BY <1>4, <1>5, <1>7, <1>9
      <3>2. StatesInRange /\ state[i] # 0 /\ Loaded \subseteq Images
        BY <1>0, <1>9, <3>1, StateType, LoadedImages DEF Inv, States, Absent
      <3> QED
        BY <1>9, <3>1, <3>2 DEF StatesInRange, DependentsMapped
    <2>3. /\ s \in Seq(Names) /\ LibImages[i] = Images \cap Range(s)
          /\ new \in Seq(Images) /\ IsInjective(new) /\ N \subseteq LibImages[i] \ Loaded
          /\ missing = {} => N = LibImages[i] \ Loaded
      BY <1>0, <1>9, NewLibsMeans
    <2> HIDE DEF N, new, s, missing
    <2>4. all' \in Seq(Images) /\ IsInjective(all') /\ Loaded' = Loaded \cup N
      <3>1. all \in Seq(Images) /\ IsInjective(all) /\ Range(all) = Loaded
        BY <1>0 DEF DataTypes, Inv, States, Loaded
      <3>2. Range(all) \cap Range(new) = {}
        BY <2>3, <3>1 DEF N
      <3>3. all \o new \in Seq(Images) /\ IsInjective(all \o new) /\ Range(all \o new) = Range(all) \cup Range(new)
        BY <2>3, <3>1, <3>2, ConcatDistinct
      <3>4. all' = all \o new
        BY <2>1 DEF AddImages
      <3> QED
        BY <3>1, <3>3, <3>4 DEF Loaded, N
    <2>5. marked' \in [Images -> BOOLEAN]
      BY <1>0, <1>3, <2>1, AddedMarks DEF DataTypes
    <2>6. v \in {1, 2} /\ (missing = {} => v = 2)
      BY DEF DependentsMapped, Mapped
    <2>7. /\ state'[i] = v /\ (\A j \in N : state'[j] = 1) /\ state' \in [Images -> 0..6]
          /\ \A j \in Images : j # i /\ j \notin N => state'[j] = state[j]
      <3>1. i \in Images /\ N \subseteq Images /\ i \notin N
        BY <1>9, <2>2, <2>3
      <3>2. st \in [Images -> 0..6]
        BY <2>2 DEF StatesInRange, Mapped
      <3>3. (\A j \in N : st[j] = 1) /\ \A j \in Images : j \notin N => st[j] = state[j]
        BY <3>1 DEF Mapped
      <3> HIDE DEF st, v
      <3>4. state'[i] = v /\ \A j \in Images : j # i => state'[j] = st[j]
        BY <2>1, <3>1, <3>2
      <3>5. state' \in [Images -> 0..6]
        BY <2>1, <2>6, <3>1, <3>2
      <3> QED
        BY <3>1, <3>3, <3>4, <3>5
    <2>8. /\ Img(t, n) = f.img /\ N \in SUBSET LibImages[i] /\ N \in SUBSET Images /\ N \cap Loaded = {}
          /\ state'[i] \in {1, 2}
      BY <1>1, <2>3, <2>6, <2>7
    <2>9. CASE missing = {}
      <3> DEFINE r == Tail(f.todo)
      <3>1. /\ s \o r \in Seq(Todo) /\ Len(s \o r) = Len(s) + Len(r) /\ Len(s) \in Nat /\ Len(r) \in Nat
            /\ \A k \in 1..Len(s) : (s \o r)[k] = s[k]
            /\ \A k \in 1..Len(r) : (s \o r)[k + Len(s)] = r[k]
            /\ DOMAIN s = 1..Len(s)
        <4>1. s \in Seq(Todo) /\ r \in Seq(Todo)
          BY <1>4, <2>3, SeqMonotonic DEF Todo
        <4> HIDE DEF r
        <4> QED
          BY <4>1, ConcatProperties
      <3> HIDE DEF r
      <3>2. \A k \in 1..Len(s \o r) : \/ k \in 1..Len(s) /\ (s \o r)[k] = s[k]
                                      \/ \E l \in 1..Len(r) : (s \o r)[k] = r[l]
        <4> SUFFICES ASSUME NEW k \in 1..Len(s \o r), ~(k \in 1..Len(s))
                     PROVE  \E l \in 1..Len(r) : (s \o r)[k] = r[l]
          BY <3>1
        <4>1. k - Len(s) \in 1..Len(r) /\ (k - Len(s)) + Len(s) = k
          BY <3>1
        <4> QED
          BY <3>1, <4>1
      <3>3. \A l \in 1..Len(r) : \E k \in 1..Len(f.todo) : r[l] = f.todo[k]
        BY <1>4 DEF r
      <3>4. \A k \in 1..Len(s) : s[k] \in Names /\ (s[k] \in Images => s[k] \in LibImages[i])
        <4>1. \A k \in 1..Len(s) : s[k] \in Names
          BY <2>3
        <4>2. \A k \in 1..Len(s) : s[k] \in Range(s)
          BY <3>1 DEF Range
        <4> QED
          BY <2>3, <4>1, <4>2
      <3>5. \A j \in LibImages[i] : \E k \in 1..Len(s) : s[k] = j
        <4>1. \A j \in Range(s) : \E k \in 1..Len(s) : s[k] = j
          BY <3>1 DEF Range
        <4> QED
          BY <2>3, <4>1
      <3>6. LibImages[i] \subseteq Tree(f.img)
        BY <1>1, <2>2, TreeFacts
      <3>7. g \in Frames /\ g.op = "load" /\ g.img = f.img /\ g.todo = s \o r
        <4>1. g = [f EXCEPT !.todo = s \o r]
          BY DEF r
        <4> QED
          BY <1>0, <1>1, <3>1, <4>1 DEF Frames
      <3> HIDE DEF g
      <3>8. \A k \in 1..Len(g.todo) : g.todo[k] \in Names /\ (g.todo[k] \in Images => g.todo[k] \in Tree(f.img))
        <4> SUFFICES ASSUME NEW k \in 1..Len(s \o r)
                     PROVE  (s \o r)[k] \in Names /\ ((s \o r)[k] \in Images => (s \o r)[k] \in Tree(f.img))
          BY <3>7
        <4>1. CASE k \in 1..Len(s) /\ (s \o r)[k] = s[k]
          BY <3>4, <3>6, <4>1
        <4>2. CASE \E l \in 1..Len(r) : (s \o r)[k] = r[l]
          BY <1>7, <3>3, <4>2
        <4> QED
          BY <3>2, <4>1, <4>2
      <3>9. FrameOK(g)
        BY <1>1, <3>7, <3>8 DEF FrameOK
      <3>10. Replace(t, g)
        BY <2>1, <2>9
      <3>11. Above(t, n - 1) /\ Exact(t, n - 1) /\ Len(stack'[t]) = n /\ stack'[t][n] = g
        BY <1>0, <3>7, <3>10, Replaced
      <3>12. Op(t, n)' = "load" /\ Img(t, n)' = Img(t, n) /\ FrameOK(stack'[t][n])
        BY <1>1, <3>7, <3>9, <3>11 DEF Op, Img
      <3>13. LoadAt(t, n)'
        <4>1. ASSUME NEW j \in Loaded', state'[j] = 1 PROVE \E k \in 1..Len(g.todo) : g.todo[k] = j
          <5>1. CASE j \in N
            <6>1. PICK k \in 1..Len(s) : s[k] = j
              BY <2>3, <3>5, <5>1
            <6>2. k \in 1..Len(s \o r) /\ (s \o r)[k] = j
              BY <3>1, <6>1
            <6> QED
              BY <3>7, <6>2
          <5>2. CASE j \in Loaded /\ j \notin N
            <6>1. j # i /\ state[j] = 1
              BY <2>2, <2>6, <2>7, <2>9, <4>1, <5>2
            <6>2. PICK k \in 1..Len(f.todo) : f.todo[k] = j
              BY <1>5, <5>2, <6>1
            <6>3. k - 1 \in 1..Len(r) /\ r[k - 1] = j
              BY <1>6, <6>1, <6>2 DEF r
            <6>4. (k - 1) + Len(s) \in 1..Len(s \o r) /\ (s \o r)[(k - 1) + Len(s)] = j
              BY <3>1, <6>3
            <6> QED
              BY <3>7, <6>4
          <5> QED
            BY <2>4, <5>1, <5>2
        <4>2. LibImages[i] \subseteq Loaded'
          BY <2>3, <2>4, <2>9
        <4>3. ASSUME NEW k \in 1..Len(s \o r), (s \o r)[k] \in Images PROVE (s \o r)[k] \in Loaded'
          <5>1. CASE k \in 1..Len(s) /\ (s \o r)[k] = s[k]
            BY <3>4, <4>2, <4>3, <5>1
          <5>2. CASE \E l \in 1..Len(r) : (s \o r)[k] = r[l]
            BY <1>5, <2>4, <3>3, <4>3, <5>2
          <5> QED
            BY <3>2, <5>1, <5>2
        <4>4. ASSUME NEW j \in Loaded', state'[j] = 2 PROVE LibImages[j] \subseteq Loaded'
          <5>1. CASE j = i
            BY <4>2, <5>1
          <5>2. CASE j # i
            <6>1. j \in Loaded /\ j \notin N
              BY <2>4, <2>7, <4>4
            <6>2. state[j] = 2
              BY <2>2, <2>7, <4>4, <5>2, <6>1
            <6> QED
              BY <1>5, <2>4, <6>1, <6>2
          <5> QED
            BY <5>1, <5>2
        <4>5. Op(t, n)' = "load" /\ stack'[t][n].todo = s \o r /\ g.todo = s \o r
          BY <3>7, <3>11, <3>12
        <4> QED
          BY <4>1, <4>3, <4>4, <4>5 DEF LoadAt, Mapped, DependentsMapped
      <3> HIDE DEF f, v, st
      <3>20. i \in Tree(Img(t, n)) /\ n = Len(stack[t]) /\ Op(t, n)' \in {"load", "failed"}
        BY <2>2, <2>8, <3>11, <3>12, <3>13
      <3>21. LoadChange(t, n, i, N)
        BY <1>1, <1>2, <1>9, <2>2, <2>4, <2>5, <2>7, <2>8, <3>11, <3>12, <3>13, <3>20 DEF LoadChange
      <3> QED
        BY <1>1, <1>9, <2>8, <3>21, LoadStep
    <2>10. CASE missing # {}
      <3>1. h \in Frames /\ FrameOK(h) /\ h.op = "failed" /\ h.img = f.img
        BY <1>1, FrameIs DEF Ops, Locked, LockOps
      <3> HIDE DEF h
      <3>2. Replace(t, h)
        BY <2>1, <2>10
      <3>3. Above(t, n - 1) /\ Exact(t, n - 1) /\ Len(stack'[t]) = n /\ stack'[t][n] = h
        BY <1>0, <3>1, <3>2, Replaced
      <3>4. Op(t, n)' = "failed" /\ Img(t, n)' = Img(t, n) /\ FrameOK(stack'[t][n])
        BY <1>1, <3>1, <3>3 DEF Op, Img
      <3>5. LoadAt(t, n)'
        BY <3>4 DEF LoadAt
      <3> HIDE DEF f, v, st
      <3>20. i \in Tree(Img(t, n)) /\ n = Len(stack[t]) /\ Op(t, n)' \in {"load", "failed"}
        BY <2>2, <2>8, <3>3, <3>4, <3>5
      <3>21. LoadChange(t, n, i, N)
        BY <1>1, <1>2, <1>9, <2>2, <2>4, <2>5, <2>7, <2>8, <3>3, <3>4, <3>5, <3>20 DEF LoadChange
      <3> QED
        BY <1>1, <1>9, <2>8, <3>21, LoadStep
    <2> QED
      BY <2>9, <2>10
  <1> QED
    BY <1>8, <1>9

-----------------------------------------------------------------------------
(* The invariant holds *)

\* At launch all the main executable links is loaded, in whatever order.
LEMMA InitInv ==
    ASSUME Init
    PROVE  Inv
  <1>1. all \in Seq(Images) /\ IsInjective(all) /\ Loaded = NeverUnload
    <2>1. PICK s \in [1..Cardinality(NeverUnload) -> NeverUnload] : IsInjective(s) /\ all = s
      BY DEF Init
    <2> DEFINE c == Cardinality(NeverUnload)
    <2>2. IsFiniteSet(NeverUnload) /\ c \in Nat /\ NeverUnload \subseteq Images
      BY Dyld2Assumption, FS_CardinalityType
    <2> HIDE DEF c
    <2>3. s \in [1..c -> NeverUnload]
      BY <2>1 DEF c
    <2>4. s \in Injection(1..c, NeverUnload)
      BY <2>1, <2>3 DEF Injection, IsInjective
    <2>5. Cardinality(1..c) = c
      <3>1. 1 \in Int /\ c \in Int
        BY <2>2
      <3>2. Cardinality(1..c) = IF 1 > c THEN 0 ELSE c - 1 + 1
        BY <3>1, FS_Interval
      <3> QED
        BY <2>2, <3>2
    <2>6. s \in Surjection(1..c, NeverUnload)
      <3>1. Cardinality(1..c) = Cardinality(NeverUnload)
        BY <2>5 DEF c
      <3> QED
        BY <2>2, <2>4, <3>1, FS_Injection
    <2>7. Range(s) = NeverUnload
      BY <2>3, <2>6 DEF Surjection, Range
    <2>8. s \in Seq(Images)
      <3>1. s = [k \in 1..c |-> s[k]] /\ \A k \in 1..c : s[k] \in Images
        BY <2>2, <2>3
      <3> QED
        BY <2>2, <3>1, IsASeq
    <2> QED
      BY <2>1, <2>7, <2>8 DEF Loaded
  <1>2. /\ state = [i \in Images |-> IF i \in NeverUnload THEN 6 ELSE 0]
        /\ count = [i \in Images |-> 0] /\ depth = [i \in Images |-> 0]
        /\ marked = [i \in Images |-> FALSE]
        /\ refs = {} /\ cells = <<>> /\ end = 0 /\ doingGC = FALSE /\ redo = FALSE
        /\ glock = [owner |-> None, held |-> 0]
        /\ ilock = [i \in Images |-> [owner |-> None, held |-> 0]]
        /\ handles = [i \in Images |-> 0] /\ opens = 0
        /\ inits = [i \in Images |-> 0]
    BY DEF Init, Initialized, Absent
  <1>3. DOMAIN stack = Threads /\ \A t \in Threads : stack[t] = <<>>
    BY DEF Init
  <1>4. \A t \in Threads : Len(stack[t]) = 0 /\ 1..Len(stack[t]) = {}
    BY <1>3
  <1>5. DataTypes
    <2>1. MaxOpens \in Nat
      BY Dyld2Assumption
    <2> QED
      BY <1>1, <1>2, <2>1 DEF DataTypes, DepthLimit
  <1>6. StackTypes /\ Types
    <2>1. <<>> \in Seq(Frames)
      BY EmptySeq
    <2>2. \A t \in Threads : stack[t] \in Seq(Frames)
      BY <1>3, <2>1
    <2> QED
      BY <1>3, <1>4, <1>5, <2>2 DEF StackTypes, Types
  <1>7. Flags /\ Shape /\ OneGC /\ Visiting
    BY <1>2, <1>4 DEF Flags, Shape, OneGC, Visiting, Free
  <1>8. Locks
    <2>1. \A t \in Threads : LockPlaces(t) = {}
      BY <1>4 DEF LockPlaces
    <2>2. glock.owner = None /\ glock.held = 0 /\ glock \in [owner : Threads \cup {None}, held : Nat]
      BY <1>2
    <2>3. None \notin Threads
      BY Dyld2Assumption
    <2> QED
      BY <2>1, <2>2, <2>3 DEF Locks
  <1>9. NeverUnload = Core /\ NeverUnload \subseteq Images
    BY <1>2, NeverUnloaded DEF Core, Bound
  <1>10. States
    <2>1. \A i \in Images : (state[i] = 0) <=> (i \notin Loaded)
      BY <1>1, <1>2
    <2> QED
      BY <1>1, <1>2, <1>9, <2>1 DEF States, Absent
  <1>11. Kept = Images
    BY <1>2 DEF Kept
  <1>12. Linked
    <2>1. \A i \in Core \cap Kept : LibImages[i] \subseteq Core \cap Kept
      BY <1>9, <1>11, Dyld2Assumption
    <2>2. Loading
      BY <1>4 DEF Loading
    <2> QED
      BY <1>1, <1>4, <1>9, <2>1, <2>2 DEF Linked
  <1>13. Marks
    <2> DEFINE S == {i \in Loaded : count[i] # 0 \/ (i \in NeverUnload /\ state[i] >= Bound)}
    <2>1. S = NeverUnload
      BY <1>1, <1>2, <1>9 DEF Bound
    <2>2. InUse(count) = Closure(S, refs)
      BY DEF InUse
    <2> HIDE DEF S
    <2>3. S \subseteq Closure(S, refs)
      BY <1>2, <1>9, <2>1, ClosureFacts
    <2> QED
      BY <1>1, <1>2, <2>1, <2>2, <2>3 DEF Marks
  <1>14. Counts
    <2>1. ASSUME NEW i \in Images PROVE Calls(i) = {}
      <3>1. \A t \in Threads : DOMAIN stack[t] = {}
        BY <1>3
      <3>2. \A t \in Threads : {n \in Opening(t) : stack[t][n].img = i} = {}
        BY <3>1 DEF Opening
      <3>3. \A t \in Threads : {t} \X {n \in Opening(t) : stack[t][n].img = i} = {}
        BY <3>2
      <3> QED
        BY <3>3 DEF Calls
    <2>2. \A i \in Images : IsFiniteSet(Calls(i)) /\ Cardinality(Calls(i)) = 0
      BY <2>1, FS_EmptySet
    <2> QED
      BY <1>2, <2>2 DEF Counts
  <1> QED
    BY <1>6, <1>7, <1>8, <1>10, <1>12, <1>13, <1>14 DEF Inv

\* Nothing but the calls that threads wait in changes.
LEMMA WantOnly ==
    ASSUME NEW t \in Threads, GiveUp(t) \/ \E op, i : Await(t, op, i)
    PROVE  UNCHANGED <<imageVars, depth, glock, ilock, termVars, gcVars, stack, handles, opens, history>>
  BY DEF GiveUp, Await

\* Nothing that the invariant speaks of changes.
LEMMA StutterInv ==
    ASSUME Inv, UNCHANGED <<imageVars, depth, glock, ilock, termVars, gcVars, stack, handles, opens, history>>
    PROVE  Inv'
  <1>1. /\ UNCHANGED <<all, state, count, marked, refs, depth, glock, ilock, cells, end, doingGC, redo,
                      stack, handles, opens, inits>>
    BY DEF imageVars, termVars, gcVars, history
  <1>2. Loaded' = Loaded /\ Core' = Core /\ Kept' = Kept /\ \A i \in Images : Calls(i)' = Calls(i)
    BY <1>1 DEF Loaded, Core, Kept, Calls, Opening
  <1>3. InUse(count)' = InUse(count)
    BY <1>1, <1>2 DEF InUse
  <1>4. \A t, n : Op(t, n)' = Op(t, n) /\ Img(t, n)' = Img(t, n) /\ LoadAt(t, n)' = LoadAt(t, n)
                  /\ ShapeAt(t, n)' = ShapeAt(t, n) /\ LockPlaces(t)' = LockPlaces(t)
    BY <1>1, <1>2 DEF Op, Img, LoadAt, ShapeAt, LockPlaces
  <1>5. Types' /\ Flags' /\ Shape' /\ Locks' /\ OneGC'
    BY <1>1, <1>4 DEF Inv, Types, DataTypes, StackTypes, Flags, Shape, Locks, OneGC
  <1>6. States' /\ Linked' /\ Marks' /\ Counts' /\ Visiting'
    BY <1>1, <1>2, <1>3, <1>4 DEF Inv, States, Linked, Loading, Marks, Counts, Visiting
  <1> QED
    BY <1>5, <1>6 DEF Inv

\* Every step keeps the invariant.
LEMMA NextInv ==
    ASSUME TermOpens = {}, Inv, [Next]_vars
    PROVE  Inv'
  <1>1. CASE UNCHANGED vars
    BY <1>1, StutterInv DEF vars
  <1>2. ASSUME NEW t \in Threads, NEW i \in Images, Dlopen(t, i) \/ DlopenNoLoad(t, i) \/ Dlclose(t, i)
        PROVE  Inv'
    BY <1>2, DlopenInv, DlopenNoLoadInv, DlcloseInv
  <1>3. ASSUME NEW t \in Threads, GiveUp(t) \/ \E op, i : Await(t, op, i)
        PROVE  Inv'
    BY <1>3, WantOnly, StutterInv
  <1>4. ASSUME NEW t \in Threads, Work(t) PROVE Inv'
    <2>1. CASE LoadLibraries(t) \/ StartDepths(t) \/ UpdateDepth(t) \/ DanglingUpwards(t) \/ Bind(t)
      BY <2>1, LoadLibrariesInv, StartDepthsInv, UpdateDepthInv, DanglingUpwardsInv, BindInv
    <2>2. CASE LinkFailed(t) \/ UndoOpen(t) \/ Close(t)
      BY <2>2, LinkFailedInv, UndoOpenInv, CloseInv
    <2>3. CASE GcTerminate(t) \/ TerminatorReturns(t) \/ GcDelete(t) \/ GcDone(t)
      BY <2>3, GcTerminateInv, TerminatorReturnsInv, GcDeleteInv, GcDoneInv
    <2>4. CASE ProcessInitializers(t) \/ Opened(t) \/ EnterImage(t) \/ NextLibrary(t)
      BY <2>4, ProcessInitializersInv, OpenedInv, EnterImageInv, NextLibraryInv
    <2>5. CASE CompareDepth(t) \/ RecordTermination(t) \/ PushBack(t)
      BY <2>5, CompareDepthInv, RecordTerminationInv, PushBackInv
    <2>6. CASE RunInitializers(t) \/ InitializersReturn(t)
      BY <2>6, RunInitializersInv, InitializersReturnInv
    <2> QED
      BY <1>2, <1>3, <1>4, <2>1, <2>2, <2>3, <2>4, <2>5, <2>6 DEF Work
  <1> QED
    BY <1>1, <1>2, <1>3, <1>4 DEF Next

\* The invariant holds in every behaviour.
LEMMA AlwaysInv ==
    ASSUME TermOpens = {}
    PROVE  Spec => []Inv
  <1>1. Init => Inv
    BY InitInv
  <1>2. Inv /\ [Next]_vars => Inv'
    BY NextInv
  <1> QED
    BY <1>1, <1>2, PTL DEF Spec

-----------------------------------------------------------------------------
(* What follows from it *)

\* Type correctness follows from it.
LEMMA InvType ==
    ASSUME Inv
    PROVE  TypeOK
  <1>1. DataTypes /\ StackTypes /\ Types /\ Locks /\ None \notin Threads
    BY Dyld2Assumption DEF Inv, Types
  <1>2. count \in [Images -> 0..MaxOpens]
    <2>1. count \in [Images -> Nat] /\ opens \in 0..MaxOpens /\ MaxOpens \in Nat
      BY <1>1, Dyld2Assumption DEF DataTypes
    <2>2. \A i \in Images : count[i] <= opens
      BY DEF Inv, Counts
    <2>3. \A i \in Images : count[i] \in 0..MaxOpens
      BY <2>1, <2>2
    <2> QED
      BY <2>1, <2>3
  <1>3. ASSUME NEW t \in Threads
        PROVE  (glock.owner = t) =
                  (\E n \in DOMAIN stack[t] : stack[t][n].op \in {"load", "depths", "failed", "undo", "close"})
    <2>1. glock.owner = t <=> LockPlaces(t) # {}
      BY <1>1 DEF Locks
    <2>2. DOMAIN stack[t] = 1..Len(stack[t])
      BY <1>1, StackType
    <2> QED
      BY <2>1, <2>2 DEF LockPlaces, Op, LockOps
  <1>4. ASSUME NEW i \in Images
        PROVE  (ilock[i].owner = None) = (ilock[i].held = 0)
    <2>1. CASE ilock[i] = Free
      BY <2>1 DEF Free
    <2>2. CASE ilock[i] # Free
      <3>1. PICK t \in Threads : \E n \in 1..Len(stack[t]) : Op(t, n) \in Busy /\ Img(t, n) = i
        BY <2>2 DEF Inv, Visiting
      <3>2. PICK n \in 1..Len(stack[t]) : Op(t, n) \in Busy /\ Img(t, n) = i
        BY <3>1
      <3>3. ilock[Img(t, n)] = [owner |-> t, held |-> 1]
        BY <3>2 DEF Inv, Visiting
      <3>4. ilock[i].owner = t /\ ilock[i].held = 1
        BY <3>2, <3>3
      <3> QED
        BY <1>1, <3>4
    <2> QED
      BY <2>1, <2>2
  <1>5. glock.owner \in Threads \cup {None} /\ glock.held \in Nat
    BY <1>1 DEF Locks
  <1>6. \A i \in Images : (state[i] = Absent) = (i \notin Loaded)
    BY DEF Inv, States
  <1>7. IsInjective(all) /\ doingGC \in BOOLEAN /\ redo \in BOOLEAN
    BY DEF Inv, States, Flags
  <1>8. state \in [Images -> Absent..Initialized]
    BY <1>1 DEF DataTypes, Absent, Initialized
  <1> QED
    BY <1>1, <1>2, <1>3, <1>4, <1>5, <1>6, <1>7, <1>8 DEF TypeOK, DataTypes

\* The global lock is held during a collection.
LEMMA InvNothingLeft ==
    ASSUME Inv
    PROVE  NothingLeftBehind
  <1> SUFFICES ASSUME glock.owner = None PROVE Loaded \subseteq InUse(count)
    BY DEF NothingLeftBehind
  <1>1. ~doingGC
    <2> SUFFICES ASSUME doingGC PROVE FALSE
      OBVIOUS
    <2>1. PICK t \in Threads : \E n \in 1..Len(stack[t]) : Op(t, n) = "gc"
      BY DEF Inv, OneGC
    <2>2. PICK n \in 1..Len(stack[t]) : Op(t, n) = "gc"
      BY <2>1
    <2>3. glock.owner = t
      BY <2>2, OwnerIs
    <2> QED
      BY <2>3, Dyld2Assumption
  <1> QED
    BY <1>1 DEF Inv, Marks

\* Adding images removes none.
LEMMA AddedStay ==
    ASSUME DataTypes, NEW new \in Seq(Images), AddImages(new)
    PROVE  Loaded \subseteq Range(all')
  <1>1. all \in Seq(Images) /\ all' = all \o new
    BY DEF DataTypes, AddImages
  <1>2. /\ Len(all) \in Nat /\ Len(new) \in Nat /\ Len(all \o new) = Len(all) + Len(new)
        /\ \A k \in 1..Len(all) : (all \o new)[k] = all[k]
        /\ DOMAIN all = 1..Len(all) /\ DOMAIN (all \o new) = 1..Len(all \o new)
    BY <1>1, ConcatProperties
  <1>3. \A k \in 1..Len(all) : k \in 1..Len(all \o new)
    BY <1>2
  <1> QED
    BY <1>1, <1>2, <1>3 DEF Loaded, Range

\* What is needed is used, and what is used is marked during a collection.
LEMMA NeededKept ==
    ASSUME Inv, doingGC
    PROVE  Needed \subseteq Kept
  <1> DEFINE A == {i \in Images : handles[i] > 0}
             O == UNION {{stack[t][n].img : n \in Opening(t)} : t \in Threads}
  <1>1. A \subseteq Kept
    BY CountMeans DEF Inv, Marks
  <1>2. O \subseteq Kept
    <2> SUFFICES ASSUME NEW t \in Threads, NEW n \in Opening(t)
                 PROVE  stack[t][n].img \in Kept
      OBVIOUS
    <2>1. DOMAIN stack[t] = 1..Len(stack[t])
      BY StackType DEF Inv
    <2>2. n \in 1..Len(stack[t]) /\ Op(t, n) \in OpenOps /\ stack[t][n].img = Img(t, n)
      BY <2>1 DEF Opening, Op, Img, OpenOps
    <2>3. Img(t, n) \in Images /\ count[Img(t, n)] # 0
      BY <2>2, CountMeans
    <2> QED
      BY <2>2, <2>3 DEF Inv, Marks
  <1>3. /\ NeverUnload \subseteq Kept /\ Kept \subseteq Images
        /\ (\A i \in Kept : LibImages[i] \subseteq Kept) /\ \A r \in refs : r[1] \in Kept => r[2] \in Kept
    BY DEF Inv, Marks, Kept
  <1>4. Needed = Closure(A \cup NeverUnload \cup O, refs)
    BY DEF Needed
  <1> HIDE DEF A, O
  <1>5. A \cup NeverUnload \cup O \subseteq Kept /\ Kept \in SUBSET Images
    BY <1>1, <1>2, <1>3
  <1> QED
    BY <1>3, <1>4, <1>5, ClosureLeast

\* Only a collection removes images, and only what it has not marked.
LEMMA OnlyDeleted ==
    ASSUME Inv, Next, NEW i \in Loaded, i \notin Range(all')
    PROVE  \E t \in Threads : GcDelete(t) /\ i \in Images /\ ~marked[i]
  <1>0. Types /\ DataTypes /\ Loaded = Range(all)
    BY DEF Inv, Types, Loaded
  <1>1. PICK t \in Threads : \/ \E j \in Images : Dlopen(t, j) \/ DlopenNoLoad(t, j) \/ Dlclose(t, j)
                             \/ GiveUp(t) \/ \E op, j : Await(t, op, j)
                             \/ Work(t)
    BY DEF Next
  <1>2. all' # all
    BY <1>0
  <1>3. ASSUME NEW j \in Images, Dlopen(t, j) \/ DlopenNoLoad(t, j) \/ Dlclose(t, j)
        PROVE  FALSE
    <2>1. Dlopen(t, j)
      BY <1>2, <1>3 DEF DlopenNoLoad, Dlclose
    <2> DEFINE new == IF j \in Loaded THEN <<>> ELSE <<j>>
    <2>2. AddImages(new)
      BY <2>1 DEF Dlopen
    <2>3. new \in Seq(Images)
      OBVIOUS
    <2> HIDE DEF new
    <2> QED
      BY <1>0, <2>2, <2>3, AddedStay
  <1>4. ASSUME LoadLibraries(t)
        PROVE  FALSE
    <2> PICK j : j = Head(Top(t).todo)
      OBVIOUS
    <2>1. j \in Images /\ AddImages(NewLibs(j))
      BY <1>2, <1>4 DEF LoadLibraries
    <2>2. NewLibs(j) \in Seq(Images)
      BY <1>0, <2>1, NewLibsMeans
    <2> QED
      BY <1>0, <2>1, <2>2, AddedStay
  <1>5. GcDelete(t)
    <2>1. ~(GiveUp(t) \/ \E op, j : Await(t, op, j))
      BY <1>2, WantOnly DEF imageVars
    <2>2. Work(t)
      BY <1>1, <1>3, <2>1
    <2>3. ~(StartDepths(t) \/ UpdateDepth(t) \/ DanglingUpwards(t) \/ Bind(t))
      BY <1>2 DEF StartDepths, UpdateDepth, DanglingUpwards, Bind, imageVars
    <2>4. ~(LinkFailed(t) \/ UndoOpen(t) \/ Close(t))
      BY <1>2 DEF LinkFailed, UndoOpen, Close, imageVars
    <2>5. ~(GcTerminate(t) \/ TerminatorReturns(t) \/ GcDone(t))
      BY <1>2 DEF GcTerminate, TerminatorReturns, GcDone, imageVars
    <2>6. ~(ProcessInitializers(t) \/ Opened(t) \/ EnterImage(t) \/ NextLibrary(t))
      BY <1>2 DEF ProcessInitializers, Opened, EnterImage, NextLibrary, imageVars
    <2>7. ~(CompareDepth(t) \/ RecordTermination(t) \/ PushBack(t))
      BY <1>2 DEF CompareDepth, RecordTermination, PushBack, imageVars
    <2>8. ~(RunInitializers(t) \/ InitializersReturn(t))
      BY <1>2 DEF RunInitializers, InitializersReturn
    <2> QED
      BY <1>3, <1>4, <2>1, <2>2, <2>3, <2>4, <2>5, <2>6, <2>7, <2>8 DEF Work
  <1>6. PICK k \in DOMAIN all : ~marked[all[k]] /\ all' = RemoveAt(all, k)
    BY <1>5 DEF GcDelete
  <1>7. all \in Seq(Images) /\ IsInjective(all)
    BY <1>0 DEF DataTypes, Inv, States
  <1>8. Range(RemoveAt(all, k)) = Range(all) \ {all[k]}
    BY <1>7, RemovedDistinct
  <1>9. i = all[k]
    BY <1>0, <1>6, <1>8
  <1>10. i \in Images
    BY <1>6, <1>7, <1>9
  <1> QED
    BY <1>5, <1>6, <1>9, <1>10

\* What is needed is not removed.
LEMMA StepKeepsUsed ==
    ASSUME Inv, Next, NEW i \in Loaded, i \notin Range(all')
    PROVE  i \notin Needed
  <1>1. PICK t \in Threads : GcDelete(t) /\ i \in Images /\ ~marked[i]
    BY OnlyDeleted
  <1>2. doingGC
    <2>1. stack[t] # <<>> /\ Top(t).op = "gc"
      BY <1>1 DEF GcDelete, At
    <2>2. Len(stack[t]) \in 1..Len(stack[t]) /\ Op(t, Len(stack[t])) = "gc"
      BY <2>1, TopFrame DEF Op, Inv
    <2> QED
      BY <2>2 DEF Inv, OneGC
  <1>3. i \notin Kept
    BY <1>1, <1>2 DEF Kept
  <1> QED
    BY <1>2, <1>3, NeededKept

\* The state of the loader is well formed whatever the threads do: no image is
\* listed twice in sAllImages, an image has a state exactly while it is listed,
\* depths fit their 15 bits, and each lock has an owner exactly while some call on
\* its owner's stack is between taking and releasing it.
THEOREM TypesHold ==
    ASSUME TermOpens = {}
    PROVE  Spec => []TypeOK
  <1>1. Spec => []Inv
    BY AlwaysInv
  <1>2. Inv => TypeOK
    BY InvType
  <1> QED
    BY <1>1, <1>2, PTL

\* However many threads open an image or what links it, at whatever points they
\* meet in recursiveInitialization(), its initializers are started at most once
\* while it is loaded.
THEOREM InitializedOnce ==
    ASSUME TermOpens = {}
    PROVE  Spec => []InitOnce
  <1>1. Spec => []Inv
    BY AlwaysInv
  <1>2. Inv => InitOnce
    BY DEF Inv, States, InitOnce
  <1> QED
    BY <1>1, <1>2, PTL

\* fDlopenReferenceCount is the number of handles the program has and of calls of
\* dlopen() under way, after calls that failed half way and after collections too.
THEOREM ReferencesAreCounted ==
    ASSUME TermOpens = {}
    PROVE  Spec => []CountsExact
  <1>1. Spec => []Inv
    BY AlwaysInv
  <1>2. Inv => CountsExact
    BY DEF Inv, Counts, CountsExact
  <1> QED
    BY <1>1, <1>2, PTL

\* Whenever the global lock is free, every loaded image is in use: a dlclose() that
\* a terminator makes during a collection has the collection started over
\* (sRedo), and what a failed dlopen() had loaded is collected before it returns.
THEOREM GarbageIsCollected ==
    ASSUME TermOpens = {}
    PROVE  Spec => []NothingLeftBehind
  <1>1. Spec => []Inv
    BY AlwaysInv
  <1>2. Inv => NothingLeftBehind
    BY InvNothingLeft
  <1> QED
    BY <1>1, <1>2, PTL

\* No step of garbageCollectImages() deletes an image that a handle of the program,
\* a dlopen() under way on any thread or the main executable needs, directly or
\* through the libraries and the dynamic references of what they need.
THEOREM UsedStaysLoaded ==
    ASSUME TermOpens = {}
    PROVE  Spec => InUseStaysLoaded
  <1> DEFINE P == \A i \in Loaded : i \notin Range(all') => i \notin Needed \/ i \in reopened
  <1>1. Spec => []Inv
    BY AlwaysInv
  <1>2. Inv /\ [Next]_vars => [P]_vars
    BY StepKeepsUsed
  <1>3. Spec => [][P]_vars
    BY <1>1, <1>2, PTL DEF Spec
  <1> QED
    BY <1>3 DEF InUseStaysLoaded

-----------------------------------------------------------------------------
(* The list of images to terminate *)

\* The image is in the list, or was: its initializers are about to run, or have been
\* started.
IsReady(i) == \E u \in Threads : \E n \in Nat : Has(u, n, {"ready"}) /\ stack[u][n].img = i
Recorded(i) == i \in HasTerm /\ (inits[i] > 0 \/ IsReady(i))

\* It is there once until its terminators have been called, and never again.
Listed(i) ==
    IF Recorded(i)
    THEN \/ terms[i] = 0 /\ \E n \in 1..end : InTermList(i) = {n}
         \/ terms[i] = 1 /\ InTermList(i) = {}
    ELSE terms[i] = 0 /\ InTermList(i) = {}

\* A push_back() is under way on top of its thread's stack ...
PushTop ==
    \A u \in Threads : \A n \in Nat :
       Has(u, n, {"push"}) => n = Len(stack[u]) /\ stack[u][n].img \in HasTerm

\* ... and while none has met another change it is alone, and knows where the list ends.
Pushing ==
    \A u \in Threads : \A n \in Nat :
       Has(u, n, {"push"}) =>
          /\ stack[u][n].val = end
          /\ \A v \in Threads : \A m \in Nat : Has(v, m, {"push"}) => v = u

\* What a collection will delete and has to be terminated is still before it.
Covers(f) == \A i \in Images : ~marked[i] /\ InTermList(i) # {} => i \in Range(f.todo)
Dying == \A u \in Threads : \A n \in Nat : Has(u, n, {"gc"}) => Covers(stack[u][n])

ListOK == Pushing /\ Dying /\ \A i \in Images : Listed(i)
TermInv == terms \in [Images -> Nat] /\ torn \in BOOLEAN /\ PushTop /\ (torn \/ ListOK)

\* Entries up to the k-th stay, but for what processInitializers() puts off.
Keeps(t, k) ==
    /\ \A u \in Threads : u # t => stack'[u] = stack[u]
    /\ k \in Nat /\ k <= Len(stack[t]) /\ k <= Len(stack'[t])
    /\ \A n \in 1..k : stack'[t][n].op = stack[t][n].op
    /\ \A n \in 1..k : stack[t][n].op # "process" => stack'[t][n] = stack[t][n]

\* What is replaced, called and returned from leaves the rest.
LEMMA KeepsAbove ==
    ASSUME NEW t \in Threads, NEW k, Above(t, k), Exact(t, k)
    PROVE  Keeps(t, k)
  BY DEF Above, Exact, Keeps

\* An entry at which nothing was changed.
LEMMA KeptEntry ==
    ASSUME NEW t \in Threads, NEW k, Keeps(t, k), NEW u \in Threads, NEW n \in Nat, u # t \/ n <= k,
           Types, Types', NEW X, "process" \notin X
    PROVE  /\ Has(u, n, X)' <=> Has(u, n, X)
           /\ Has(u, n, X) => stack'[u][n] = stack[u][n]
  <1>1. CASE u # t
    BY <1>1 DEF Keeps, Has
  <1>2. CASE u = t
    <2>1. Len(stack[t]) \in Nat /\ Len(stack'[t]) \in Nat
      BY DEF Types, StackTypes
    <2>2. k \in Nat /\ k <= Len(stack[t]) /\ k <= Len(stack'[t]) /\ n <= k
      BY <1>2 DEF Keeps
    <2>3. CASE n = 0
      BY <1>2, <2>3 DEF Has
    <2>4. CASE n > 0
      <3>1. n \in 1..k /\ n \in 1..Len(stack[t]) /\ n \in 1..Len(stack'[t])
        BY <2>1, <2>2, <2>4
      <3>2. stack'[t][n].op = stack[t][n].op /\ (stack[t][n].op # "process" => stack'[t][n] = stack[t][n])
        BY <3>1 DEF Keeps
      <3> QED
        BY <1>2, <3>1, <3>2 DEF Has
    <2> QED
      BY <2>3, <2>4
  <1> QED
    BY <1>1, <1>2

\* No push_back() is under way in a thread whose stack has something else on top.
LEMMA NoPush ==
    ASSUME Types, PushTop, NEW t \in Threads, stack[t] # <<>> => Top(t).op # "push", NEW n \in Nat
    PROVE  ~Has(t, n, {"push"})
  <1> SUFFICES ASSUME Has(t, n, {"push"}) PROVE FALSE
    OBVIOUS
  <1>1. n = Len(stack[t]) /\ n \in 1..Len(stack[t]) /\ stack[t][n].op = "push"
    BY DEF PushTop, Has
  <1>2. stack[t] # <<>>
    BY <1>1
  <1> QED
    BY <1>1, <1>2, TopFrame

\* A step that is not about the list.
LEMMA QuietTerm ==
    ASSUME Types, Types', TermInv, NEW t \in Threads, NEW k, Keeps(t, k),
           stack[t] # <<>> => Top(t).op # "push",
           \A n \in Nat : n > k => ~Has(t, n, {"ready"}) /\ ~Has(t, n, {"push"})' /\ ~Has(t, n, {"ready"})',
           UNCHANGED <<cells, end, terms, inits, torn>>,
           torn \/ \A n \in Nat : n > k /\ Has(t, n, {"gc"})' => Covers(stack[t][n])',
           \/ torn
           \/ \A i \in Images : InTermList(i) # {} => marked'[i] = marked[i]
           \/ \A u \in Threads : \A n \in Nat : Has(u, n, {"gc"}) => u = t /\ n > k
    PROVE  TermInv'
  <1> PICK l \in Nat : l = k
    BY DEF Keeps
  <1>1. \A n \in Nat : n <= l \/ n > l
    OBVIOUS
  <1>2. ASSUME NEW u \in Threads, NEW n \in Nat
        PROVE  /\ Has(u, n, {"push"})' => u # t /\ Has(u, n, {"push"}) /\ stack'[u] = stack[u]
               /\ Has(u, n, {"ready"})' <=> Has(u, n, {"ready"})
               /\ Has(u, n, {"ready"}) => stack'[u][n] = stack[u][n]
    <2>1. CASE u # t \/ n <= l
      <3>1. /\ Has(u, n, {"push"})' <=> Has(u, n, {"push"})
            /\ Has(u, n, {"ready"})' <=> Has(u, n, {"ready"})
            /\ Has(u, n, {"ready"}) => stack'[u][n] = stack[u][n]
        BY <2>1, KeptEntry
      <3>2. Has(u, n, {"push"}) => u # t
        BY NoPush DEF TermInv
      <3>3. u # t => stack'[u] = stack[u]
        BY DEF Keeps
      <3> QED
        BY <3>1, <3>2, <3>3
    <2>2. CASE u = t /\ n > l
      BY <2>2
    <2> QED
      BY <1>1, <2>1, <2>2
  <1>3. PushTop'
    BY <1>2 DEF PushTop, TermInv
  <1>4. ASSUME ~torn PROVE ListOK'
    <2>1. ListOK
      BY <1>4 DEF TermInv
    <2>2. Pushing'
      <3> SUFFICES ASSUME NEW u \in Threads, NEW n \in Nat, Has(u, n, {"push"})'
                   PROVE  /\ stack'[u][n].val = end'
                          /\ \A v \in Threads : \A m \in Nat : Has(v, m, {"push"})' => v = u
        BY DEF Pushing
      <3>1. Has(u, n, {"push"}) /\ stack'[u] = stack[u]
        BY <1>2
      <3> QED
        BY <1>2, <2>1, <3>1 DEF ListOK, Pushing
    <2>3. \A i \in Images : InTermList(i)' = InTermList(i)
      BY DEF InTermList
    <2>4. ASSUME NEW i \in Images PROVE Listed(i)'
      <3>1. IsReady(i)' <=> IsReady(i)
        BY <1>2 DEF IsReady
      <3>2. Listed(i)
        BY <2>1 DEF ListOK
      <3>3. Recorded(i)' <=> Recorded(i)
        BY <3>1 DEF Recorded
      <3> QED
        BY <2>3, <3>2, <3>3 DEF Listed
    <2>5. Dying'
      <3> SUFFICES ASSUME NEW u \in Threads, NEW n \in Nat, Has(u, n, {"gc"})'
                   PROVE  Covers(stack[u][n])'
        BY DEF Dying
      <3>1. CASE u = t /\ n > l
        BY <1>4, <3>1
      <3>2. CASE u # t \/ n <= l
        <4>1. Has(u, n, {"gc"}) /\ stack'[u][n] = stack[u][n]
          BY <3>2, KeptEntry
        <4>2. ~(u = t /\ n > l)
          BY <3>2
        <4>3. \A i \in Images : InTermList(i) # {} => marked'[i] = marked[i]
          BY <1>4, <4>1, <4>2
        <4>4. Covers(stack[u][n])
          BY <2>1, <4>1 DEF ListOK, Dying
        <4> QED
          BY <2>3, <4>1, <4>3, <4>4 DEF Covers
      <3> QED
        BY <1>1, <3>1, <3>2
    <2> QED
      BY <2>2, <2>4, <2>5 DEF ListOK
  <1> QED
    BY <1>3, <1>4 DEF TermInv

MarksStay ==
    \/ torn
    \/ \A i \in Images : InTermList(i) # {} => marked'[i] = marked[i]
    \/ \A u \in Threads : \A n \in Nat : ~Has(u, n, {"gc"})
ListStays == UNCHANGED <<cells, end, terms, inits, torn>>
Plain == {"load", "depths", "failed", "undo", "close", "term", "process", "enter", "deps", "compare", "running", "init"}

\* A new top is an entry.
LEMMA NewTop ==
    ASSUME Types, Types', NEW t \in Threads, stack[t] # <<>>, NEW f, Replace(t, f)
    PROVE  f \in Frames
  <1>1. stack[t] \in Seq(Frames) /\ DOMAIN stack = Threads /\ stack'[t] \in Seq(Frames)
    BY StackType DEF Types, StackTypes
  <1> DEFINE r == Front(stack[t])
  <1>2. r \in Seq(Frames)
    BY <1>1, FrontFrames
  <1>3. stack'[t] = Append(r, f)
    BY <1>1 DEF Replace
  <1> HIDE DEF r
  <1>4. r \in Seq(Frames \cup {f}) /\ Len(r) \in Nat
    BY <1>2
  <1>5. Len(Append(r, f)) = Len(r) + 1 /\ Append(r, f)[Len(r) + 1] = f
    BY <1>4, AppendProperties
  <1> QED
    BY <1>1, <1>3, <1>4, <1>5

\* What a call puts on a stack is an entry, as both stacks are well formed ...
LEMMA NewCall ==
    ASSUME Types, Types', NEW t \in Threads, NEW f, Call(t, f)
    PROVE  f \in Frames
  <1>1. stack[t] \in Seq(Frames) /\ DOMAIN stack = Threads /\ stack'[t] \in Seq(Frames)
    BY StackType DEF Types, StackTypes
  <1> DEFINE r == stack[t]
  <1>3. stack'[t] = Append(r, f)
    BY <1>1 DEF Call
  <1>4. r \in Seq(Frames \cup {f}) /\ Len(r) \in Nat
    BY <1>1
  <1> HIDE DEF r
  <1>5. Len(Append(r, f)) = Len(r) + 1 /\ Append(r, f)[Len(r) + 1] = f
    BY <1>4, AppendProperties
  <1> QED
    BY <1>1, <1>3, <1>4, <1>5

\* ... and so are the two of an entry that is replaced and calls.
LEMMA NewPair ==
    ASSUME Types, Types', NEW t \in Threads, stack[t] # <<>>, NEW f, NEW g, ReplaceAndCall(t, f, g)
    PROVE  f \in Frames /\ g \in Frames
  <1>1. stack[t] \in Seq(Frames) /\ DOMAIN stack = Threads /\ stack'[t] \in Seq(Frames)
    BY StackType DEF Types, StackTypes
  <1> DEFINE r == Front(stack[t])
             q == <<f, g>>
  <1>2. r \in Seq(Frames)
    BY <1>1, FrontFrames
  <1>3. stack'[t] = r \o q
    BY <1>1 DEF ReplaceAndCall
  <1> HIDE DEF r
  <1>4. r \in Seq(Frames \cup {f, g}) /\ Len(r) \in Nat
    BY <1>2
  <1>5. q \in Seq(Frames \cup {f, g}) /\ Len(q) = 2 /\ q[1] = f /\ q[2] = g
    OBVIOUS
  <1> HIDE DEF q
  <1>6. Len(r \o q) = Len(r) + 2 /\ (r \o q)[Len(r) + 1] = q[1] /\ (r \o q)[Len(r) + 2] = q[2]
    <2>1. /\ Len(r \o q) = Len(r) + Len(q)
          /\ \A k \in 1..(Len(r) + Len(q)) : (r \o q)[k] = IF k <= Len(r) THEN r[k] ELSE q[k - Len(r)]
      <3> PICK S, a, b : S = Frames \cup {f, g} /\ a = r /\ b = q
        OBVIOUS
      <3>1. a \in Seq(S) /\ b \in Seq(S)
        BY <1>4, <1>5
      <3>2. /\ Len(a \o b) = Len(a) + Len(b)
            /\ \A k \in 1..(Len(a) + Len(b)) : (a \o b)[k] = IF k <= Len(a) THEN a[k] ELSE b[k - Len(a)]
        BY <3>1, ConcatProperties
      <3> QED
        BY <3>2
    <2>2. /\ Len(r) + 1 \in 1..(Len(r) + 2) /\ ~(Len(r) + 1 <= Len(r)) /\ (Len(r) + 1) - Len(r) = 1
          /\ Len(r) + 2 \in 1..(Len(r) + 2) /\ ~(Len(r) + 2 <= Len(r)) /\ (Len(r) + 2) - Len(r) = 2
      BY <1>4
    <2> QED
      BY <1>5, <2>1, <2>2
  <1>7. \A m \in 1..Len(stack'[t]) : stack'[t][m] \in Frames
    BY <1>1
  <1>8. Len(r) + 1 \in 1..Len(stack'[t]) /\ Len(r) + 2 \in 1..Len(stack'[t])
    BY <1>3, <1>4, <1>6
  <1> QED
    BY <1>3, <1>5, <1>6, <1>7, <1>8

\* The top is replaced.
LEMMA ReplaceTerm ==
    ASSUME Types, Types', TermInv, NEW t \in Threads, stack[t] # <<>>,
           Top(t).op \notin {"push", "ready"}, NEW f, Replace(t, f), f.op \notin {"push", "ready"},
           f.op = "gc" => torn \/ \A i \in Images : ~marked'[i] /\ InTermList(i) # {} => i \in Range(f.todo),
           ListStays, MarksStay
    PROVE  TermInv'
  <1>1. f \in Frames
    BY NewTop
  <1> PICK n \in Nat : n = Len(stack[t])
    BY TopFrame
  <1>2. Above(t, n - 1) /\ Exact(t, n - 1) /\ Len(stack'[t]) = n /\ stack'[t][n] = f
    BY <1>1, Replaced
  <1>3. Keeps(t, n - 1)
    BY <1>2, KeepsAbove
  <1>4. n > 0 /\ Top(t) = stack[t][n]
    BY TopFrame
  <1>5. ASSUME NEW m \in Nat, m > n - 1
        PROVE  /\ ~Has(t, m, {"ready"}) /\ ~Has(t, m, {"push"})' /\ ~Has(t, m, {"ready"})'
               /\ Has(t, m, {"gc"})' => m = n /\ f.op = "gc"
    <2>1. CASE m = n
      BY <1>2, <1>4, <2>1 DEF Has
    <2>2. CASE m > n
      BY <1>2, <2>2 DEF Has
    <2> QED
      BY <1>5, <2>1, <2>2
  <1>6. torn \/ \A m \in Nat : m > n - 1 /\ Has(t, m, {"gc"})' => Covers(stack[t][m])'
    <2> SUFFICES ASSUME ~torn, NEW m \in Nat, m > n - 1, Has(t, m, {"gc"})' PROVE Covers(stack[t][m])'
      OBVIOUS
    <2>1. m = n /\ f.op = "gc"
      BY <1>5
    <2>2. \A i \in Images : InTermList(i)' = InTermList(i)
      BY DEF InTermList, ListStays
    <2> QED
      BY <1>2, <2>1, <2>2 DEF Covers
  <1> QED
    BY <1>3, <1>5, <1>6, QuietTerm DEF ListStays, MarksStay

\* An entry is put on top.
LEMMA CallTerm ==
    ASSUME Types, Types', TermInv, NEW t \in Threads, stack[t] # <<>> => Top(t).op # "push",
           NEW f, Call(t, f), f.op \in Plain, ListStays, MarksStay
    PROVE  TermInv'
  <1>1. f \in Frames
    BY NewCall
  <1> PICK n \in Nat : n = Len(stack[t])
    BY StackType
  <1>2. Above(t, n) /\ Exact(t, n) /\ Len(stack'[t]) = n + 1 /\ stack'[t][n + 1] = f
    BY <1>1, Called
  <1>3. Keeps(t, n)
    BY <1>2, KeepsAbove
  <1>5. ASSUME NEW m \in Nat, m > n
        PROVE  /\ ~Has(t, m, {"ready"}) /\ ~Has(t, m, {"push"})' /\ ~Has(t, m, {"ready"})'
               /\ ~Has(t, m, {"gc"})'
    <2>1. CASE m = n + 1
      BY <1>2, <2>1 DEF Has, Plain
    <2>2. CASE m > n + 1
      BY <1>2, <2>2 DEF Has
    <2> QED
      BY <1>5, <2>1, <2>2
  <1> QED
    BY <1>3, <1>5, QuietTerm DEF ListStays, MarksStay

\* The top returns.
LEMMA ReturnTerm ==
    ASSUME Types, Types', TermInv, NEW t \in Threads, stack[t] # <<>>,
           Top(t).op \notin {"push", "ready"}, Return(t), ListStays, MarksStay
    PROVE  TermInv'
  <1> PICK n \in Nat : n = Len(stack[t])
    BY TopFrame
  <1>2. Above(t, n - 1) /\ Exact(t, n - 1) /\ Len(stack'[t]) = n - 1
    BY Returned
  <1>3. Keeps(t, n - 1)
    BY <1>2, KeepsAbove
  <1>4. n > 0 /\ Top(t) = stack[t][n]
    BY TopFrame
  <1>5. ASSUME NEW m \in Nat, m > n - 1
        PROVE  /\ ~Has(t, m, {"ready"}) /\ ~Has(t, m, {"push"})' /\ ~Has(t, m, {"ready"})'
               /\ ~Has(t, m, {"gc"})'
    <2>1. ~(m \in 1..Len(stack'[t]))
      BY <1>2, <1>5
    <2>2. m = n \/ ~(m \in 1..Len(stack[t]))
      BY <1>5
    <2> QED
      BY <1>4, <2>1, <2>2 DEF Has
  <1> QED
    BY <1>3, <1>5, QuietTerm DEF ListStays, MarksStay

\* The top is replaced and an entry put on it.
LEMMA ReplaceCallTerm ==
    ASSUME Types, Types', TermInv, NEW t \in Threads, stack[t] # <<>>,
           Top(t).op \notin {"push", "ready"}, NEW f, NEW g, ReplaceAndCall(t, f, g),
           f.op \in Plain, g.op \in Plain, ListStays, MarksStay
    PROVE  TermInv'
  <1>1. f \in Frames /\ g \in Frames
    BY NewPair
  <1> PICK n \in Nat : n = Len(stack[t])
    BY TopFrame
  <1>2. Above(t, n - 1) /\ Exact(t, n - 1) /\ Len(stack'[t]) = n + 1 /\ stack'[t][n] = f /\ stack'[t][n + 1] = g
    BY <1>1, ReplacedAndCalled
  <1>3. Keeps(t, n - 1)
    BY <1>2, KeepsAbove
  <1>4. n > 0 /\ Top(t) = stack[t][n]
    BY TopFrame
  <1>5. ASSUME NEW m \in Nat, m > n - 1
        PROVE  /\ ~Has(t, m, {"ready"}) /\ ~Has(t, m, {"push"})' /\ ~Has(t, m, {"ready"})'
               /\ ~Has(t, m, {"gc"})'
    <2>1. m = n \/ m = n + 1 \/ ~(m \in 1..Len(stack'[t]))
      BY <1>2, <1>5
    <2>2. m = n \/ ~(m \in 1..Len(stack[t]))
      BY <1>5
    <2> QED
      BY <1>2, <1>4, <2>1, <2>2 DEF Has, Plain
  <1> QED
    BY <1>3, <1>5, QuietTerm DEF ListStays, MarksStay

\* Entries that go on differ from what they were in what they still have to do.
LEMMA SameOp ==
    ASSUME NEW f \in Frames, NEW x, NEW y
    PROVE  /\ [f EXCEPT !.todo = x].op = f.op /\ [f EXCEPT !.todo = x, !.ups = y].op = f.op
           /\ [f EXCEPT !.val = y, !.todo = x].op = f.op
           /\ [f EXCEPT !.op = x].op = x /\ [f EXCEPT !.op = x, !.val = y].op = x
           /\ [f EXCEPT !.op = "deps", !.todo = x, !.val = 0].op = "deps"
  BY DEF Frames

\* Calls of dlopen() that link or initialize, and terminators, leave the list alone.
LEMMA LinkTerm ==
    ASSUME Types, Types', TermInv, NEW t \in Threads,
           \/ StartDepths(t) \/ UpdateDepth(t) \/ DanglingUpwards(t) \/ Bind(t)
           \/ Close(t) \/ TerminatorReturns(t) \/ Opened(t)
    PROVE  TermInv'
  <1>1. MarksStay /\ ListStays
    BY DEF StartDepths, UpdateDepth, DanglingUpwards, Bind, Close, TerminatorReturns, Opened,
           imageVars, termVars, history, MarksStay, ListStays
  <1>2. CASE StartDepths(t)
    <2>1. At(t, "load")
      BY <1>2 DEF StartDepths
    <2>2. PICK f : Replace(t, f) /\ f.op = "depths"
      BY <1>2 DEF StartDepths, Frame
    <2> QED
      BY <1>1, <2>1, <2>2, ReplaceTerm DEF At
  <1>3. CASE UpdateDepth(t)
    <2>1. At(t, "depths") /\ Top(t) \in Frames
      BY <1>3, TopFrame DEF UpdateDepth, At
    <2>2. PICK f : Replace(t, f) /\ f.op = Top(t).op
      <3>1. PICK x, y : Replace(t, [Top(t) EXCEPT !.todo = x]) \/ Replace(t, [Top(t) EXCEPT !.todo = x, !.ups = y])
        BY <1>3 DEF UpdateDepth
      <3> DEFINE f == [Top(t) EXCEPT !.todo = x]
                 g == [Top(t) EXCEPT !.todo = x, !.ups = y]
      <3>2. f.op = Top(t).op /\ g.op = Top(t).op
        BY <2>1, SameOp
      <3>3. Replace(t, f) \/ Replace(t, g)
        BY <3>1
      <3> HIDE DEF f, g
      <3> QED
        BY <3>2, <3>3
    <2> QED
      BY <1>1, <2>1, <2>2, ReplaceTerm DEF At
  <1>4. CASE DanglingUpwards(t)
    <2>1. At(t, "depths") /\ Top(t) \in Frames
      BY <1>4, TopFrame DEF DanglingUpwards, At
    <2>2. PICK f : Replace(t, f) /\ f.op = Top(t).op
      <3>1. PICK x : Replace(t, [Top(t) EXCEPT !.val = 1, !.todo = x])
        BY <1>4 DEF DanglingUpwards
      <3> DEFINE f == [Top(t) EXCEPT !.val = 1, !.todo = x]
      <3>2. f.op = Top(t).op
        BY <2>1, SameOp
      <3>3. Replace(t, f)
        BY <3>1
      <3> HIDE DEF f
      <3> QED
        BY <3>2, <3>3
    <2> QED
      BY <1>1, <2>1, <2>2, ReplaceTerm DEF At
  <1>5. CASE Bind(t)
    <2>1. At(t, "depths")
      BY <1>5 DEF Bind
    <2>2. PICK f : Replace(t, f) /\ f.op = "process"
      BY <1>5 DEF Bind, Frame
    <2> QED
      BY <1>1, <2>1, <2>2, ReplaceTerm DEF At
  <1>6. CASE Close(t) \/ TerminatorReturns(t) \/ Opened(t)
    <2>1. stack[t] # <<>> /\ Top(t).op \in {"close", "term", "process"} /\ Return(t)
      BY <1>6 DEF Close, TerminatorReturns, Opened, At
    <2> QED
      BY <1>1, <2>1, ReturnTerm
  <1> QED
    BY <1>2, <1>3, <1>4, <1>5, <1>6

\* Starting on an image, entering it and comparing depths leave the list alone.
LEMMA VisitTerm ==
    ASSUME Types, Types', TermInv, NEW t \in Threads,
           ProcessInitializers(t) \/ EnterImage(t) \/ CompareDepth(t)
    PROVE  TermInv'
  <1>1. MarksStay /\ ListStays
    BY DEF ProcessInitializers, EnterImage, CompareDepth, imageVars, termVars, history, MarksStay, ListStays
  <1>2. CASE ProcessInitializers(t)
    <2>1. At(t, "process") /\ Top(t) \in Frames
      BY <1>2, TopFrame DEF ProcessInitializers, At
    <2>2. CASE ReplaceAndCall(t, [Top(t) EXCEPT !.todo = Tail(@)], Frame("enter", Head(Top(t).todo), <<>>))
      <3>1. [Top(t) EXCEPT !.todo = Tail(@)].op \in Plain
        BY <2>1, SameOp DEF At, Plain
      <3>2. Frame("enter", Head(Top(t).todo), <<>>).op \in Plain
        BY DEF Frame, Plain
      <3> QED
        BY <1>1, <2>1, <2>2, <3>1, <3>2, ReplaceCallTerm DEF At
    <2>3. CASE Replace(t, [Top(t) EXCEPT !.todo = Top(t).ups, !.ups = <<>>])
      <3>1. [Top(t) EXCEPT !.todo = Top(t).ups, !.ups = <<>>].op = "process"
        BY <2>1, SameOp DEF At
      <3> QED
        BY <1>1, <2>1, <2>3, <3>1, ReplaceTerm DEF At
    <2> QED
      BY <1>2, <2>2, <2>3 DEF ProcessInitializers
  <1>3. CASE EnterImage(t)
    <2>1. At(t, "enter")
      BY <1>3 DEF EnterImage
    <2>2. CASE Return(t)
      BY <1>1, <2>1, <2>2, ReturnTerm DEF At
    <2>3. CASE Replace(t, Frame("deps", Top(t).img, Libs[Top(t).img]))
      <3>1. Frame("deps", Top(t).img, Libs[Top(t).img]).op = "deps"
        BY DEF Frame
      <3> QED
        BY <1>1, <2>1, <2>3, <3>1, ReplaceTerm DEF At
    <2> QED
      BY <1>3, <2>2, <2>3 DEF EnterImage
  <1>4. CASE CompareDepth(t)
    <2>1. At(t, "compare") /\ Top(t) \in Frames
      BY <1>4, TopFrame DEF CompareDepth, At
    <2> DEFINE f == [Top(t) EXCEPT !.op = "deps", !.todo = Tail(@), !.val = 0]
               g == Frame("enter", Head(Top(t).todo).img, <<>>)
    <2>2. f.op = "deps" /\ g.op = "enter"
      BY <2>1, SameOp DEF Frame
    <2>3. ReplaceAndCall(t, f, g) \/ Replace(t, f)
      BY <1>4 DEF CompareDepth
    <2> HIDE DEF f, g
    <2>4. CASE ReplaceAndCall(t, f, g)
      <3>1. f.op \in Plain /\ g.op \in Plain
        BY <2>2 DEF Plain
      <3> QED
        BY <1>1, <2>1, <2>4, <3>1, ReplaceCallTerm DEF At
    <2>5. CASE Replace(t, f)
      BY <1>1, <2>1, <2>2, <2>5, ReplaceTerm DEF At
    <2> QED
      BY <2>3, <2>4, <2>5
  <1> QED
    BY <1>2, <1>3, <1>4

\* An image in the list is loaded, and bound.
LEMMA ListedLoaded ==
    ASSUME Inv, NEW i \in Images, Listed(i), InTermList(i) # {}
    PROVE  i \in Loaded /\ i \in Core
  <1>1. Recorded(i)
    BY DEF Listed
  <1>2. CASE inits[i] > 0
    <2>1. ~(state[i] < DependentsInited) /\ state[i] \in 0..6
      BY <1>2 DEF Inv, States, Types, DataTypes
    <2>2. i \in Core
      BY <2>1 DEF Core, DependentsInited, Bound
    <2> QED
      BY <2>2, LoadedImages DEF Inv
  <1>3. CASE IsReady(i)
    <2>1. PICK u \in Threads, n \in Nat : Has(u, n, {"ready"}) /\ stack[u][n].img = i
      BY <1>3 DEF IsReady
    <2>2. n \in 1..Len(stack[u]) /\ Op(u, n) \in Visits /\ Img(u, n) = i
      BY <2>1 DEF Has, Op, Img, Visits, Busy
    <2>3. i \in Core
      BY <2>2, VisitsKept
    <2> QED
      BY <2>3, LoadedImages DEF Inv
  <1> QED
    BY <1>1, <1>2, <1>3 DEF Recorded

\* An image between push_back() and its initializers is bound, unmarked by no
\* collection, and is there only once.
LEMMA VisitedOnce ==
    ASSUME Inv, NEW u \in Threads, NEW n \in Nat, Has(u, n, {"push", "ready"})
    PROVE  /\ stack[u][n].img \in Images /\ inits[stack[u][n].img] = 0 /\ stack[u][n].img \in Kept
           /\ \A v \in Threads : \A m \in Nat :
                 Has(v, m, {"push", "ready"}) /\ stack[v][m].img = stack[u][n].img => v = u /\ m = n
  <1> DEFINE i == stack[u][n].img
  <1>1. n \in 1..Len(stack[u]) /\ Op(u, n) \in Busy /\ Op(u, n) # "running" /\ Op(u, n) \in Visits /\ Img(u, n) = i
    BY DEF Has, Op, Img, Visits, Busy
  <1>2. i \in Images /\ i \in Kept
    BY <1>1, VisitsKept
  <1>3. state[i] = Initializing /\ ilock[i] = [owner |-> u, held |-> 1]
    BY <1>1 DEF Inv, Visiting
  <1>4. inits[i] = 0
    BY <1>2, <1>3 DEF Inv, States, Initializing, DependentsInited
  <1>5. ASSUME NEW v \in Threads, NEW m \in Nat, Has(v, m, {"push", "ready"}), stack[v][m].img = i
        PROVE  v = u /\ m = n
    <2>1. m \in 1..Len(stack[v]) /\ Op(v, m) \in Busy /\ Img(v, m) = i
      BY <1>5 DEF Has, Op, Img, Busy
    <2>2. ilock[i] = [owner |-> v, held |-> 1]
      BY <2>1 DEF Inv, Visiting
    <2>3. v = u
      BY <1>3, <2>2
    <2> QED
      BY <1>1, <2>1, <2>3 DEF Inv, Visiting
  <1> QED
    BY <1>2, <1>4, <1>5

\* A collection starts, or starts over: all that is loaded is before it.
LEMMA MarkTerm ==
    ASSUME Inv, Types', TermInv, NEW t \in Threads, NEW k, Keeps(t, k),
           stack[t] # <<>> => Top(t).op # "push",
           \A n \in Nat : n > k => ~Has(t, n, {"ready"}) /\ ~Has(t, n, {"push"})' /\ ~Has(t, n, {"ready"})',
           ListStays,
           \A n \in Nat : n > k /\ Has(t, n, {"gc"})' => stack'[t][n].todo = all,
           \A u \in Threads : \A n \in Nat : Has(u, n, {"gc"}) => u = t /\ n > k
    PROVE  TermInv'
  <1>1. torn \/ \A n \in Nat : n > k /\ Has(t, n, {"gc"})' => Covers(stack[t][n])'
    <2> SUFFICES ASSUME ~torn, NEW n \in Nat, n > k, Has(t, n, {"gc"})' PROVE Covers(stack[t][n])'
      OBVIOUS
    <2>1. \A i \in Images : Listed(i)
      BY DEF TermInv, ListOK
    <2>2. \A i \in Images : InTermList(i)' = InTermList(i)
      BY DEF InTermList, ListStays
    <2>3. \A i \in Images : InTermList(i) # {} => i \in Range(all)
      BY <2>1, ListedLoaded DEF Loaded
    <2> QED
      BY <2>2, <2>3 DEF Covers
  <1> QED
    BY <1>1, QuietTerm DEF Inv, ListStays

\* There is no collection that could read the marks.
LEMMA NoCollection ==
    ASSUME Inv, ~doingGC, NEW u \in Threads, NEW n \in Nat
    PROVE  ~Has(u, n, {"gc"})
  BY DEF Inv, OneGC, Has, Op

\* New images are added when there is no collection.
LEMMA LoadTerm ==
    ASSUME Inv, Types', TermInv, NEW t \in Threads, LoadLibraries(t)
    PROVE  TermInv'
  <1>0. Types /\ At(t, "load") /\ stack[t] # <<>> /\ Top(t) \in Frames /\ Top(t).op = "load"
    BY TopFrame DEF Inv, LoadLibraries, At
  <1>1. ~doingGC
    BY <1>0, LinkingAlone DEF Pending
  <1>2. MarksStay
    BY <1>1, NoCollection DEF MarksStay
  <1>3. ListStays
    BY DEF LoadLibraries, ListStays, termVars, history
  <1>4. PICK f : Replace(t, f) /\ f.op \in {"load", "failed"}
    <2> DEFINE x == Tail(Top(t).todo)
               y == LibNames(Head(Top(t).todo)) \o Tail(Top(t).todo)
               f == [Top(t) EXCEPT !.todo = x]
               g == [Top(t) EXCEPT !.todo = y]
               h == Frame("failed", Top(t).img, <<>>)
    <2>1. f.op = "load" /\ g.op = "load" /\ h.op = "failed"
      BY <1>0, SameOp DEF Frame
    <2>2. Replace(t, f) \/ Replace(t, g) \/ Replace(t, h)
      BY DEF LoadLibraries
    <2> HIDE DEF f, g, h
    <2> QED
      BY <2>1, <2>2
  <1> QED
    BY <1>0, <1>2, <1>3, <1>4, ReplaceTerm

\* So does dlopen(), which marks images only where no collection is under way.
LEMMA OpenTerm ==
    ASSUME TermOpens = {}, Inv, Types', TermInv, NEW t \in Threads, NEW i \in Images,
           Dlopen(t, i) \/ DlopenNoLoad(t, i)
    PROVE  TermInv'
  <1>0. Types
    BY DEF Inv
  <1>1. ListStays
    BY DEF Dlopen, DlopenNoLoad, ListStays, termVars, history
  <1>2. stack[t] = <<>> \/ At(t, "init")
    BY MayOpenMeans DEF Dlopen, DlopenNoLoad
  <1>3. stack[t] # <<>> => Top(t).op # "push"
    BY <1>2 DEF At
  <1>4. CASE Dlopen(t, i)
    <2>1. glock.owner \in {None, t}
      BY <1>4 DEF Dlopen, GlobalLockAcquire
    <2>2. ~doingGC
      BY <1>2, <2>1, LockIsFree
    <2>3. MarksStay
      BY <2>2, NoCollection DEF MarksStay
    <2>4. Call(t, Frame("load", i, <<i>>)) /\ Frame("load", i, <<i>>).op \in Plain
      BY <1>4 DEF Dlopen, Frame, Plain
    <2> QED
      BY <1>0, <1>1, <1>3, <2>3, <2>4, CallTerm
  <1>5. CASE DlopenNoLoad(t, i)
    <2>1. stack' = stack /\ marked' = marked
      BY <1>5 DEF DlopenNoLoad
    <2>2. PICK n \in Nat : n = Len(stack[t])
      BY <1>0, StackType
    <2>3. Keeps(t, n)
      BY <2>1, <2>2 DEF Keeps
    <2>4. \A m \in Nat : m > n => ~Has(t, m, {"ready"}) /\ ~Has(t, m, {"push"})' /\ ~Has(t, m, {"ready"})' /\ ~Has(t, m, {"gc"})'
      BY <2>1, <2>2 DEF Has
    <2> QED
      BY <1>0, <1>1, <1>3, <2>1, <2>3, <2>4, QuietTerm DEF ListStays
  <1> QED
    BY <1>4, <1>5

\* Putting off an upward link changes an entry of processInitializers().
LEMMA NextLibraryTerm ==
    ASSUME Inv, Types', TermInv, NEW t \in Threads, NextLibrary(t)
    PROVE  TermInv'
  <1> DEFINE f == Top(t)
             P == {m \in DOMAIN stack[t] : stack[t][m].op = "process"}
             p == Max(P)
  <1>0. stack[t] # <<>> /\ f.op = "deps" /\ Types
    BY DEF NextLibrary, At, Inv
  <1> PICK n \in Nat : n = Len(stack[t])
    BY <1>0, TopFrame
  <1>1. /\ n > 0 /\ f = stack[t][n] /\ f \in Frames /\ n \in 1..n /\ stack'[t] \in Seq(Frames)
        /\ stack[t] \in Seq(Frames) /\ DOMAIN stack = Threads /\ DOMAIN stack[t] = 1..n
    BY <1>0, TopFrame, StackType DEF Types, StackTypes
  <1>2. MarksStay /\ ListStays
    BY DEF NextLibrary, imageVars, termVars, history, MarksStay, ListStays
  <1>3. p \in 1..(n - 1) /\ stack[t][p].op = "process" /\ p \in 1..n /\ p # n
    <2>1. PICK q \in 1..(n - 1) : Op(t, q) = "process"
      <3>1. ShapeAt(t, n) /\ Op(t, n) \in Visits
        BY <1>0, <1>1 DEF Inv, Shape, Op, Visits, Busy
      <3> QED
        BY <3>1 DEF ShapeAt
    <2>2. P \in SUBSET (1..n) /\ q \in P
      BY <1>1, <2>1 DEF Op
    <2>3. p \in P
      BY <2>2, LastPlace
    <2>4. p # n
      BY <1>0, <1>1, <2>3
    <2> QED
      BY <1>1, <2>2, <2>3, <2>4
  <1> HIDE DEF p
  <1>4. PICK g, d : /\ stack' = [stack EXCEPT ![t] = [[stack[t] EXCEPT ![n] = g] EXCEPT ![p] = d]]
                    /\ g.op \in {"deps", "compare"} /\ d.op = "process"
    <2> DEFINE l == Head(f.todo)
               x == [f EXCEPT !.todo = Tail(f.todo)]
               y == [f EXCEPT !.op = "compare", !.val = depth[l.img]]
               e == stack[t][p]
               z == [e EXCEPT !.ups = Append(e.ups, l.img)]
    <2>1. e \in Frames
      BY <1>0, <1>1, <1>3
    <2>2. x.op = "deps" /\ y.op = "compare"
      BY <1>0, <1>1, SameOp
    <2>3. z.op = "process" /\ e.op = "process"
      BY <1>3, <2>1 DEF Frames
    <2>4. \/ stack' = [stack EXCEPT ![t][n].todo = Tail(@)]
          \/ stack' = [stack EXCEPT ![t][n].todo = Tail(@), ![t][p].ups = Append(@, l.img)]
          \/ stack' = [stack EXCEPT ![t][n].op = "compare", ![t][n].val = depth[l.img]]
      BY DEF NextLibrary, p
    <2>5. CASE stack' = [stack EXCEPT ![t][n].todo = Tail(@)]
      <3>1. stack' = [stack EXCEPT ![t] = [stack[t] EXCEPT ![n] = x]]
        BY <1>1, <2>5
      <3> HIDE DEF x
      <3>2. [stack[t] EXCEPT ![n] = x] = [[stack[t] EXCEPT ![n] = x] EXCEPT ![p] = e]
        BY <1>1, <1>3
      <3>3. stack' = [stack EXCEPT ![t] = [[stack[t] EXCEPT ![n] = x] EXCEPT ![p] = e]]
        BY <3>1, <3>2
      <3> HIDE DEF e
      <3> QED
        BY <2>2, <2>3, <3>3
    <2>6. CASE stack' = [stack EXCEPT ![t][n].todo = Tail(@), ![t][p].ups = Append(@, l.img)]
      <3>1. stack' = [stack EXCEPT ![t] = [[stack[t] EXCEPT ![n] = x] EXCEPT ![p] = z]]
        BY <1>1, <1>3, <2>6
      <3> HIDE DEF x, z
      <3> QED
        BY <2>2, <2>3, <3>1
    <2>7. CASE stack' = [stack EXCEPT ![t][n].op = "compare", ![t][n].val = depth[l.img]]
      <3>1. stack' = [stack EXCEPT ![t] = [stack[t] EXCEPT ![n] = y]]
        BY <1>1, <2>7
      <3> HIDE DEF y
      <3>2. [stack[t] EXCEPT ![n] = y] = [[stack[t] EXCEPT ![n] = y] EXCEPT ![p] = e]
        BY <1>1, <1>3
      <3>3. stack' = [stack EXCEPT ![t] = [[stack[t] EXCEPT ![n] = y] EXCEPT ![p] = e]]
        BY <3>1, <3>2
      <3> HIDE DEF e
      <3> QED
        BY <2>2, <2>3, <3>3
    <2> QED
      BY <2>4, <2>5, <2>6, <2>7
  <1>5. /\ stack'[t] = [[stack[t] EXCEPT ![n] = g] EXCEPT ![p] = d]
        /\ \A u \in Threads : u # t => stack'[u] = stack[u]
    BY <1>1, <1>4
  <1>6. /\ Len(stack'[t]) = n
        /\ \A m \in 1..n : stack'[t][m] = IF m = p THEN d ELSE IF m = n THEN g ELSE stack[t][m]
    <2>1. /\ DOMAIN stack'[t] = 1..n
          /\ \A m \in 1..n : stack'[t][m] = IF m = p THEN d ELSE IF m = n THEN g ELSE stack[t][m]
      BY <1>1, <1>3, <1>5
    <2> QED
      BY <1>1, <2>1
  <1>7. Keeps(t, n - 1)
    <2>1. \A m \in 1..(n - 1) : m \in 1..n /\ m # n
      BY <1>1
    <2>2. n - 1 \in Nat /\ n - 1 <= Len(stack[t]) /\ n - 1 <= Len(stack'[t])
      BY <1>1, <1>6
    <2> QED
      BY <1>3, <1>4, <1>5, <1>6, <2>1, <2>2 DEF Keeps
  <1>8. ASSUME NEW m \in Nat, m > n - 1
        PROVE  ~Has(t, m, {"ready"}) /\ ~Has(t, m, {"push"})' /\ ~Has(t, m, {"ready"})' /\ ~Has(t, m, {"gc"})'
    <2>1. CASE m = n
      <3>1. stack'[t][n] = g
        BY <1>1, <1>3, <1>6
      <3> QED
        BY <1>0, <1>1, <1>4, <2>1, <3>1 DEF Has
    <2>2. CASE m > n
      BY <1>6, <2>2 DEF Has
    <2> QED
      BY <1>8, <2>1, <2>2
  <1> QED
    BY <1>0, <1>2, <1>7, <1>8, QuietTerm DEF ListStays, MarksStay

\* When initializers return, their image stays recorded: they were started.
LEMMA InitializersReturnTerm ==
    ASSUME Inv, Types', TermInv, NEW t \in Threads, InitializersReturn(t)
    PROVE  TermInv'
  <1>0. stack[t] # <<>> /\ Top(t).op = "init" /\ Types
    BY DEF InitializersReturn, At, Inv
  <1> PICK n \in Nat : n = Len(stack[t])
    BY <1>0, TopFrame
  <1>1. /\ n > 0 /\ Top(t) = stack[t][n] /\ Op(t, n) = "init" /\ stack[t] \in Seq(Frames) /\ DOMAIN stack = Threads
    BY <1>0, TopFrame, StackType DEF Op
  <1>2. n > 1 /\ Op(t, n - 1) = "running"
    BY <1>1 DEF Inv, Shape, ShapeAt
  <1>3. MarksStay /\ ListStays
    BY DEF InitializersReturn, termVars, history, MarksStay, ListStays
  <1>4. stack' = [stack EXCEPT ![t] = SubSeq(stack[t], 1, n - 2)]
    BY DEF InitializersReturn
  <1> DEFINE s == SubSeq(stack[t], 1, n - 2)
  <1>5. Len(s) = n - 2 /\ \A m \in 1..(n - 2) : s[m] = stack[t][m]
    <2>1. \A m \in 1..(n - 2) : stack[t][m] \in Frames
      BY <1>1
    <2> QED
      BY <1>1, <1>2, <2>1, SubSeqProperties
  <1> HIDE DEF s
  <1>6. stack'[t] = s /\ \A u \in Threads : u # t => stack'[u] = stack[u]
    BY <1>1, <1>4 DEF s
  <1>7. Keeps(t, n - 2)
    <2>1. n - 2 \in Nat /\ n - 2 <= Len(stack[t]) /\ n - 2 <= Len(stack'[t])
      BY <1>2, <1>5, <1>6
    <2> QED
      BY <1>5, <1>6, <2>1 DEF Keeps
  <1>8. ASSUME NEW m \in Nat, m > n - 2
        PROVE  ~Has(t, m, {"ready"}) /\ ~Has(t, m, {"push"})' /\ ~Has(t, m, {"ready"})' /\ ~Has(t, m, {"gc"})'
    <2>1. ~(m \in 1..Len(stack'[t]))
      BY <1>5, <1>6, <1>8
    <2>2. m = n \/ m = n - 1 \/ ~(m \in 1..Len(stack[t]))
      BY <1>8
    <2> QED
      BY <1>1, <1>2, <2>1, <2>2 DEF Has, Op
  <1> QED
    BY <1>0, <1>3, <1>7, <1>8, QuietTerm DEF ListStays, MarksStay

\* A dlopen() that failed goes on with e, and a collection may start on it.
LEMMA CollectTerm ==
    ASSUME Inv, Types', TermInv, NEW t \in Threads, stack[t] # <<>>, Top(t).op \notin {"push", "ready"},
           NEW e \in Frames, e.op \in {"undo", "close"}, NEW c,
           GarbageCollectImages(t, Append(Front(stack[t]), e), c), ListStays
    PROVE  TermInv'
  <1>0. Types /\ DataTypes
    BY DEF Inv, Types
  <1>1. CASE doingGC
    <2>1. Replace(t, e) /\ marked' = marked
      BY <1>1 DEF GarbageCollectImages, Replace
    <2>2. MarksStay
      BY <2>1 DEF MarksStay
    <2> QED
      BY <1>0, <2>1, <2>2, ReplaceTerm
  <1>2. CASE ~doingGC
    <2> DEFINE g == Frame("gc", None, all)
    <2>1. g \in Frames /\ g.op = "gc" /\ g.todo = all
      BY <1>0, GcFrame DEF Frame
    <2>2. stack' = [stack EXCEPT ![t] = Append(Append(Front(stack[t]), e), g)]
      BY <1>2 DEF GarbageCollectImages, MarkPhase
    <2> HIDE DEF g
    <2> PICK n \in Nat : n = Len(stack[t])
      BY <1>0, TopFrame
    <2>3. /\ Above(t, n - 1) /\ Exact(t, n - 1) /\ Len(stack'[t]) = n + 1
          /\ stack'[t][n] = e /\ stack'[t][n + 1] = g
      BY <1>0, <2>1, <2>2, ReplacedAndAppended
    <2>4. Keeps(t, n - 1)
      BY <2>3, KeepsAbove
    <2>5. n > 0 /\ Top(t) = stack[t][n]
      BY <1>0, TopFrame
    <2>6. ASSUME NEW m \in Nat, m > n - 1
          PROVE  /\ ~Has(t, m, {"ready"}) /\ ~Has(t, m, {"push"})' /\ ~Has(t, m, {"ready"})'
                 /\ Has(t, m, {"gc"})' => stack'[t][m].todo = all
      <3>1. m = n \/ m = n + 1 \/ ~(m \in 1..Len(stack'[t]))
        BY <2>3, <2>6
      <3>2. m = n \/ ~(m \in 1..Len(stack[t]))
        BY <2>6
      <3> QED
        BY <2>1, <2>3, <2>5, <3>1, <3>2 DEF Has
    <2> QED
      BY <1>2, <2>4, <2>6, MarkTerm, NoCollection
  <1> QED
    BY <1>1, <1>2

\* A dlopen() that fails may start a collection, and changes nothing else of the list.
LEMMA FailTerm ==
    ASSUME Inv, Types', TermInv, NEW t \in Threads, LinkFailed(t) \/ UndoOpen(t)
    PROVE  TermInv'
  <1>0. Types /\ stack[t] # <<>> /\ Top(t).op \in {"failed", "undo"}
    BY DEF Inv, LinkFailed, UndoOpen, At
  <1>1. Top(t).img \in Images
    BY <1>0, TopFrame DEF FrameOK
  <1> DEFINE e == Frame("undo", Top(t).img, <<>>)
             d == Frame("close", Top(t).img, <<>>)
  <1>2. e \in Frames /\ e.op = "undo" /\ d \in Frames /\ d.op = "close"
    BY <1>1, FrameIs DEF Ops, Locked, LockOps
  <1>3. ListStays
    BY DEF LinkFailed, UndoOpen, ListStays, termVars, history
  <1>4. CASE LinkFailed(t)
    <2>1. GarbageCollectImages(t, Append(Front(stack[t]), e), count)
      BY <1>4 DEF LinkFailed
    <2> HIDE DEF e
    <2> QED
      BY <1>0, <1>2, <1>3, <2>1, CollectTerm
  <1>5. CASE UndoOpen(t)
    <2>1. \/ GarbageCollectImages(t, Append(Front(stack[t]), d), BackDown(Top(t).img))
          \/ Replace(t, d) /\ marked' = marked
      BY <1>5 DEF UndoOpen, Replace
    <2> HIDE DEF d
    <2>2. CASE GarbageCollectImages(t, Append(Front(stack[t]), d), BackDown(Top(t).img))
      BY <1>0, <1>2, <1>3, <2>2, CollectTerm
    <2>3. CASE Replace(t, d) /\ marked' = marked
      <3>1. MarksStay
        BY <2>3 DEF MarksStay
      <3> QED
        BY <1>0, <1>2, <1>3, <2>3, <3>1, ReplaceTerm
    <2> QED
      BY <2>1, <2>2, <2>3
  <1> QED
    BY <1>4, <1>5

\* dlclose() may start a collection, or ask the one under way for a repeat.
LEMMA DlcloseTerm ==
    ASSUME Inv, Types', TermInv, NEW t \in Threads, NEW i \in Images, Dlclose(t, i)
    PROVE  TermInv'
  <1>0. Types /\ DataTypes
    BY DEF Inv, Types
  <1>1. stack[t] # <<>> => Top(t).op # "push"
    BY DEF Dlclose, UserRuns, At
  <1>2. ListStays
    BY DEF Dlclose, ListStays, termVars, history
  <1> DEFINE e == Frame("close", i, <<>>)
             g == Frame("gc", None, all)
  <1>3. e \in Frames /\ e.op = "close"
    BY FrameIs DEF Ops, Locked, LockOps
  <1>4. g \in Frames /\ g.op = "gc" /\ g.todo = all
    BY <1>0, GcFrame DEF Frame
  <1>5. \/ stack' = stack /\ marked' = marked
        \/ Call(t, e) /\ marked' = marked
        \/ ~doingGC /\ stack' = [stack EXCEPT ![t] = Append(Append(stack[t], e), g)]
    BY DEF Dlclose, GarbageCollectImages, MarkPhase, Call
  <1> HIDE DEF e, g
  <1> PICK n \in Nat : n = Len(stack[t])
    BY <1>0, StackType
  <1>6. CASE stack' = stack /\ marked' = marked
    <2>1. Keeps(t, n)
      BY <1>6 DEF Keeps
    <2>2. \A m \in Nat : m > n => ~Has(t, m, {"ready"}) /\ ~Has(t, m, {"push"})' /\ ~Has(t, m, {"ready"})' /\ ~Has(t, m, {"gc"})'
      BY <1>6 DEF Has
    <2> QED
      BY <1>0, <1>1, <1>2, <1>6, <2>1, <2>2, QuietTerm DEF ListStays
  <1>7. CASE Call(t, e) /\ marked' = marked
    <2>1. MarksStay /\ e.op \in Plain
      BY <1>3, <1>7 DEF MarksStay, Plain
    <2> QED
      BY <1>0, <1>1, <1>2, <1>7, <2>1, CallTerm
  <1>8. CASE ~doingGC /\ stack' = [stack EXCEPT ![t] = Append(Append(stack[t], e), g)]
    <2>1. /\ Above(t, n) /\ Exact(t, n) /\ Len(stack'[t]) = n + 2
          /\ stack'[t][n + 1] = e /\ stack'[t][n + 2] = g
      BY <1>0, <1>3, <1>4, <1>8, AppendedTwice
    <2>2. Keeps(t, n)
      BY <2>1, KeepsAbove
    <2>3. ASSUME NEW m \in Nat, m > n
          PROVE  /\ ~Has(t, m, {"ready"}) /\ ~Has(t, m, {"push"})' /\ ~Has(t, m, {"ready"})'
                 /\ Has(t, m, {"gc"})' => stack'[t][m].todo = all
      <3>1. m = n + 1 \/ m = n + 2 \/ ~(m \in 1..Len(stack'[t]))
        BY <2>1, <2>3
      <3>2. ~(m \in 1..Len(stack[t]))
        BY <2>3
      <3> QED
        BY <1>3, <1>4, <2>1, <3>1, <3>2 DEF Has
    <2> QED
      BY <1>1, <1>2, <1>8, <2>2, <2>3, MarkTerm, NoCollection
  <1> QED
    BY <1>5, <1>6, <1>7, <1>8

\* A collection ends, or marks afresh and starts over on all that is loaded.
LEMMA GcDoneTerm ==
    ASSUME Inv, Types', TermInv, NEW t \in Threads, GcDone(t)
    PROVE  TermInv'
  <1>0. Types /\ DataTypes /\ stack[t] # <<>> /\ Top(t).op = "gc"
    BY DEF Inv, Types, GcDone, At
  <1>2. ListStays
    BY DEF GcDone, ListStays, termVars, history
  <1> DEFINE g == Frame("gc", None, all)
  <1>3. g \in Frames /\ g.op = "gc" /\ g.todo = all
    BY <1>0, GcFrame DEF Frame
  <1>4. Replace(t, g) \/ (Return(t) /\ marked' = marked)
    BY DEF GcDone, MarkPhase, Replace
  <1> HIDE DEF g
  <1>5. CASE Return(t) /\ marked' = marked
    <2>1. MarksStay
      BY <1>5 DEF MarksStay
    <2> QED
      BY <1>0, <1>2, <1>5, <2>1, ReturnTerm
  <1>6. CASE Replace(t, g)
    <2> PICK n \in Nat : n = Len(stack[t])
      BY <1>0, TopFrame
    <2>1. Above(t, n - 1) /\ Exact(t, n - 1) /\ Len(stack'[t]) = n /\ stack'[t][n] = g
      BY <1>0, <1>3, <1>6, Replaced
    <2>2. Keeps(t, n - 1)
      BY <2>1, KeepsAbove
    <2>3. n > 0 /\ Top(t) = stack[t][n] /\ n \in 1..Len(stack[t]) /\ Op(t, n) = "gc"
      BY <1>0, TopFrame DEF Op
    <2>4. ASSUME NEW m \in Nat, m > n - 1
          PROVE  /\ ~Has(t, m, {"ready"}) /\ ~Has(t, m, {"push"})' /\ ~Has(t, m, {"ready"})'
                 /\ Has(t, m, {"gc"})' => stack'[t][m].todo = all
      <3>1. m = n \/ ~(m \in 1..Len(stack'[t]))
        BY <2>1, <2>4
      <3>2. m = n \/ ~(m \in 1..Len(stack[t]))
        BY <2>4
      <3> QED
        BY <1>0, <1>3, <2>1, <2>3, <3>1, <3>2 DEF Has
    <2>5. ASSUME NEW u \in Threads, NEW m \in Nat, Has(u, m, {"gc"})
          PROVE  u = t /\ m > n - 1
      <3>1. m \in 1..Len(stack[u]) /\ Op(u, m) = "gc"
        BY <2>5 DEF Has, Op
      <3>2. u = t /\ m = n
        BY <2>3, <3>1 DEF Inv, OneGC
      <3> QED
        BY <3>2
    <2> QED
      BY <1>0, <1>2, <2>2, <2>4, <2>5, MarkTerm
  <1> QED
    BY <1>4, <1>5, <1>6

\* What is under a replaced top, or on another stack, stays.
LEMMA OtherEntries ==
    ASSUME Types, Types', NEW t \in Threads, stack[t] # <<>>, NEW f, Replace(t, f)
    PROVE  /\ f \in Frames /\ Len(stack'[t]) = Len(stack[t]) /\ stack'[t][Len(stack[t])] = f
           /\ \A u \in Threads : u # t => stack'[u] = stack[u]
           /\ \A u \in Threads : \A m \in Nat : u # t \/ m # Len(stack[t]) =>
                 \A o \in {"push", "ready", "gc"} : /\ Has(u, m, {o})' <=> Has(u, m, {o})
                                                    /\ Has(u, m, {o}) => stack'[u][m] = stack[u][m]
  <1>1. f \in Frames
    BY NewTop
  <1> PICK n \in Nat : n = Len(stack[t])
    BY TopFrame
  <1>2. Above(t, n - 1) /\ Exact(t, n - 1) /\ Len(stack'[t]) = n /\ stack'[t][n] = f
    BY <1>1, Replaced
  <1>3. Keeps(t, n - 1) /\ \A u \in Threads : u # t => stack'[u] = stack[u]
    BY <1>2, KeepsAbove DEF Above
  <1>4. ASSUME NEW u \in Threads, NEW m \in Nat, u # t \/ m # n, NEW o \in {"push", "ready", "gc"}
        PROVE  /\ Has(u, m, {o})' <=> Has(u, m, {o})
               /\ Has(u, m, {o}) => stack'[u][m] = stack[u][m]
    <2>1. CASE u # t \/ m <= n - 1
      BY <1>3, <2>1, KeptEntry
    <2>2. CASE u = t /\ m > n
      BY <1>2, <2>2 DEF Has
    <2> QED
      BY <1>4, <2>1, <2>2
  <1> QED
    BY <1>1, <1>2, <1>3, <1>4

\* An image that has no terminators is not recorded; one that has is pushed, alone.
LEMMA RecordTerm ==
    ASSUME Inv, Types', TermInv, NEW t \in Threads, RecordTermination(t)
    PROVE  TermInv'
  <1> DEFINE f == Top(t)
             g == [f EXCEPT !.op = "push", !.val = end]
             h == [f EXCEPT !.op = "ready"]
  <1>0. stack[t] # <<>> /\ f.op = "deps" /\ Types /\ f \in Frames
    BY TopFrame DEF RecordTermination, At, Inv
  <1> PICK n \in Nat : n = Len(stack[t])
    BY <1>0, TopFrame
  <1>1. f = stack[t][n] /\ n > 0
    BY <1>0, TopFrame
  <1>2. UNCHANGED <<cells, end, terms, inits, marked>>
    BY DEF RecordTermination, termVars, imageVars
  <1>3. g.op = "push" /\ g.img = f.img /\ g.val = end /\ h.op = "ready" /\ h.img = f.img
    BY <1>0 DEF Frames
  <1>4. \/ Replace(t, g) /\ f.img \in HasTerm /\ torn' = (torn \/ \E u \in Threads : At(u, "push"))
        \/ Replace(t, h) /\ f.img \notin HasTerm /\ torn' = torn
    BY DEF RecordTermination, Records
  <1> HIDE DEF g, h
  <1>5. PICK x \in {g, h} : Replace(t, x)
    BY <1>4
  <1>6. /\ Len(stack'[t]) = n /\ stack'[t][n] = x
        /\ \A u \in Threads : u # t => stack'[u] = stack[u]
        /\ \A u \in Threads : \A m \in Nat : u # t \/ m # n =>
                 \A o \in {"push", "ready", "gc"} : /\ Has(u, m, {o})' <=> Has(u, m, {o})
                                                    /\ Has(u, m, {o}) => stack'[u][m] = stack[u][m]
    BY <1>0, <1>5, OtherEntries
  <1>7. Has(t, n, {x.op})' /\ \A o : o # x.op => ~Has(t, n, {o})'
    BY <1>1, <1>6 DEF Has
  <1>8. \A m \in Nat : ~Has(t, m, {"push"})
    BY <1>0, NoPush DEF TermInv
  <1>9. ~Has(t, n, {"ready"}) /\ ~Has(t, n, {"gc"})
    BY <1>0, <1>1 DEF Has
  <1>10. \A i \in Images : InTermList(i)' = InTermList(i)
    BY <1>2 DEF InTermList
  <1>11. ASSUME ListOK PROVE Dying'
    <2> SUFFICES ASSUME NEW u \in Threads, NEW m \in Nat, Has(u, m, {"gc"})'
                 PROVE  Covers(stack[u][m])'
      BY DEF Dying
    <2>1. u # t \/ m # n
      BY <1>3, <1>7
    <2>2. Has(u, m, {"gc"}) /\ stack'[u][m] = stack[u][m]
      BY <1>6, <2>1
    <2>3. Covers(stack[u][m])
      BY <1>11, <2>2 DEF ListOK, Dying
    <2> QED
      BY <1>2, <1>10, <2>2, <2>3 DEF Covers
  <1>12. CASE x = g /\ f.img \in HasTerm /\ torn' = (torn \/ \E u \in Threads : At(u, "push"))
    <2>1. \A u \in Threads : \A m \in Nat : Has(u, m, {"push"})' =>
             \/ u = t /\ m = n
             \/ u # t /\ Has(u, m, {"push"}) /\ stack'[u] = stack[u]
      BY <1>6, <1>8
    <2>2. PushTop'
      BY <1>3, <1>6, <1>12, <2>1 DEF PushTop, TermInv
    <2>3. ASSUME ~torn' PROVE ListOK'
      <3>1. ~torn /\ ListOK /\ \A u \in Threads : ~At(u, "push")
        BY <1>12, <2>3 DEF TermInv
      <3>2. \A u \in Threads : \A m \in Nat : ~Has(u, m, {"push"})
        BY <1>0, <3>1, NoPush DEF TermInv, At
      <3>3. Pushing'
        BY <1>2, <1>3, <1>6, <1>12, <2>1, <3>2 DEF Pushing
      <3>4. ASSUME NEW i \in Images PROVE Listed(i)'
        <4>1. IsReady(i)' <=> IsReady(i)
          <5>1. ~Has(t, n, {"ready"})'
            BY <1>3, <1>7, <1>12
          <5> QED
            BY <1>6, <1>9, <5>1 DEF IsReady
        <4>2. Listed(i)
          BY <3>1 DEF ListOK
        <4>3. Recorded(i)' <=> Recorded(i)
          BY <1>2, <4>1 DEF Recorded
        <4> QED
          BY <1>2, <1>10, <4>2, <4>3 DEF Listed
      <3> QED
        BY <1>11, <3>1, <3>3, <3>4 DEF ListOK
    <2>4. torn' \in BOOLEAN
      BY <1>12 DEF TermInv
    <2> QED
      BY <1>2, <2>2, <2>3, <2>4 DEF TermInv
  <1>13. CASE x = h /\ f.img \notin HasTerm /\ torn' = torn
    <2>1. \A u \in Threads : \A m \in Nat : Has(u, m, {"push"})' =>
             u # t /\ Has(u, m, {"push"}) /\ stack'[u] = stack[u]
      BY <1>3, <1>6, <1>7, <1>8, <1>13
    <2>2. PushTop'
      BY <2>1 DEF PushTop, TermInv
    <2>3. ASSUME ~torn' PROVE ListOK'
      <3>1. ListOK
        BY <1>13, <2>3 DEF TermInv
      <3>2. Pushing'
        BY <1>2, <2>1, <3>1 DEF Pushing, ListOK
      <3>3. ASSUME NEW i \in Images PROVE Listed(i)'
        <4>1. i \in HasTerm => (IsReady(i)' <=> IsReady(i))
          BY <1>3, <1>6, <1>9, <1>13 DEF IsReady
        <4>2. Listed(i)
          BY <3>1 DEF ListOK
        <4>3. Recorded(i)' <=> Recorded(i)
          BY <1>2, <4>1 DEF Recorded
        <4> QED
          BY <1>2, <1>10, <4>2, <4>3 DEF Listed
      <3> QED
        BY <1>11, <3>1, <3>2, <3>3 DEF ListOK
    <2> QED
      BY <1>2, <1>13, <2>2, <2>3 DEF TermInv
  <1> QED
    <2>1. x = g \/ x = h
      OBVIOUS
    <2>2. CASE Replace(t, g) /\ f.img \in HasTerm /\ torn' = (torn \/ \E u \in Threads : At(u, "push"))
      <3>1. stack'[t][n] = g
        BY <1>0, <2>2, OtherEntries
      <3> QED
        BY <1>6, <1>12, <2>2, <3>1
    <2>3. CASE Replace(t, h) /\ f.img \notin HasTerm /\ torn' = torn
      <3>1. stack'[t][n] = h
        BY <1>0, <2>3, OtherEntries
      <3> QED
        BY <1>6, <1>13, <2>3, <3>1
    <2> QED
      BY <1>4, <2>2, <2>3

\* push_back() adds the image behind the end of the list.
LEMMA PushTerm ==
    ASSUME Inv, Types', TermInv, NEW t \in Threads, PushBack(t)
    PROVE  TermInv'
  <1> DEFINE f == Top(t)
             g == [f EXCEPT !.op = "ready", !.val = 0]
  <1>0. stack[t] # <<>> /\ f.op = "push" /\ Types /\ f \in Frames
    BY TopFrame DEF PushBack, At, Inv
  <1> PICK j : j = f.img
    OBVIOUS
  <1> PICK n \in Nat : n = Len(stack[t])
    BY <1>0, TopFrame
  <1>1. f = stack[t][n] /\ n > 0 /\ Has(t, n, {"push"}) /\ Has(t, n, {"push", "ready"})
    BY <1>0, TopFrame DEF Has
  <1>2. UNCHANGED <<terms, inits, marked, torn, doingGC>>
    BY DEF PushBack, imageVars, history, gcVars
  <1>3. g.op = "ready" /\ g.img = j
    BY <1>0 DEF Frames
  <1>4. Replace(t, g)
    BY DEF PushBack
  <1> HIDE DEF g
  <1>5. /\ Len(stack'[t]) = n /\ stack'[t][n] = g
        /\ \A u \in Threads : u # t => stack'[u] = stack[u]
        /\ \A u \in Threads : \A m \in Nat : u # t \/ m # n =>
                 \A o \in {"push", "ready", "gc"} : /\ Has(u, m, {o})' <=> Has(u, m, {o})
                                                    /\ Has(u, m, {o}) => stack'[u][m] = stack[u][m]
    BY <1>0, <1>4, OtherEntries
  <1>6. Has(t, n, {"ready"})' /\ ~Has(t, n, {"push"})' /\ ~Has(t, n, {"gc"})'
    BY <1>1, <1>3, <1>5 DEF Has
  <1>7. \A u \in Threads : \A m \in Nat : Has(u, m, {"push"})' =>
           u # t /\ Has(u, m, {"push"}) /\ stack'[u] = stack[u]
    <2>1. \A m \in Nat : Has(t, m, {"push"}) => m = n
      BY DEF TermInv, PushTop
    <2> QED
      BY <1>5, <1>6, <2>1
  <1>8. PushTop'
    BY <1>7 DEF PushTop, TermInv
  <1>9. ASSUME ~torn PROVE ListOK'
    <2>1. ListOK
      BY <1>9 DEF TermInv
    <2>2. f.val = end /\ \A v \in Threads : \A m \in Nat : Has(v, m, {"push"}) => v = t
      BY <1>1, <2>1 DEF ListOK, Pushing
    <2>3. Pushing'
      BY <1>7, <2>2 DEF Pushing
    <2>4. j \in HasTerm /\ j \in Images /\ inits[j] = 0 /\ j \in Kept
      BY <1>1, VisitedOnce DEF TermInv, PushTop
    <2>5. ~IsReady(j)
      <3> SUFFICES ASSUME NEW u \in Threads, NEW m \in Nat, Has(u, m, {"ready"}), stack[u][m].img = j PROVE FALSE
        BY DEF IsReady
      <3>1. Has(u, m, {"push", "ready"})
        BY DEF Has
      <3>2. u = t /\ m = n
        BY <1>1, <3>1, VisitedOnce
      <3> QED
        BY <1>0, <1>1, <3>2 DEF Has
    <2>6. terms[j] = 0 /\ InTermList(j) = {}
      BY <2>1, <2>4, <2>5 DEF ListOK, Listed, Recorded
    <2>7. end \in Nat /\ end <= Len(cells) /\ Len(cells) \in Nat /\ cells \in Seq(Images)
      BY <1>0 DEF Types, DataTypes
    <2>8. end' = end + 1 /\ cells'[end + 1] = j /\ \A m \in 1..end : cells'[m] = cells[m]
      <3>1. /\ end' = end + 1
            /\ cells' = IF end + 1 <= Len(cells) THEN [cells EXCEPT ![end + 1] = j] ELSE Append(cells, j)
        BY <2>2 DEF PushBack
      <3>2. CASE end + 1 <= Len(cells)
        BY <2>7, <3>1, <3>2
      <3>3. CASE ~(end + 1 <= Len(cells))
        <4>1. end = Len(cells) /\ cells' = Append(cells, j)
          BY <2>7, <3>1, <3>3
        <4> QED
          BY <2>4, <2>7, <3>1, <4>1, AppendProperties
      <3> QED
        BY <3>2, <3>3
    <2>9. InTermList(j)' = {end'} /\ end' \in 1..end'
      <3>1. \A m \in 1..end : cells[m] # j
        BY <2>6 DEF InTermList
      <3>2. \A m \in 1..(end + 1) : m = end + 1 \/ m \in 1..end
        BY <2>7
      <3> QED
        BY <2>7, <2>8, <3>1, <3>2 DEF InTermList
    <2>10. ASSUME NEW i \in Images, i # j PROVE InTermList(i)' = InTermList(i)
      <3>1. \A m \in 1..(end + 1) : m = end + 1 \/ m \in 1..end
        BY <2>7
      <3> QED
        BY <2>7, <2>8, <2>10, <3>1 DEF InTermList
    <2>11. ASSUME NEW i \in Images PROVE Listed(i)'
      <3>1. CASE i = j
        <4>1. Recorded(i)'
          BY <1>3, <1>5, <1>6, <2>4, <3>1 DEF Recorded, IsReady
        <4> QED
          BY <1>2, <2>6, <2>9, <3>1, <4>1 DEF Listed
      <3>2. CASE i # j
        <4>1. IsReady(i)' <=> IsReady(i)
          <5>1. ~Has(t, n, {"ready"})
            BY <1>0, <1>1 DEF Has
          <5> QED
            BY <1>3, <1>5, <3>2, <5>1 DEF IsReady
        <4>2. Recorded(i)' <=> Recorded(i)
          BY <1>2, <4>1 DEF Recorded
        <4>3. Listed(i)
          BY <2>1 DEF ListOK
        <4>4. \A m \in 1..end : m \in 1..end'
          BY <2>7, <2>8
        <4> QED
          BY <1>2, <2>10, <3>2, <4>2, <4>3, <4>4 DEF Listed
      <3> QED
        BY <3>1, <3>2
    <2>12. Dying'
      <3> SUFFICES ASSUME NEW u \in Threads, NEW m \in Nat, Has(u, m, {"gc"})'
                   PROVE  Covers(stack[u][m])'
        BY DEF Dying
      <3>1. Has(u, m, {"gc"}) /\ stack'[u][m] = stack[u][m]
        BY <1>5, <1>6
      <3>2. Covers(stack[u][m]) /\ doingGC
        BY <2>1, <3>1, NoCollection DEF ListOK, Dying
      <3>3. marked[j]
        BY <2>4, <3>2 DEF Kept
      <3> QED
        BY <1>2, <2>10, <3>1, <3>2, <3>3 DEF Covers
    <2> QED
      BY <2>3, <2>11, <2>12 DEF ListOK
  <1> QED
    BY <1>2, <1>8, <1>9 DEF TermInv

\* The initializers of a recorded image are started.
LEMMA RunTerm ==
    ASSUME Inv, Types', TermInv, NEW t \in Threads, RunInitializers(t)
    PROVE  TermInv'
  <1> DEFINE f == Top(t)
             g == [f EXCEPT !.op = "running"]
  <1>0. stack[t] # <<>> /\ f.op = "ready" /\ Types /\ f \in Frames
    BY TopFrame DEF RunInitializers, At, Inv
  <1> PICK j : j = f.img
    OBVIOUS
  <1> DEFINE h == Frame("init", j, <<>>)
  <1> PICK n \in Nat : n = Len(stack[t])
    BY <1>0, TopFrame
  <1>1. f = stack[t][n] /\ n > 0 /\ Has(t, n, {"ready"}) /\ Has(t, n, {"push", "ready"}) /\ ~Has(t, n, {"gc"})
    BY <1>0, TopFrame DEF Has
  <1>2. UNCHANGED <<terms, marked, torn, cells, end>> /\ inits' = [inits EXCEPT ![j] = @ + 1]
    BY DEF RunInitializers, termVars
  <1>3. g.op = "running" /\ h.op = "init"
    BY <1>0, SameOp DEF Frame
  <1>4. ReplaceAndCall(t, g, h)
    BY DEF RunInitializers
  <1> HIDE DEF g, h
  <1>5. /\ Above(t, n - 1) /\ Exact(t, n - 1) /\ Len(stack'[t]) = n + 1
        /\ stack'[t][n] = g /\ stack'[t][n + 1] = h
    <2>1. g \in Frames /\ h \in Frames
      BY <1>0, <1>4, NewPair
    <2> QED
      BY <1>0, <1>4, <2>1, ReplacedAndCalled
  <1>6. Keeps(t, n - 1) /\ \A u \in Threads : u # t => stack'[u] = stack[u]
    BY <1>5, KeepsAbove DEF Above
  <1>7. ASSUME NEW u \in Threads, NEW m \in Nat, NEW o \in {"push", "ready", "gc"}
        PROVE  /\ Has(u, m, {o})' <=> (Has(u, m, {o}) /\ (u # t \/ m # n))
               /\ Has(u, m, {o})' => stack'[u][m] = stack[u][m]
    <2>1. CASE u # t \/ m <= n - 1
      BY <1>6, <2>1, <1>0, KeptEntry
    <2>2. CASE u = t /\ m > n - 1
      <3>1. m = n \/ m = n + 1 \/ ~(m \in 1..Len(stack'[t]))
        BY <1>5, <2>2
      <3>2. m = n \/ ~(m \in 1..Len(stack[t]))
        BY <2>2
      <3> QED
        BY <1>3, <1>5, <2>2, <3>1, <3>2 DEF Has
    <2> QED
      BY <2>1, <2>2
  <1>8. \A m \in Nat : ~Has(t, m, {"push"})
    BY <1>0, NoPush DEF TermInv
  <1>9. \A u \in Threads : \A m \in Nat : Has(u, m, {"push"})' =>
           u # t /\ Has(u, m, {"push"}) /\ stack'[u] = stack[u]
    BY <1>6, <1>7, <1>8
  <1>10. PushTop'
    BY <1>9 DEF PushTop, TermInv
  <1>11. j \in Images /\ inits[j] = 0 /\ inits \in [Images -> Nat]
    BY <1>0, <1>1, VisitedOnce DEF Types, DataTypes
  <1>12. inits'[j] > 0 /\ \A i \in Images : i # j => inits'[i] = inits[i]
    BY <1>2, <1>11
  <1>13. \A i \in Images : InTermList(i)' = InTermList(i)
    BY <1>2 DEF InTermList
  <1>14. ASSUME ~torn PROVE ListOK'
    <2>1. ListOK
      BY <1>14 DEF TermInv
    <2>2. Pushing'
      BY <1>2, <1>9, <2>1 DEF Pushing, ListOK
    <2>3. ASSUME NEW i \in Images PROVE Listed(i)'
      <3>1. Recorded(i)' <=> Recorded(i)
        <4>1. CASE i = j
          BY <1>1, <1>12, <4>1 DEF Recorded, IsReady
        <4>2. CASE i # j
          <5>1. IsReady(i)' <=> IsReady(i)
            BY <1>1, <1>7, <4>2 DEF IsReady
          <5> QED
            BY <1>12, <4>2, <5>1 DEF Recorded
        <4> QED
          BY <4>1, <4>2
      <3>2. Listed(i)
        BY <2>1 DEF ListOK
      <3> QED
        BY <1>2, <1>13, <3>1, <3>2 DEF Listed
    <2>4. Dying'
      <3> SUFFICES ASSUME NEW u \in Threads, NEW m \in Nat, Has(u, m, {"gc"})'
                   PROVE  Covers(stack[u][m])'
        BY DEF Dying
      <3>1. Has(u, m, {"gc"}) /\ stack'[u][m] = stack[u][m]
        BY <1>7
      <3>2. Covers(stack[u][m])
        BY <2>1, <3>1 DEF ListOK, Dying
      <3> QED
        BY <1>2, <1>13, <3>1, <3>2 DEF Covers
    <2> QED
      BY <2>2, <2>3, <2>4 DEF ListOK
  <1> QED
    BY <1>2, <1>10, <1>14 DEF TermInv

\* The z entries of d are the e entries of c but for the p-th: what is not in the
\* list, or is only there, is not in what is left, and what is once elsewhere still is.
Without(c, e, p, d, z, i) ==
    /\ (\A m \in 1..e : c[m] # i) => \A m \in 1..z : d[m] # i
    /\ (\A m \in 1..e : c[m] = i => m = p) => \A m \in 1..z : d[m] # i
    /\ \A q \in 1..e : q # p /\ (\A m \in 1..e : c[m] = i <=> m = q) =>
          \E r \in 1..z : \A m \in 1..z : d[m] = i <=> m = r

\* The list without an entry: what followed it moves down.
LEMMA TakenOut ==
    ASSUME NEW c \in Seq(Images), NEW e \in Nat, e <= Len(c), NEW p \in 1..e, NEW d,
           d = [m \in DOMAIN c |-> IF m \in p..(e - 1) THEN c[m + 1] ELSE c[m]], NEW i
    PROVE  Without(c, e, p, d, e - 1, i)
  <1>1. \A m \in 1..(e - 1) : d[m] = IF m >= p THEN c[m + 1] ELSE c[m]
    OBVIOUS
  <1>2. \A m \in 1..(e - 1) : m \in 1..e /\ m + 1 \in 1..e
    OBVIOUS
  <1>3. ASSUME \A m \in 1..e : c[m] # i, NEW m \in 1..(e - 1) PROVE d[m] # i
    BY <1>1, <1>2, <1>3
  <1>4. ASSUME \A m \in 1..e : c[m] = i => m = p, NEW m \in 1..(e - 1) PROVE d[m] # i
    BY <1>1, <1>2, <1>4
  <1>5. ASSUME NEW q \in 1..e, q # p, \A m \in 1..e : c[m] = i <=> m = q
        PROVE  \E r \in 1..(e - 1) : \A m \in 1..(e - 1) : d[m] = i <=> m = r
    <2>1. CASE q < p
      <3>1. q \in 1..(e - 1) /\ \A m \in 1..(e - 1) : d[m] = i <=> m = q
        BY <1>1, <1>2, <1>5, <2>1
      <3> QED
        BY <3>1
    <2>2. CASE q > p
      <3>1. q - 1 \in 1..(e - 1) /\ \A m \in 1..(e - 1) : d[m] = i <=> m = q - 1
        BY <1>1, <1>2, <1>5, <2>2
      <3> QED
        BY <3>1
    <2>3. q < p \/ q > p
      BY <1>5
    <2> QED
      BY <2>1, <2>2, <2>3
  <1> QED
    BY <1>3, <1>4, <1>5 DEF Without

\* A collection takes an image that is not marked out of the list, and calls its
\* terminators, or has nothing to do for it.
LEMMA TerminateTerm ==
    ASSUME Inv, Types', TermInv, NEW t \in Threads, GcTerminate(t)
    PROVE  TermInv'
  <1> DEFINE f == Top(t)
             g == [f EXCEPT !.todo = Tail(@)]
  <1>0. stack[t] # <<>> /\ f.op = "gc" /\ Types /\ f \in Frames /\ FrameOK(f) /\ f.todo # <<>>
    BY TopFrame DEF GcTerminate, At, Inv
  <1> PICK j : j = Head(f.todo)
    OBVIOUS
  <1> PICK n \in Nat : n = Len(stack[t])
    BY <1>0, TopFrame
  <1>1. f = stack[t][n] /\ n > 0 /\ Has(t, n, {"gc"})
    BY <1>0, TopFrame DEF Has
  <1>2. f.todo \in Seq(Todo) /\ j = f.todo[1] /\ j \in Images
    <2>1. f.todo \in Seq(Todo) /\ \A k \in 1..Len(f.todo) : f.todo[k] \in Images
      BY <1>0 DEF FrameOK, Frames
    <2> QED
      BY <1>0, <2>1, TailOf
  <1>3. UNCHANGED <<marked, inits>>
    BY DEF GcTerminate, imageVars
  <1>4. CASE marked[j] \/ InTermList(j) = {}
    <2>1. Replace(t, g) /\ ListStays
      BY <1>3, <1>4 DEF GcTerminate, ListStays, termVars
    <2>2. g.op = "gc" /\ g.todo = Tail(f.todo)
      BY <1>0 DEF Frames
    <2>3. torn \/ \A i \in Images : ~marked'[i] /\ InTermList(i) # {} => i \in Range(g.todo)
      <3> SUFFICES ASSUME ~torn, NEW i \in Images, ~marked'[i], InTermList(i) # {} PROVE i \in Range(g.todo)
        OBVIOUS
      <3>1. Covers(f)
        BY <1>1 DEF TermInv, ListOK, Dying
      <3>2. i \in Range(f.todo) /\ i # j
        BY <1>3, <1>4, <3>1 DEF Covers
      <3>3. PICK k \in DOMAIN f.todo : f.todo[k] = i
        BY <3>2 DEF Range
      <3>4. k \in 1..Len(f.todo) /\ k # 1
        BY <1>2, <3>2, <3>3
      <3>5. k - 1 \in 1..Len(Tail(f.todo)) /\ Tail(f.todo)[k - 1] = i
        BY <1>0, <1>2, <3>3, <3>4
      <3>6. DOMAIN Tail(f.todo) = 1..Len(Tail(f.todo))
        BY <1>0, <1>2
      <3> QED
        BY <2>2, <3>5, <3>6 DEF Range
    <2>4. MarksStay
      BY <1>3 DEF MarksStay
    <2> HIDE DEF g
    <2> QED
      BY <1>0, <2>1, <2>2, <2>3, <2>4, ReplaceTerm
  <1>5. CASE ~(marked[j] \/ InTermList(j) = {})
    <2> DEFINE h == Frame("term", j, <<>>)
    <2> PICK p : p = Min(InTermList(j))
      OBVIOUS
    <2>1. /\ cells' = [m \in DOMAIN cells |-> IF m \in p..(end - 1) THEN cells[m + 1] ELSE cells[m]]
          /\ end' = end - 1 /\ terms' = [terms EXCEPT ![j] = @ + 1]
          /\ torn' = (torn \/ \E u \in Threads : At(u, "push")) /\ Call(t, h)
      BY <1>5 DEF GcTerminate
    <2>2. h \in Frames /\ h.op = "term"
      BY <1>0, <2>1, NewCall DEF Frame
    <2> HIDE DEF h
    <2>3. Above(t, n) /\ Exact(t, n) /\ Len(stack'[t]) = n + 1 /\ stack'[t][n + 1] = h
      BY <1>0, <2>1, <2>2, Called
    <2>4. Keeps(t, n) /\ \A u \in Threads : u # t => stack'[u] = stack[u]
      BY <2>3, KeepsAbove DEF Above
    <2>5. ASSUME NEW u \in Threads, NEW m \in Nat, NEW o \in {"push", "ready", "gc"}
          PROVE  /\ Has(u, m, {o})' <=> Has(u, m, {o})
                 /\ Has(u, m, {o}) => stack'[u][m] = stack[u][m]
      <3>1. CASE u # t \/ m <= n
        BY <1>0, <2>4, <3>1, KeptEntry
      <3>2. CASE u = t /\ m > n
        <4>1. m = n + 1 \/ ~(m \in 1..Len(stack'[t]))
          BY <2>3, <3>2
        <4>2. ~(m \in 1..Len(stack[t]))
          BY <3>2
        <4> QED
          BY <2>2, <2>3, <3>2, <4>1, <4>2 DEF Has
      <3> QED
        BY <3>1, <3>2
    <2>6. \A m \in Nat : ~Has(t, m, {"push"})
      BY <1>0, NoPush DEF TermInv
    <2>7. PushTop'
      BY <2>4, <2>5, <2>6 DEF PushTop, TermInv
    <2>8. terms' \in [Images -> Nat] /\ torn' \in BOOLEAN /\ terms'[j] = terms[j] + 1
          /\ \A i \in Images : i # j => terms'[i] = terms[i]
      BY <1>2, <2>1 DEF TermInv
    <2>9. ASSUME ~torn' PROVE ListOK'
      <3>1. ~torn /\ ListOK /\ \A u \in Threads : ~At(u, "push")
        BY <2>1, <2>9 DEF TermInv
      <3>2. \A u \in Threads : \A m \in Nat : ~Has(u, m, {"push"})
        BY <1>0, <3>1, NoPush DEF TermInv, At
      <3>3. Pushing'
        BY <2>5, <3>2 DEF Pushing
      <3>4. end \in Nat /\ end <= Len(cells) /\ cells \in Seq(Images)
        BY <1>0 DEF Types, DataTypes
      <3>5. Recorded(j) /\ terms[j] = 0 /\ \E q \in 1..end : InTermList(j) = {q}
        BY <1>2, <1>5, <3>1 DEF ListOK, Listed
      <3>6. PICK q \in 1..end : InTermList(j) = {q}
        BY <3>5
      <3>7. p = q
        <4>1. {q} \in SUBSET Nat /\ {q} # {}
          BY <3>4
        <4>2. Min({q}) \in {q}
          BY <4>1, LeastPlace
        <4> QED
          BY <3>6, <4>2
      <3>8. ASSUME NEW i \in Images
            PROVE  Without(cells, end, p, cells', end', i)
        <4>1. p \in 1..end /\ end' = end - 1
          BY <2>1, <3>7
        <4>2. cells' = [m \in DOMAIN cells |-> IF m \in p..(end - 1) THEN cells[m + 1] ELSE cells[m]]
          BY <2>1
        <4>3. Without(cells, end, p, cells', end - 1, i)
          BY <3>4, <4>1, <4>2, TakenOut
        <4> QED
          BY <4>1, <4>3
      <3>9. InTermList(j)' = {}
        <4>1. \A m \in 1..end : cells[m] = j => m = p
          BY <3>6, <3>7 DEF InTermList
        <4> QED
          BY <1>2, <3>8, <4>1 DEF InTermList, Without
      <3>10. ASSUME NEW i \in Images, i # j
             PROVE  /\ InTermList(i) = {} => InTermList(i)' = {}
                    /\ (\E r \in 1..end : InTermList(i) = {r}) => \E s \in 1..end' : InTermList(i)' = {s}
        <4>1. ASSUME InTermList(i) = {} PROVE InTermList(i)' = {}
          <5>1. \A m \in 1..end : cells[m] # i
            BY <4>1 DEF InTermList
          <5> QED
            BY <3>8, <5>1 DEF InTermList, Without
        <4>2. ASSUME NEW r \in 1..end, InTermList(i) = {r} PROVE \E s \in 1..end' : InTermList(i)' = {s}
          <5>1. \A m \in 1..end : cells[m] = i <=> m = r
            BY <4>2 DEF InTermList
          <5>2. cells[p] = j
            BY <3>6, <3>7 DEF InTermList
          <5>3. r # p
            BY <3>10, <5>1, <5>2
          <5>4. PICK s \in 1..end' : \A m \in 1..end' : cells'[m] = i <=> m = s
            BY <3>8, <5>1, <5>3 DEF Without
          <5>5. InTermList(i)' = {s}
            BY <5>4 DEF InTermList
          <5> QED
            BY <5>5
        <4> QED
          BY <4>1, <4>2
      <3>11. ASSUME NEW i \in Images PROVE Listed(i)'
        <4>1. IsReady(i)' <=> IsReady(i)
          BY <2>5 DEF IsReady
        <4>2. Recorded(i)' <=> Recorded(i)
          BY <1>3, <4>1 DEF Recorded
        <4>3. Listed(i)
          BY <3>1 DEF ListOK
        <4>4. CASE i = j
          BY <2>8, <3>5, <3>9, <4>2, <4>4 DEF Listed
        <4>5. CASE i # j
          BY <2>8, <3>10, <4>2, <4>3, <4>5 DEF Listed
        <4> QED
          BY <4>4, <4>5
      <3>12. Dying'
        <4> SUFFICES ASSUME NEW u \in Threads, NEW m \in Nat, Has(u, m, {"gc"})'
                     PROVE  Covers(stack[u][m])'
          BY DEF Dying
        <4>1. Has(u, m, {"gc"}) /\ stack'[u][m] = stack[u][m]
          BY <2>5
        <4>2. Covers(stack[u][m])
          BY <3>1, <4>1 DEF ListOK, Dying
        <4>3. \A i \in Images : InTermList(i)' # {} => InTermList(i) # {}
          BY <3>9, <3>10
        <4> QED
          BY <1>3, <4>1, <4>2, <4>3 DEF Covers
      <3> QED
        BY <3>3, <3>11, <3>12 DEF ListOK
    <2> QED
      BY <2>7, <2>8, <2>9 DEF TermInv
  <1> QED
    BY <1>4, <1>5

\* What is deleted is no longer in the list.
LEMMA DeletedNotListed ==
    ASSUME Inv, TermInv, ~torn, NEW t \in Threads, At(t, "gc"), Top(t).todo = <<>>, NEW i \in Images, ~marked[i]
    PROVE  InTermList(i) = {} /\ ~IsReady(i) /\ Listed(i)
  <1>0. Types /\ stack[t] # <<>> /\ Top(t).op = "gc"
    BY DEF Inv, At
  <1> PICK n \in Nat : n = Len(stack[t])
    BY <1>0, TopFrame
  <1>1. Top(t) = stack[t][n] /\ Has(t, n, {"gc"})
    BY <1>0, TopFrame DEF Has
  <1>2. doingGC
    BY <1>1, NoCollection
  <1>3. Covers(Top(t)) /\ Listed(i)
    BY <1>1 DEF TermInv, ListOK, Dying
  <1>4. Range(Top(t).todo) = {}
    BY DEF Range
  <1>5. InTermList(i) = {}
    BY <1>3, <1>4 DEF Covers
  <1>6. ~IsReady(i)
    <2> SUFFICES ASSUME NEW u \in Threads, NEW m \in Nat, Has(u, m, {"ready"}), stack[u][m].img = i PROVE FALSE
      BY DEF IsReady
    <2>1. Has(u, m, {"push", "ready"})
      BY DEF Has
    <2>2. i \in Kept
      BY <2>1, VisitedOnce
    <2> QED
      BY <1>2, <2>2 DEF Kept
  <1> QED
    BY <1>3, <1>5, <1>6

\* Deleting an image leaves the list alone.
LEMMA DeleteTerm ==
    ASSUME Inv, Types', TermInv, NEW t \in Threads, GcDelete(t)
    PROVE  TermInv'
  <1>0. At(t, "gc") /\ Top(t).todo = <<>> /\ Types
    BY DEF GcDelete, Inv
  <1>1. PICK k \in DOMAIN all : /\ ~marked[all[k]] /\ inits' = [inits EXCEPT ![all[k]] = 0]
                                /\ terms' = [terms EXCEPT ![all[k]] = 0]
    BY DEF GcDelete
  <1> PICK j : j = all[k]
    OBVIOUS
  <1>2. j \in Images
    BY <1>0 DEF Types, DataTypes
  <1>3. UNCHANGED <<marked, cells, end, stack, torn>>
    BY DEF GcDelete, termVars
  <1>4. \A u \in Threads : \A m \in Nat : \A o \in {"push", "ready", "gc"} : Has(u, m, {o})' <=> Has(u, m, {o})
    BY <1>3 DEF Has
  <1>5. PushTop'
    BY <1>3, <1>4 DEF PushTop, TermInv
  <1>6. terms \in [Images -> Nat] /\ inits \in [Images -> Nat]
    BY <1>0 DEF TermInv, Types, DataTypes
  <1>7. /\ terms' \in [Images -> Nat] /\ terms'[j] = 0 /\ inits'[j] = 0
        /\ \A i \in Images : i # j => terms'[i] = terms[i] /\ inits'[i] = inits[i]
    BY <1>1, <1>2, <1>6
  <1>8. \A i \in Images : InTermList(i)' = InTermList(i)
    BY <1>3 DEF InTermList
  <1>9. ASSUME ~torn PROVE ListOK'
    <2>1. ListOK
      BY <1>9 DEF TermInv
    <2>2. Pushing'
      BY <1>3, <1>4, <2>1 DEF Pushing, ListOK
    <2>3. Dying'
      BY <1>3, <1>4, <1>8, <2>1 DEF Dying, Covers, ListOK
    <2>4. ASSUME NEW i \in Images PROVE Listed(i)'
      <3>1. IsReady(i)' <=> IsReady(i)
        BY <1>3, <1>4 DEF IsReady
      <3>2. CASE i = j
        <4>1. InTermList(i) = {} /\ ~IsReady(i)
          BY <1>0, <1>1, <1>2, <1>9, <3>2, DeletedNotListed
        <4>2. ~Recorded(i)'
          BY <1>7, <3>1, <3>2, <4>1 DEF Recorded
        <4> QED
          BY <1>7, <1>8, <3>2, <4>1, <4>2 DEF Listed
      <3>3. CASE i # j
        <4>1. Recorded(i)' <=> Recorded(i)
          BY <1>7, <3>1, <3>3 DEF Recorded
        <4>2. Listed(i)
          BY <2>1 DEF ListOK
        <4> QED
          BY <1>3, <1>7, <1>8, <3>3, <4>1, <4>2 DEF Listed
      <3> QED
        BY <3>2, <3>3
    <2> QED
      BY <2>2, <2>3, <2>4 DEF ListOK
  <1> QED
    BY <1>3, <1>5, <1>7, <1>9 DEF TermInv

\* At first the list is empty and no image has been initialized.
LEMMA InitTerm == Init => TermInv
  <1> SUFFICES ASSUME Init PROVE TermInv
    OBVIOUS
  <1>1. /\ cells = <<>> /\ end = 0 /\ stack = [t \in Threads |-> <<>>] /\ torn = FALSE
        /\ inits = [i \in Images |-> 0] /\ terms = [i \in Images |-> 0]
    BY DEF Init
  <1>2. \A u \in Threads : \A n \in Nat : \A o \in {"push", "ready", "gc"} : ~Has(u, n, {o})
    BY <1>1 DEF Has
  <1>3. \A i \in Images : InTermList(i) = {}
    BY <1>1 DEF InTermList
  <1>4. \A i \in Images : Listed(i)
    BY <1>1, <1>2, <1>3 DEF Listed, Recorded, IsReady
  <1> QED
    BY <1>1, <1>2, <1>4 DEF TermInv, ListOK, PushTop, Pushing, Dying

\* Every step keeps the list in order.
LEMMA NextTerm ==
    ASSUME TermOpens = {}, Inv, Inv', TermInv, [Next]_vars
    PROVE  TermInv'
  <1>0. Types /\ Types'
    BY DEF Inv
  <1>1. CASE UNCHANGED <<imageVars, depth, glock, ilock, termVars, gcVars, stack, handles, opens, history>>
    <2>1. UNCHANGED <<cells, end, stack, torn, inits, terms, marked>>
      BY <1>1 DEF imageVars, termVars, history
    <2>2. PushTop' <=> PushTop
      BY <2>1 DEF PushTop, Has
    <2>3. Pushing' <=> Pushing
      BY <2>1 DEF Pushing, Has
    <2>4. \A i \in Images : InTermList(i)' = InTermList(i)
      BY <2>1 DEF InTermList
    <2>5. Dying' <=> Dying
      BY <2>1, <2>4 DEF Dying, Covers, Has
    <2>6. ASSUME NEW i \in Images PROVE Listed(i)' <=> Listed(i)
      <3>1. Recorded(i)' <=> Recorded(i)
        BY <2>1 DEF Recorded, IsReady, Has
      <3> QED
        BY <2>1, <2>4, <3>1 DEF Listed
    <2>7. ListOK' <=> ListOK
      BY <2>3, <2>5, <2>6 DEF ListOK
    <2> QED
      BY <2>1, <2>2, <2>7 DEF TermInv
  <1>2. ASSUME NEW t \in Threads, NEW i \in Images, Dlopen(t, i) \/ DlopenNoLoad(t, i) \/ Dlclose(t, i)
        PROVE  TermInv'
    BY <1>0, <1>2, OpenTerm, DlcloseTerm
  <1>3. ASSUME NEW t \in Threads, Work(t)
        PROVE  TermInv'
    <2>1. CASE StartDepths(t) \/ UpdateDepth(t) \/ DanglingUpwards(t) \/ Bind(t) \/ Close(t) \/ TerminatorReturns(t) \/ Opened(t)
      BY <1>0, <2>1, LinkTerm
    <2>2. CASE ProcessInitializers(t) \/ EnterImage(t) \/ CompareDepth(t)
      BY <1>0, <2>2, VisitTerm
    <2>3. CASE LoadLibraries(t) \/ LinkFailed(t) \/ UndoOpen(t)
      BY <1>0, <2>3, LoadTerm, FailTerm
    <2>4. CASE NextLibrary(t) \/ InitializersReturn(t)
      BY <1>0, <2>4, NextLibraryTerm, InitializersReturnTerm
    <2>5. CASE RecordTermination(t) \/ PushBack(t) \/ RunInitializers(t)
      BY <1>0, <2>5, RecordTerm, PushTerm, RunTerm
    <2>6. CASE GcTerminate(t) \/ GcDelete(t) \/ GcDone(t)
      BY <1>0, <2>6, TerminateTerm, DeleteTerm, GcDoneTerm
    <2> QED
      BY <1>1, <1>2, <1>3, <2>1, <2>2, <2>3, <2>4, <2>5, <2>6, WantOnly DEF Work
  <1> QED
    BY <1>1, <1>2, <1>3, WantOnly DEF Next, vars

\* An image that is deleted is not in the list: its terminators were called once if
\* it was recorded, and never otherwise.
LEMMA DeletedTerminated ==
    ASSUME Inv, TermInv, Next, NEW i \in Loaded, i \notin Range(all')
    PROVE  terms[i] = (IF i \in HasTerm /\ inits[i] > 0 THEN 1 ELSE 0) \/ torn
  <1> SUFFICES ASSUME ~torn PROVE terms[i] = (IF i \in HasTerm /\ inits[i] > 0 THEN 1 ELSE 0)
    OBVIOUS
  <1>1. PICK t \in Threads : GcDelete(t) /\ i \in Images /\ ~marked[i]
    BY OnlyDeleted
  <1>2. At(t, "gc") /\ Top(t).todo = <<>>
    BY <1>1 DEF GcDelete
  <1>3. InTermList(i) = {} /\ ~IsReady(i) /\ Listed(i)
    BY <1>1, <1>2, DeletedNotListed
  <1>4. Recorded(i) <=> (i \in HasTerm /\ inits[i] > 0)
    BY <1>3 DEF Recorded
  <1>5. \A n : InTermList(i) # {n}
    BY <1>3
  <1>6. IF Recorded(i) THEN terms[i] = 1 ELSE terms[i] = 0
    BY <1>3, <1>5 DEF Listed
  <1> QED
    BY <1>4, <1>6

\* An image that is unloaded has had its terminators called exactly once if its
\* initializers were started, and never otherwise, whichever threads initialize other
\* images meanwhile, as long as no two of them change the list of images to terminate
\* at once.
THEOREM TerminatedOnceEach ==
    ASSUME TermOpens = {}
    PROVE  Spec => TerminatedOnce
  <1> DEFINE P == \A i \in Loaded : i \notin Range(all') =>
                     \/ terms[i] = (IF i \in HasTerm /\ inits[i] > 0 THEN 1 ELSE 0)
                     \/ torn \/ i \in reopened
  <1>1. Spec => []Inv
    BY AlwaysInv
  <1>2. Init => TermInv
    BY InitTerm
  <1>3. Inv /\ Inv' /\ TermInv /\ [Next]_vars => TermInv'
    BY NextTerm
  <1>4. Inv /\ TermInv /\ [Next]_vars => [P]_vars
    BY DeletedTerminated
  <1>5. Spec => []TermInv
    BY <1>1, <1>2, <1>3, PTL DEF Spec
  <1>6. Spec => [][P]_vars
    BY <1>1, <1>4, <1>5, PTL DEF Spec
  <1> QED
    BY <1>6 DEF TerminatedOnce
=============================================================================
