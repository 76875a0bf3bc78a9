---------------------- MODULE ProcessInfoNotify_proofs ----------------------
(****************************************************************************)
(* What holds of a process and of those that monitor it, for every set of   *)
(* monitors, every set of images and every bound: what is published is      *)
(* whole; each of the two threads that send messages waits exactly while    *)
(* there is one message of its to answer, so a notify block reads the list  *)
(* as it is; the notifyExit block is called once; and a monitor that        *)
(* registers, reads the list and goes by its notices knows what is loaded.  *)
(****************************************************************************)
EXTENDS ProcessInfoNotify, Selection_proofs

-----------------------------------------------------------------------------
(* The invariant of the monitored process *)

\* The list has been mirrored, and does not change before the thread is idle again.
Steady == {"uuids", "notify", "send", "wait", "unmap", "idle"}

TargetTypes ==
    /\ loaded \in Seq(Images) /\ mapped \subseteq Images
    /\ arrays \in Seq(Seq(Images \cup {Junk})) /\ lists \in Seq(Seq(Images))
    /\ infos \in [array : 0..Len(arrays), count : Nat, time : 0..Len(lists)]
    /\ change \in [imgs : Seq(Images), unload : BOOLEAN]
    /\ uuids \in [array : Seq(Images), count : Nat]
    /\ pc \in Steady \cup {"launch", "mirror", "fill", "array", "exited"}

\* What is in the list is in memory, also when what was unloaded is unmapped; the
\* images of the launch never leave.
InMemory ==
    /\ Range(loaded) \subseteq mapped
    /\ change.unload => Range(change.imgs) \cap Range(loaded) = {}
    /\ pc = "unmap" => change.unload
    /\ pc \notin {"launch", "exited"} => Range(Initial) \subseteq Range(loaded)
    /\ pc = "launch" => loaded = <<>>

\* The array in use is large enough for its entries; a reader that finds infoArray
\* finds what the timestamp stands for.
Published ==
    /\ arrays = <<>> => infos.count = 0
    /\ arrays # <<>> => infos.count <= Len(Array)
    /\ infos.array # 0 => /\ infos.array = Len(arrays) /\ infos.time # 0
                          /\ SubSeq(Array, 1, infos.count) = lists[infos.time]

\* How far the mirroring has come.
Mirrored ==
    /\ pc \in {"launch", "exited"} => arrays = <<>>
    /\ pc \in {"fill", "array"} =>
          infos.array = 0 /\ arrays # <<>> /\ Len(loaded) <= Len(Array)
    /\ pc \in Steady \cup {"array"} =>
          /\ arrays # <<>> /\ Len(loaded) <= Len(Array) /\ Wrong = {}
          /\ infos.count = Len(loaded)
          /\ infos.time # 0 /\ infos.time = Len(lists) /\ lists[infos.time] = loaded
    /\ pc \in Steady => infos.array # 0

\* The UUIDs: right when their number is, even before they are looked at.
Uuids ==
    /\ pc \in Steady \ {"uuids"} => uuids = [array |-> NonCached, count |-> Len(NonCached) + 1]
    /\ pc \in {"mirror", "fill", "array"} =>
          (uuids.count = Len(NonCached) + 1 => uuids.array = NonCached)
    /\ pc = "launch" => uuids.count = 0

TargetInv == TargetTypes /\ InMemory /\ Published /\ Mirrored /\ Uuids

-----------------------------------------------------------------------------
(* The invariant holds *)

LEMMA InitialImages == Initial \in Seq(Images) /\ Range(Initial) \subseteq Images
  <1>1. Range(Initial) \subseteq Images
    BY DEF Images
  <1> QED
    BY <1>1, InfosAssumption, SeqMonotonic

LEMMA BatchImages ==
    ASSUME NEW S \in Batches
    PROVE  SetToSeq(S) \in Seq(Images)
  <1>1. S \subseteq Images
    BY DEF Images, Others
  <1>2. SetToSeq(S) \in Seq(S)
    BY InfosAssumption, BatchSeq
  <1> QED
    BY <1>1, <1>2, SeqMonotonic

LEMMA TargetInitInv == TargetInit => TargetInv
  <1> SUFFICES ASSUME TargetInit PROVE TargetInv
    OBVIOUS
  <1> USE DEF TargetInit
  <1>1. Head(Initial) \in Images
    BY InitialImages, InfosAssumption
  <1>2. TargetTypes
    BY <1>1 DEF TargetTypes, NoChange, Steady
  <1>3. InMemory
    BY DEF InMemory, NoChange, Range
  <1>4. Published /\ Mirrored /\ Uuids
    BY DEF Published, Mirrored, Uuids, Steady
  <1> QED
    BY <1>2, <1>3, <1>4 DEF TargetInv

LEMMA TargetGoneInv == TargetGone => TargetInv'
  <1> SUFFICES ASSUME TargetGone PROVE TargetInv'
    OBVIOUS
  <1> USE DEF TargetGone
  <1>2. TargetTypes'
    BY DEF TargetTypes, NoChange, Steady
  <1>3. InMemory'
    BY DEF InMemory, NoChange, Range
  <1>4. Published' /\ Mirrored' /\ Uuids'
    BY DEF Published, Mirrored, Uuids, Steady
  <1> QED
    BY <1>2, <1>3, <1>4 DEF TargetInv

\* The thread goes on without touching the list or the memory.
LEMMA NothingTouched ==
    ASSUME TargetInv, UNCHANGED <<loaded, mapped, memory, change, lists>>,
           \/ pc' = pc
           \/ /\ pc \in Steady \ {"uuids"} /\ pc' \in Steady \ {"uuids"}
              /\ pc' = "unmap" => change.unload
    PROVE  TargetInv'
  <1> USE DEF TargetInv, memory
  <1>1. TargetTypes'
    BY DEF TargetTypes, Steady
  <1>2. InMemory'
    BY DEF InMemory, Steady
  <1>3. Array' = Array /\ Wrong' = Wrong /\ NonCached' = NonCached
    BY DEF Array, Wrong, NonCached
  <1>4. Published'
    BY <1>3 DEF Published
  <1>5. Mirrored'
    BY <1>3 DEF Mirrored, Steady
  <1>6. Uuids'
    BY <1>3 DEF Uuids, Steady
  <1> QED
    BY <1>1, <1>2, <1>4, <1>5, <1>6

\* Images are put behind the others: at launch, or by a dlopen().
LEMMA AddedInv ==
    ASSUME TargetInv, NEW s \in Seq(Images), AddImages(s), UNCHANGED <<memory, lists>>,
           pc' = "mirror",
           \/ pc = "launch" /\ s = Initial
           \/ pc = "idle"
    PROVE  TargetInv'
  <1> USE DEF TargetInv, AddImages, memory
  <1>1. /\ loaded \in Seq(Images) /\ loaded' \in Seq(Images) /\ loaded' = loaded \o s
        /\ Range(loaded') = Range(loaded) \cup Range(s)
    BY RangeConcatenation, ConcatProperties DEF TargetTypes
  <1>2. Range(s) \subseteq Images
    BY RangeOfSeq
  <1>3. TargetTypes'
    BY <1>1, <1>2 DEF TargetTypes
  <1>4. InMemory'
    BY <1>1 DEF InMemory
  <1>5. Array' = Array
    BY DEF Array
  <1>6. Published'
    BY <1>5 DEF Published
  <1>7. Mirrored'
    BY DEF Mirrored, Steady
  <1>8. NonCached' = Selected(loaded', Images \ InCache)
    BY DEF NonCached
  <1>9. Uuids'
    <2>1. CASE pc = "launch"
      <3>1. uuids'.count = 0 /\ Len(NonCached') \in Nat
        BY <2>1, <1>1, <1>8, SelectedSeq DEF Uuids
      <3> QED
        BY <3>1 DEF Uuids, Steady
    <2>2. CASE pc = "idle"
      <3>1. uuids = [array |-> NonCached, count |-> Len(NonCached) + 1]
        BY <2>2 DEF Uuids, Steady
      <3>2. NonCached' = NonCached \/ Len(NonCached') > Len(NonCached)
        BY <1>1, <1>8, SelectedOfConcat DEF NonCached
      <3>3. Len(NonCached') \in Nat /\ Len(NonCached) \in Nat
        BY <1>1, <1>8, SelectedSeq DEF NonCached
      <3> QED
        BY <3>1, <3>2, <3>3 DEF Uuids, Steady
    <2> QED
      BY <2>1, <2>2
  <1> QED
    BY <1>3, <1>4, <1>6, <1>7, <1>9

\* Images are taken out of the list.
LEMMA UnloadInv ==
    ASSUME TargetInv, NEW S \in SUBSET Others, Unload(S)
    PROVE  TargetInv'
  <1> USE DEF TargetInv, Unload, memory
  <1>1. /\ loaded \in Seq(Images) /\ loaded' = Selected(loaded, Images \ S)
        /\ loaded' \in Seq(Images) /\ Range(loaded') = Range(loaded) \cap (Images \ S)
    BY SelectedSeq DEF TargetTypes
  <1>2. /\ change'.imgs = Selected(loaded, S) /\ change'.imgs \in Seq(Images) /\ change'.unload = TRUE
        /\ Range(change'.imgs) = Range(loaded) \cap S
    BY SelectedSeq DEF TargetTypes
  <1>3. TargetTypes'
    BY <1>1, <1>2 DEF TargetTypes
  <1>4. InMemory'
    <2>1. Range(Initial) \subseteq Range(loaded)
      BY DEF InMemory
    <2>2. Range(Initial) \subseteq Range(loaded')
      BY <1>1, <2>1, InitialImages
    <2> QED
      BY <1>1, <1>2, <2>2 DEF InMemory
  <1>5. Array' = Array
    BY DEF Array
  <1>6. Published'
    BY <1>5 DEF Published
  <1>7. Mirrored'
    BY DEF Mirrored, Steady
  <1>8. Uuids'
    <2>1. uuids = [array |-> NonCached, count |-> Len(NonCached) + 1]
      BY DEF Uuids, Steady
    <2>2. PICK x \in S : x \in Range(loaded) /\ x \notin InCache
      OBVIOUS
    <2>3. x \in Images
      BY <1>1, <2>2, RangeOfSeq
    <2>4. Len(NonCached') < Len(NonCached)
      BY <1>1, <2>2, <2>3, SelectedOfSelected DEF NonCached
    <2>5. Len(NonCached') \in Nat /\ Len(NonCached) \in Nat
      BY <1>1, SelectedSeq DEF NonCached
    <2> QED
      BY <2>1, <2>4, <2>5 DEF Uuids, Steady
  <1> QED
    BY <1>3, <1>4, <1>6, <1>7, <1>8

LEMMA UnmapInv ==
    ASSUME TargetInv, Unmap
    PROVE  TargetInv'
  <1> USE DEF TargetInv, Unmap, memory
  <1>1. TargetTypes'
    BY DEF TargetTypes, Steady, NoChange
  <1>2. InMemory'
    BY DEF InMemory, NoChange
  <1>3. Array' = Array /\ Wrong' = Wrong /\ NonCached' = NonCached
    BY DEF Array, Wrong, NonCached
  <1>4. Published'
    BY <1>3 DEF Published
  <1>5. Mirrored'
    BY <1>3 DEF Mirrored, Steady
  <1>6. Uuids'
    BY <1>3 DEF Uuids, Steady
  <1> QED
    BY <1>1, <1>2, <1>4, <1>5, <1>6

\* The entries of a new array are those of the old one, and junk.
LEMMA NewArray ==
    ASSUME TargetInv, NEW n \in Nat
    PROVE  [k \in 1..n |-> IF k <= infos.count THEN Array[k] ELSE Junk] \in Seq(Images \cup {Junk})
  <1>1. ASSUME NEW k \in 1..n, k <= infos.count
        PROVE  Array[k] \in Images \cup {Junk}
    <2>1. infos.count \in Nat /\ arrays # <<>>
      BY <1>1 DEF TargetInv, TargetTypes, Published
    <2>2. Array \in Seq(Images \cup {Junk}) /\ k \in 1..Len(Array)
      BY <1>1, <2>1 DEF TargetInv, TargetTypes, Published, Array, Last
    <2> QED
      BY <2>2, ElementOfSeq
  <1> QED
    BY <1>1

LEMMA MirrorBeginInv ==
    ASSUME TargetInv, MirrorBegin
    PROVE  TargetInv'
  <1> USE DEF TargetInv
  <1> DEFINE n   == Len(loaded)
             new == [k \in 1..(n + Slack) |-> IF k <= infos.count THEN Array[k] ELSE Junk]
             T   == Images \cup {Junk}
  <1>1. /\ n \in Nat /\ n # 0 /\ n + Slack \in Nat
        /\ infos.count \in Nat /\ arrays \in Seq(Seq(T))
    <2>1. Initial[1] \in Range(Initial)
      BY InfosAssumption DEF Range
    <2>2. Initial[1] \in Range(loaded)
      BY <2>1 DEF InMemory, MirrorBegin
    <2>3. loaded \in Seq(Images) /\ DOMAIN loaded # {}
      BY <2>2 DEF TargetTypes, Range
    <2>4. n \in Nat /\ n # 0
      BY <2>3
    <2> QED
      BY <2>4, InfosAssumption DEF TargetTypes
  <1>2. new \in Seq(T) /\ Len(new) = n + Slack
    <2>1. new \in Seq(T)
      BY <1>1, NewArray
    <2> QED
      BY <1>1, <2>1
  <1>3. /\ infos' = [infos EXCEPT !.array = 0]
        /\ UNCHANGED <<loaded, mapped, uuids, change, lists>> /\ pc = "mirror" /\ pc' = "fill"
        /\ \/ arrays' = arrays /\ arrays # <<>> /\ Len(Array) >= n
           \/ /\ arrays' = Append(arrays, new)
              /\ arrays # <<>> => Len(Array) < n
    <2>1. arrays # <<>> => Len(Array) \in Nat
      BY <1>1 DEF Array, Last
    <2> QED
      BY <1>1, <2>1, InfosAssumption DEF MirrorBegin, InUseMark
  <1> HIDE DEF new
  <1>4. arrays' \in Seq(Seq(T)) /\ arrays' # <<>> /\ n <= Len(Array') /\ infos.count <= Len(Array')
    <2>1. CASE arrays' = arrays /\ arrays # <<>> /\ Len(Array) >= n
      BY <1>1, <2>1 DEF Array, Last, Published
    <2>2. CASE arrays' = Append(arrays, new) /\ (arrays # <<>> => Len(Array) < n)
      <3>1. arrays' \in Seq(Seq(T)) /\ arrays' # <<>> /\ Array' = new
        BY <1>1, <1>2, <2>2, AppendProperties DEF Array, Last
      <3>2. infos.count <= n
        <4>1. CASE arrays = <<>>
          BY <1>1, <4>1 DEF Published
        <4>2. CASE arrays # <<>>
          <5>1. Len(Array) \in Nat
            BY <1>1, <4>2 DEF Array, Last
          <5> QED
            BY <1>1, <2>2, <4>2, <5>1 DEF Published
        <4> QED
          BY <4>1, <4>2
      <3> QED
        BY <1>1, <1>2, <3>1, <3>2, InfosAssumption
    <2> QED
      BY <1>3, <2>1, <2>2
  <1>5. infos'.array = 0 /\ infos'.count = infos.count /\ infos'.time = infos.time
    BY <1>3 DEF TargetTypes
  <1>6. TargetTypes'
    <2>1. 0 \in 0..Len(arrays')
      BY <1>4
    <2>2. infos \in [array : 0..Len(arrays), count : Nat, time : 0..Len(lists)] /\ lists' = lists
      BY <1>3 DEF TargetTypes
    <2>3. infos' \in [array : 0..Len(arrays'), count : Nat, time : 0..Len(lists')]
      BY <1>3, <2>1, <2>2
    <2> QED
      BY <1>3, <1>4, <2>3 DEF TargetTypes
  <1>7. InMemory'
    BY <1>3 DEF InMemory
  <1>8. Published'
    BY <1>4, <1>5 DEF Published
  <1>9. Mirrored'
    BY <1>3, <1>4, <1>5 DEF Mirrored, Steady
  <1>10. Uuids'
    BY <1>3 DEF Uuids, Steady, NonCached
  <1> QED
    BY <1>6, <1>7, <1>8, <1>9, <1>10

LEMMA MirrorFillInv ==
    ASSUME TargetInv, MirrorFill
    PROVE  TargetInv'
  <1> USE DEF TargetInv
  <1> DEFINE T == Images \cup {Junk}
  <1>1. PICK k \in DOMAIN loaded : arrays' = [arrays EXCEPT ![Len(arrays)][k] = loaded[k]]
    <2>1. Wrong \in SUBSET Nat /\ Wrong # {}
      BY DEF MirrorFill, Wrong, TargetTypes
    <2>2. Min(Wrong) \in Wrong
      BY <2>1, LeastPlace
    <2> QED
      BY <2>2 DEF MirrorFill, Wrong
  <1>2. /\ UNCHANGED <<loaded, mapped, infos, uuids, change, lists, pc>> /\ pc = "fill"
        /\ arrays \in Seq(Seq(T)) /\ arrays # <<>> /\ Len(loaded) <= Len(Array) /\ infos.array = 0
    BY DEF MirrorFill, TargetTypes, Mirrored
  <1>3. Array \in Seq(T) /\ k \in 1..Len(Array) /\ loaded[k] \in T
    BY <1>2 DEF Array, Last, TargetTypes
  <1>4. arrays' = [arrays EXCEPT ![Len(arrays)] = [Array EXCEPT ![k] = loaded[k]]]
    BY <1>1, <1>2 DEF Array, Last
  <1>5. [Array EXCEPT ![k] = loaded[k]] \in Seq(T) /\ Len([Array EXCEPT ![k] = loaded[k]]) = Len(Array)
    BY <1>3, ExceptSeq
  <1>6. /\ arrays' \in Seq(Seq(T)) /\ Len(arrays') = Len(arrays)
        /\ Array' = [Array EXCEPT ![k] = loaded[k]]
    <2>1. Len(arrays) \in 1..Len(arrays)
      BY <1>2
    <2>2. arrays' \in Seq(Seq(T)) /\ Len(arrays') = Len(arrays)
      BY <1>2, <1>4, <1>5, <2>1, ExceptSeq
    <2>3. arrays'[Len(arrays)] = [Array EXCEPT ![k] = loaded[k]]
      BY <1>2, <1>4, <2>1
    <2> QED
      BY <2>2, <2>3 DEF Array, Last
  <1>7. arrays' # <<>> /\ Len(Array') = Len(Array)
    BY <1>2, <1>5, <1>6
  <1>8. TargetTypes'
    BY <1>2, <1>6 DEF TargetTypes
  <1>9. InMemory'
    BY <1>2 DEF InMemory
  <1>10. Published'
    BY <1>2, <1>7 DEF Published
  <1>11. Mirrored'
    BY <1>2, <1>7 DEF Mirrored, Steady
  <1>12. Uuids'
    BY <1>2 DEF Uuids, Steady, NonCached
  <1> QED
    BY <1>8, <1>9, <1>10, <1>11, <1>12

LEMMA MirrorTimeInv ==
    ASSUME TargetInv, MirrorTime
    PROVE  TargetInv'
  <1> USE DEF TargetInv, MirrorTime
  <1>1. /\ lists' \in Seq(Seq(Images)) /\ Len(lists') = Len(lists) + 1 /\ lists'[Len(lists) + 1] = loaded
        /\ Len(lists) \in Nat /\ Len(loaded) \in Nat
    BY AppendProperties DEF TargetTypes
  <1>2. Array' = Array /\ Wrong' = Wrong /\ NonCached' = NonCached
    BY DEF Array, Wrong, NonCached
  <1>3. infos'.array = 0 /\ infos'.count = Len(loaded) /\ infos'.time = Len(lists')
    BY <1>1 DEF TargetTypes, Mirrored
  <1>4. TargetTypes'
    <2>1. Len(loaded) \in Nat /\ Len(lists) + 1 \in 0..Len(lists')
      BY <1>1
    <2>2. infos \in [array : 0..Len(arrays), count : Nat, time : 0..Len(lists)] /\ arrays' = arrays
      BY DEF TargetTypes
    <2>3. infos' \in [array : 0..Len(arrays'), count : Nat, time : 0..Len(lists')]
      BY <2>1, <2>2
    <2> QED
      BY <1>1, <2>3 DEF TargetTypes
  <1>5. InMemory'
    BY DEF InMemory
  <1>6. Published'
    BY <1>2, <1>3 DEF Published, Mirrored
  <1>7. Mirrored'
    BY <1>1, <1>2, <1>3 DEF Mirrored, Steady
  <1>8. Uuids'
    BY <1>2 DEF Uuids, Steady
  <1> QED
    BY <1>4, <1>5, <1>6, <1>7, <1>8

LEMMA MirrorArrayInv ==
    ASSUME TargetInv, MirrorArray
    PROVE  TargetInv'
  <1> USE DEF TargetInv, MirrorArray
  <1>1. Array' = Array /\ Wrong' = Wrong /\ NonCached' = NonCached
    BY DEF Array, Wrong, NonCached
  <1>2. /\ infos'.array = Len(arrays) /\ infos'.count = infos.count /\ infos'.time = infos.time
        /\ infos' \in [array : 0..Len(arrays'), count : Nat, time : 0..Len(lists')]
    <2>1. Len(arrays) \in 0..Len(arrays') /\ lists' = lists
      BY DEF TargetTypes
    <2>2. infos \in [array : 0..Len(arrays), count : Nat, time : 0..Len(lists)]
      BY DEF TargetTypes
    <2> QED
      BY <2>1, <2>2
  <1>3. Len(arrays) # 0
    BY DEF Mirrored, TargetTypes
  <1>4. SubSeq(Array, 1, Len(loaded)) = loaded
    <2>1. /\ Array \in Seq(Images \cup {Junk}) /\ Len(loaded) <= Len(Array)
          /\ \A k \in 1..Len(loaded) : Array[k] = loaded[k]
      BY <1>3 DEF Mirrored, TargetTypes, Array, Last, Wrong
    <2>2. loaded \in Seq(Images) /\ Len(loaded) \in Nat
      BY DEF TargetTypes
    <2>3. \A k \in 1..Len(loaded) : Array[k] \in Images
      BY <2>1, <2>2
    <2>4. /\ SubSeq(Array, 1, Len(loaded)) \in Seq(Images)
          /\ Len(SubSeq(Array, 1, Len(loaded))) = Len(loaded)
          /\ \A k \in 1..Len(loaded) : SubSeq(Array, 1, Len(loaded))[k] = Array[k]
      BY <2>2, <2>3, SubSeqProperties
    <2> QED
      BY <2>1, <2>2, <2>4, SeqEqual
  <1>5. TargetTypes'
    BY <1>2 DEF TargetTypes, Steady
  <1>6. InMemory'
    BY DEF InMemory
  <1>7. Published'
    BY <1>1, <1>2, <1>4 DEF Published, Mirrored
  <1>8. Mirrored'
    BY <1>1, <1>2, <1>3 DEF Mirrored, Steady
  <1>9. Uuids'
    BY <1>1 DEF Uuids, Steady, UuidsStale, TargetTypes
  <1> QED
    BY <1>5, <1>6, <1>7, <1>8, <1>9

LEMMA MirrorUuidsInv ==
    ASSUME TargetInv, MirrorUuids
    PROVE  TargetInv'
  <1> USE DEF TargetInv, MirrorUuids
  <1>1. Array' = Array /\ Wrong' = Wrong /\ NonCached' = NonCached
    BY DEF Array, Wrong, NonCached
  <1>2. NonCached \in Seq(Images)
    BY SelectedSeq DEF NonCached, TargetTypes
  <1>3. TargetTypes'
    BY <1>2 DEF TargetTypes, Steady
  <1>4. InMemory'
    BY DEF InMemory
  <1>5. Published'
    BY <1>1 DEF Published
  <1>6. Mirrored'
    BY <1>1 DEF Mirrored, Steady
  <1>7. Uuids'
    BY <1>1 DEF Uuids, Steady
  <1> QED
    BY <1>3, <1>4, <1>5, <1>6, <1>7

\* Every step of the process that changes its list keeps the invariant.
LEMMA TargetSteps ==
    ASSUME TargetInv, Target
    PROVE  TargetInv'
  <1>1. CASE Resume
    BY <1>1, NothingTouched DEF Resume, memory
  <1>2. CASE Launch
    BY <1>2, AddedInv, InitialImages DEF Launch, memory
  <1>3. CASE Mirror
    BY <1>3, MirrorBeginInv, MirrorFillInv, MirrorTimeInv, MirrorArrayInv, MirrorUuidsInv DEF Mirror
  <1>4. CASE Unmap
    BY <1>4, UnmapInv
  <1>5. CASE \E S \in Batches : Load(S)
    <2>1. PICK S \in Batches : Load(S)
      BY <1>5
    <2> QED
      BY <2>1, AddedInv, BatchImages DEF Load, memory
  <1>6. CASE \E S \in SUBSET Others : Unload(S)
    BY <1>6, UnloadInv
  <1> QED
    BY <1>1, <1>2, <1>3, <1>4, <1>5, <1>6 DEF Target

-----------------------------------------------------------------------------
(* The invariant of the monitors *)

Notices  == [kind : {"load", "unload"}, imgs : Seq(Images), time : Nat]
Messages == [kind : {"load", "unload", "no_senders"}, imgs : Seq(Images), time : Nat]
Blocks   == {"exit", "delete"}

MonitorTypes ==
    /\ alive \in BOOLEAN
    /\ names \subseteq Monitors /\ pending \subseteq names /\ registered \subseteq Monitors
    /\ msgs \in Seq(Notices)
    /\ mainPc \in {"no", "send", "wait", "done"}
    /\ mainPending \subseteq Monitors /\ mainIn \subseteq Monitors
    /\ port \in [Monitors -> {"none", "live", "dead"}]
    /\ inbox \in [Monitors -> Seq(Messages)]
    /\ source \in [Monitors -> {"none", "active", "cancelled", "gone"}]
    /\ connected \in [Monitors -> BOOLEAN]
    /\ retains \in [Monitors -> -1..MaxRetains]
    /\ queue \in [Monitors -> Seq(Blocks)]
    /\ deleted \in [Monitors -> BOOLEAN]
    /\ exits \in [Monitors -> Nat]
    /\ raced \in [Monitors -> BOOLEAN]

\* What a thread can be in the middle of.
ThreadWork == {<<>>, <<"connect">>, <<"create">>, <<"delete">>, <<"disconnect", "delete">>,
               <<"clear", "delete">>, <<"cancel", "delete">>, <<"exit", "delete">>}

\* What the queue can be in the middle of: an answer comes last, a release first.
Tasks   == {"block", "notify", "create", "disconnect", "clear", "cancel", "exit", "delete",
            "reply", "replyMain"}
Replies == {"reply", "replyMain"}
Leaving == Disconnecting \cup {"disconnect"}

QueueWork(w) ==
    /\ w \in Seq(Tasks)
    /\ \A k \in DOMAIN w :
          /\ w[k] \in Replies => k = Len(w)
          /\ w[k] \in Leaving => k = 1
          /\ w[k] = "delete" => k = 1 \/ (k = 2 /\ w[1] \in Leaving)
          /\ w[k] = "notify" => w[Len(w)] = "reply"

Answering(w)     == w # <<>> /\ w[Len(w)] = "reply"
AnsweringMain(w) == w # <<>> /\ w[Len(w)] = "replyMain"

Works(m) == work[m]["thread"] \in ThreadWork /\ QueueWork(work[m]["queue"])

Working ==
    /\ work \in [Monitors -> [Workers -> Seq(Tasks \cup {"connect"})]]
    /\ \A m \in Monitors : Works(m)

\* The life of a port and of the object that reads it.
Lives(m) ==
    /\ port[m] # "live" => /\ inbox[m] = <<>> /\ m \notin mainIn /\ source[m] # "active"
                           /\ ~Answering(work[m]["queue"]) /\ ~AnsweringMain(work[m]["queue"])
    /\ source[m] = "none" => /\ ~connected[m] /\ exits[m] = 0 /\ queue[m] = <<>> /\ retains[m] = -1
                             /\ ~deleted[m] /\ work[m]["queue"] = <<>>
                             /\ work[m]["thread"] \in {<<>>, <<"connect">>, <<"create">>}
    /\ port[m] = "none" => source[m] = "none"
    /\ work[m]["thread"] = <<"connect">> => port[m] = "live" /\ source[m] = "none"
    /\ connected[m] => source[m] = "active" /\ queue[m] = <<>> /\ exits[m] = 0 /\ ~deleted[m]
    /\ \A w \in Workers : Doing(m, w) \in {"cancel", "exit", "delete"} => ~connected[m]

Living == \A m \in Monitors : Lives(m)

\* The thread that changes the list waits exactly while there is one notice to answer ...
Holds(m) == inbox[m] # <<>> \/ Answering(work[m]["queue"])

Waiting ==
    /\ alive <=> pc # "exited"
    /\ pc \in {"send", "wait"} => msgs # <<>>
    /\ alive => \A m \in Monitors :
          /\ inbox[m] \in Seq(Notices) /\ Len(inbox[m]) <= 1
          /\ ~(inbox[m] # <<>> /\ Answering(work[m]["queue"]))
          /\ Holds(m) => pc = "wait"
          /\ \A n \in Monitors : Holds(m) /\ Holds(n) => m = n
    /\ pc = "wait" => \E m \in Monitors : Holds(m)

\* ... and the thread about to call main() while its message is not answered.
MainHolds(m) == m \in mainIn \/ AnsweringMain(work[m]["queue"])

MainWaiting ==
    alive => /\ \A m \in Monitors :
                  /\ ~(m \in mainIn /\ AnsweringMain(work[m]["queue"]))
                  /\ MainHolds(m) => mainPc = "wait"
                  /\ \A n \in Monitors : MainHolds(m) /\ MainHolds(n) => m = n
             /\ mainPc = "wait" => \E m \in Monitors : MainHolds(m)

\* The notifyExit block: called, or first on the queue, or a worker is about to put it
\* there, once the object is no longer connected.
OneExit(q) == q # <<>> /\ Head(q) = "exit" /\ "exit" \notin Range(Tail(q))

Halfway(m) == \E w \in Workers : Doing(m, w) \in {"cancel", "exit"}

ExitsOnce(m) ==
    ~raced[m] =>
       /\ ~(Doing(m, "thread") \in Disconnecting /\ Doing(m, "queue") \in Disconnecting)
       /\ \A w \in Workers : Doing(m, w) = "clear" => connected[m]
       /\ ~connected[m] /\ source[m] # "none" =>
             \/ /\ Halfway(m) /\ \A w \in Workers : Doing(m, w) # "delete"
                /\ exits[m] = 0 /\ queue[m] = <<>> /\ ~deleted[m]
             \/ ~Halfway(m) /\ exits[m] = 0 /\ OneExit(queue[m]) /\ ~deleted[m]
             \/ ~Halfway(m) /\ exits[m] = 1 /\ "exit" \notin Range(queue[m])

Exits == \A m \in Monitors : ExitsOnce(m)

MonitorInv == MonitorTypes /\ Working /\ Living /\ Waiting /\ MainWaiting /\ Exits

-----------------------------------------------------------------------------
(* What threads and queues are in the middle of *)

\* The answer stays the last thing to do when something is put before it ...
LEMMA Pushed ==
    ASSUME NEW w, QueueWork(w), w # <<>> => Head(w) \in {"block", "notify"},
           NEW s, s \in {<<"block">>, <<"create">>, <<"disconnect", "delete">>}
    PROVE  /\ QueueWork(s \o w) /\ s \o w # <<>> /\ Head(s \o w) = Head(s)
           /\ Answering(s \o w) <=> Answering(w)
           /\ AnsweringMain(s \o w) <=> AnsweringMain(w)
  <1>1. w \in Seq(Tasks) /\ Len(w) \in Nat /\ DOMAIN w = 1..Len(w)
    BY DEF QueueWork
  <1>2. /\ s \in Seq(Tasks) /\ Len(s) \in {1, 2} /\ Head(s) = s[1]
        /\ \A k \in 1..Len(s) : /\ s[k] \notin Replies /\ s[k] # "notify"
                                /\ s[k] \in Leaving => k = 1
                                /\ s[k] = "delete" => k = 2 /\ s[1] \in Leaving
    <2>1. CASE s = <<"block">>
      BY <2>1 DEF Tasks, Replies, Leaving, Disconnecting
    <2>2. CASE s = <<"create">>
      BY <2>2 DEF Tasks, Replies, Leaving, Disconnecting
    <2>3. CASE s = <<"disconnect", "delete">>
      <3>1. s \in Seq(Tasks) /\ Len(s) = 2 /\ Head(s) = s[1] /\ s[1] = "disconnect" /\ s[2] = "delete"
        BY <2>3 DEF Tasks
      <3> QED
        BY <3>1 DEF Replies, Leaving, Disconnecting
    <2> QED
      BY <2>1, <2>2, <2>3
  <1> DEFINE t == s \o w
  <1>3. /\ t \in Seq(Tasks) /\ Len(t) = Len(s) + Len(w)
        /\ \A k \in 1..Len(s) : t[k] = s[k]
        /\ \A k \in (Len(s) + 1)..(Len(s) + Len(w)) : t[k] = w[k - Len(s)]
    BY <1>1, <1>2, ConcatProperties
  <1> HIDE DEF t
  <1>4. DOMAIN t = 1..(Len(s) + Len(w)) /\ t # <<>> /\ Head(t) = t[1] /\ t[1] = s[1]
    BY <1>1, <1>2, <1>3
  <1>5. \A k \in DOMAIN w : w[k] \notin Leaving /\ w[k] # "delete"
    <2>1. w # <<>> => w[1] \in {"block", "notify"}
      BY <1>1
    <2>2. w # <<>> => w[1] \notin Leaving /\ w[1] # "delete"
      BY <2>1 DEF Leaving, Disconnecting
    <2> QED
      BY <1>1, <2>2 DEF QueueWork
  <1>6. w # <<>> => t[Len(t)] = w[Len(w)] /\ Len(w) # 0
    BY <1>1, <1>2, <1>3
  <1>7. w = <<>> => Len(t) = Len(s) /\ t[Len(t)] = s[Len(s)] /\ s[Len(s)] \notin Replies
    BY <1>1, <1>2, <1>3
  <1>8. ASSUME NEW k \in DOMAIN t
        PROVE  /\ t[k] \in Replies => k = Len(t)
               /\ t[k] \in Leaving => k = 1
               /\ t[k] = "delete" => k = 1 \/ (k = 2 /\ t[1] \in Leaving)
               /\ t[k] = "notify" => t[Len(t)] = "reply"
    <2>1. CASE k \in 1..Len(s)
      BY <1>2, <1>3, <1>4, <2>1
    <2>2. CASE k \in (Len(s) + 1)..(Len(s) + Len(w))
      <3>1. k - Len(s) \in DOMAIN w /\ t[k] = w[k - Len(s)] /\ w # <<>>
        BY <1>1, <1>2, <1>3, <2>2
      <3>2. k - Len(s) = Len(w) => k = Len(t)
        BY <1>1, <1>2, <1>3, <2>2
      <3> QED
        BY <1>5, <1>6, <3>1, <3>2 DEF QueueWork
    <2> QED
      BY <1>1, <1>2, <1>4, <2>1, <2>2
  <1>9. QueueWork(t)
    BY <1>3, <1>8 DEF QueueWork
  <1>10. (Answering(t) <=> Answering(w)) /\ (AnsweringMain(t) <=> AnsweringMain(w))
    BY <1>4, <1>6, <1>7 DEF Answering, AnsweringMain, Replies
  <1> QED
    BY <1>2, <1>4, <1>9, <1>10 DEF t

\* ... when what comes first is done ...
LEMMA Popped ==
    ASSUME NEW w, QueueWork(w), w # <<>>
    PROVE  /\ QueueWork(Tail(w)) /\ <<>> \o Tail(w) = Tail(w)
           /\ Head(w) \in Replies => Tail(w) = <<>>
           /\ Tail(w) # <<>> => /\ Head(Tail(w)) \notin Leaving
                                /\ Head(Tail(w)) = "delete" => Head(w) \in Leaving
           /\ Head(w) \notin Replies => /\ Answering(Tail(w)) <=> Answering(w)
                                        /\ AnsweringMain(Tail(w)) <=> AnsweringMain(w)
  <1>1. w \in Seq(Tasks) /\ Len(w) \in Nat /\ Len(w) # 0 /\ Head(w) = w[1] /\ DOMAIN w = 1..Len(w)
    BY DEF QueueWork
  <1> DEFINE t == Tail(w)
  <1>2. /\ t \in Seq(Tasks) /\ Len(t) = Len(w) - 1
        /\ \A k \in 1..Len(t) : t[k] = w[k + 1]
    BY <1>1, HeadTailProperties
  <1>3. <<>> \o t = t
    BY <1>2, ConcatEmptySeq
  <1> HIDE DEF t
  <1>4. DOMAIN t = 1..(Len(w) - 1) /\ (t = <<>> <=> Len(w) = 1)
    <2>1. DOMAIN t = 1..(Len(w) - 1)
      BY <1>1, <1>2
    <2>2. t = <<>> <=> Len(t) = 0
      BY <1>2, EmptySeq
    <2> QED
      BY <1>1, <1>2, <2>1, <2>2
  <1>5. t # <<>> => t[Len(t)] = w[Len(w)] /\ Head(t) = t[1] /\ t[1] = w[2] /\ 2 \in DOMAIN w
    BY <1>1, <1>2, <1>4
  <1>6. ASSUME NEW k \in DOMAIN t
        PROVE  /\ t[k] \in Replies => k = Len(t)
               /\ t[k] \notin Leaving
               /\ t[k] = "delete" => k = 1 /\ w[1] \in Leaving
               /\ t[k] = "notify" => t[Len(t)] = "reply"
    <2>1. k + 1 \in DOMAIN w /\ t[k] = w[k + 1] /\ k + 1 # 1 /\ t # <<>> /\ k \in Nat
      BY <1>1, <1>2, <1>4
    <2>2. (k + 1 = Len(w) => k = Len(t)) /\ (k + 1 = 2 => k = 1)
      BY <1>1, <1>2, <2>1
    <2> QED
      BY <1>5, <2>1, <2>2 DEF QueueWork
  <1>7. QueueWork(t)
    BY <1>2, <1>6 DEF QueueWork
  <1>8. Head(w) \in Replies => t = <<>>
    BY <1>1, <1>4 DEF QueueWork
  <1>9. t # <<>> => Head(t) \notin Leaving /\ (Head(t) = "delete" => Head(w) \in Leaving)
    <2>1. t # <<>> => 1 \in DOMAIN t
      BY <1>1, <1>4
    <2> QED
      BY <1>1, <1>5, <1>6, <2>1
  <1>10. Head(w) \notin Replies => /\ Answering(t) <=> Answering(w)
                                   /\ AnsweringMain(t) <=> AnsweringMain(w)
    BY <1>1, <1>4, <1>5 DEF Answering, AnsweringMain, Replies
  <1> QED
    BY <1>3, <1>7, <1>8, <1>9, <1>10 DEF t

\* ... and while disconnect() goes on.
LEMMA Replaced ==
    ASSUME NEW w, QueueWork(w), w # <<>>, Head(w) \in Leaving, NEW x \in Disconnecting
    PROVE  /\ QueueWork(<<x>> \o Tail(w)) /\ <<x>> \o Tail(w) # <<>> /\ Head(<<x>> \o Tail(w)) = x
           /\ Answering(<<x>> \o Tail(w)) <=> Answering(w)
           /\ AnsweringMain(<<x>> \o Tail(w)) <=> AnsweringMain(w)
  <1>1. w \in Seq(Tasks) /\ Len(w) \in Nat /\ Len(w) # 0 /\ w[1] \in Leaving /\ DOMAIN w = 1..Len(w)
    BY DEF QueueWork
  <1>2. x \in Tasks /\ x \in Leaving /\ x \notin Replies /\ x \notin {"delete", "notify", "reply", "replyMain"}
    BY DEF Tasks, Leaving, Disconnecting, Replies
  <1>3. w[1] \notin Replies /\ w[1] \notin {"reply", "replyMain"}
    BY <1>1 DEF Leaving, Disconnecting, Replies
  <1> DEFINE t == <<x>> \o Tail(w)
  <1>4. /\ Tail(w) \in Seq(Tasks) /\ Len(Tail(w)) = Len(w) - 1
        /\ \A k \in 1..Len(Tail(w)) : Tail(w)[k] = w[k + 1]
    BY <1>1, HeadTailProperties
  <1>5. <<x>> \in Seq(Tasks) /\ Len(<<x>>) = 1 /\ <<x>>[1] = x
    BY <1>2
  <1>6. /\ t \in Seq(Tasks) /\ Len(t) = Len(w) /\ t[1] = x
        /\ \A k \in 2..Len(w) : t[k] = w[k]
    <2>1. /\ t \in Seq(Tasks) /\ Len(t) = 1 + (Len(w) - 1)
          /\ \A k \in 1..(1 + (Len(w) - 1)) : t[k] = IF k <= 1 THEN <<x>>[k] ELSE Tail(w)[k - 1]
      BY <1>1, <1>4, <1>5, ConcatProperties
    <2>2. \A k \in 2..Len(w) : Tail(w)[k - 1] = w[k]
      BY <1>1, <1>4
    <2> QED
      BY <1>1, <1>5, <2>1, <2>2
  <1> HIDE DEF t
  <1>7. t # <<>> /\ Head(t) = x /\ DOMAIN t = 1..Len(w)
    BY <1>1, <1>6
  <1>8. ASSUME NEW k \in DOMAIN t
        PROVE  /\ t[k] \in Replies => k = Len(t)
               /\ t[k] \in Leaving => k = 1
               /\ t[k] = "delete" => k = 1 \/ (k = 2 /\ t[1] \in Leaving)
               /\ t[k] = "notify" => t[Len(t)] = "reply"
    <2>1. CASE k = 1
      BY <1>2, <1>6, <2>1
    <2>2. CASE k # 1
      <3>1. k \in 2..Len(w) /\ k \in DOMAIN w /\ t[k] = w[k] /\ Len(w) \in 2..Len(w)
        BY <1>1, <1>6, <1>7, <2>2
      <3>2. t[Len(t)] = w[Len(w)]
        BY <1>6, <3>1
      <3> QED
        BY <1>2, <1>6, <3>1, <3>2 DEF QueueWork
    <2> QED
      BY <2>1, <2>2
  <1>9. QueueWork(t)
    BY <1>6, <1>8 DEF QueueWork
  <1>10. (Answering(t) <=> Answering(w)) /\ (AnsweringMain(t) <=> AnsweringMain(w))
    <2>1. CASE Len(w) = 1
      BY <1>2, <1>3, <1>6, <1>7, <2>1 DEF Answering, AnsweringMain
    <2>2. CASE Len(w) # 1
      <3>1. t[Len(t)] = w[Len(w)]
        BY <1>1, <1>6, <2>2
      <3> QED
        BY <1>7, <3>1 DEF Answering, AnsweringMain
    <2> QED
      BY <2>1, <2>2
  <1> QED
    BY <1>7, <1>9, <1>10 DEF t

\* What the tasks of a thread leave to be done.
LEMMA Paired ==
    ASSUME NEW x \in Disconnecting
    PROVE  <<x>> \o <<"delete">> = <<x, "delete">>
  <1> DEFINE c == <<x>> \o <<"delete">>
             d == <<x, "delete">>
  <1>1. <<x>> \in Seq(Tasks) /\ <<"delete">> \in Seq(Tasks) /\ d \in Seq(Tasks)
    BY DEF Tasks, Disconnecting
  <1>2. Len(<<x>>) = 1 /\ Len(<<"delete">>) = 1 /\ Len(d) = 2 /\ d[1] = x /\ d[2] = "delete"
    OBVIOUS
  <1>3. c \in Seq(Tasks) /\ Len(c) = 2 /\ c[1] = x /\ c[2] = "delete"
    BY <1>1, <1>2, ConcatProperties
  <1> HIDE DEF c, d
  <1>4. \A k \in 1..Len(c) : c[k] = d[k]
    BY <1>2, <1>3
  <1>5. c = d
    BY <1>1, <1>2, <1>3, <1>4, SeqEqual
  <1> QED
    BY <1>5 DEF c, d

LEMMA ThreadGoesOn ==
    /\ <<"connect">> \o <<>> = <<"connect">> /\ <<"create">> \o <<>> = <<"create">>
    /\ <<"disconnect", "delete">> \o <<>> = <<"disconnect", "delete">>
    /\ <<>> \o Tail(<<"connect">>) = <<>> /\ <<>> \o Tail(<<"create">>) = <<>>
    /\ <<>> \o Tail(<<"delete">>) = <<>>
    /\ \A x : Tail(<<x, "delete">>) = <<"delete">> /\ <<>> \o Tail(<<x, "delete">>) = <<"delete">>
  <1>1. <<"connect">> \o <<>> = <<"connect">> /\ <<"create">> \o <<>> = <<"create">>
    OBVIOUS
  <1>2. <<"disconnect", "delete">> \o <<>> = <<"disconnect", "delete">>
    OBVIOUS
  <1>3. <<>> \o Tail(<<"connect">>) = <<>> /\ <<>> \o Tail(<<"create">>) = <<>>
    OBVIOUS
  <1>4. <<>> \o Tail(<<"delete">>) = <<>>
    OBVIOUS
  <1>5. \A x : Tail(<<x, "delete">>) = <<"delete">>
    OBVIOUS
  <1>6. <<>> \o <<"delete">> = <<"delete">>
    OBVIOUS
  <1> QED
    BY <1>1, <1>2, <1>3, <1>4, <1>5, <1>6

\* What the queue begins with.
LEMMA QueueBegins ==
    /\ QueueWork(<<>>) /\ QueueWork(<<"disconnect">>)
    /\ QueueWork(<<"notify", "reply">>) /\ Answering(<<"notify", "reply">>) /\ ~AnsweringMain(<<"notify", "reply">>)
    /\ QueueWork(<<"block", "replyMain">>) /\ AnsweringMain(<<"block", "replyMain">>)
    /\ ~Answering(<<"block", "replyMain">>)
    /\ ~Answering(<<>>) /\ ~AnsweringMain(<<>>)
    /\ ~Answering(<<"disconnect">>) /\ ~AnsweringMain(<<"disconnect">>)
  <1>1. QueueWork(<<>>)
    BY DEF QueueWork
  <1>2. QueueWork(<<"disconnect">>)
    BY DEF QueueWork, Tasks, Replies, Leaving, Disconnecting
  <1>3. QueueWork(<<"notify", "reply">>)
    BY DEF QueueWork, Tasks, Replies, Leaving, Disconnecting
  <1>4. QueueWork(<<"block", "replyMain">>)
    BY DEF QueueWork, Tasks, Replies, Leaving, Disconnecting
  <1>5. /\ Answering(<<"notify", "reply">>) /\ ~AnsweringMain(<<"notify", "reply">>)
        /\ AnsweringMain(<<"block", "replyMain">>) /\ ~Answering(<<"block", "replyMain">>)
    BY DEF Answering, AnsweringMain
  <1>6. /\ ~Answering(<<>>) /\ ~AnsweringMain(<<>>)
        /\ ~Answering(<<"disconnect">>) /\ ~AnsweringMain(<<"disconnect">>)
    BY DEF Answering, AnsweringMain
  <1> QED
    BY <1>1, <1>2, <1>3, <1>4, <1>5, <1>6

\* Where a thread or a queue is says what it still has to do.
LEMMA ThreadAt ==
    ASSUME NEW m \in Monitors, Works(m)
    PROVE  /\ Doing(m, "thread") = "idle" => work[m]["thread"] = <<>>
           /\ Doing(m, "thread") = "connect" => work[m]["thread"] = <<"connect">>
           /\ Doing(m, "thread") = "create" => work[m]["thread"] = <<"create">>
           /\ Doing(m, "thread") = "delete" => work[m]["thread"] = <<"delete">>
           /\ Doing(m, "thread") \in Leaving => work[m]["thread"] = <<Doing(m, "thread"), "delete">>
           /\ Doing(m, "thread") \notin {"block", "notify", "reply", "replyMain"}
  BY DEF Works, ThreadWork, Doing, Leaving, Disconnecting

LEMMA QueueAt ==
    ASSUME NEW m \in Monitors, Works(m)
    PROVE  /\ Doing(m, "queue") = "idle" => work[m]["queue"] = <<>>
           /\ Doing(m, "queue") # "idle" => /\ work[m]["queue"] # <<>>
                                            /\ Head(work[m]["queue"]) = Doing(m, "queue")
           /\ Doing(m, "queue") = "reply" => Answering(work[m]["queue"])
           /\ Doing(m, "queue") = "replyMain" => AnsweringMain(work[m]["queue"])
           /\ Doing(m, "queue") # "connect"
  <1> DEFINE q == work[m]["queue"]
  <1>1. QueueWork(q)
    BY DEF Works
  <1> HIDE DEF q
  <1>2. ASSUME q # <<>>
        PROVE  /\ Head(q) \in Tasks /\ Head(q) = q[1]
               /\ Head(q) \in Replies => Head(q) = q[Len(q)]
    <2>1. q \in Seq(Tasks) /\ 1 \in DOMAIN q /\ Head(q) = q[1] /\ q[1] \in Tasks
      BY <1>1, <1>2 DEF QueueWork
    <2>2. q[1] \in Replies => Len(q) = 1
      BY <1>1, <2>1 DEF QueueWork
    <2> QED
      BY <2>1, <2>2
  <1>3. Doing(m, "queue") = IF q = <<>> THEN "idle" ELSE Head(q)
    BY DEF Doing, q
  <1>4. "idle" \notin Tasks /\ "connect" \notin Tasks
    BY DEF Tasks
  <1> QED
    BY <1>2, <1>3, <1>4 DEF q, Answering, AnsweringMain, Replies

\* The work of one thread or queue is changed, and no other.
LEMMA OneWorks ==
    ASSUME Working, NEW m \in Monitors, NEW w \in Workers, NEW s,
           work' = [work EXCEPT ![m][w] = s]
    PROVE  /\ work'[m][w] = s
           /\ \A v \in Workers : v # w => work'[m][v] = work[m][v]
           /\ \A n \in Monitors : n # m => work'[n] = work[n]
           /\ s \in Seq(Tasks \cup {"connect"}) =>
                 work' \in [Monitors -> [Workers -> Seq(Tasks \cup {"connect"})]]
  BY DEF Working

LEMMA WorkIsSeq ==
    /\ \A w \in ThreadWork : w \in Seq(Tasks \cup {"connect"})
    /\ \A w : QueueWork(w) => w \in Seq(Tasks \cup {"connect"})
  <1>1. Seq(Tasks) \subseteq Seq(Tasks \cup {"connect"})
    BY SeqMonotonic
  <1>2. /\ <<>> \in Seq(Tasks \cup {"connect"}) /\ <<"connect">> \in Seq(Tasks \cup {"connect"})
        /\ <<"create">> \in Seq(Tasks \cup {"connect"}) /\ <<"delete">> \in Seq(Tasks \cup {"connect"})
        /\ <<"disconnect", "delete">> \in Seq(Tasks \cup {"connect"})
        /\ <<"clear", "delete">> \in Seq(Tasks \cup {"connect"})
        /\ <<"cancel", "delete">> \in Seq(Tasks \cup {"connect"})
        /\ <<"exit", "delete">> \in Seq(Tasks \cup {"connect"})
    BY DEF Tasks
  <1>3. \A w \in ThreadWork : w \in Seq(Tasks \cup {"connect"})
    BY <1>2 DEF ThreadWork
  <1> QED
    BY <1>1, <1>3 DEF QueueWork


\* A task is done.
Stays(m, w) ==
    /\ work' \in [Monitors -> [Workers -> Seq(Tasks \cup {"connect"})]]
    /\ \A v \in Workers : v # w => work'[m][v] = work[m][v]
    /\ \A n \in Monitors : n # m => work'[n] = work[n]
    /\ Works(m)'
    /\ Answering(work'[m]["queue"]) <=> Answering(work[m]["queue"])
    /\ AnsweringMain(work'[m]["queue"]) <=> AnsweringMain(work[m]["queue"])

LEMMA TaskDone ==
    ASSUME Working, NEW m \in Monitors, NEW w \in Workers, Do(m, w, <<>>),
           Doing(m, w) \in {"connect", "create", "delete", "disconnect", "exit", "block", "notify"}
    PROVE  /\ Stays(m, w) /\ work[m][w] # <<>>
           /\ Doing(m, w)' \notin Leaving
           /\ Doing(m, w)' = "delete" => Doing(m, w) \in Leaving
           /\ w = "thread" => work'[m]["thread"] \in {<<>>, <<"delete">>}
  <1>1. Works(m) /\ work'[m][w] = <<>> \o Tail(work[m][w]) /\ work[m][w] # <<>>
    BY OneWorks DEF Working, Do, Doing
  <1>2. work' = [work EXCEPT ![m][w] = work'[m][w]]
    BY <1>1 DEF Do, Working
  <1>5. /\ \A v \in Workers : v # w => work'[m][v] = work[m][v]
        /\ \A n \in Monitors : n # m => work'[n] = work[n]
        /\ work'[m][w] \in Seq(Tasks \cup {"connect"}) =>
              work' \in [Monitors -> [Workers -> Seq(Tasks \cup {"connect"})]]
    <2> DEFINE t == <<>> \o Tail(work[m][w])
    <2>1. work' = [work EXCEPT ![m][w] = t] /\ work'[m][w] = t
      BY <1>1 DEF Do
    <2> HIDE DEF t
    <2> QED
      BY <2>1, OneWorks
  <1>3. CASE w = "thread"
    <2>1. /\ work'[m]["thread"] \in {<<>>, <<"delete">>}
          /\ work'[m]["thread"] # <<>> => Doing(m, w) \in Leaving
      <3>1. CASE Doing(m, w) \in Leaving
        <4>1. work[m]["thread"] = <<Doing(m, w), "delete">>
          BY <1>1, <1>3, <3>1, ThreadAt
        <4> QED
          BY <1>1, <1>3, <3>1, <4>1, ThreadGoesOn
      <3>2. CASE Doing(m, w) \notin Leaving
        <4>1. Doing(m, w) \in {"connect", "create", "delete"}
          BY <1>1, <1>3, <3>2, ThreadAt DEF Leaving, Disconnecting
        <4> QED
          BY <1>1, <1>3, <4>1, ThreadAt, ThreadGoesOn
      <3> QED
        BY <3>1, <3>2
    <2>2. work'[m]["queue"] = work[m]["queue"]
      BY <1>2, <1>3, OneWorks DEF Workers
    <2>3. Works(m)' /\ work'[m][w] \in Seq(Tasks \cup {"connect"})
      BY <1>1, <1>3, <2>1, <2>2, WorkIsSeq DEF Works, ThreadWork
    <2>4. Doing(m, w)' \notin Leaving /\ (Doing(m, w)' = "delete" => Doing(m, w) \in Leaving)
      <3>1. Doing(m, w)' \in {"idle", "delete"} /\ (Doing(m, w)' = "delete" => work'[m]["thread"] # <<>>)
        BY <1>3, <2>1 DEF Doing
      <3> QED
        BY <2>1, <3>1 DEF Leaving, Disconnecting
    <2> QED
      BY <1>1, <1>5, <1>3, <2>1, <2>2, <2>3, <2>4 DEF Stays
  <1>4. CASE w = "queue"
    <2> DEFINE q == work[m]["queue"]
    <2>1. work'[m]["thread"] = work[m]["thread"]
      BY <1>2, <1>4, OneWorks DEF Workers
    <2>2. QueueWork(q) /\ q # <<>> /\ Head(q) = Doing(m, w) /\ Head(q) \notin Replies
      BY <1>1, <1>4, QueueAt DEF Works, Replies
    <2> HIDE DEF q
    <2>3. /\ QueueWork(Tail(q)) /\ <<>> \o Tail(q) = Tail(q)
          /\ Tail(q) # <<>> => /\ Head(Tail(q)) \notin Leaving
                               /\ Head(Tail(q)) = "delete" => Head(q) \in Leaving
          /\ Answering(Tail(q)) <=> Answering(q)
          /\ AnsweringMain(Tail(q)) <=> AnsweringMain(q)
      BY <2>2, Popped
    <2>4. work'[m]["queue"] = Tail(q)
      BY <1>1, <1>4, <2>3 DEF q
    <2>5. Works(m)' /\ work'[m][w] \in Seq(Tasks \cup {"connect"})
      BY <1>1, <1>4, <2>1, <2>3, <2>4, WorkIsSeq DEF Works
    <2>6. Doing(m, w)' \notin Leaving /\ (Doing(m, w)' = "delete" => Doing(m, w) \in Leaving)
      <3>1. Doing(m, w)' = IF Tail(q) = <<>> THEN "idle" ELSE Head(Tail(q))
        BY <1>4, <2>4 DEF Doing
      <3>2. "idle" \notin Leaving
        BY DEF Leaving, Disconnecting
      <3> QED
        BY <2>2, <2>3, <3>1, <3>2
    <2>7. /\ Answering(work'[m]["queue"]) <=> Answering(work[m]["queue"])
          /\ AnsweringMain(work'[m]["queue"]) <=> AnsweringMain(work[m]["queue"])
      BY <2>3, <2>4 DEF q
    <2> QED
      BY <1>1, <1>5, <1>4, <2>5, <2>6, <2>7 DEF Stays
  <1> QED
    BY <1>3, <1>4 DEF Workers

\* A call is begun on a thread that is idle, or in a block on the queue, or the queue
\* calls a block.
LEMMA CallBegun ==
    ASSUME Working, NEW m \in Monitors, NEW w \in Workers, NEW s, Start(m, w, s),
           \/ w = "thread" /\ Doing(m, w) = "idle"
              /\ s \in {<<"connect">>, <<"create">>, <<"disconnect", "delete">>}
           \/ w = "queue" /\ Doing(m, w) \in {"idle", "block", "notify"}
              /\ s \in {<<"block">>, <<"create">>, <<"disconnect", "delete">>}
    PROVE  /\ Stays(m, w) /\ Doing(m, w)' = Head(s)
           /\ w = "thread" => work'[m]["thread"] = s
  <1>1. Works(m) /\ work'[m][w] = s \o work[m][w]
    BY OneWorks DEF Working, Start
  <1>2. work' = [work EXCEPT ![m][w] = work'[m][w]]
    BY <1>1 DEF Start, Working
  <1>5. /\ \A v \in Workers : v # w => work'[m][v] = work[m][v]
        /\ \A n \in Monitors : n # m => work'[n] = work[n]
        /\ work'[m][w] \in Seq(Tasks \cup {"connect"}) =>
              work' \in [Monitors -> [Workers -> Seq(Tasks \cup {"connect"})]]
    <2> DEFINE t == s \o work[m][w]
    <2>1. work' = [work EXCEPT ![m][w] = t] /\ work'[m][w] = t
      BY <1>1 DEF Start
    <2> HIDE DEF t
    <2> QED
      BY <2>1, OneWorks
  <1>3. CASE w = "thread"
    <2>1. work'[m]["thread"] = s /\ s \in ThreadWork /\ s # <<>>
      <3>1. s \in {<<"connect">>, <<"create">>, <<"disconnect", "delete">>} /\ work[m]["thread"] = <<>>
        BY <1>1, <1>3, ThreadAt
      <3>2. s \o <<>> = s
        BY <3>1, ThreadGoesOn
      <3>3. s \in ThreadWork
        BY <3>1, Zenon DEF ThreadWork
      <3>4. s # <<>>
        BY <3>1
      <3> QED
        BY <1>1, <1>3, <3>1, <3>2, <3>3, <3>4
    <2>2. work'[m]["queue"] = work[m]["queue"]
      BY <1>2, <1>3, OneWorks DEF Workers
    <2>3. Works(m)' /\ work'[m][w] \in Seq(Tasks \cup {"connect"})
      BY <1>1, <1>3, <2>1, <2>2, WorkIsSeq DEF Works
    <2>4. Doing(m, w)' = Head(s)
      BY <1>3, <2>1 DEF Doing
    <2> QED
      BY <1>1, <1>5, <1>3, <2>1, <2>2, <2>3, <2>4 DEF Stays
  <1>4. CASE w = "queue"
    <2> DEFINE q == work[m]["queue"]
    <2>1. work'[m]["thread"] = work[m]["thread"]
      BY <1>2, <1>4, OneWorks DEF Workers
    <2>2. QueueWork(q) /\ (q # <<>> => Head(q) \in {"block", "notify"})
      BY <1>1, <1>4, QueueAt DEF Works, Doing
    <2>3. s \in {<<"block">>, <<"create">>, <<"disconnect", "delete">>}
      BY <1>4
    <2> HIDE DEF q
    <2>4. /\ QueueWork(s \o q) /\ s \o q # <<>> /\ Head(s \o q) = Head(s)
          /\ Answering(s \o q) <=> Answering(q)
          /\ AnsweringMain(s \o q) <=> AnsweringMain(q)
      BY <2>2, <2>3, Pushed
    <2>5. work'[m]["queue"] = s \o q
      BY <1>1, <1>4 DEF q
    <2>6. Works(m)' /\ work'[m][w] \in Seq(Tasks \cup {"connect"})
      BY <1>1, <1>4, <2>1, <2>4, <2>5, WorkIsSeq DEF Works
    <2>7. Doing(m, w)' = Head(s)
      BY <1>4, <2>4, <2>5 DEF Doing
    <2>8. /\ Answering(work'[m]["queue"]) <=> Answering(work[m]["queue"])
          /\ AnsweringMain(work'[m]["queue"]) <=> AnsweringMain(work[m]["queue"])
      BY <2>4, <2>5 DEF q
    <2> QED
      BY <1>1, <1>5, <1>4, <2>6, <2>7, <2>8 DEF Stays
  <1> QED
    BY <1>3, <1>4 DEF Workers

\* disconnect() goes on.
LEMMA GoesOn ==
    ASSUME Working, NEW m \in Monitors, NEW w \in Workers, NEW x \in Disconnecting, Do(m, w, <<x>>),
           Doing(m, w) \in Leaving
    PROVE  /\ Stays(m, w) /\ Doing(m, w)' = x /\ work[m][w] # <<>>
           /\ w = "thread" => work'[m]["thread"] = <<x, "delete">>
  <1>1. Works(m) /\ work'[m][w] = <<x>> \o Tail(work[m][w]) /\ work[m][w] # <<>>
    <2>1. "idle" \notin Leaving
      BY DEF Leaving, Disconnecting
    <2> QED
      BY <2>1, OneWorks DEF Working, Do, Doing
  <1>2. work' = [work EXCEPT ![m][w] = work'[m][w]]
    BY <1>1 DEF Do, Working
  <1>5. /\ \A v \in Workers : v # w => work'[m][v] = work[m][v]
        /\ \A n \in Monitors : n # m => work'[n] = work[n]
        /\ work'[m][w] \in Seq(Tasks \cup {"connect"}) =>
              work' \in [Monitors -> [Workers -> Seq(Tasks \cup {"connect"})]]
    <2> DEFINE t == <<x>> \o Tail(work[m][w])
    <2>1. work' = [work EXCEPT ![m][w] = t] /\ work'[m][w] = t
      BY <1>1 DEF Do
    <2> HIDE DEF t
    <2> QED
      BY <2>1, OneWorks
  <1>3. CASE w = "thread"
    <2>1. work'[m]["thread"] = <<x, "delete">>
      <3>1. work[m]["thread"] = <<Doing(m, "thread"), "delete">>
        BY <1>1, <1>3, ThreadAt
      <3>2. Tail(work[m]["thread"]) = <<"delete">>
        BY <3>1, ThreadGoesOn
      <3> QED
        BY <1>1, <1>3, <3>2, Paired
    <2>2. work'[m]["queue"] = work[m]["queue"]
      BY <1>2, <1>3, OneWorks DEF Workers
    <2>3. Works(m)' /\ work'[m][w] \in Seq(Tasks \cup {"connect"})
      <3>1. <<x, "delete">> \in ThreadWork
        BY DEF ThreadWork, Disconnecting
      <3> QED
        BY <1>1, <1>3, <2>1, <2>2, <3>1, WorkIsSeq DEF Works
    <2>4. Doing(m, w)' = x
      BY <1>3, <2>1 DEF Doing
    <2> QED
      BY <1>1, <1>5, <1>3, <2>1, <2>2, <2>3, <2>4 DEF Stays
  <1>4. CASE w = "queue"
    <2> DEFINE q == work[m]["queue"]
    <2>1. work'[m]["thread"] = work[m]["thread"]
      BY <1>2, <1>4, OneWorks DEF Workers
    <2>2. QueueWork(q) /\ q # <<>> /\ Head(q) \in Leaving
      BY <1>1, <1>4 DEF Works, Doing
    <2> HIDE DEF q
    <2>3. /\ QueueWork(<<x>> \o Tail(q)) /\ <<x>> \o Tail(q) # <<>> /\ Head(<<x>> \o Tail(q)) = x
          /\ Answering(<<x>> \o Tail(q)) <=> Answering(q)
          /\ AnsweringMain(<<x>> \o Tail(q)) <=> AnsweringMain(q)
      BY <2>2, Replaced
    <2>4. work'[m]["queue"] = <<x>> \o Tail(q)
      BY <1>1, <1>4 DEF q
    <2>5. Works(m)' /\ work'[m][w] \in Seq(Tasks \cup {"connect"})
      BY <1>1, <1>4, <2>1, <2>3, <2>4, WorkIsSeq DEF Works
    <2>6. Doing(m, w)' = x
      BY <1>4, <2>3, <2>4 DEF Doing
    <2>7. /\ Answering(work'[m]["queue"]) <=> Answering(work[m]["queue"])
          /\ AnsweringMain(work'[m]["queue"]) <=> AnsweringMain(work[m]["queue"])
      BY <2>3, <2>4 DEF q
    <2> QED
      BY <1>1, <1>5, <1>4, <2>5, <2>6, <2>7 DEF Stays
  <1> QED
    BY <1>3, <1>4 DEF Workers

-----------------------------------------------------------------------------
(* Frames: what a step leaves alone *)

SameMonitor(m) ==
    /\ work'[m] = work[m] /\ port'[m] = port[m] /\ inbox'[m] = inbox[m] /\ source'[m] = source[m]
    /\ connected'[m] = connected[m] /\ retains'[m] = retains[m] /\ queue'[m] = queue[m]
    /\ deleted'[m] = deleted[m] /\ exits'[m] = exits[m] /\ raced'[m] = raced[m]
    /\ m \in mainIn' <=> m \in mainIn

LEMMA SameMonitorKept ==
    ASSUME NEW m \in Monitors, SameMonitor(m)
    PROVE  /\ Works(m) => Works(m)'
           /\ Lives(m) => Lives(m)'
           /\ ExitsOnce(m) => ExitsOnce(m)'
  <1>1. Works(m) => Works(m)'
    BY DEF SameMonitor, Works
  <1>2. \A w : Doing(m, w)' = Doing(m, w)
    BY DEF SameMonitor, Doing
  <1>3. Lives(m) => Lives(m)'
    BY <1>2 DEF SameMonitor, Lives
  <1>4. ExitsOnce(m) => ExitsOnce(m)'
    BY <1>2 DEF SameMonitor, ExitsOnce, Halfway
  <1> QED
    BY <1>1, <1>3, <1>4

\* A step of one monitor.
LEMMA OneMonitor ==
    ASSUME MonitorInv, NEW m \in Monitors,
           \A n \in Monitors : n # m => SameMonitor(n),
           work' \in [Monitors -> [Workers -> Seq(Tasks \cup {"connect"})]],
           Works(m)', Lives(m)', ExitsOnce(m)'
    PROVE  Working' /\ Living' /\ Exits'
  <1>1. \A n \in Monitors : n # m => Works(n)' /\ Lives(n)' /\ ExitsOnce(n)'
    BY SameMonitorKept DEF MonitorInv, Working, Living, Exits
  <1> QED
    BY <1>1 DEF Working, Living, Exits

\* A step of no monitor.
LEMMA NoMonitor ==
    ASSUME MonitorInv,
           UNCHANGED <<work, port, inbox, mainIn, source, connected, retains, queue, deleted, exits, raced>>
    PROVE  Working' /\ Living' /\ Exits'
  <1>1. \A n \in Monitors : SameMonitor(n)
    BY DEF SameMonitor
  <1>2. \A n \in Monitors : Works(n)' /\ Lives(n)' /\ ExitsOnce(n)'
    BY <1>1, SameMonitorKept DEF MonitorInv, Working, Living, Exits
  <1> QED
    BY <1>2 DEF Working, Living, Exits, MonitorInv

\* What there is to answer stays what it is ...
LEMMA WaitingKept ==
    ASSUME Waiting, UNCHANGED <<alive, pc, msgs, inbox>>,
           \A m \in Monitors : Answering(work'[m]["queue"]) <=> Answering(work[m]["queue"])
    PROVE  Waiting'
  <1>1. \A m \in Monitors : Holds(m)' <=> Holds(m)
    BY DEF Holds
  <1> QED
    BY <1>1 DEF Waiting

LEMMA MainWaitingKept ==
    ASSUME MainWaiting, UNCHANGED <<alive, mainPc, mainIn>>,
           \A m \in Monitors : AnsweringMain(work'[m]["queue"]) <=> AnsweringMain(work[m]["queue"])
    PROVE  MainWaiting'
  <1>1. \A m \in Monitors : MainHolds(m)' <=> MainHolds(m)
    BY DEF MainHolds
  <1> QED
    BY <1>1 DEF MainWaiting

\* ... and there is nothing to answer while the process does not wait.
LEMMA NoneHolds ==
    ASSUME Waiting, alive, alive', pc # "wait", pc' \notin {"wait", "exited"},
           pc' = "send" => msgs' # <<>>,
           UNCHANGED inbox,
           \A m \in Monitors : Answering(work'[m]["queue"]) <=> Answering(work[m]["queue"])
    PROVE  Waiting'
  <1>1. \A m \in Monitors : Holds(m)' <=> Holds(m)
    BY DEF Holds
  <1>2. \A m \in Monitors : ~Holds(m)
    BY DEF Waiting
  <1> QED
    BY <1>1, <1>2 DEF Waiting

\* Whoever has something to answer is known by what is counted.
LEMMA RepliesDue ==
    ASSUME NEW w, QueueWork(w)
    PROVE  /\ "reply" \in Range(w) <=> Answering(w)
           /\ "replyMain" \in Range(w) <=> AnsweringMain(w)
  <1>1. w \in Seq(Tasks) /\ \A k \in DOMAIN w : w[k] \in Replies => k = Len(w)
    BY DEF QueueWork
  <1>2. w # <<>> => Len(w) \in DOMAIN w
    BY <1>1
  <1>3. \A x \in Replies : x \in Range(w) <=> w # <<>> /\ w[Len(w)] = x
    BY <1>1, <1>2 DEF Range
  <1> QED
    BY <1>3 DEF Answering, AnsweringMain, Replies

LEMMA HoldsUnanswered ==
    ASSUME MonitorInv, alive, NEW m \in Monitors
    PROVE  /\ Unanswered(m) = IF Holds(m) THEN 1 ELSE 0
           /\ UnansweredMain(m) = IF MainHolds(m) THEN 1 ELSE 0
  <1>1. /\ QueueWork(work[m]["queue"]) /\ inbox[m] \in Seq(Notices) /\ Len(inbox[m]) <= 1
        /\ ~(inbox[m] # <<>> /\ Answering(work[m]["queue"]))
        /\ ~(m \in mainIn /\ AnsweringMain(work[m]["queue"]))
    BY DEF MonitorInv, Working, Works, Waiting, MainWaiting
  <1>2. /\ "reply" \in Range(work[m]["queue"]) <=> Answering(work[m]["queue"])
        /\ "replyMain" \in Range(work[m]["queue"]) <=> AnsweringMain(work[m]["queue"])
    BY <1>1, RepliesDue
  <1>3. Len(inbox[m]) \in Nat /\ (inbox[m] = <<>> <=> Len(inbox[m]) = 0)
    BY <1>1, LenProperties, EmptySeq
  <1>4. Len(inbox[m]) = IF inbox[m] = <<>> THEN 0 ELSE 1
    BY <1>1, <1>3
  <1>5. Unanswered(m) = IF Holds(m) THEN 1 ELSE 0
    BY <1>1, <1>2, <1>4 DEF Unanswered, Holds
  <1>6. UnansweredMain(m) = IF MainHolds(m) THEN 1 ELSE 0
    BY <1>1, <1>2 DEF UnansweredMain, MainHolds
  <1> QED
    BY <1>5, <1>6


-----------------------------------------------------------------------------
(* Steps of the monitored process *)

\* The thread that changes the list waits for no one while it does.
LEMMA TargetPc ==
    ASSUME TargetInv, Target
    PROVE  \/ pc' = pc
           \/ pc \notin {"wait", "exited"} /\ pc' \notin {"send", "wait", "exited"}
  BY DEF Target, Resume, Launch, Mirror, MirrorBegin, MirrorFill, MirrorTime, MirrorArray, MirrorUuids,
         Unmap, Load, Unload

LEMMA TargetMonitor ==
    ASSUME TargetInv, MonitorInv, Target, alive, UNCHANGED <<alive, call, sendVars, mainVars, monitorVars>>
    PROVE  MonitorInv'
  <1> USE DEF sendVars, mainVars, monitorVars, objectVars
  <1>1. MonitorTypes'
    BY DEF MonitorInv, MonitorTypes
  <1>2. Working' /\ Living' /\ Exits'
    BY NoMonitor
  <1>3. Waiting'
    <2>1. CASE pc' = pc
      BY <2>1, WaitingKept DEF MonitorInv
    <2>2. CASE pc' # pc
      BY <2>2, TargetPc, NoneHolds DEF MonitorInv
    <2> QED
      BY <2>1, <2>2
  <1>4. MainWaiting'
    BY MainWaitingKept DEF MonitorInv
  <1> QED
    BY <1>1, <1>2, <1>3, <1>4 DEF MonitorInv

\* Messages about the change under way.
LEMMA MessageTypes ==
    ASSUME TargetInv
    PROVE  Message("load", change.imgs) \in Notices /\ Message("unload", change.imgs) \in Notices
  BY DEF TargetInv, TargetTypes, Message, Notices

LEMMA NotifyStep ==
    ASSUME TargetInv, MonitorInv, NotifyMonitors
    PROVE  TargetInv' /\ MonitorInv'
  <1> USE DEF monitorVars, objectVars, mainVars
  <1>1. PICK msg \in Notices : GetPorts(<<msg>>)
    BY MessageTypes DEF NotifyMonitors
  <1>2. /\ names' = registered /\ pending' = registered /\ msgs' \in Seq(Notices)
        /\ pc' \in {"send", "unmap", "idle"} /\ (pc' = "unmap" => change.unload)
        /\ pc' = "send" => msgs' # <<>>
    BY <1>1 DEF GetPorts, AfterNotices
  <1>3. /\ pc = "notify"
        /\ UNCHANGED <<loaded, mapped, suspended, memory, change, changes, lists, alive, call,
                       mainVars, monitorVars>>
    BY DEF NotifyMonitors
  <1>4. TargetInv'
    BY <1>2, <1>3, NothingTouched DEF Steady
  <1>5. MonitorTypes'
    BY <1>2, <1>3 DEF MonitorInv, MonitorTypes
  <1>6. Working' /\ Living' /\ Exits'
    BY <1>3, NoMonitor
  <1>7. Waiting'
    <2>1. alive
      BY <1>3 DEF MonitorInv, Waiting
    <2> QED
      BY <1>2, <1>3, <2>1, NoneHolds DEF MonitorInv
  <1>8. MainWaiting'
    BY <1>3, MainWaitingKept DEF MonitorInv
  <1> QED
    BY <1>4, <1>5, <1>6, <1>7, <1>8 DEF MonitorInv

\* Messages are cut in two, and done with.
LEMMA SplitTypes ==
    ASSUME NEW s \in Seq(Images)
    PROVE  SubSeq(s, 1, Len(s) \div 2) \in Seq(Images) /\ SecondHalf(s) \in Seq(Images)
  <1>1. Len(s) \in Nat /\ Len(s) \div 2 \in Nat /\ Len(s) \div 2 <= Len(s)
    OBVIOUS
  <1>2. \A k \in 1..(Len(s) \div 2) : s[k] \in Images
    BY <1>1
  <1>3. \A k \in (Len(s) \div 2 + 1)..Len(s) : s[k] \in Images
    BY <1>1
  <1> QED
    BY <1>1, <1>2, <1>3, SubSeqProperties DEF SecondHalf

LEMMA SendingStep ==
    ASSUME TargetInv, MonitorInv, Split \/ NextMessage
    PROVE  TargetInv' /\ MonitorInv'
  <1> USE DEF monitorVars, objectVars, sendVars, mainVars
  <1>1. /\ msgs \in Seq(Notices) /\ msgs # <<>> /\ pc = "send" /\ alive
        /\ Head(msgs) \in Notices /\ Tail(msgs) \in Seq(Notices)
    BY HeadTailProperties DEF MonitorInv, MonitorTypes, Waiting, Split, NextMessage
  <1>2. /\ msgs' \in Seq(Notices) /\ names' \subseteq Monitors /\ pending' \subseteq names'
        /\ pc' \in {"send", "unmap", "idle"} /\ (pc' = "unmap" => change.unload)
        /\ pc' = "send" => msgs' # <<>>
    <2>1. CASE Split
      <3> DEFINE m == Head(msgs)
                 a == [m EXCEPT !.imgs = SubSeq(@, 1, Len(@) \div 2)]
                 b == [m EXCEPT !.imgs = SecondHalf(@)]
      <3>1. m.imgs \in Seq(Images)
        BY <1>1 DEF Notices
      <3>2. a \in Notices /\ b \in Notices
        BY <1>1, <3>1, SplitTypes DEF Notices
      <3>3. msgs' = <<a, b>> \o Tail(msgs) /\ pc' = "send" /\ UNCHANGED <<names, pending>>
        BY <1>1, <2>1 DEF Split, targetVars
      <3> HIDE DEF a, b
      <3>4. <<a, b>> \in Seq(Notices) /\ Len(<<a, b>>) = 2
        BY <3>2
      <3>5. msgs' \in Seq(Notices) /\ Len(msgs') = 2 + Len(Tail(msgs))
        BY <1>1, <3>3, <3>4, ConcatProperties
      <3> QED
        BY <1>1, <3>3, <3>5 DEF MonitorInv, MonitorTypes
    <2>2. CASE NextMessage
      BY <1>1, <2>2 DEF NextMessage, AfterNotices, MonitorInv, MonitorTypes
    <2> QED
      BY <2>1, <2>2
  <1>3. UNCHANGED <<loaded, mapped, memory, change, lists, alive, mainVars, monitorVars>>
    BY DEF Split, NextMessage, targetVars
  <1>4. TargetInv'
    BY <1>1, <1>2, <1>3, NothingTouched DEF Steady
  <1>5. MonitorTypes'
    BY <1>2, <1>3 DEF MonitorInv, MonitorTypes
  <1>6. Working' /\ Living' /\ Exits'
    BY <1>3, NoMonitor
  <1>7. Waiting'
    BY <1>1, <1>2, <1>3, NoneHolds DEF MonitorInv
  <1>8. MainWaiting'
    BY <1>3, MainWaitingKept DEF MonitorInv
  <1> QED
    BY <1>4, <1>5, <1>6, <1>7, <1>8 DEF MonitorInv

\* Messages arrive only in ports that are there.
LEMMA InboxesOnly ==
    ASSUME MonitorInv, UNCHANGED <<work, port, source, connected, retains, queue, deleted, exits, raced>>,
           \A n \in Monitors : port[n] # "live" => /\ inbox'[n] = inbox[n]
                                                   /\ n \in mainIn' <=> n \in mainIn
    PROVE  Working' /\ Living' /\ Exits'
  <1>1. \A n \in Monitors : Works(n)'
    BY DEF MonitorInv, Working, Works
  <1>2. \A n \in Monitors : \A w : Doing(n, w)' = Doing(n, w)
    BY DEF Doing
  <1>3. \A n \in Monitors : Lives(n)'
    BY <1>2 DEF MonitorInv, Living, Lives
  <1>4. \A n \in Monitors : ExitsOnce(n)'
    BY <1>2 DEF MonitorInv, Exits, ExitsOnce, Halfway
  <1> QED
    BY <1>1, <1>3, <1>4 DEF Working, Living, Exits, MonitorInv

LEMMA SendStep ==
    ASSUME TargetInv, MonitorInv, NEW m \in Monitors, Send(m)
    PROVE  TargetInv' /\ MonitorInv'
  <1> USE DEF objectVars, mainVars
  <1>1. /\ msgs \in Seq(Notices) /\ msgs # <<>> /\ pc = "send" /\ alive /\ alive' = alive
        /\ Head(msgs) \in Notices /\ msgs' = msgs /\ work' = work
        /\ UNCHANGED <<mainPc, mainPending, mainIn>>
    BY HeadTailProperties DEF MonitorInv, MonitorTypes, Waiting, Send
  <1>2. \A n \in Monitors : inbox[n] = <<>> /\ ~Answering(work[n]["queue"])
    BY <1>1 DEF MonitorInv, Waiting, Holds
  <1>3. MainWaiting'
    BY <1>1, MainWaitingKept DEF MonitorInv
  <1>4. CASE port[m] = "live"
    <2>1. /\ inbox' = [inbox EXCEPT ![m] = Append(@, Head(msgs))] /\ pc' = "wait" /\ names' = names
          /\ pending' = pending \ {m}
          /\ UNCHANGED <<loaded, mapped, memory, change, lists, registered, port, source, connected, retains,
                         queue, deleted, exits, raced>>
      BY <1>4 DEF Send
    <2>2. TargetInv'
      BY <1>1, <2>1, NothingTouched DEF Steady
    <2>3. inbox \in [Monitors -> Seq(Messages)] /\ inbox[m] = <<>>
      BY <1>2 DEF MonitorInv, MonitorTypes
    <2>4. Append(<<>>, Head(msgs)) = <<Head(msgs)>>
      OBVIOUS
    <2>5. Notices \subseteq Messages
      BY DEF Notices, Messages
    <2>6. <<Head(msgs)>> \in Seq(Notices) /\ <<Head(msgs)>> \in Seq(Messages) /\ Len(<<Head(msgs)>>) = 1
          /\ <<Head(msgs)>> # <<>>
      BY <1>1, <2>5
    <2>7. /\ inbox' \in [Monitors -> Seq(Messages)] /\ inbox'[m] = <<Head(msgs)>>
          /\ \A n \in Monitors : n # m => inbox'[n] = <<>>
      BY <1>2, <2>1, <2>3, <2>4, <2>6
    <2>8. MonitorTypes'
      BY <1>1, <2>1, <2>7 DEF MonitorInv, MonitorTypes
    <2>9. Working' /\ Living' /\ Exits'
      BY <1>1, <1>2, <1>4, <2>1, <2>7, InboxesOnly
    <2>10. \A n \in Monitors : Holds(n)' <=> n = m
      BY <1>1, <1>2, <2>6, <2>7 DEF Holds
    <2>11. \A n \in Monitors : inbox'[n] \in Seq(Notices) /\ Len(inbox'[n]) <= 1
      <3> SUFFICES ASSUME NEW n \in Monitors
                   PROVE  inbox'[n] \in Seq(Notices) /\ Len(inbox'[n]) <= 1
        OBVIOUS
      <3>1. CASE n = m
        <4>1. inbox'[n] = <<Head(msgs)>>
          BY <2>7, <3>1
        <4>2. inbox'[n] \in Seq(Notices) /\ Len(inbox'[n]) = 1
          BY <2>6, <4>1, Zenon
        <4> QED
          BY <4>2
      <3>2. CASE n # m
        <4>1. inbox'[n] = <<>>
          BY <2>7, <3>2
        <4> QED
          BY <4>1
      <3> QED
        BY <3>1, <3>2
    <2>12. Waiting'
      BY <1>1, <1>2, <2>1, <2>10, <2>11 DEF Waiting
    <2> QED
      BY <1>3, <2>2, <2>8, <2>9, <2>12 DEF MonitorInv
  <1>5. CASE port[m] # "live"
    <2>1. /\ UNCHANGED <<inbox, pc, loaded, mapped, memory, change, lists, registered, port, source, connected,
                         retains, queue, deleted, exits, raced>>
          /\ names' = names \ {m} /\ pending' = pending \ {m}
      BY <1>5 DEF Send
    <2>2. TargetInv'
      BY <2>1, NothingTouched
    <2>3. MonitorTypes'
      BY <1>1, <2>1 DEF MonitorInv, MonitorTypes
    <2>4. Working' /\ Living' /\ Exits'
      BY <1>1, <2>1, NoMonitor
    <2>5. Waiting'
      BY <1>1, <2>1, WaitingKept DEF MonitorInv
    <2> QED
      BY <1>3, <2>2, <2>3, <2>4, <2>5 DEF MonitorInv
  <1> QED
    BY <1>4, <1>5

\* The thread that is about to call main() has no message out while it does not wait.
LEMMA NoneHoldsMain ==
    ASSUME MainWaiting, alive, mainPc # "wait", mainPc' # "wait", UNCHANGED <<alive, mainIn>>,
           \A m \in Monitors : AnsweringMain(work'[m]["queue"]) <=> AnsweringMain(work[m]["queue"])
    PROVE  MainWaiting'
  <1>1. \A m \in Monitors : MainHolds(m)' <=> MainHolds(m)
    BY DEF MainHolds
  <1>2. \A m \in Monitors : ~MainHolds(m)
    BY DEF MainWaiting
  <1> QED
    BY <1>1, <1>2 DEF MainWaiting

LEMMA MainStep ==
    ASSUME TargetInv, MonitorInv, NotifyMain \/ MainNext
    PROVE  TargetInv' /\ MonitorInv'
  <1> USE DEF targetVars, monitorVars, objectVars, sendVars
  <1>1. /\ UNCHANGED <<targetVars, alive, sendVars, mainIn, monitorVars>>
        /\ mainPc \in {"no", "send"} /\ mainPc' \in {"send", "done"}
        /\ mainPending' \in {mainPending, registered}
    BY DEF NotifyMain, MainNext
  <1>2. TargetInv'
    BY <1>1, NothingTouched
  <1>3. MonitorTypes'
    BY <1>1 DEF MonitorInv, MonitorTypes
  <1>4. Working' /\ Living' /\ Exits'
    BY <1>1, NoMonitor
  <1>5. Waiting'
    BY <1>1, WaitingKept DEF MonitorInv
  <1>6. MainWaiting'
    <2>1. CASE alive
      BY <1>1, <2>1, NoneHoldsMain DEF MonitorInv
    <2>2. CASE ~alive
      BY <1>1, <2>2 DEF MainWaiting
    <2> QED
      BY <2>1, <2>2
  <1> QED
    BY <1>2, <1>3, <1>4, <1>5, <1>6 DEF MonitorInv

LEMMA SendMainStep ==
    ASSUME TargetInv, MonitorInv, NEW m \in Monitors, SendMain(m)
    PROVE  TargetInv' /\ MonitorInv'
  <1> USE DEF targetVars, monitorVars, objectVars, sendVars
  <1>1. /\ UNCHANGED <<targetVars, alive, sendVars, monitorVars>>
        /\ mainPc = "send" /\ mainPending' = mainPending \ {m}
        /\ port[m] = "live" => mainIn' = mainIn \cup {m} /\ mainPc' = "wait"
        /\ port[m] # "live" => UNCHANGED <<mainIn, mainPc>>
    BY DEF SendMain
  <1>2. TargetInv'
    BY <1>1, NothingTouched
  <1>3. MonitorTypes'
    BY <1>1 DEF MonitorInv, MonitorTypes
  <1>4. Working' /\ Living' /\ Exits'
    BY <1>1, InboxesOnly
  <1>5. Waiting'
    BY <1>1, WaitingKept DEF MonitorInv
  <1>6. MainWaiting'
    <2>1. CASE port[m] # "live"
      BY <1>1, <2>1, MainWaitingKept DEF MonitorInv
    <2>2. CASE port[m] = "live"
      <3> SUFFICES ASSUME alive PROVE MainWaiting'
        BY <1>1 DEF MainWaiting
      <3>1. \A n \in Monitors : ~MainHolds(n)
        BY <1>1 DEF MonitorInv, MainWaiting
      <3>2. \A n \in Monitors : /\ MainHolds(n)' <=> n = m
                                /\ ~AnsweringMain(work'[n]["queue"])
        BY <1>1, <2>2, <3>1 DEF MainHolds
      <3> QED
        BY <1>1, <2>2, <3>2 DEF MainWaiting
    <2> QED
      BY <2>1, <2>2
  <1> QED
    BY <1>2, <1>3, <1>4, <1>5, <1>6 DEF MonitorInv

LEMMA ExitStep ==
    ASSUME MonitorInv, Exit
    PROVE  TargetInv' /\ MonitorInv'
  <1> USE DEF objectVars
  <1> DEFINE gone == [NoMessage EXCEPT !.kind = "no_senders"]
  <1>1. TargetInv'
    BY TargetGoneInv DEF Exit
  <1>2. gone \in Messages
    <2>1. <<>> \in Seq(Images)
      OBVIOUS
    <2>2. gone = [kind |-> "no_senders", imgs |-> <<>>, time |-> 0]
      BY DEF NoMessage
    <2>3. [kind |-> "no_senders", imgs |-> <<>>, time |-> 0] \in Messages
      BY <2>1 DEF Messages
    <2> QED
      BY <2>2, <2>3
  <1>3. /\ inbox' = [m \in Monitors |-> IF m \in registered \cup names /\ port[m] = "live"
                                        THEN Append(inbox[m], gone) ELSE inbox[m]]
        /\ UNCHANGED <<work, mainIn, port, source, connected, retains, queue, deleted, exits, raced>>
        /\ registered' = {} /\ names' = {} /\ pending' = {} /\ msgs' = <<>>
        /\ mainPc' = "done" /\ mainPending' = {}
        /\ alive' = FALSE /\ pc' = "exited"
    BY DEF Exit, TargetGone
  <1> HIDE DEF gone
  <1>4. inbox' \in [Monitors -> Seq(Messages)]
    <2>1. \A m \in Monitors : inbox[m] \in Seq(Messages) /\ Append(inbox[m], gone) \in Seq(Messages)
      BY <1>2, AppendProperties DEF MonitorInv, MonitorTypes
    <2> QED
      BY <1>3, <2>1
  <1>5. MonitorTypes'
    <2>1. msgs' \in Seq(Notices)
      BY <1>3
    <2> QED
      BY <1>3, <1>4, <2>1 DEF MonitorInv, MonitorTypes
  <1>6. Working' /\ Living' /\ Exits'
    BY <1>3, InboxesOnly
  <1>7. Waiting' /\ MainWaiting'
    BY <1>3 DEF Waiting, MainWaiting
  <1> QED
    BY <1>1, <1>5, <1>6, <1>7 DEF MonitorInv

-----------------------------------------------------------------------------
(* Steps of a monitor that change nothing of the process *)

\* The process, the ports and what is in them.
outside == <<targetVars, alive, names, pending, msgs, mainPc, mainPending, mainIn, registered, port, inbox>>

\* The frame of a step of m alone, in which what there is to answer stays.
LEMMA OwnStep ==
    ASSUME TargetInv, MonitorInv, NEW m \in Monitors, NEW w \in Workers, Stays(m, w),
           UNCHANGED <<targetVars, alive, msgs, mainPc, mainIn, inbox>>,
           \A n \in Monitors : n # m => SameMonitor(n),
           MonitorTypes', Lives(m)', ExitsOnce(m)'
    PROVE  TargetInv' /\ MonitorInv'
  <1>1. TargetInv'
    BY NothingTouched DEF targetVars
  <1>2. Working' /\ Living' /\ Exits'
    BY OneMonitor DEF Stays
  <1>3. \A n \in Monitors : /\ Answering(work'[n]["queue"]) <=> Answering(work[n]["queue"])
                            /\ AnsweringMain(work'[n]["queue"]) <=> AnsweringMain(work[n]["queue"])
    BY DEF Stays
  <1>4. Waiting'
    BY <1>3, WaitingKept DEF MonitorInv, targetVars
  <1>5. MainWaiting'
    BY <1>3, MainWaitingKept DEF MonitorInv
  <1> QED
    BY <1>1, <1>2, <1>4, <1>5 DEF MonitorInv

\* Where one worker of m is says nothing of the other.
LEMMA OtherWorker ==
    ASSUME NEW m \in Monitors, NEW w \in Workers, Stays(m, w)
    PROVE  /\ \A v \in Workers : v # w => work'[m][v] = work[m][v] /\ Doing(m, v)' = Doing(m, v)
           /\ w = "thread" => work'[m]["queue"] = work[m]["queue"] /\ Doing(m, "queue")' = Doing(m, "queue")
           /\ w = "queue" => work'[m]["thread"] = work[m]["thread"] /\ Doing(m, "thread")' = Doing(m, "thread")
  BY DEF Stays, Doing, Workers

\* Nothing but reading the list is done before there is an object.
LEMMA ObjectThere ==
    ASSUME MonitorInv, NEW m \in Monitors, NEW w \in Workers,
           \/ Doing(m, w) \in Leaving \cup {"delete", "block", "notify", "reply", "replyMain"}
           \/ queue[m] # <<>> \/ retains[m] # -1 \/ source[m] # "none"
    PROVE  source[m] # "none" /\ port[m] # "none" /\ work[m]["thread"] # <<"connect">>
  <1>1. Lives(m)
    BY DEF MonitorInv, Living
  <1>2. source[m] # "none"
    <2> SUFFICES ASSUME source[m] = "none" PROVE FALSE
      OBVIOUS
    <2>1. /\ work[m]["queue"] = <<>> /\ work[m]["thread"] \in {<<>>, <<"connect">>, <<"create">>}
          /\ queue[m] = <<>> /\ retains[m] = -1
      BY <1>1 DEF Lives
    <2>2. Doing(m, w) \in {"idle", "connect", "create"}
      BY <2>1 DEF Doing, Workers
    <2> QED
      BY <2>1, <2>2 DEF Leaving, Disconnecting
  <1> QED
    BY <1>1, <1>2 DEF Lives

\* The object lives on in a step of m.
LEMMA LivesOn ==
    ASSUME MonitorInv, NEW m \in Monitors, NEW w \in Workers, Stays(m, w),
           source[m] # "none", source'[m] # "none",
           UNCHANGED <<port, inbox, mainIn>>,
           port[m] # "live" => source'[m] # "active",
           connected'[m] => connected[m] /\ source'[m] = source[m] /\ queue'[m] = queue[m]
                            /\ exits'[m] = exits[m] /\ deleted'[m] = deleted[m],
           Doing(m, w)' \in {"cancel", "exit", "delete"} => ~connected'[m],
           w = "thread" => work'[m]["thread"] # <<"connect">>
    PROVE  Lives(m)'
  <1>1. Lives(m) /\ port[m] # "none" /\ work[m]["thread"] # <<"connect">>
    BY ObjectThere DEF MonitorInv, Living
  <1>2. \A v \in Workers : Doing(m, v)' \in {"cancel", "exit", "delete"} => ~connected'[m]
    BY <1>1, OtherWorker DEF Lives
  <1>3. work'[m]["thread"] # <<"connect">>
    BY <1>1, OtherWorker DEF Workers
  <1> QED
    BY <1>1, <1>2, <1>3 DEF Lives, Stays

LEMMA RegisterStep ==
    ASSUME TargetInv, MonitorInv, NEW m \in Monitors, Register(m)
    PROVE  TargetInv' /\ MonitorInv'
  <1> USE DEF objectVars, sendVars, mainVars
  <1>1. /\ Doing(m, "thread") = "idle" /\ port[m] = "none" /\ port' = [port EXCEPT ![m] = "live"]
        /\ registered' = registered \cup {m} /\ Start(m, "thread", <<"connect">>)
        /\ UNCHANGED <<targetVars, alive, names, pending, msgs, mainPc, mainPending, mainIn, inbox, source,
                       connected, retains, queue, deleted, exits, raced>>
    BY DEF Register, MayCall
  <1>2. /\ Stays(m, "thread") /\ Doing(m, "thread")' = "connect"
        /\ work'[m]["thread"] = <<"connect">>
    BY <1>1, CallBegun DEF MonitorInv, Workers
  <1>3. port' \in [Monitors -> {"none", "live", "dead"}] /\ port'[m] = "live"
        /\ \A n \in Monitors : n # m => port'[n] = port[n]
    BY <1>1 DEF MonitorInv, MonitorTypes
  <1>4. MonitorTypes'
    BY <1>1, <1>3 DEF MonitorInv, MonitorTypes
  <1>5. \A n \in Monitors : n # m => SameMonitor(n)
    BY <1>1, <1>2, <1>3 DEF SameMonitor, Stays
  <1>6. Doing(m, "queue")' = Doing(m, "queue") /\ work'[m]["queue"] = work[m]["queue"]
    BY <1>2, OtherWorker DEF Workers
  <1>7. Lives(m)'
    <2>1. Lives(m) /\ source[m] = "none"
      BY <1>1 DEF MonitorInv, Living, Lives
    <2> QED
      BY <1>1, <1>2, <1>3, <1>6, <2>1 DEF Lives, Workers
  <1>8. ExitsOnce(m)'
    <2>1. ExitsOnce(m) /\ source[m] = "none" /\ source'[m] = "none" /\ work[m]["queue"] = <<>>
      BY <1>1 DEF MonitorInv, Exits, Living, Lives
    <2>2. \A v \in Workers : Doing(m, v)' \in {"idle", "connect"}
      BY <1>2, <1>6, <2>1 DEF Workers, Doing
    <2> QED
      BY <2>1, <2>2 DEF ExitsOnce, Workers, Disconnecting
  <1> QED
    BY <1>1, <1>2, <1>4, <1>5, <1>7, <1>8, OwnStep DEF Workers

LEMMA ConnectStep ==
    ASSUME TargetInv, MonitorInv, NEW m \in Monitors, Connect(m)
    PROVE  TargetInv' /\ MonitorInv'
  <1> USE DEF sendVars, mainVars
  <1>1. /\ Doing(m, "thread") = "connect" /\ Do(m, "thread", <<>>)
        /\ source' = [source EXCEPT ![m] = "active"] /\ connected' = [connected EXCEPT ![m] = TRUE]
        /\ retains' = [retains EXCEPT ![m] = 0]
        /\ UNCHANGED <<outside, queue, deleted, exits, raced>>
    BY DEF Connect, outside
  <1> USE DEF outside
  <1>2. Stays(m, "thread") /\ Doing(m, "thread")' = "idle" /\ work'[m]["thread"] = <<>>
    <2>1. /\ Stays(m, "thread") /\ work'[m]["thread"] \in {<<>>, <<"delete">>}
          /\ Doing(m, "thread")' = "delete" => "connect" \in Leaving
      BY <1>1, TaskDone DEF MonitorInv, Workers
    <2>2. "connect" \notin Leaving
      BY DEF Leaving, Disconnecting
    <2> QED
      BY <2>1, <2>2 DEF Doing
  <1>3. /\ MonitorTypes' /\ source'[m] = "active" /\ connected'[m] = TRUE
    BY <1>1, MonitorsAssumption DEF MonitorInv, MonitorTypes
  <1>4. \A n \in Monitors : n # m => SameMonitor(n)
    BY <1>1, <1>2 DEF SameMonitor, Stays, MonitorInv, MonitorTypes
  <1>5. /\ Lives(m) /\ port[m] = "live" /\ source[m] = "none" /\ exits[m] = 0 /\ queue[m] = <<>>
        /\ work[m]["queue"] = <<>> /\ ~deleted[m]
    BY <1>1, ThreadAt DEF MonitorInv, Living, Lives, Working
  <1>6. work'[m]["queue"] = <<>> /\ \A v \in Workers : Doing(m, v)' = "idle"
    BY <1>2, <1>5, OtherWorker DEF Workers, Doing
  <1>7. Lives(m)'
    BY <1>1, <1>2, <1>3, <1>5, <1>6 DEF Lives
  <1>8. ExitsOnce(m)'
    BY <1>3, <1>6 DEF ExitsOnce, Workers, Disconnecting
  <1> QED
    BY <1>1, <1>2, <1>3, <1>4, <1>7, <1>8, OwnStep DEF Workers

\* A step that only changes what a worker of m does, out of disconnect() and release().
LEMMA WorkStep ==
    ASSUME TargetInv, MonitorInv, NEW m \in Monitors, NEW w \in Workers, Stays(m, w),
           UNCHANGED <<outside, source, connected, queue, deleted, exits, raced>>,
           retains' \in [Monitors -> -1..MaxRetains],
           \A n \in Monitors : n # m => retains'[n] = retains[n],
           source[m] = "none" => retains'[m] = -1,
           Doing(m, w) \notin Disconnecting, Doing(m, w)' \notin Disconnecting \cup {"delete"},
           w = "queue" => work[m]["queue"] # <<>>,
           w = "thread" => /\ work'[m]["thread"] # <<"connect">>
                           /\ source[m] = "none" => work'[m]["thread"] \in {<<>>, <<"create">>}
    PROVE  TargetInv' /\ MonitorInv'
  <1> USE DEF outside
  <1>1. MonitorTypes'
    BY DEF MonitorInv, MonitorTypes
  <1>2. \A n \in Monitors : n # m => SameMonitor(n)
    BY DEF SameMonitor, Stays
  <1>3. Doing(m, w)' \notin {"cancel", "exit", "delete"}
    BY DEF Disconnecting
  <1>4. Lives(m)'
    <2>1. CASE source[m] # "none"
      <3>1. port[m] # "live" => source[m] # "active"
        BY DEF MonitorInv, Living, Lives
      <3> QED
        BY <1>3, <2>1, <3>1, LivesOn
    <2>2. CASE source[m] = "none"
      <3>1. Lives(m) /\ w = "thread" /\ work'[m]["queue"] = work[m]["queue"] /\ ~connected[m]
        BY <2>2, OtherWorker DEF MonitorInv, Living, Lives, Workers
      <3> QED
        BY <2>2, <3>1 DEF Lives, Workers
    <2> QED
      BY <2>1, <2>2
  <1>5. ExitsOnce(m)'
    <2>1. \A v \in Workers : \/ Doing(m, v)' = Doing(m, v)
                             \/ /\ Doing(m, v)' \notin Disconnecting \cup {"delete"}
                                /\ Doing(m, v) \notin Disconnecting
      BY OtherWorker
    <2>2. \A v \in Workers : /\ Doing(m, v)' \in Disconnecting <=> Doing(m, v) \in Disconnecting
                             /\ Doing(m, v)' = "clear" => Doing(m, v) = "clear"
                             /\ Doing(m, v)' = "delete" => Doing(m, v) = "delete"
                             /\ Doing(m, v)' \in {"cancel", "exit"} <=> Doing(m, v) \in {"cancel", "exit"}
      BY <2>1 DEF Disconnecting
    <2>3. Halfway(m)' <=> Halfway(m)
      BY <2>2 DEF Halfway
    <2> QED
      BY <2>2, <2>3 DEF MonitorInv, Exits, ExitsOnce, Workers
  <1> QED
    BY <1>1, <1>2, <1>4, <1>5, OwnStep

LEMMA MayCallMeans ==
    ASSUME NEW m \in Monitors, NEW w \in Workers, MayCall(m, w)
    PROVE  /\ \/ w = "thread" /\ Doing(m, w) = "idle"
              \/ w = "queue" /\ Doing(m, w) = "block" /\ work[m]["queue"] # <<>>
           /\ Doing(m, w) \notin Disconnecting \cup {"delete"}
  BY DEF MayCall, Workers, Doing, Disconnecting

LEMMA RetainStep ==
    ASSUME TargetInv, MonitorInv, NEW m \in Monitors, NEW w \in Workers, Retain(m, w)
    PROVE  TargetInv' /\ MonitorInv'
  <1> USE DEF sendVars, mainVars, outside
  <1>1. /\ MayCall(m, w) /\ retains[m] \in 0..(MaxRetains - 1) /\ retains' = [retains EXCEPT ![m] = @ + 1]
        /\ UNCHANGED <<outside, source, connected, queue, deleted, exits, raced, work>>
    BY DEF Retain
  <1>2. /\ retains' \in [Monitors -> -1..MaxRetains]
        /\ \A n \in Monitors : n # m => retains'[n] = retains[n]
    BY <1>1, MonitorsAssumption DEF MonitorInv, MonitorTypes
  <1>3. Stays(m, w) /\ Doing(m, w)' = Doing(m, w)
    BY <1>1 DEF Stays, MonitorInv, Working, Works, Doing
  <1>4. source[m] # "none" /\ work[m]["thread"] # <<"connect">>
    BY <1>1, ObjectThere
  <1> QED
    BY <1>1, <1>2, <1>3, <1>4, MayCallMeans, WorkStep

LEMMA ReleaseStep ==
    ASSUME TargetInv, MonitorInv, NEW m \in Monitors, NEW w \in Workers, Release(m, w)
    PROVE  TargetInv' /\ MonitorInv'
  <1> USE DEF sendVars, mainVars, outside
  <1>1. /\ MayCall(m, w) /\ retains[m] >= 0 /\ retains' = [retains EXCEPT ![m] = @ - 1]
        /\ IF retains[m] = 0 THEN Start(m, w, <<"disconnect", "delete">>) ELSE UNCHANGED work
        /\ UNCHANGED <<outside, source, connected, queue, deleted, exits, raced>>
    BY DEF Release
  <1>2. /\ retains' \in [Monitors -> -1..MaxRetains]
        /\ \A n \in Monitors : n # m => retains'[n] = retains[n]
    BY <1>1, MonitorsAssumption DEF MonitorInv, MonitorTypes
  <1>3. source[m] # "none" /\ work[m]["thread"] # <<"connect">>
    <2>1. retains[m] # -1
      BY <1>1
    <2> QED
      BY <2>1, ObjectThere
  <1>4. /\ \/ w = "thread" /\ Doing(m, w) = "idle"
           \/ w = "queue" /\ Doing(m, w) = "block" /\ work[m]["queue"] # <<>>
        /\ Doing(m, w) \notin Disconnecting \cup {"delete"}
    BY <1>1, MayCallMeans
  <1>5. CASE retains[m] = 0
    <2>1. /\ Stays(m, w) /\ Doing(m, w)' = Head(<<"disconnect", "delete">>)
          /\ w = "thread" => work'[m]["thread"] = <<"disconnect", "delete">>
      BY <1>1, <1>4, <1>5, CallBegun DEF MonitorInv
    <2>2. /\ Head(<<"disconnect", "delete">>) \notin Disconnecting \cup {"delete"}
          /\ <<"disconnect", "delete">> # <<"connect">>
      BY DEF Disconnecting
    <2> QED
      BY <1>1, <1>2, <1>3, <1>4, <2>1, <2>2, WorkStep
  <1>6. CASE retains[m] # 0
    <2>1. Stays(m, w) /\ work' = work /\ Doing(m, w)' = Doing(m, w)
      BY <1>1, <1>6 DEF Stays, MonitorInv, Working, Works, Doing
    <2> QED
      BY <1>1, <1>2, <1>3, <1>4, <2>1, WorkStep
  <1> QED
    BY <1>5, <1>6

\* The calls of _dyld_process_info_create(), and what the blocks leave to do.
LEMMA CallSteps ==
    ASSUME TargetInv, MonitorInv, NEW m \in Monitors, NEW w \in Workers, NEW stamp,
           Inspect(m, w, stamp) \/ Created(m, w)
    PROVE  TargetInv' /\ MonitorInv'
  <1> USE DEF sendVars, mainVars, objectVars, outside
  <1>1. UNCHANGED <<outside, source, connected, retains, queue, deleted, exits, raced>>
    BY DEF Inspect, Created
  <1>2. /\ retains' \in [Monitors -> -1..MaxRetains]
        /\ \A n \in Monitors : n # m => retains'[n] = retains[n]
        /\ source[m] = "none" => retains'[m] = -1
    BY <1>1 DEF MonitorInv, MonitorTypes, Living, Lives
  <1>3. CASE Inspect(m, w, stamp)
    <2>1. /\ \/ w = "thread" /\ Doing(m, w) = "idle"
             \/ w = "queue" /\ Doing(m, w) = "block" /\ work[m]["queue"] # <<>>
          /\ Doing(m, w) \notin Disconnecting
      BY <1>3, MayCallMeans DEF Inspect
    <2>2. /\ Stays(m, w) /\ Doing(m, w)' = Head(<<"create">>)
          /\ w = "thread" => work'[m]["thread"] = <<"create">>
      BY <1>3, <2>1, CallBegun DEF MonitorInv, Inspect
    <2>3. Head(<<"create">>) \notin Disconnecting \cup {"delete"} /\ <<"create">> # <<"connect">>
      BY DEF Disconnecting
    <2> QED
      BY <1>1, <1>2, <2>1, <2>2, <2>3, WorkStep
  <1>4. CASE Created(m, w)
    <2>1. "create" \notin Leaving /\ Doing(m, w) = "create" /\ Do(m, w, <<>>)
      BY <1>4 DEF Created, Leaving, Disconnecting
    <2>2. /\ Stays(m, w) /\ Doing(m, w)' \notin Leaving /\ Doing(m, w)' # "delete" /\ work[m][w] # <<>>
          /\ w = "thread" => work'[m]["thread"] \in {<<>>, <<"delete">>}
      BY <2>1, TaskDone DEF MonitorInv
    <2>3. w = "thread" => work'[m]["thread"] = <<>>
      BY <2>2 DEF Doing
    <2>4. Doing(m, w)' \notin Disconnecting \cup {"delete"} /\ Doing(m, w) \notin Disconnecting
      BY <2>1, <2>2 DEF Leaving
    <2> QED
      BY <1>1, <1>2, <2>2, <2>3, <2>4, WorkStep
  <1> QED
    BY <1>3, <1>4

LEMMA BlockSteps ==
    ASSUME TargetInv, MonitorInv, NEW m \in Monitors, CallNotify(m) \/ BlockReturns(m)
    PROVE  TargetInv' /\ MonitorInv'
  <1> USE DEF sendVars, mainVars, objectVars, outside
  <1>1. UNCHANGED <<outside, source, connected, retains, queue, deleted, exits, raced>>
    BY DEF CallNotify, BlockReturns
  <1>2. /\ retains' \in [Monitors -> -1..MaxRetains]
        /\ \A n \in Monitors : n # m => retains'[n] = retains[n]
        /\ source[m] = "none" => retains'[m] = -1
    BY <1>1 DEF MonitorInv, MonitorTypes, Living, Lives
  <1>3. /\ Doing(m, "queue") \in {"notify", "block"}
        /\ Do(m, "queue", <<>>) \/ Start(m, "queue", <<"block">>)
    BY DEF CallNotify, BlockReturns
  <1>4. /\ Doing(m, "queue") \notin Leaving /\ Doing(m, "queue") \notin Disconnecting
        /\ work[m]["queue"] # <<>>
    BY <1>3 DEF Leaving, Disconnecting, Doing
  <1>5. Stays(m, "queue") /\ Doing(m, "queue")' \notin Disconnecting \cup {"delete"}
    <2>1. CASE Do(m, "queue", <<>>)
      BY <1>3, <1>4, <2>1, TaskDone DEF MonitorInv, Workers, Leaving
    <2>2. CASE Start(m, "queue", <<"block">>)
      <3>1. Stays(m, "queue") /\ Doing(m, "queue")' = Head(<<"block">>)
        BY <1>3, <2>2, CallBegun DEF MonitorInv, Workers
      <3> QED
        BY <3>1 DEF Disconnecting
    <2> QED
      BY <1>3, <2>1, <2>2
  <1> QED
    BY <1>1, <1>2, <1>4, <1>5, WorkStep DEF Workers

-----------------------------------------------------------------------------
(* disconnect() and release(), and the blocks they put on the queue *)

\* disconnect(): who finds _connected set goes on; a second one is noted.
LEMMA DisconnectStep ==
    ASSUME TargetInv, MonitorInv, NEW m \in Monitors, NEW w \in Workers, Disconnect(m, w)
    PROVE  TargetInv' /\ MonitorInv'
  <1> USE DEF sendVars, mainVars, outside
  <1>1. /\ Doing(m, w) = "disconnect" /\ Doing(m, w) \in Leaving
        /\ Do(m, w, IF connected[m] THEN <<"clear">> ELSE <<>>)
        /\ raced' = [raced EXCEPT ![m] = @ \/ \E v \in Workers \ {w} : Doing(m, v) \in Disconnecting]
        /\ UNCHANGED <<outside, source, connected, retains, queue, deleted, exits>>
    BY DEF Disconnect, WasConnected, Leaving
  <1>2. /\ raced' \in [Monitors -> BOOLEAN]
        /\ \A n \in Monitors : n # m => raced'[n] = raced[n]
        /\ ~raced'[m] => ~raced[m] /\ \A v \in Workers \ {w} : Doing(m, v) \notin Disconnecting
    BY <1>1 DEF MonitorInv, MonitorTypes
  <1>3. MonitorTypes'
    BY <1>1, <1>2 DEF MonitorInv, MonitorTypes
  <1>4. /\ Stays(m, w)
        /\ connected[m] => Doing(m, w)' = "clear"
        /\ ~connected[m] => Doing(m, w)' \notin Disconnecting
        /\ w = "thread" => work'[m]["thread"] # <<"connect">>
    <2>1. CASE connected[m]
      <3>1. Do(m, w, <<"clear">>) /\ "clear" \in Disconnecting
        BY <1>1, <2>1 DEF Disconnecting
      <3>2. <<"clear", "delete">> # <<"connect">>
        OBVIOUS
      <3> QED
        BY <1>1, <2>1, <3>1, <3>2, GoesOn DEF MonitorInv
    <2>2. CASE ~connected[m]
      <3>1. Do(m, w, <<>>)
        BY <1>1, <2>2
      <3>2. /\ Stays(m, w) /\ Doing(m, w)' \notin Leaving
            /\ w = "thread" => work'[m]["thread"] \in {<<>>, <<"delete">>}
        BY <1>1, <3>1, TaskDone DEF MonitorInv
      <3> QED
        BY <2>2, <3>2 DEF Leaving
    <2> QED
      BY <2>1, <2>2
  <1>5. source[m] # "none"
    BY <1>1, ObjectThere
  <1>6. \A n \in Monitors : n # m => SameMonitor(n)
    BY <1>1, <1>2, <1>4 DEF SameMonitor, Stays
  <1>7. Lives(m)'
    <2>1. port[m] # "live" => source[m] # "active"
      BY DEF MonitorInv, Living, Lives
    <2> QED
      BY <1>1, <1>4, <1>5, <2>1, LivesOn
  <1>8. ExitsOnce(m)'
    <2> SUFFICES ASSUME ~raced'[m] PROVE ExitsOnce(m)'
      BY DEF ExitsOnce
    <2>1. ExitsOnce(m) /\ ~raced[m]
      BY <1>2 DEF MonitorInv, Exits
    <2>2. \A v \in Workers : v # w => Doing(m, v)' \notin Disconnecting /\ Doing(m, v)' = Doing(m, v)
      BY <1>2, <1>4, OtherWorker
    <2>3. ~Halfway(m) /\ ~Halfway(m)'
      BY <1>1, <1>4, <2>2 DEF Halfway, Disconnecting
    <2>4. \A v \in Workers : Doing(m, v)' = "clear" => connected'[m]
      BY <1>1, <1>4, <2>2 DEF Disconnecting
    <2> QED
      BY <1>1, <2>1, <2>2, <2>3, <2>4 DEF ExitsOnce, Workers
  <1> QED
    BY <1>1, <1>3, <1>4, <1>6, <1>7, <1>8, OwnStep

\* disconnect() clears _connected: from now on the notifyExit block is due.
LEMMA ClearStep ==
    ASSUME TargetInv, MonitorInv, NEW m \in Monitors, NEW w \in Workers, Clear(m, w)
    PROVE  TargetInv' /\ MonitorInv'
  <1> USE DEF sendVars, mainVars, outside
  <1>1. /\ Doing(m, w) = "clear" /\ Doing(m, w) \in Leaving /\ Do(m, w, <<"cancel">>)
        /\ "cancel" \in Disconnecting /\ "clear" \in Disconnecting
        /\ connected' = [connected EXCEPT ![m] = FALSE]
        /\ UNCHANGED <<outside, source, retains, queue, deleted, exits, raced>>
    BY DEF Clear, Leaving, Disconnecting
  <1>2. /\ Stays(m, w) /\ Doing(m, w)' = "cancel"
        /\ w = "thread" => work'[m]["thread"] # <<"connect">>
    BY <1>1, GoesOn DEF MonitorInv
  <1>3. MonitorTypes' /\ connected'[m] = FALSE
    BY <1>1 DEF MonitorInv, MonitorTypes
  <1>4. source[m] # "none"
    BY <1>1, ObjectThere
  <1>5. \A n \in Monitors : n # m => SameMonitor(n)
    BY <1>1, <1>2 DEF SameMonitor, Stays, MonitorInv, MonitorTypes
  <1>6. Lives(m)'
    <2>1. port[m] # "live" => source[m] # "active"
      BY DEF MonitorInv, Living, Lives
    <2> QED
      BY <1>1, <1>2, <1>3, <1>4, <2>1, LivesOn
  <1>7. ExitsOnce(m)'
    <2> SUFFICES ASSUME ~raced[m] PROVE ExitsOnce(m)'
      BY <1>1 DEF ExitsOnce
    <2>1. ExitsOnce(m) /\ connected[m]
      BY <1>1 DEF MonitorInv, Exits, ExitsOnce
    <2>2. /\ queue[m] = <<>> /\ exits[m] = 0 /\ ~deleted[m]
          /\ \A v \in Workers : Doing(m, v) # "delete"
      BY <2>1 DEF MonitorInv, Living, Lives
    <2>3. \A v \in Workers : v # w => Doing(m, v)' \notin Disconnecting /\ Doing(m, v)' = Doing(m, v)
      <3>1. \A v \in Workers : v # w => Doing(m, v) \notin Disconnecting
        BY <1>1, <2>1 DEF ExitsOnce, Workers
      <3> QED
        BY <1>2, <3>1, OtherWorker
    <2>4. Halfway(m)' /\ \A v \in Workers : Doing(m, v)' # "delete" /\ Doing(m, v)' # "clear"
      BY <1>2, <2>2, <2>3 DEF Halfway, Disconnecting
    <2> QED
      BY <1>1, <2>2, <2>3, <2>4 DEF ExitsOnce, Workers
  <1> QED
    BY <1>1, <1>2, <1>3, <1>5, <1>6, <1>7, OwnStep

LEMMA CancelStep ==
    ASSUME TargetInv, MonitorInv, NEW m \in Monitors, NEW w \in Workers, Cancel(m, w)
    PROVE  TargetInv' /\ MonitorInv'
  <1> USE DEF sendVars, mainVars, outside
  <1>1. /\ Doing(m, w) = "cancel" /\ Doing(m, w) \in Leaving /\ Do(m, w, <<"exit">>)
        /\ "exit" \in Disconnecting
        /\ source' = [source EXCEPT ![m] = IF source[m] = "active" THEN "cancelled" ELSE source[m]]
        /\ UNCHANGED <<outside, connected, retains, queue, deleted, exits, raced>>
    BY DEF Cancel, Cancelled, Leaving, Disconnecting
  <1>2. /\ Stays(m, w) /\ Doing(m, w)' = "exit"
        /\ w = "thread" => work'[m]["thread"] # <<"connect">>
    BY <1>1, GoesOn DEF MonitorInv
  <1>3. source[m] # "none"
    BY <1>1, ObjectThere
  <1>4. MonitorTypes' /\ source'[m] \notin {"none", "active"}
    BY <1>1, <1>3 DEF MonitorInv, MonitorTypes
  <1>5. ~connected[m]
    BY <1>1 DEF MonitorInv, Living, Lives
  <1>6. \A n \in Monitors : n # m => SameMonitor(n)
    BY <1>1, <1>2 DEF SameMonitor, Stays, MonitorInv, MonitorTypes
  <1>7. Lives(m)'
    BY <1>1, <1>2, <1>3, <1>4, <1>5, LivesOn
  <1>8. ExitsOnce(m)'
    <2> SUFFICES ASSUME ~raced[m] PROVE ExitsOnce(m)'
      BY <1>1 DEF ExitsOnce
    <2>1. ExitsOnce(m) /\ Halfway(m) /\ Halfway(m)'
      BY <1>1, <1>2 DEF MonitorInv, Exits, Halfway
    <2>2. \A v \in Workers : v # w => Doing(m, v) \notin Disconnecting /\ Doing(m, v)' = Doing(m, v)
      <3>1. \A v \in Workers : v # w => Doing(m, v) \notin Disconnecting
        BY <1>1, <2>1 DEF ExitsOnce, Workers, Disconnecting
      <3> QED
        BY <1>2, <3>1, OtherWorker
    <2>3. \A v \in Workers : Doing(m, v)' # "clear" /\ (Doing(m, v)' = "delete" => Doing(m, v) = "delete")
      BY <1>2, <2>2 DEF Disconnecting
    <2> QED
      BY <1>1, <1>3, <1>5, <2>1, <2>2, <2>3 DEF ExitsOnce, Workers
  <1> QED
    BY <1>1, <1>2, <1>4, <1>6, <1>7, <1>8, OwnStep

\* What is put on the queue, and taken off it.
LEMMA Appended ==
    ASSUME NEW q \in Seq(Blocks), NEW b \in Blocks
    PROVE  /\ Append(q, b) \in Seq(Blocks)
           /\ b = "delete" => /\ "exit" \in Range(Append(q, b)) => "exit" \in Range(q)
                              /\ OneExit(q) => OneExit(Append(q, b))
           /\ b = "exit" /\ q = <<>> => OneExit(Append(q, b))
  <1>1. /\ Len(q) \in Nat /\ Append(q, b) \in Seq(Blocks) /\ Len(Append(q, b)) = Len(q) + 1
        /\ \A i \in 1..Len(q) : Append(q, b)[i] = q[i]
        /\ Append(q, b)[Len(q) + 1] = b
    BY AppendProperties
  <1> DEFINE a == Append(q, b)
  <1>2. \A i \in DOMAIN a : i \in DOMAIN q \/ i = Len(q) + 1
    BY <1>1
  <1>3. b = "delete" => ("exit" \in Range(a) => "exit" \in Range(q))
    BY <1>1, <1>2 DEF Range
  <1>4. ASSUME b = "delete", OneExit(q)
        PROVE  OneExit(a)
    <2>1. q # <<>> /\ Head(q) = q[1] /\ Len(q) # 0 /\ q[1] = "exit"
      BY <1>4 DEF OneExit
    <2>2. /\ Tail(q) \in Seq(Blocks) /\ Len(Tail(q)) = Len(q) - 1
          /\ \A i \in 1..Len(Tail(q)) : Tail(q)[i] = q[i + 1]
      BY <2>1, HeadTailProperties
    <2>3. \A i \in 2..Len(q) : q[i] # "exit"
      <3> SUFFICES ASSUME NEW i \in 2..Len(q) PROVE q[i] # "exit"
        OBVIOUS
      <3>1. i - 1 \in DOMAIN Tail(q) /\ Tail(q)[i - 1] = q[i]
        BY <1>1, <2>2
      <3> QED
        BY <1>4, <3>1 DEF OneExit, Range
    <2> HIDE DEF a
    <2>4. a \in Seq(Blocks) /\ a # <<>> /\ Head(a) = a[1] /\ a[1] = q[1]
      BY <1>1, <2>1 DEF a
    <2>5. /\ Tail(a) \in Seq(Blocks) /\ Len(Tail(a)) = Len(q)
          /\ \A i \in 1..Len(Tail(a)) : Tail(a)[i] = a[i + 1]
      BY <1>1, <2>4, HeadTailProperties DEF a
    <2>6. \A i \in DOMAIN Tail(a) : Tail(a)[i] # "exit"
      <3> SUFFICES ASSUME NEW i \in DOMAIN Tail(a) PROVE Tail(a)[i] # "exit"
        OBVIOUS
      <3>1. i \in 1..Len(q) /\ Tail(a)[i] = a[i + 1]
        BY <1>1, <2>5
      <3>2. CASE i = Len(q)
        BY <1>1, <1>4, <3>1, <3>2 DEF a
      <3>3. CASE i # Len(q)
        <4>1. i + 1 \in 2..Len(q) /\ i + 1 \in 1..Len(q)
          BY <1>1, <3>1, <3>3
        <4> QED
          BY <1>1, <2>3, <3>1, <4>1 DEF a
      <3> QED
        BY <3>2, <3>3
    <2> QED
      BY <2>1, <2>4, <2>6 DEF OneExit, Range
  <1>5. ASSUME b = "exit", q = <<>>
        PROVE  OneExit(a)
    <2>1. a = <<"exit">>
      BY <1>5
    <2> HIDE DEF a
    <2>2. a # <<>> /\ Head(a) = "exit" /\ Tail(a) = <<>>
      BY <2>1
    <2> QED
      BY <2>2 DEF OneExit, Range
  <1> QED
    BY <1>1, <1>3, <1>4, <1>5

LEMMA Taken ==
    ASSUME NEW q \in Seq(Blocks), q # <<>>
    PROVE  Tail(q) \in Seq(Blocks) /\ Range(Tail(q)) \subseteq Range(q) /\ Head(q) \in Range(q)
  <1>1. /\ Len(q) \in Nat /\ Len(q) # 0 /\ Tail(q) \in Seq(Blocks) /\ Len(Tail(q)) = Len(q) - 1
        /\ \A i \in 1..Len(Tail(q)) : Tail(q)[i] = q[i + 1]
        /\ Head(q) = q[1]
    BY HeadTailProperties
  <1>2. \A i \in DOMAIN Tail(q) : i + 1 \in DOMAIN q /\ Tail(q)[i] = q[i + 1]
    BY <1>1
  <1> QED
    BY <1>1, <1>2 DEF Range

\* The notifyExit block, and then the deletion, are put on the queue.
LEMMA EnqueueStep ==
    ASSUME TargetInv, MonitorInv, NEW m \in Monitors, NEW w \in Workers, ExitLater(m, w) \/ DeleteLater(m, w)
    PROVE  TargetInv' /\ MonitorInv'
  <1> USE DEF sendVars, mainVars, outside
  <1>1. PICK b \in Blocks :
           /\ Doing(m, w) = b /\ Do(m, w, <<>>)
           /\ queue' = [queue EXCEPT ![m] = Append(@, b)]
           /\ UNCHANGED <<outside, source, connected, retains, deleted, exits, raced>>
    BY DEF ExitLater, DeleteLater, Enqueue, Blocks
  <1>2. /\ Stays(m, w) /\ Doing(m, w)' \notin Leaving
        /\ Doing(m, w)' = "delete" => b = "exit"
        /\ w = "thread" => work'[m]["thread"] # <<"connect">>
    <2>1. /\ Stays(m, w) /\ Doing(m, w)' \notin Leaving
          /\ Doing(m, w)' = "delete" => Doing(m, w) \in Leaving
          /\ w = "thread" => work'[m]["thread"] \in {<<>>, <<"delete">>}
      BY <1>1, TaskDone DEF MonitorInv, Blocks
    <2>2. "delete" \notin Leaving
      BY DEF Leaving, Disconnecting
    <2> QED
      BY <1>1, <2>1, <2>2 DEF Blocks
  <1>3. queue \in [Monitors -> Seq(Blocks)] /\ queue[m] \in Seq(Blocks)
    BY DEF MonitorInv, MonitorTypes
  <1>4. /\ queue' \in [Monitors -> Seq(Blocks)] /\ queue'[m] = Append(queue[m], b)
        /\ \A n \in Monitors : n # m => queue'[n] = queue[n]
    BY <1>1, <1>3, Appended
  <1>5. MonitorTypes'
    BY <1>1, <1>4 DEF MonitorInv, MonitorTypes
  <1>6. \A n \in Monitors : n # m => SameMonitor(n)
    BY <1>1, <1>2, <1>4 DEF SameMonitor, Stays
  <1>7. ~connected[m]
    BY <1>1 DEF MonitorInv, Living, Lives, Blocks
  <1>8. source[m] # "none" /\ (port[m] # "live" => source[m] # "active")
    <2>1. Doing(m, w) \in Leaving \cup {"delete"}
      BY <1>1 DEF Blocks, Leaving, Disconnecting
    <2> QED
      BY <2>1, ObjectThere DEF MonitorInv, Living, Lives
  <1>9. Lives(m)'
    BY <1>1, <1>2, <1>7, <1>8, LivesOn
  <1>10. ExitsOnce(m)'
    <2> SUFFICES ASSUME ~raced[m] PROVE ExitsOnce(m)'
      BY <1>1 DEF ExitsOnce
    <2>1. ExitsOnce(m)
      BY DEF MonitorInv, Exits
    <2>2. \A v \in Workers : v # w => Doing(m, v)' = Doing(m, v)
      BY <1>2, OtherWorker
    <2>3. Doing(m, w)' \notin Disconnecting
      BY <1>2 DEF Leaving
    <2>4. /\ ~(Doing(m, "thread")' \in Disconnecting /\ Doing(m, "queue")' \in Disconnecting)
          /\ \A v \in Workers : Doing(m, v)' # "clear"
      <3>1. \A v \in Workers : v # w => Doing(m, v)' # "clear"
        BY <1>7, <2>1, <2>2 DEF ExitsOnce
      <3> QED
        BY <2>3, <3>1 DEF Workers, Disconnecting
    <2>5. CASE b = "exit"
      <3>1. Halfway(m) /\ exits[m] = 0 /\ queue[m] = <<>> /\ ~deleted[m]
        BY <1>1, <1>7, <1>8, <2>1, <2>5 DEF ExitsOnce, Halfway
      <3>2. ~Halfway(m)'
        <4>1. \A v \in Workers : v # w => Doing(m, v) \notin Disconnecting
          BY <1>1, <2>1, <2>5 DEF ExitsOnce, Workers, Disconnecting
        <4> QED
          BY <2>2, <2>3, <4>1 DEF Halfway, Disconnecting
      <3>3. OneExit(queue'[m])
        BY <1>3, <1>4, <2>5, <3>1, Appended
      <3> QED
        BY <1>1, <2>4, <3>1, <3>2, <3>3 DEF ExitsOnce
    <2>6. CASE b = "delete"
      <3>1. ~Halfway(m)
        BY <1>1, <1>7, <1>8, <2>1, <2>6 DEF ExitsOnce
      <3>2. ~Halfway(m)'
        BY <2>2, <2>3, <3>1 DEF Halfway, Disconnecting
      <3>3. /\ "exit" \in Range(queue'[m]) => "exit" \in Range(queue[m])
            /\ OneExit(queue[m]) => OneExit(queue'[m])
        BY <1>3, <1>4, <2>6, Appended
      <3> QED
        BY <1>1, <1>7, <1>8, <2>1, <2>4, <3>1, <3>2, <3>3 DEF ExitsOnce
    <2> QED
      BY <2>5, <2>6 DEF Blocks
  <1> QED
    BY <1>1, <1>2, <1>5, <1>6, <1>9, <1>10, OwnStep

\* A block of the queue is called: the notifyExit block, or `delete this'.
LEMMA CallExitStep ==
    ASSUME TargetInv, MonitorInv, NEW m \in Monitors, CallExit(m)
    PROVE  TargetInv' /\ MonitorInv'
  <1> USE DEF sendVars, mainVars, outside
  <1>1. /\ Doing(m, "queue") = "idle" /\ queue[m] # <<>> /\ Head(queue[m]) = "exit"
        /\ queue' = [queue EXCEPT ![m] = Tail(@)] /\ exits' = [exits EXCEPT ![m] = @ + 1]
        /\ Start(m, "queue", <<"block">>)
        /\ UNCHANGED <<outside, source, connected, retains, deleted, raced>>
    BY DEF CallExit
  <1>2. Stays(m, "queue") /\ Doing(m, "queue")' = "block"
    <2>1. Head(<<"block">>) = "block"
      OBVIOUS
    <2> QED
      BY <1>1, <2>1, CallBegun DEF MonitorInv, Workers
  <1>3. queue \in [Monitors -> Seq(Blocks)] /\ queue[m] \in Seq(Blocks) /\ exits \in [Monitors -> Nat]
    BY DEF MonitorInv, MonitorTypes
  <1>4. /\ queue' \in [Monitors -> Seq(Blocks)] /\ queue'[m] = Tail(queue[m])
        /\ \A n \in Monitors : n # m => queue'[n] = queue[n]
        /\ exits' \in [Monitors -> Nat] /\ exits'[m] = exits[m] + 1
        /\ \A n \in Monitors : n # m => exits'[n] = exits[n]
    BY <1>1, <1>3, Taken
  <1>5. MonitorTypes'
    BY <1>1, <1>4 DEF MonitorInv, MonitorTypes
  <1>6. \A n \in Monitors : n # m => SameMonitor(n)
    BY <1>1, <1>2, <1>4 DEF SameMonitor, Stays
  <1>7. source[m] # "none" /\ (port[m] # "live" => source[m] # "active") /\ ~connected[m]
    BY <1>1, ObjectThere DEF MonitorInv, Living, Lives, Workers
  <1>8. Lives(m)'
    BY <1>1, <1>2, <1>7, LivesOn DEF Workers
  <1>9. ExitsOnce(m)'
    <2> SUFFICES ASSUME ~raced[m] PROVE ExitsOnce(m)'
      BY <1>1 DEF ExitsOnce
    <2>1. ExitsOnce(m) /\ "exit" \in Range(queue[m])
      BY <1>1, <1>3, Taken DEF MonitorInv, Exits
    <2>2. ~Halfway(m) /\ exits[m] = 0 /\ OneExit(queue[m]) /\ ~deleted[m]
      BY <1>1, <1>7, <2>1 DEF ExitsOnce
    <2>3. Doing(m, "thread")' = Doing(m, "thread")
      BY <1>2, OtherWorker DEF Workers
    <2>4. ~Halfway(m)' /\ Doing(m, "queue")' \notin Disconnecting
      BY <1>2, <2>2, <2>3 DEF Halfway, Workers, Disconnecting
    <2>5. \A v \in Workers : Doing(m, v)' # "clear"
      BY <1>2, <1>7, <2>1, <2>3 DEF ExitsOnce, Workers
    <2>6. exits'[m] = 1 /\ "exit" \notin Range(queue'[m])
      BY <1>4, <2>2 DEF OneExit
    <2> QED
      BY <2>4, <2>5, <2>6 DEF ExitsOnce
  <1> QED
    BY <1>1, <1>2, <1>5, <1>6, <1>8, <1>9, OwnStep DEF Workers

LEMMA DeleteStep ==
    ASSUME TargetInv, MonitorInv, NEW m \in Monitors, Delete(m)
    PROVE  TargetInv' /\ MonitorInv'
  <1> USE DEF sendVars, mainVars, outside
  <1>1. /\ queue[m] # <<>> /\ Head(queue[m]) = "delete"
        /\ queue' = [queue EXCEPT ![m] = Tail(@)] /\ deleted' = [deleted EXCEPT ![m] = TRUE]
        /\ UNCHANGED <<outside, source, connected, retains, exits, raced, work>>
    BY DEF Delete
  <1>2. Stays(m, "queue") /\ \A v \in Workers : Doing(m, v)' = Doing(m, v)
    BY <1>1 DEF Stays, MonitorInv, Working, Works, Doing
  <1>3. queue \in [Monitors -> Seq(Blocks)] /\ queue[m] \in Seq(Blocks)
    BY DEF MonitorInv, MonitorTypes
  <1>4. /\ queue' \in [Monitors -> Seq(Blocks)] /\ queue'[m] = Tail(queue[m])
        /\ \A n \in Monitors : n # m => queue'[n] = queue[n]
    BY <1>1, <1>3, Taken
  <1>5. MonitorTypes'
    BY <1>1, <1>4 DEF MonitorInv, MonitorTypes
  <1>6. \A n \in Monitors : n # m => SameMonitor(n)
    BY <1>1, <1>4 DEF SameMonitor, MonitorInv, MonitorTypes
  <1>7. source[m] # "none" /\ (port[m] # "live" => source[m] # "active") /\ ~connected[m]
    BY <1>1, ObjectThere DEF MonitorInv, Living, Lives, Workers
  <1>8. Lives(m)'
    BY <1>1, <1>2, <1>7, LivesOn DEF Workers
  <1>9. ExitsOnce(m)'
    <2> SUFFICES ASSUME ~raced[m] PROVE ExitsOnce(m)'
      BY <1>1 DEF ExitsOnce
    <2>1. ExitsOnce(m)
      BY DEF MonitorInv, Exits
    <2>2. ~Halfway(m) /\ exits[m] = 1 /\ "exit" \notin Range(queue[m])
      BY <1>1, <1>7, <2>1 DEF ExitsOnce, OneExit
    <2>3. ~Halfway(m)' /\ "exit" \notin Range(queue'[m])
      BY <1>1, <1>2, <1>3, <1>4, <2>2, Taken DEF Halfway
    <2> QED
      BY <1>1, <1>2, <2>1, <2>2, <2>3 DEF ExitsOnce, Workers
  <1> QED
    BY <1>1, <1>2, <1>5, <1>6, <1>8, <1>9, OwnStep DEF Workers

-----------------------------------------------------------------------------
(* Steps of a monitor in which a message is taken, answered or destroyed *)

\* The queue begins to handle a message, or has answered it; the object stays as it is.
LEMMA QueueTakes ==
    ASSUME TargetInv, MonitorInv, NEW m \in Monitors, source[m] # "none",
           Doing(m, "queue") \in {"idle", "reply", "replyMain"},
           NEW q \in {<<>>, <<"disconnect">>, <<"notify", "reply">>, <<"block", "replyMain">>},
           work' = [work EXCEPT ![m]["queue"] = q],
           UNCHANGED <<port, source, connected, retains, queue, deleted, exits, raced>>,
           \A n \in Monitors : n # m => inbox'[n] = inbox[n] /\ (n \in mainIn' <=> n \in mainIn),
           inbox[m] = <<>> => inbox'[m] = <<>>, m \notin mainIn => m \notin mainIn',
           Answering(q) => port[m] = "live", AnsweringMain(q) => port[m] = "live"
    PROVE  /\ Working' /\ Living' /\ Exits'
           /\ work'[m]["queue"] = q
           /\ \A n \in Monitors : n # m => work'[n] = work[n]
  <1>1. QueueWork(q)
    BY QueueBegins
  <1>2. /\ work'[m]["queue"] = q /\ work'[m]["thread"] = work[m]["thread"]
        /\ \A n \in Monitors : n # m => work'[n] = work[n]
        /\ work' \in [Monitors -> [Workers -> Seq(Tasks \cup {"connect"})]]
    <2>1. q \in Seq(Tasks \cup {"connect"})
      BY <1>1, WorkIsSeq
    <2> QED
      BY <2>1, OneWorks DEF MonitorInv, Workers
  <1>3. Works(m)'
    BY <1>1, <1>2 DEF MonitorInv, Working, Works
  <1>4. /\ Doing(m, "queue")' \notin Disconnecting \cup {"delete"} /\ Doing(m, "queue") \notin Disconnecting
        /\ Doing(m, "thread")' = Doing(m, "thread")
    <2>1. q # <<>> => Head(q) \in {"disconnect", "notify", "block"}
      OBVIOUS
    <2> QED
      BY <1>2, <2>1 DEF Doing, Disconnecting
  <1>5. Lives(m)'
    <2>1. \A v \in Workers : Doing(m, v)' \in {"cancel", "exit", "delete"} => ~connected[m]
      BY <1>4 DEF MonitorInv, Living, Lives, Workers, Disconnecting
    <2>2. port[m] # "live" => ~Answering(q) /\ ~AnsweringMain(q)
      OBVIOUS
    <2> QED
      BY <1>2, <2>1, <2>2 DEF MonitorInv, Living, Lives
  <1>6. ExitsOnce(m)'
    <2>1. \A v \in Workers : /\ Doing(m, v)' \in Disconnecting <=> Doing(m, v) \in Disconnecting
                             /\ Doing(m, v)' = "clear" => Doing(m, v) = "clear"
                             /\ Doing(m, v)' = "delete" => Doing(m, v) = "delete"
                             /\ Doing(m, v)' \in {"cancel", "exit"} <=> Doing(m, v) \in {"cancel", "exit"}
      BY <1>4 DEF Disconnecting, Workers
    <2>2. Halfway(m)' <=> Halfway(m)
      BY <2>1 DEF Halfway
    <2> QED
      BY <2>1, <2>2 DEF MonitorInv, Exits, ExitsOnce, Workers
  <1>7. \A n \in Monitors : n # m => SameMonitor(n)
    BY <1>2 DEF SameMonitor
  <1>8. Working' /\ Living' /\ Exits'
    BY <1>2, <1>3, <1>5, <1>6, <1>7, OneMonitor
  <1> QED
    BY <1>2, <1>8

LEMMA HandleEventStep ==
    ASSUME TargetInv, MonitorInv, NEW m \in Monitors, HandleEvent(m)
    PROVE  TargetInv' /\ MonitorInv'
  <1> USE DEF sendVars, mainVars, objectVars
  <1> DEFINE kind == Head(inbox[m]).kind
             q    == Handling(kind) \o <<>>
  <1>1. /\ Doing(m, "queue") = "idle" /\ source[m] = "active" /\ connected[m] /\ inbox[m] # <<>>
        /\ inbox' = [inbox EXCEPT ![m] = Tail(@)] /\ Start(m, "queue", Handling(kind))
        /\ UNCHANGED <<targetVars, alive, names, pending, msgs, mainPc, mainPending, mainIn, registered, port,
                       source, connected, retains, queue, deleted, exits, raced>>
    BY DEF HandleEvent, Listens
  <1>2. /\ Works(m) /\ work[m]["queue"] = <<>> /\ port[m] = "live"
    BY <1>1, QueueAt DEF MonitorInv, Working, Living, Lives
  <1>3. inbox \in [Monitors -> Seq(Messages)] /\ inbox[m] \in Seq(Messages)
    BY DEF MonitorInv, MonitorTypes
  <1>4. Tail(inbox[m]) \in Seq(Messages) /\ Head(inbox[m]) \in Messages
    BY <1>1, <1>3, HeadTailProperties
  <1>5. /\ inbox' \in [Monitors -> Seq(Messages)] /\ inbox'[m] = Tail(inbox[m])
        /\ \A n \in Monitors : n # m => inbox'[n] = inbox[n]
    BY <1>1, <1>3, <1>4
  <1>6. /\ kind = "no_senders" => q = <<"disconnect">>
        /\ kind # "no_senders" => q = <<"notify", "reply">>
    <2>1. kind \in {"load", "unload", "no_senders"}
      BY <1>4 DEF Messages
    <2>2. CASE kind = "no_senders"
      <3>1. Handling(kind) = <<"disconnect">>
        BY <2>2 DEF Handling
      <3>2. <<"disconnect">> \o <<>> = <<"disconnect">>
        OBVIOUS
      <3> QED
        BY <2>2, <3>1, <3>2
    <2>3. CASE kind \in {"load", "unload"}
      <3>1. Handling(kind) = <<"notify", "reply">>
        BY <2>3 DEF Handling
      <3>2. <<"notify", "reply">> \o <<>> = <<"notify", "reply">>
        OBVIOUS
      <3> QED
        BY <2>3, <3>1, <3>2
    <2> QED
      BY <2>1, <2>2, <2>3
  <1>7. q \in {<<>>, <<"disconnect">>, <<"notify", "reply">>, <<"block", "replyMain">>}
    BY <1>6
  <1> HIDE DEF kind
  <1>8. work' = [work EXCEPT ![m]["queue"] = q]
    BY <1>1, <1>2 DEF Start, MonitorInv, Working
  <1> HIDE DEF q
  <1>9. TargetInv'
    BY <1>1, NothingTouched DEF targetVars
  <1>10. MonitorTypes'
    BY <1>1, <1>5 DEF MonitorInv, MonitorTypes
  <1>11. /\ Working' /\ Living' /\ Exits'
         /\ work'[m]["queue"] = q
         /\ \A n \in Monitors : n # m => work'[n] = work[n]
    <2>1. source[m] # "none"
      BY <1>1
    <2> QED
      BY <1>1, <1>2, <1>5, <1>7, <1>8, <2>1, QueueTakes
  <1>12. MainWaiting'
    <2>1. \A n \in Monitors : AnsweringMain(work'[n]["queue"]) <=> AnsweringMain(work[n]["queue"])
      BY <1>2, <1>6, <1>11, QueueBegins
    <2> QED
      BY <1>1, <2>1, MainWaitingKept DEF MonitorInv
  <1>13. Waiting'
    <2>1. CASE ~alive
      BY <1>1, <2>1 DEF MonitorInv, Waiting, targetVars
    <2>2. CASE alive
      <3>1. inbox[m] \in Seq(Notices) /\ Len(inbox[m]) <= 1
        BY <2>2 DEF MonitorInv, Waiting
      <3>2. kind # "no_senders"
        <4>1. Head(inbox[m]) \in Notices
          BY <1>1, <3>1, HeadTailProperties
        <4> QED
          BY <4>1 DEF Notices, kind
      <3>3. inbox'[m] = <<>>
        <4>1. Tail(inbox[m]) \in Seq(Notices) /\ Len(Tail(inbox[m])) = Len(inbox[m]) - 1
          BY <1>1, <3>1, HeadTailProperties
        <4>2. Len(Tail(inbox[m])) = 0
          <5> DEFINE a == Len(inbox[m])
                     b == Len(Tail(inbox[m]))
          <5>1. a \in Nat /\ b \in Nat
            BY <3>1, <4>1, LenProperties
          <5>2. a <= 1 /\ b = a - 1
            BY <3>1, <4>1
          <5> HIDE DEF a, b
          <5>3. b = 0
            BY <5>1, <5>2
          <5> QED
            BY <5>3 DEF b
        <4> QED
          BY <1>5, <4>1, <4>2, EmptySeq
      <3>4. Holds(m) /\ Holds(m)' /\ Answering(work'[m]["queue"])
        BY <1>1, <1>6, <1>11, <3>2, QueueBegins DEF Holds
      <3>5. \A n \in Monitors : Holds(n)' <=> Holds(n)
        BY <1>5, <1>11, <3>4 DEF Holds
      <3>6. \A n \in Monitors : /\ inbox'[n] \in Seq(Notices) /\ Len(inbox'[n]) <= 1
                                /\ ~(inbox'[n] # <<>> /\ Answering(work'[n]["queue"]))
        <4>1. <<>> \in Seq(Notices) /\ Len(<<>>) = 0
          OBVIOUS
        <4>2. Len(inbox'[m]) <= 1 /\ inbox'[m] \in Seq(Notices)
          BY <3>3, <4>1
        <4> QED
          BY <1>5, <1>11, <2>2, <3>3, <4>2 DEF MonitorInv, Waiting
      <3> QED
        BY <1>1, <2>2, <3>5, <3>6 DEF MonitorInv, Waiting, targetVars
    <2> QED
      BY <2>1, <2>2
  <1> QED
    BY <1>9, <1>10, <1>11, <1>12, <1>13 DEF MonitorInv

LEMMA HandleMainStep ==
    ASSUME TargetInv, MonitorInv, NEW m \in Monitors, HandleMain(m)
    PROVE  TargetInv' /\ MonitorInv'
  <1> USE DEF sendVars, objectVars
  <1> DEFINE q == <<"block", "replyMain">>
  <1>1. /\ Doing(m, "queue") = "idle" /\ source[m] = "active" /\ m \in mainIn
        /\ mainIn' = mainIn \ {m} /\ Start(m, "queue", Handling("main"))
        /\ UNCHANGED <<targetVars, alive, names, pending, msgs, mainPc, mainPending, registered, port, inbox,
                       source, connected, retains, queue, deleted, exits, raced>>
    BY DEF HandleMain, Listens
  <1>2. Works(m) /\ work[m]["queue"] = <<>> /\ port[m] = "live"
    BY <1>1, QueueAt DEF MonitorInv, Working, Living, Lives
  <1>3. work' = [work EXCEPT ![m]["queue"] = q]
    <2>1. Handling("main") = q /\ q \o <<>> = q
      BY DEF Handling
    <2> HIDE DEF q
    <2> QED
      BY <1>1, <1>2, <2>1 DEF Start, MonitorInv, Working
  <1>4. q \in {<<>>, <<"disconnect">>, <<"notify", "reply">>, <<"block", "replyMain">>}
    OBVIOUS
  <1>5. ~Answering(q) /\ AnsweringMain(q) /\ ~Answering(<<>>) /\ ~AnsweringMain(<<>>)
    BY QueueBegins
  <1> HIDE DEF q
  <1>6. TargetInv'
    BY <1>1, NothingTouched DEF targetVars
  <1>7. MonitorTypes'
    BY <1>1 DEF MonitorInv, MonitorTypes
  <1>8. /\ Working' /\ Living' /\ Exits'
        /\ work'[m]["queue"] = q
        /\ \A n \in Monitors : n # m => work'[n] = work[n]
    <2>1. source[m] # "none"
      BY <1>1
    <2> QED
      BY <1>1, <1>2, <1>3, <1>4, <2>1, QueueTakes
  <1>9. Waiting'
    <2>1. \A n \in Monitors : Answering(work'[n]["queue"]) <=> Answering(work[n]["queue"])
      BY <1>2, <1>5, <1>8
    <2> QED
      BY <1>1, <2>1, WaitingKept DEF MonitorInv, targetVars
  <1>10. MainWaiting'
    <2>1. \A n \in Monitors : MainHolds(n)' <=> MainHolds(n)
      BY <1>1, <1>5, <1>8 DEF MainHolds
    <2>2. \A n \in Monitors : alive => ~(n \in mainIn' /\ AnsweringMain(work'[n]["queue"]))
      BY <1>1, <1>8 DEF MonitorInv, MainWaiting
    <2> QED
      BY <1>1, <2>1, <2>2 DEF MonitorInv, MainWaiting
  <1> QED
    BY <1>6, <1>7, <1>8, <1>9, <1>10 DEF MonitorInv

\* The queue has answered, or found that there is no one to answer.
LEMMA Answered ==
    ASSUME MonitorInv, NEW m \in Monitors, Doing(m, "queue") \in Replies,
           NEW s \in {<<>>, <<"disconnect">>}, Do(m, "queue", s)
    PROVE  /\ work' = [work EXCEPT ![m]["queue"] = s] /\ source[m] # "none"
           /\ ~Answering(s) /\ ~AnsweringMain(s)
           /\ Doing(m, "queue") = "reply" => Answering(work[m]["queue"]) /\ ~AnsweringMain(work[m]["queue"])
           /\ Doing(m, "queue") = "replyMain" => AnsweringMain(work[m]["queue"]) /\ ~Answering(work[m]["queue"])
  <1>1. Works(m)
    BY DEF MonitorInv, Working
  <1>2. work[m]["queue"] # <<>> /\ Head(work[m]["queue"]) = Doing(m, "queue")
    BY <1>1, QueueAt DEF Replies
  <1>3. Tail(work[m]["queue"]) = <<>>
    BY <1>1, <1>2, Popped DEF Works
  <1>4. s \o <<>> = s
    OBVIOUS
  <1>5. work' = [work EXCEPT ![m]["queue"] = s]
    BY <1>3, <1>4 DEF Do, MonitorInv, Working
  <1>6. ~Answering(s) /\ ~AnsweringMain(s)
    BY QueueBegins
  <1>7. source[m] # "none"
    <2>1. Doing(m, "queue") \in Leaving \cup {"delete", "block", "notify", "reply", "replyMain"}
      BY DEF Replies
    <2> QED
      BY <2>1, ObjectThere DEF Workers
  <1>8. /\ Doing(m, "queue") = "reply" => Answering(work[m]["queue"]) /\ ~AnsweringMain(work[m]["queue"])
        /\ Doing(m, "queue") = "replyMain" => AnsweringMain(work[m]["queue"]) /\ ~Answering(work[m]["queue"])
    BY <1>1, QueueAt DEF Answering, AnsweringMain
  <1> QED
    BY <1>5, <1>6, <1>7, <1>8

LEMMA ReplyStep ==
    ASSUME TargetInv, MonitorInv, NEW m \in Monitors, Reply(m)
    PROVE  TargetInv' /\ MonitorInv'
  <1> USE DEF sendVars, mainVars, objectVars
  <1>1. /\ Doing(m, "queue") = "reply" /\ Doing(m, "queue") \in Replies
        /\ IF alive THEN pc' = "send" /\ Do(m, "queue", <<>>)
           ELSE Do(m, "queue", <<"disconnect">>) /\ UNCHANGED pc
        /\ UNCHANGED <<loaded, mapped, memory, change, lists, alive, names, pending, msgs, mainPc, mainPending,
                       mainIn, registered, port, inbox, source, connected, retains, queue, deleted, exits, raced>>
    BY DEF Reply, Answers, Replies
  <1>2. PICK s \in {<<>>, <<"disconnect">>} : Do(m, "queue", s)
    BY <1>1
  <1>3. /\ work' = [work EXCEPT ![m]["queue"] = s] /\ source[m] # "none"
        /\ ~Answering(s) /\ ~AnsweringMain(s)
        /\ Answering(work[m]["queue"]) /\ ~AnsweringMain(work[m]["queue"])
    BY <1>1, <1>2, Answered
  <1>4. /\ Working' /\ Living' /\ Exits'
        /\ work'[m]["queue"] = s
        /\ \A n \in Monitors : n # m => work'[n] = work[n]
    <2>1. s \in {<<>>, <<"disconnect">>, <<"notify", "reply">>, <<"block", "replyMain">>}
      BY <1>2
    <2> QED
      BY <1>1, <1>3, <2>1, QueueTakes
  <1>5. MonitorTypes'
    BY <1>1 DEF MonitorInv, MonitorTypes
  <1>6. MainWaiting'
    <2>1. \A n \in Monitors : AnsweringMain(work'[n]["queue"]) <=> AnsweringMain(work[n]["queue"])
      BY <1>3, <1>4
    <2> QED
      BY <1>1, <2>1, MainWaitingKept DEF MonitorInv
  <1>7. CASE alive
    <2>1. Holds(m) /\ pc = "wait" /\ inbox[m] = <<>>
      BY <1>3, <1>7 DEF Holds, MonitorInv, Waiting
    <2>2. \A n \in Monitors : ~Holds(n)'
      BY <1>1, <1>3, <1>4, <1>7, <2>1 DEF Holds, MonitorInv, Waiting
    <2>3. TargetInv'
      BY <1>1, <1>7, <2>1, NothingTouched DEF Steady
    <2>4. Waiting'
      <3>1. msgs # <<>>
        BY <2>1 DEF MonitorInv, Waiting
      <3>2. \A n \in Monitors : inbox'[n] \in Seq(Notices) /\ Len(inbox'[n]) <= 1
        BY <1>1, <1>7 DEF MonitorInv, Waiting
      <3>3. \A n \in Monitors : inbox'[n] = <<>>
        BY <2>2 DEF Holds
      <3> QED
        BY <1>1, <1>7, <2>2, <3>1, <3>2, <3>3 DEF Waiting
    <2> QED
      BY <1>4, <1>5, <1>6, <2>3, <2>4 DEF MonitorInv
  <1>8. CASE ~alive
    <2>1. TargetInv'
      BY <1>1, <1>8, NothingTouched
    <2>2. Waiting'
      BY <1>1, <1>8 DEF MonitorInv, Waiting
    <2> QED
      BY <1>4, <1>5, <1>6, <2>1, <2>2 DEF MonitorInv
  <1> QED
    BY <1>7, <1>8

LEMMA ReplyMainStep ==
    ASSUME TargetInv, MonitorInv, NEW m \in Monitors, ReplyMain(m)
    PROVE  TargetInv' /\ MonitorInv'
  <1> USE DEF sendVars, objectVars
  <1>1. /\ Doing(m, "queue") = "replyMain" /\ Doing(m, "queue") \in Replies
        /\ IF alive THEN mainPc' = "send" /\ Do(m, "queue", <<>>)
           ELSE Do(m, "queue", <<"disconnect">>) /\ UNCHANGED mainPc
        /\ UNCHANGED <<targetVars, alive, names, pending, msgs, mainPending, mainIn, registered, port, inbox,
                       source, connected, retains, queue, deleted, exits, raced>>
    BY DEF ReplyMain, Answers, Replies
  <1>2. PICK s \in {<<>>, <<"disconnect">>} : Do(m, "queue", s)
    BY <1>1
  <1>3. /\ work' = [work EXCEPT ![m]["queue"] = s] /\ source[m] # "none"
        /\ ~Answering(s) /\ ~AnsweringMain(s)
        /\ AnsweringMain(work[m]["queue"]) /\ ~Answering(work[m]["queue"])
    BY <1>1, <1>2, Answered
  <1>4. /\ Working' /\ Living' /\ Exits'
        /\ work'[m]["queue"] = s
        /\ \A n \in Monitors : n # m => work'[n] = work[n]
    <2>1. s \in {<<>>, <<"disconnect">>, <<"notify", "reply">>, <<"block", "replyMain">>}
      BY <1>2
    <2> QED
      BY <1>1, <1>3, <2>1, QueueTakes
  <1>5. MonitorTypes'
    BY <1>1 DEF MonitorInv, MonitorTypes
  <1>6. TargetInv'
    BY <1>1, NothingTouched DEF targetVars
  <1>7. Waiting'
    <2>1. \A n \in Monitors : Answering(work'[n]["queue"]) <=> Answering(work[n]["queue"])
      BY <1>3, <1>4
    <2> QED
      BY <1>1, <2>1, WaitingKept DEF MonitorInv, targetVars
  <1>8. MainWaiting'
    <2> SUFFICES ASSUME alive PROVE MainWaiting'
      BY <1>1 DEF MainWaiting
    <2>1. MainHolds(m) /\ m \notin mainIn
      BY <1>3 DEF MainHolds, MonitorInv, MainWaiting
    <2>2. \A n \in Monitors : ~MainHolds(n)'
      BY <1>1, <1>3, <1>4, <2>1 DEF MainHolds, MonitorInv, MainWaiting
    <2> QED
      BY <1>1, <2>2 DEF MainWaiting, MainHolds
  <1> QED
    BY <1>4, <1>5, <1>6, <1>7, <1>8 DEF MonitorInv

\* A port goes, with what is in it: whoever waits for its answer goes on.
LEMMA PortGoesWaits ==
    ASSUME TargetInv, MonitorInv, NEW m \in Monitors, PortGoes(m), UNCHANGED <<alive, msgs>>,
           \A n \in Monitors : n # m => work'[n] = work[n],
           ~Answering(work'[m]["queue"]), ~AnsweringMain(work'[m]["queue"])
    PROVE  /\ Waiting'
           /\ pc' = pc \/ (pc = "wait" /\ pc' = "send")
           /\ inbox'[m] = <<>> /\ inbox' \in [Monitors -> Seq(Messages)]
           /\ \A n \in Monitors : n # m => inbox'[n] = inbox[n]
  <1>1. /\ inbox'[m] = <<>> /\ inbox' \in [Monitors -> Seq(Messages)]
        /\ \A n \in Monitors : n # m => inbox'[n] = inbox[n]
    <2>1. <<>> \in Seq(Messages)
      OBVIOUS
    <2> QED
      BY <2>1 DEF PortGoes, MonitorInv, MonitorTypes
  <1>2. ~Holds(m)' /\ \A n \in Monitors : n # m => (Holds(n)' <=> Holds(n))
    BY <1>1 DEF Holds
  <1>3. pc' = pc \/ (pc = "wait" /\ pc' = "send")
    BY DEF PortGoes
  <1>4. CASE ~alive
    <2>1. pc = "exited"
      BY <1>4 DEF MonitorInv, Waiting
    <2> QED
      BY <1>1, <1>3, <1>4, <2>1 DEF Waiting
  <1>5. CASE alive
    <2>1. \A n \in Monitors : /\ inbox'[n] \in Seq(Notices) /\ Len(inbox'[n]) <= 1
                              /\ ~(inbox'[n] # <<>> /\ Answering(work'[n]["queue"]))
      <3>1. <<>> \in Seq(Notices) /\ Len(<<>>) = 0
        OBVIOUS
      <3>2. Len(inbox'[m]) <= 1 /\ inbox'[m] \in Seq(Notices)
        BY <1>1, <3>1
      <3> QED
        BY <1>1, <1>5, <3>2 DEF MonitorInv, Waiting
    <2>2. CASE Holds(m)
      <3>1. pc = "wait" /\ \A n \in Monitors : n # m => ~Holds(n)
        BY <1>5, <2>2 DEF MonitorInv, Waiting
      <3>2. pc' = "send"
        <4>1. Unanswered(m) = 1
          BY <1>5, <2>2, HoldsUnanswered
        <4> QED
          BY <3>1, <4>1 DEF PortGoes
      <3>3. msgs # <<>>
        BY <3>1 DEF MonitorInv, Waiting
      <3> QED
        BY <1>1, <1>2, <1>3, <1>5, <2>1, <3>1, <3>2, <3>3 DEF Waiting
    <2>3. CASE ~Holds(m)
      <3>1. Unanswered(m) = 0
        BY <1>5, <2>3, HoldsUnanswered
      <3>2. pc' = pc
        BY <3>1 DEF PortGoes
      <3>3. \A n \in Monitors : Holds(n)' <=> Holds(n)
        BY <1>2, <2>3
      <3> QED
        BY <1>1, <1>3, <1>5, <2>1, <3>2, <3>3 DEF MonitorInv, Waiting
    <2> QED
      BY <2>2, <2>3
  <1> QED
    BY <1>1, <1>3, <1>4, <1>5

LEMMA PortGoesMain ==
    ASSUME TargetInv, MonitorInv, NEW m \in Monitors, PortGoes(m), UNCHANGED alive,
           \A n \in Monitors : n # m => work'[n] = work[n],
           ~Answering(work'[m]["queue"]), ~AnsweringMain(work'[m]["queue"])
    PROVE  /\ MainWaiting'
           /\ mainPc' \in {mainPc, "send"}
           /\ mainIn' = mainIn \ {m}
  <1>1. mainIn' = mainIn \ {m} /\ mainPc' \in {mainPc, "send"}
    BY DEF PortGoes
  <1>2. ~MainHolds(m)' /\ \A n \in Monitors : n # m => (MainHolds(n)' <=> MainHolds(n))
    BY <1>1 DEF MainHolds
  <1>3. MainWaiting'
    <2> SUFFICES ASSUME alive PROVE MainWaiting'
      BY DEF MainWaiting
    <2>1. \A n \in Monitors : ~(n \in mainIn' /\ AnsweringMain(work'[n]["queue"]))
      BY <1>1 DEF MonitorInv, MainWaiting
    <2>2. CASE MainHolds(m)
      <3>1. mainPc = "wait" /\ \A n \in Monitors : n # m => ~MainHolds(n)
        BY <2>2 DEF MonitorInv, MainWaiting
      <3>2. mainPc' = "send"
        <4>1. UnansweredMain(m) = 1
          BY <2>2, HoldsUnanswered
        <4> QED
          BY <3>1, <4>1 DEF PortGoes
      <3> QED
        BY <1>2, <2>1, <3>1, <3>2 DEF MainWaiting
    <2>3. CASE ~MainHolds(m)
      <3>1. UnansweredMain(m) = 0
        BY <2>3, HoldsUnanswered
      <3>2. mainPc' = mainPc
        BY <3>1 DEF PortGoes
      <3>3. \A n \in Monitors : MainHolds(n)' <=> MainHolds(n)
        BY <1>2, <2>3
      <3> QED
        BY <2>1, <3>2, <3>3 DEF MonitorInv, MainWaiting
    <2> QED
      BY <2>2, <2>3
  <1> QED
    BY <1>1, <1>3

LEMMA TeardownStep ==
    ASSUME TargetInv, MonitorInv, NEW m \in Monitors, Teardown(m)
    PROVE  TargetInv' /\ MonitorInv'
  <1> USE DEF sendVars
  <1>1. /\ Doing(m, "queue") = "idle" /\ source[m] = "cancelled" /\ source' = [source EXCEPT ![m] = "gone"]
        /\ PortGoes(m)
        /\ UNCHANGED <<loaded, mapped, memory, change, lists, alive, names, pending, msgs, mainPending, connected,
                       retains, queue, deleted, exits, raced, work>>
    BY DEF Teardown
  <1>2. work[m]["queue"] = <<>> /\ ~Answering(work'[m]["queue"]) /\ ~AnsweringMain(work'[m]["queue"])
    BY <1>1, QueueAt, QueueBegins DEF MonitorInv, Working
  <1>3. /\ Waiting'
        /\ pc' = pc \/ (pc = "wait" /\ pc' = "send")
        /\ inbox'[m] = <<>> /\ inbox' \in [Monitors -> Seq(Messages)]
        /\ \A n \in Monitors : n # m => inbox'[n] = inbox[n]
    BY <1>1, <1>2, PortGoesWaits
  <1>4. MainWaiting' /\ mainPc' \in {mainPc, "send"} /\ mainIn' = mainIn \ {m}
    BY <1>1, <1>2, PortGoesMain
  <1>5. /\ registered' \subseteq Monitors /\ port' \in [Monitors -> {"none", "live", "dead"}] /\ port'[m] = "dead"
        /\ \A n \in Monitors : n # m => port'[n] = port[n]
    BY <1>1 DEF PortGoes, MonitorInv, MonitorTypes
  <1>6. /\ source' \in [Monitors -> {"none", "active", "cancelled", "gone"}] /\ source'[m] = "gone"
        /\ \A n \in Monitors : n # m => source'[n] = source[n]
    BY <1>1 DEF MonitorInv, MonitorTypes
  <1>7. MonitorTypes'
    BY <1>1, <1>3, <1>4, <1>5, <1>6 DEF MonitorInv, MonitorTypes
  <1>8. \A n \in Monitors : n # m => SameMonitor(n)
    BY <1>1, <1>3, <1>4, <1>5, <1>6 DEF SameMonitor
  <1>9. \A v \in Workers : Doing(m, v)' = Doing(m, v)
    BY <1>1 DEF Doing
  <1>10. Lives(m)'
    <2>1. Lives(m) /\ ~connected[m] /\ work[m]["thread"] # <<"connect">>
      BY <1>1 DEF MonitorInv, Living, Lives
    <2> QED
      BY <1>1, <1>2, <1>3, <1>4, <1>5, <1>6, <2>1 DEF Lives
  <1>11. ExitsOnce(m)'
    <2>1. Halfway(m)' <=> Halfway(m)
      BY <1>9 DEF Halfway
    <2> QED
      BY <1>1, <1>9, <2>1 DEF MonitorInv, Exits, ExitsOnce, Workers
  <1>12. Works(m)' /\ work' \in [Monitors -> [Workers -> Seq(Tasks \cup {"connect"})]]
    BY <1>1 DEF MonitorInv, Working, Works
  <1>13. Working' /\ Living' /\ Exits'
    BY <1>8, <1>10, <1>11, <1>12, OneMonitor
  <1>14. TargetInv'
    BY <1>1, <1>3, NothingTouched DEF Steady
  <1> QED
    BY <1>3, <1>4, <1>7, <1>13, <1>14 DEF MonitorInv

LEMMA CrashStep ==
    ASSUME TargetInv, MonitorInv, NEW m \in Monitors, Crash(m)
    PROVE  TargetInv' /\ MonitorInv'
  <1> USE DEF sendVars
  <1>1. /\ IF port[m] = "live" THEN PortGoes(m) ELSE UNCHANGED <<registered, port, inbox, mainIn, pc, mainPc>>
        /\ source' = [source EXCEPT ![m] = "none"] /\ connected' = [connected EXCEPT ![m] = FALSE]
        /\ retains' = [retains EXCEPT ![m] = -1] /\ queue' = [queue EXCEPT ![m] = <<>>]
        /\ work' = [work EXCEPT ![m] = [w \in Workers |-> <<>>]]
        /\ deleted' = [deleted EXCEPT ![m] = FALSE]
        /\ exits' = [exits EXCEPT ![m] = 0] /\ raced' = [raced EXCEPT ![m] = FALSE]
        /\ UNCHANGED <<loaded, mapped, memory, change, lists, alive, names, pending, msgs, mainPending>>
    BY DEF Crash
  <1>2. /\ work' \in [Monitors -> [Workers -> Seq(Tasks \cup {"connect"})]]
        /\ work'[m]["thread"] = <<>> /\ work'[m]["queue"] = <<>>
        /\ \A n \in Monitors : n # m => work'[n] = work[n]
    <2>1. <<>> \in Seq(Tasks \cup {"connect"})
      OBVIOUS
    <2> QED
      BY <1>1, <2>1 DEF MonitorInv, Working, Workers
  <1>3. ~Answering(work'[m]["queue"]) /\ ~AnsweringMain(work'[m]["queue"])
    BY <1>2, QueueBegins
  <1>4. /\ Waiting' /\ MainWaiting'
        /\ pc' = pc \/ (pc = "wait" /\ pc' = "send")
        /\ mainPc' \in {mainPc, "send"} /\ mainIn' = mainIn \ {m}
        /\ inbox'[m] = <<>> /\ inbox' \in [Monitors -> Seq(Messages)]
        /\ \A n \in Monitors : n # m => inbox'[n] = inbox[n] /\ port'[n] = port[n]
        /\ registered' \subseteq Monitors /\ port' \in [Monitors -> {"none", "live", "dead"}] /\ port'[m] # "live"
    <2>1. CASE port[m] = "live"
      <3>1. PortGoes(m)
        BY <1>1, <2>1
      <3>2. /\ registered' \subseteq Monitors /\ port' \in [Monitors -> {"none", "live", "dead"}]
            /\ port'[m] # "live" /\ \A n \in Monitors : n # m => port'[n] = port[n]
        BY <3>1 DEF PortGoes, MonitorInv, MonitorTypes
      <3>3. MainWaiting' /\ mainPc' \in {mainPc, "send"} /\ mainIn' = mainIn \ {m}
        BY <1>1, <1>2, <1>3, <3>1, PortGoesMain
      <3> QED
        BY <1>1, <1>2, <1>3, <3>1, <3>2, <3>3, PortGoesWaits
    <2>2. CASE port[m] # "live"
      <3>1. /\ UNCHANGED <<registered, port, inbox, mainIn, pc, mainPc>> /\ inbox[m] = <<>> /\ m \notin mainIn
            /\ ~Answering(work[m]["queue"]) /\ ~AnsweringMain(work[m]["queue"])
        BY <1>1, <2>2 DEF MonitorInv, Living, Lives
      <3>2. \A n \in Monitors : /\ Answering(work'[n]["queue"]) <=> Answering(work[n]["queue"])
                                /\ AnsweringMain(work'[n]["queue"]) <=> AnsweringMain(work[n]["queue"])
        BY <1>2, <1>3, <3>1
      <3>3. Waiting' /\ MainWaiting'
        BY <1>1, <3>1, <3>2, WaitingKept, MainWaitingKept DEF MonitorInv
      <3> QED
        BY <2>2, <3>1, <3>3 DEF MonitorInv, MonitorTypes
    <2> QED
      BY <2>1, <2>2
  <1>5. /\ source' \in [Monitors -> {"none", "active", "cancelled", "gone"}] /\ source'[m] = "none"
        /\ connected' \in [Monitors -> BOOLEAN] /\ connected'[m] = FALSE
        /\ retains' \in [Monitors -> -1..MaxRetains] /\ retains'[m] = -1
        /\ queue' \in [Monitors -> Seq(Blocks)] /\ queue'[m] = <<>>
        /\ deleted' \in [Monitors -> BOOLEAN] /\ deleted'[m] = FALSE
        /\ exits' \in [Monitors -> Nat] /\ exits'[m] = 0
        /\ raced' \in [Monitors -> BOOLEAN]
    <2>1. <<>> \in Seq(Blocks) /\ -1 \in -1..MaxRetains
      BY MonitorsAssumption
    <2> QED
      BY <1>1, <2>1 DEF MonitorInv, MonitorTypes
  <1>6. MonitorTypes'
    BY <1>1, <1>4, <1>5 DEF MonitorInv, MonitorTypes
  <1>7. \A n \in Monitors : n # m => SameMonitor(n)
    BY <1>1, <1>2, <1>4 DEF SameMonitor, MonitorInv, MonitorTypes
  <1>8. Works(m)'
    BY <1>2, QueueBegins DEF Works, ThreadWork
  <1>9. \A v \in Workers : Doing(m, v)' = "idle"
    BY <1>2 DEF Doing, Workers
  <1>10. Lives(m)'
    BY <1>2, <1>3, <1>4, <1>5, <1>9 DEF Lives
  <1>11. ExitsOnce(m)'
    BY <1>5, <1>9 DEF ExitsOnce, Workers, Disconnecting
  <1>12. Working' /\ Living' /\ Exits'
    BY <1>2, <1>7, <1>8, <1>10, <1>11, OneMonitor
  <1>13. TargetInv'
    BY <1>1, <1>4, NothingTouched DEF Steady
  <1> QED
    BY <1>4, <1>6, <1>12, <1>13 DEF MonitorInv

-----------------------------------------------------------------------------
(* The invariant holds *)

LEMMA ReadOnKeeps ==
    ASSUME TargetInv, MonitorInv, UNCHANGED <<targetVars, alive, sendVars, mainVars, monitorVars>>
    PROVE  TargetInv' /\ MonitorInv'
  <1> USE DEF targetVars, sendVars, mainVars, monitorVars, objectVars
  <1>1. TargetInv'
    BY NothingTouched
  <1>2. MonitorTypes'
    BY DEF MonitorInv, MonitorTypes
  <1>3. Working' /\ Living' /\ Exits'
    BY NoMonitor
  <1>4. Waiting' /\ MainWaiting'
    BY WaitingKept, MainWaitingKept DEF MonitorInv
  <1> QED
    BY <1>1, <1>2, <1>3, <1>4 DEF MonitorInv

LEMMA CallRunsStep ==
    ASSUME TargetInv, MonitorInv, NEW m \in Monitors, NEW w \in Workers, CallRuns(m, w)
    PROVE  TargetInv' /\ MonitorInv'
  BY DisconnectStep, ClearStep, CancelStep, EnqueueStep, CallSteps DEF CallRuns

LEMMA QueueRunsStep ==
    ASSUME TargetInv, MonitorInv, NEW m \in Monitors, QueueRuns(m)
    PROVE  TargetInv' /\ MonitorInv'
  <1>1. CASE HandleEvent(m) \/ HandleMain(m)
    BY <1>1, HandleEventStep, HandleMainStep
  <1>2. CASE CallNotify(m) \/ BlockReturns(m)
    BY <1>2, BlockSteps
  <1>3. CASE Reply(m) \/ ReplyMain(m)
    BY <1>3, ReplyStep, ReplyMainStep
  <1>4. CASE Teardown(m) \/ CallExit(m) \/ Delete(m)
    BY <1>4, TeardownStep, CallExitStep, DeleteStep
  <1>5. CASE CallRuns(m, "queue")
    BY <1>5, CallRunsStep DEF Workers
  <1> QED
    BY <1>1, <1>2, <1>3, <1>4, <1>5 DEF QueueRuns

LEMMA MonitorStep ==
    ASSUME TargetInv, MonitorInv, [Next]_vars
    PROVE  TargetInv' /\ MonitorInv'
  <1>1. CASE Target /\ alive /\ UNCHANGED <<alive, call, sendVars, mainVars, monitorVars>>
    BY <1>1, TargetSteps, TargetMonitor
  <1>2. CASE NotifyMonitors \/ Split \/ NextMessage
    BY <1>2, NotifyStep, SendingStep
  <1>3. CASE NotifyMain \/ MainNext
    BY <1>3, MainStep
  <1>4. CASE Exit
    BY <1>4, ExitStep
  <1>5. CASE ReadOn
    BY <1>5, ReadOnKeeps DEF ReadOn
  <1>6. ASSUME NEW m \in Monitors,
               Send(m) \/ SendMain(m) \/ Register(m) \/ Crash(m)
        PROVE  TargetInv' /\ MonitorInv'
    BY <1>6, SendStep, SendMainStep, RegisterStep, CrashStep
  <1>7. ASSUME NEW m \in Monitors, ThreadRuns(m)
        PROVE  TargetInv' /\ MonitorInv'
    BY <1>7, ConnectStep, CallRunsStep DEF ThreadRuns, Workers
  <1>8. ASSUME NEW m \in Monitors, QueueRuns(m)
        PROVE  TargetInv' /\ MonitorInv'
    BY <1>8, QueueRunsStep
  <1>9. ASSUME NEW m \in Monitors, NEW w \in Workers,
               Retain(m, w) \/ Release(m, w) \/ \E stamp \in 0..Len(lists) : Inspect(m, w, stamp)
        PROVE  TargetInv' /\ MonitorInv'
    BY <1>9, RetainStep, ReleaseStep, CallSteps
  <1>10. CASE UNCHANGED vars
    BY <1>10, ReadOnKeeps DEF vars
  <1> QED
    BY <1>1, <1>2, <1>3, <1>4, <1>5, <1>6, <1>7, <1>8, <1>9, <1>10 DEF Next

LEMMA MonitorInit == Init => TargetInv /\ MonitorInv
  <1> SUFFICES ASSUME Init PROVE TargetInv /\ MonitorInv
    OBVIOUS
  <1> USE DEF Init
  <1>1. TargetInv
    BY TargetInitInv
  <1>2. /\ <<>> \in Seq(Notices) /\ <<>> \in Seq(Messages) /\ <<>> \in Seq(Blocks)
        /\ <<>> \in Seq(Tasks \cup {"connect"}) /\ -1 \in -1..MaxRetains
    BY MonitorsAssumption
  <1>3. MonitorTypes
    BY <1>2 DEF MonitorTypes
  <1>4. Working
    BY <1>2, QueueBegins DEF Working, Works, Workers, ThreadWork
  <1>5. \A m \in Monitors : \A w \in Workers : Doing(m, w) = "idle"
    BY DEF Doing
  <1>6. Living
    BY <1>5, QueueBegins DEF Living, Lives, Workers
  <1>7. \A m \in Monitors : ~Holds(m) /\ ~MainHolds(m)
    BY QueueBegins DEF Holds, MainHolds, Workers
  <1>8. Waiting
    <2>1. pc = "launch" /\ Len(<<>>) = 0
      BY DEF TargetInit
    <2> QED
      BY <1>2, <1>7, <2>1 DEF Waiting
  <1>9. MainWaiting
    BY <1>7 DEF MainWaiting
  <1>10. Exits
    BY <1>5 DEF Exits, ExitsOnce, Workers, Disconnecting
  <1> QED
    BY <1>1, <1>3, <1>4, <1>6, <1>8, <1>9, <1>10 DEF MonitorInv

LEMMA MonitorInvHolds == Spec => [](TargetInv /\ MonitorInv)
  <1>1. Init => TargetInv /\ MonitorInv
    BY MonitorInit
  <1>2. (TargetInv /\ MonitorInv) /\ [Next]_vars => (TargetInv /\ MonitorInv)'
    BY MonitorStep
  <1> QED
    BY <1>1, <1>2, PTL DEF Spec

-----------------------------------------------------------------------------
(* What follows from it *)

\* Each of the two threads of the process that send messages, the one that changes the
\* list and the one about to call main(), waits for an answer exactly while one monitor
\* has one message of its that is not answered, though they send to the same ports at
\* the same time: sendMessage(), handleEvent(), replyToMonitoredProcess() and the
\* destruction of a port keep to it, whoever releases or dies when.
THEOREM WaitsForOneAnswer == Spec => []TypeOK
  <1>1. ASSUME TargetInv, MonitorInv
        PROVE  TypeOK
    <2>1. alive => \A m \in Monitors : /\ Unanswered(m) = IF Holds(m) THEN 1 ELSE 0
                                       /\ UnansweredMain(m) = IF MainHolds(m) THEN 1 ELSE 0
      BY <1>1, HoldsUnanswered
    <2>2. alive => IF pc = "wait"
                   THEN \E m \in Monitors : /\ Unanswered(m) = 1
                                            /\ \A n \in Monitors \ {m} : Unanswered(n) = 0
                   ELSE \A m \in Monitors : Unanswered(m) = 0
      BY <1>1, <2>1 DEF MonitorInv, Waiting
    <2>3. alive => IF mainPc = "wait"
                   THEN \E m \in Monitors : /\ UnansweredMain(m) = 1
                                            /\ \A n \in Monitors \ {m} : UnansweredMain(n) = 0
                   ELSE \A m \in Monitors : UnansweredMain(m) = 0
      BY <1>1, <2>1 DEF MonitorInv, MainWaiting
    <2>4. /\ loaded \in Seq(Images) /\ mapped \subseteq Images /\ arrays \in Seq(Seq(Images \cup {Junk}))
          /\ infos.array \in 0..Len(arrays) /\ infos.time \in 0..Len(lists)
      BY <1>1 DEF TargetInv, TargetTypes
    <2>5. /\ names \subseteq Monitors /\ pending \subseteq names /\ registered \subseteq Monitors
          /\ retains \in [Monitors -> -1..MaxRetains]
          /\ \A m \in Monitors : queue[m] \in Seq({"exit", "delete"})
      BY <1>1 DEF MonitorInv, MonitorTypes, Blocks
    <2> QED
      BY <2>2, <2>3, <2>4, <2>5 DEF TypeOK
  <1> QED
    BY <1>1, MonitorInvHolds, PTL

\* What a reader finds when infoArray is not NULL is whole and allocated, and the
\* UUIDs are those of the loaded images though mirrorToOldAllImageInfos() rewrites
\* them only when their number has changed.
THEOREM PublishedWhole == Spec => []PublishedIsWhole
  <1>1. ASSUME TargetInv
        PROVE  PublishedIsWhole
    BY <1>1 DEF PublishedIsWhole, TargetInv, Published, Uuids, Steady
  <1> QED
    BY <1>1, MonitorInvHolds, PTL

\* The notifyExit block is called once for an object that was disconnected, and before
\* the object is deleted, unless the thread and the queue were in disconnect() at once.
THEOREM ExitIsToldOnce == Spec => []ExitToldOnce
  <1>1. ASSUME MonitorInv
        PROVE  ExitToldOnce
    <2> SUFFICES ASSUME NEW m \in Monitors, ~raced[m]
                 PROVE  /\ exits[m] <= 1
                        /\ deleted[m] => exits[m] = 1
                        /\ (/\ source[m] # "none" /\ ~connected[m] /\ queue[m] = <<>>
                            /\ \A w \in Workers : Doing(m, w) \notin Disconnecting) => exits[m] = 1
      BY DEF ExitToldOnce
    <2>1. ExitsOnce(m) /\ Lives(m)
      BY <1>1 DEF MonitorInv, Exits, Living
    <2>2. CASE source[m] = "none" \/ connected[m]
      <3>1. exits[m] = 0 /\ ~deleted[m]
        BY <2>1, <2>2 DEF Lives
      <3> QED
        BY <2>2, <3>1
    <2>3. CASE source[m] # "none" /\ ~connected[m]
      <3>1. \/ Halfway(m) /\ exits[m] = 0 /\ ~deleted[m]
            \/ exits[m] = 0 /\ queue[m] # <<>> /\ ~deleted[m]
            \/ exits[m] = 1
        BY <2>1, <2>3 DEF ExitsOnce, OneExit
      <3>2. Halfway(m) => \E w \in Workers : Doing(m, w) \in Disconnecting
        BY DEF Halfway, Disconnecting
      <3> QED
        BY <2>3, <3>1, <3>2
    <2> QED
      BY <2>2, <2>3
  <1> QED
    BY <1>1, MonitorInvHolds, PTL


-----------------------------------------------------------------------------
(* What a block reads *)

CallFields(c) ==
    c = [at |-> c.at, by |-> c.by, stamp |-> c.stamp, tries |-> c.tries, infos |-> c.infos,
         todo |-> c.todo, imgs |-> c.imgs, result |-> c.result, kr |-> c.kr, stale |-> c.stale]

\* A call belongs to a thread or a queue that waits for it.
Calling ==
    /\ CallFields(call)
    /\ call.at # "none" => \E m \in Monitors, w \in Workers, c \in BOOLEAN :
                              call.by = <<m, w, c>> /\ Doing(m, w) = "create"

\* A notify block reads, and is to read the whole list.
BlockCalls ==
    call.at # "none" /\ call.by[2] = "queue" /\ alive /\ "notify" \in Range(work[call.by[1]]["queue"])
BlockReads == BlockCalls /\ call.stamp = 0 /\ Len(loaded) <= MaxCount

\* It has read what there is, as far as it has come.
Reading ==
    BlockReads =>
       /\ call.at \in {"infos", "array", "images", "done"}
       /\ call.at \in {"infos", "array"} => call.imgs = <<>>
       /\ call.at = "array" => call.infos = infos
       /\ call.at = "images" => /\ call.imgs \in Seq(Images) /\ call.todo \in Seq(Images)
                                /\ call.imgs \o call.todo = loaded /\ call.infos.time = infos.time
       /\ call.at = "done" => call.result # NoResult /\ call.result.imgs = loaded /\ call.kr = "SUCCESS"

\* While a block is called for a notice, the process waits.
LEMMA BlockCalled ==
    ASSUME TargetInv, MonitorInv, Calling, BlockCalls
    PROVE  pc = "wait"
  <1>1. PICK m \in Monitors, w \in Workers, c \in BOOLEAN : call.by = <<m, w, c>> /\ Doing(m, w) = "create"
    BY DEF Calling, BlockCalls
  <1>2. w = "queue"
    BY <1>1 DEF BlockCalls
  <1>3. Answering(work[m]["queue"])
    <2> DEFINE q == work[m]["queue"]
    <2>1. QueueWork(q) /\ "notify" \in Range(q)
      BY <1>1 DEF MonitorInv, Working, Works, BlockCalls
    <2> HIDE DEF q
    <2>2. PICK k \in DOMAIN q : q[k] = "notify"
      BY <2>1 DEF Range
    <2>3. q[Len(q)] = "reply" /\ q # <<>>
      BY <2>1, <2>2 DEF QueueWork
    <2> QED
      BY <2>3 DEF Answering, q
  <1> QED
    BY <1>3 DEF MonitorInv, Waiting, Holds, BlockCalls

\* What the published memory then holds.
LEMMA Found ==
    ASSUME TargetInv, pc = "wait"
    PROVE  /\ infos.time # 0 /\ infos.array # 0 /\ infos.array = Len(arrays) /\ infos.count = Len(loaded)
           /\ loaded \in Seq(Images) /\ Range(loaded) \subseteq mapped
           /\ \A k \in 1..Len(loaded) : arrays[infos.array][k] = loaded[k]
  <1>1. /\ infos.time # 0 /\ infos.array # 0 /\ infos.count = Len(loaded) /\ Wrong = {}
        /\ infos.array = Len(arrays) /\ loaded \in Seq(Images) /\ Range(loaded) \subseteq mapped
    BY DEF TargetInv, Mirrored, Published, InMemory, TargetTypes, Steady
  <1>2. Array = arrays[infos.array]
    BY <1>1 DEF Array, Last
  <1>3. \A k \in 1..Len(loaded) : Array[k] = loaded[k]
    BY <1>1 DEF Wrong
  <1> QED
    BY <1>1, <1>2, <1>3

LEMMA CallKept ==
    ASSUME Calling, Reading, call' = call,
           BlockReads' => alive /\ UNCHANGED <<loaded, infos>>,
           \A m \in Monitors, w \in Workers : Doing(m, w) = "create" => work'[m][w] = work[m][w]
    PROVE  Calling' /\ Reading'
  <1>0. \A m \in Monitors, w \in Workers : Doing(m, w) = "create" => Doing(m, w)' = "create"
    BY DEF Doing
  <1>1. Calling'
    BY <1>0 DEF Calling, CallFields
  <1>2. Reading'
    <2> SUFFICES ASSUME BlockReads' PROVE Reading'
      BY DEF Reading
    <2>1. BlockReads
      <3>1. PICK m \in Monitors, w \in Workers, c \in BOOLEAN : call.by = <<m, w, c>> /\ Doing(m, w) = "create"
        BY DEF Calling, BlockReads, BlockCalls
      <3>2. w = "queue" /\ work'[m]["queue"] = work[m]["queue"]
        BY <3>1 DEF BlockReads, BlockCalls
      <3>3. "notify" \in Range(work[call.by[1]]["queue"])
        BY <3>1, <3>2 DEF BlockReads, BlockCalls
      <3> QED
        BY <3>3 DEF BlockReads, BlockCalls
    <2> QED
      BY <2>1 DEF Reading
  <1> QED
    BY <1>1, <1>2

\* Who waits for a call goes on waiting when another thread or queue does something.
LEMMA StillWaits ==
    ASSUME Working, NEW m \in Monitors, NEW w \in Workers, NEW s, Doing(m, w) # "create",
           work' = work \/ work' = [work EXCEPT ![m][w] = s]
    PROVE  \A n \in Monitors, v \in Workers : Doing(n, v) = "create" => work'[n][v] = work[n][v]
  <1>1. ASSUME NEW n \in Monitors, NEW v \in Workers, Doing(n, v) = "create"
        PROVE  work'[n][v] = work[n][v]
    BY <1>1 DEF Working
  <1> QED
    BY <1>1

\* The first entry of b moves to the end of a.
LEMMA AppendConcat ==
    ASSUME NEW S, NEW a \in Seq(S), NEW b \in Seq(S), b # <<>>
    PROVE  /\ Append(a, Head(b)) \in Seq(S) /\ Tail(b) \in Seq(S)
           /\ Append(a, Head(b)) \o Tail(b) = a \o b
  <1> DEFINE c == Append(a, Head(b)) \o Tail(b)
             d == a \o b
  <1>1. /\ Len(a) \in Nat /\ Len(b) \in Nat /\ Len(b) # 0 /\ Head(b) \in S /\ Head(b) = b[1]
    OBVIOUS
  <1>2. /\ Append(a, Head(b)) \in Seq(S) /\ Len(Append(a, Head(b))) = Len(a) + 1
        /\ \A k \in 1..Len(a) : Append(a, Head(b))[k] = a[k]
        /\ Append(a, Head(b))[Len(a) + 1] = Head(b)
    BY <1>1, AppendProperties
  <1>3. /\ Tail(b) \in Seq(S) /\ Len(Tail(b)) = Len(b) - 1
        /\ \A k \in 1..Len(Tail(b)) : Tail(b)[k] = b[k + 1]
    BY HeadTailProperties
  <1>4. /\ c \in Seq(S) /\ Len(c) = Len(a) + Len(b)
        /\ \A k \in 1..Len(c) : c[k] = IF k <= Len(a) + 1 THEN Append(a, Head(b))[k] ELSE Tail(b)[k - (Len(a) + 1)]
    BY <1>1, <1>2, <1>3, ConcatProperties
  <1>5. /\ d \in Seq(S) /\ Len(d) = Len(a) + Len(b)
        /\ \A k \in 1..Len(d) : d[k] = IF k <= Len(a) THEN a[k] ELSE b[k - Len(a)]
    BY <1>1, ConcatProperties
  <1>6. ASSUME NEW k \in 1..Len(c)
        PROVE  c[k] = d[k]
    <2> HIDE DEF c, d
    <2>1. CASE k <= Len(a)
      BY <1>1, <1>2, <1>4, <1>5, <2>1
    <2>2. CASE k = Len(a) + 1
      BY <1>1, <1>2, <1>4, <1>5, <2>2
    <2>3. CASE k > Len(a) + 1
      <3>1. /\ k - (Len(a) + 1) \in 1..Len(Tail(b)) /\ (k - (Len(a) + 1)) + 1 = k - Len(a)
            /\ c[k] = Tail(b)[k - (Len(a) + 1)] /\ d[k] = b[k - Len(a)]
        BY <1>1, <1>3, <1>4, <1>5, <2>3
      <3> QED
        BY <1>3, <3>1
    <2> QED
      BY <1>1, <1>4, <2>1, <2>2, <2>3
  <1>7. c = d
    <2> HIDE DEF c, d
    <2> QED
      BY <1>4, <1>5, <1>6, SeqEqual
  <1> QED
    BY <1>2, <1>3, <1>7

LEMMA HeadOfConcat ==
    ASSUME NEW S, NEW a \in Seq(S), NEW b \in Seq(S), b # <<>>
    PROVE  Head(b) \in Range(a \o b)
  <1>1. Len(a) \in Nat /\ Len(b) \in Nat /\ Len(b) # 0 /\ Head(b) = b[1]
    OBVIOUS
  <1>2. /\ a \o b \in Seq(S) /\ Len(a \o b) = Len(a) + Len(b)
        /\ \A k \in 1..Len(a) + Len(b) : (a \o b)[k] = IF k <= Len(a) THEN a[k] ELSE b[k - Len(a)]
    BY ConcatProperties
  <1>3. Len(a) + 1 \in DOMAIN (a \o b) /\ (a \o b)[Len(a) + 1] = b[1]
    BY <1>1, <1>2
  <1> QED
    BY <1>1, <1>3 DEF Range

LEMMA ReadOnReads ==
    ASSUME TargetInv, MonitorInv, Calling, Reading, ReadOn
    PROVE  Calling' /\ Reading'
  <1> USE DEF targetVars, sendVars, mainVars, monitorVars, objectVars, memory
  <1>1. UNCHANGED <<loaded, mapped, infos, arrays, alive, work>> /\ Reader
    BY DEF ReadOn
  <1>2. call.at # "none" /\ CallFields(call)
    <2>1. call.at \in {"infos", "suspended", "search", "array", "images"}
      BY <1>1, Zenon DEF Reader, ReadInfos, MakeSuspended, ReadArray, ReadImage, MakeInfo
    <2> QED
      BY <2>1 DEF Calling
  <1>3. ASSUME CallFields(call)', call'.by = call.by, call'.stamp = call.stamp
        PROVE  Calling' /\ (BlockReads' => BlockReads)
    <2>1. \A m \in Monitors, w \in Workers : Doing(m, w)' = Doing(m, w)
      BY <1>1 DEF Doing
    <2> QED
      BY <1>1, <1>2, <1>3, <2>1 DEF Calling, BlockReads, BlockCalls
  <1>4. ASSUME NEW base, NEW kr, AttemptEnds(call, base, kr)
        PROVE  /\ CallFields(call)' /\ call'.by = call.by /\ call'.stamp = call.stamp
               /\ call'.at \in {"infos", "done"} /\ call'.imgs = <<>> /\ call'.kr = kr
               /\ base # NoResult => call'.result = base
    BY <1>2, <1>4 DEF AttemptEnds, CallFields
  <1>5. ASSUME BlockReads
        PROVE  /\ call.at \in {"infos", "array", "images", "done"} /\ alive /\ call.stamp = 0
               /\ infos.time # 0 /\ infos.array # 0 /\ infos.array = Len(arrays) /\ infos.count = Len(loaded)
               /\ loaded \in Seq(Images) /\ Range(loaded) \subseteq mapped /\ Len(loaded) <= MaxCount
               /\ \A k \in 1..Len(loaded) : arrays[infos.array][k] = loaded[k]
    BY <1>5, BlockCalled, Found DEF Reading, BlockReads, BlockCalls
  <1>6. CASE ReadInfos
    <2>1. CallFields(call)' /\ call'.by = call.by /\ call'.stamp = call.stamp
      <3>1. CASE \E kr : AttemptEnds(call, NoResult, kr)
        BY <1>4, <3>1
      <3>2. CASE call' = [call EXCEPT !.at = "suspended"] \/ call' = [call EXCEPT !.at = "array", !.infos = infos]
        BY <1>2, <3>2 DEF CallFields
      <3> QED
        BY <1>6, <3>1, <3>2 DEF ReadInfos
    <2>2. ASSUME BlockReads' PROVE Reading'
      <3>1. BlockReads
        BY <1>3, <2>1, <2>2
      <3>2. call' = [call EXCEPT !.at = "array", !.infos = infos] /\ call.imgs = <<>>
        BY <1>5, <1>6, <3>1 DEF ReadInfos, Reading
      <3>3. call'.at = "array" /\ call'.infos = infos /\ call'.imgs = <<>>
        BY <1>2, <3>2 DEF CallFields
      <3> QED
        BY <1>1, <3>3 DEF Reading
    <2> QED
      BY <1>3, <2>1, <2>2 DEF Reading
  <1>7. CASE MakeSuspended
    <2>1. CallFields(call)' /\ call'.by = call.by /\ call'.stamp = call.stamp
      <3>1. CASE \E base, kr : AttemptEnds(call, base, kr)
        BY <1>4, <3>1
      <3>2. CASE call' = [call EXCEPT !.at = "search"]
        BY <1>2, <3>2 DEF CallFields
      <3> QED
        BY <1>7, <3>1, <3>2 DEF MakeSuspended
    <2>2. ~BlockReads
      BY <1>5, <1>7 DEF MakeSuspended
    <2> QED
      BY <1>3, <2>1, <2>2 DEF Reading
  <1>8. CASE ReadArray
    <2> DEFINE n     == IF call.infos.count < MaxCount THEN call.infos.count ELSE MaxCount
               free  == call.infos.array # Len(arrays)
               t(lost) == [k \in 1..n |-> IF k \in lost THEN Junk ELSE arrays[call.infos.array][k]]
    <2>4. call.at = "array"
      BY <1>8, Zenon DEF ReadArray
    <2>0. \/ (~alive \/ free) /\ AttemptEnds(call, NoResult, "FAILURE")
          \/ \E lost : /\ ~free => lost = {}
                       /\ call' = [call EXCEPT !.at = "images", !.stale = free, !.todo = t(lost)]
      BY <1>8, Zenon DEF ReadArray
    <2> HIDE DEF t, free
    <2>1. CallFields(call)' /\ call'.by = call.by /\ call'.stamp = call.stamp
      <3>1. CASE AttemptEnds(call, NoResult, "FAILURE")
        BY <1>4, <3>1
      <3>2. ASSUME NEW s, NEW f, call' = [call EXCEPT !.at = "images", !.stale = f, !.todo = s]
            PROVE  CallFields(call)' /\ call'.by = call.by /\ call'.stamp = call.stamp
        BY <1>2, <3>2 DEF CallFields
      <3>3. CASE \E lost : call' = [call EXCEPT !.at = "images", !.stale = free, !.todo = t(lost)]
        BY <3>2, <3>3, Zenon
      <3> QED
        BY <2>0, <3>1, <3>3, Zenon
    <2>2. ASSUME BlockReads' PROVE Reading'
      <3>1. BlockReads
        BY <1>3, <2>1, <2>2
      <3>2. call.infos = infos /\ call.imgs = <<>>
        BY <2>4, <3>1 DEF Reading
      <3>3. n = Len(loaded)
        BY <1>5, <3>1, <3>2, ReaderAssumption
      <3>4. ~free /\ alive
        BY <1>5, <3>1, <3>2 DEF free
      <3>8. call' = [call EXCEPT !.at = "images", !.stale = free, !.todo = t({})]
        BY <2>0, <3>4, Zenon
      <3>5. t({}) = loaded
        BY <1>5, <3>1, <3>2, <3>3 DEF t
      <3>6. call'.at = "images" /\ call'.todo = loaded /\ call'.imgs = <<>> /\ call'.infos = infos
        BY <1>2, <3>2, <3>5, <3>8 DEF CallFields
      <3>7. <<>> \o loaded = loaded /\ <<>> \in Seq(Images)
        BY <1>5, <3>1
      <3> QED
        BY <1>1, <1>5, <3>1, <3>6, <3>7 DEF Reading
    <2> QED
      BY <1>3, <2>1, <2>2 DEF Reading
  <1>9. CASE ReadImage
    <2>1. CallFields(call)' /\ call'.by = call.by /\ call'.stamp = call.stamp
      <3>1. CASE AttemptEnds(call, NoResult, "FAILURE")
        BY <1>4, <3>1
      <3>2. CASE call' = [call EXCEPT !.todo = Tail(@), !.imgs = Append(@, Head(call.todo))]
        BY <1>2, <3>2 DEF CallFields
      <3> QED
        BY <1>9, <3>1, <3>2 DEF ReadImage
    <2>2. ASSUME BlockReads' PROVE Reading'
      <3>1. BlockReads
        BY <1>3, <2>1, <2>2
      <3> DEFINE a == call.imgs
                 b == call.todo
      <3>2. /\ a \in Seq(Images) /\ b \in Seq(Images) /\ a \o b = loaded /\ b # <<>>
            /\ call.infos.time = infos.time /\ call.at = "images"
        BY <1>9, <3>1 DEF ReadImage, Reading
      <3>3. Head(b) \in mapped
        <4> HIDE DEF a, b
        <4>1. Head(b) \in Range(a \o b)
          BY <3>2, HeadOfConcat
        <4> QED
          BY <1>5, <3>1, <3>2, <4>1
      <3>4. call' = [call EXCEPT !.todo = Tail(@), !.imgs = Append(@, Head(b))]
        BY <1>5, <1>9, <3>1, <3>3 DEF ReadImage
      <3>5. call'.at = "images" /\ call'.todo = Tail(b) /\ call'.imgs = Append(a, Head(b)) /\ call'.infos = call.infos
        BY <1>2, <3>2, <3>4 DEF CallFields
      <3>6. Append(a, Head(b)) \in Seq(Images) /\ Tail(b) \in Seq(Images) /\ Append(a, Head(b)) \o Tail(b) = a \o b
        <4> HIDE DEF a, b
        <4> QED
          BY <3>2, AppendConcat
      <3> QED
        BY <1>1, <3>2, <3>5, <3>6 DEF Reading
    <2> QED
      BY <1>3, <2>1, <2>2 DEF Reading
  <1>10. CASE MakeInfo
    <2> DEFINE base == [time |-> call.infos.time, imgs |-> call.imgs, stale |-> call.stale]
    <2>1. AttemptEnds(call, base, "SUCCESS") /\ call.at = "images" /\ call.todo = <<>>
      BY <1>10 DEF MakeInfo
    <2>2. CallFields(call)' /\ call'.by = call.by /\ call'.stamp = call.stamp
      BY <1>4, <2>1
    <2>3. ASSUME BlockReads' PROVE Reading'
      <3>1. BlockReads
        BY <1>3, <2>2, <2>3
      <3>2. call.imgs = loaded /\ call.infos.time # 0
        BY <1>5, <2>1, <3>1 DEF Reading
      <3>3. base # NoResult /\ base.imgs = loaded
        BY <3>2 DEF NoResult
      <3>4. /\ call'.at \in {"infos", "done"} /\ call'.imgs = <<>> /\ call'.kr = "SUCCESS" /\ call'.result = base
        BY <1>4, <2>1, <3>3
      <3> QED
        BY <1>1, <3>3, <3>4 DEF Reading
    <2> QED
      BY <1>3, <2>2, <2>3 DEF Reading
  <1> QED
    BY <1>1, <1>6, <1>7, <1>8, <1>9, <1>10 DEF Reader

LEMMA ProcessReads ==
    ASSUME TargetInv, MonitorInv, Calling, Reading,
           \/ Target /\ alive /\ UNCHANGED <<alive, call, sendVars, mainVars, monitorVars>>
           \/ NotifyMonitors \/ Split \/ NextMessage \/ NotifyMain \/ MainNext \/ Exit
           \/ \E m \in Monitors : Send(m) \/ SendMain(m)
    PROVE  Calling' /\ Reading'
  <1> USE DEF targetVars, sendVars, mainVars, monitorVars, objectVars, memory
  <1>1. call' = call /\ work' = work
    <2>1. CASE Target /\ alive /\ UNCHANGED <<alive, call, sendVars, mainVars, monitorVars>>
      BY <2>1
    <2>2. CASE NotifyMonitors \/ Split \/ NextMessage \/ NotifyMain \/ MainNext
      BY <2>2 DEF NotifyMonitors, Split, NextMessage, NotifyMain, MainNext
    <2>3. CASE Exit \/ \E m \in Monitors : Send(m) \/ SendMain(m)
      BY <2>3 DEF Exit, Send, SendMain
    <2> QED
      BY <2>1, <2>2, <2>3
  <1>2. ASSUME BlockReads' PROVE alive /\ UNCHANGED <<loaded, infos>>
    <2>1. CASE Target /\ alive /\ UNCHANGED <<alive, call, sendVars, mainVars, monitorVars>>
      <3>1. pc = "wait"
        BY <1>1, <1>2, <2>1, BlockCalled DEF BlockReads, BlockCalls
      <3>2. Resume
        BY <2>1, <3>1 DEF Target, Launch, Mirror, MirrorBegin, MirrorFill, MirrorTime, MirrorArray,
                          MirrorUuids, Unmap, Load, Unload
      <3> QED
        BY <2>1, <3>2 DEF Resume
    <2>2. CASE NotifyMonitors \/ Split \/ NextMessage \/ NotifyMain \/ MainNext
      BY <1>2, <2>2 DEF NotifyMonitors, Split, NextMessage, NotifyMain, MainNext, BlockReads, BlockCalls
    <2>3. CASE Exit
      BY <1>2, <2>3 DEF Exit, BlockReads, BlockCalls
    <2>4. CASE \E m \in Monitors : Send(m) \/ SendMain(m)
      BY <1>2, <2>4 DEF Send, SendMain, BlockReads, BlockCalls
    <2> QED
      BY <2>1, <2>2, <2>3, <2>4
  <1> QED
    BY <1>1, <1>2, CallKept

OwnSteps(m) ==
    \/ Register(m) \/ Connect(m) \/ HandleEvent(m) \/ HandleMain(m) \/ CallNotify(m) \/ BlockReturns(m)
    \/ Reply(m) \/ ReplyMain(m) \/ Teardown(m) \/ CallExit(m) \/ Delete(m)

LEMMA MonitorReads ==
    ASSUME MonitorInv, Calling, Reading, NEW m \in Monitors,
           \/ OwnSteps(m)
           \/ \E w \in Workers : \/ Retain(m, w) \/ Release(m, w) \/ Disconnect(m, w) \/ Clear(m, w)
                                 \/ Cancel(m, w) \/ \E b \in Blocks : Enqueue(m, w, b)
    PROVE  Calling' /\ Reading'
  <1> USE DEF targetVars, sendVars, mainVars, objectVars, memory
  <1>1. UNCHANGED <<call, alive, loaded, infos>>
    <2>1. CASE Register(m) \/ Connect(m) \/ HandleEvent(m) \/ HandleMain(m) \/ CallNotify(m) \/ BlockReturns(m)
      BY <2>1 DEF Register, Connect, HandleEvent, HandleMain, CallNotify, BlockReturns
    <2>2. CASE Reply(m) \/ ReplyMain(m) \/ Teardown(m) \/ CallExit(m) \/ Delete(m)
      BY <2>2 DEF Reply, ReplyMain, Teardown, CallExit, Delete
    <2>3. CASE \E w \in Workers : Retain(m, w) \/ Release(m, w) \/ Disconnect(m, w) \/ Clear(m, w) \/ Cancel(m, w)
      BY <2>3 DEF Retain, Release, Disconnect, Clear, Cancel
    <2>4. CASE \E w \in Workers : \E b \in Blocks : Enqueue(m, w, b)
      BY <2>4 DEF Enqueue
    <2> QED
      BY <2>1, <2>2, <2>3, <2>4 DEF OwnSteps
  <1>2. \E w \in Workers : \E s : Doing(m, w) # "create" /\ (work' = work \/ work' = [work EXCEPT ![m][w] = s])
    <2> USE DEF Do, Start
    <2>1. CASE Register(m) \/ Connect(m)
      <3>1. Doing(m, "thread") # "create" /\ (work' = work \/ \E s : work' = [work EXCEPT ![m]["thread"] = s])
        BY <2>1 DEF Register, Connect, MayCall
      <3> QED
        BY <3>1 DEF Workers
    <2>2. CASE \/ HandleEvent(m) \/ HandleMain(m) \/ CallNotify(m) \/ BlockReturns(m) \/ Reply(m) \/ ReplyMain(m)
               \/ Teardown(m) \/ CallExit(m) \/ Delete(m)
      <3>1. Doing(m, "queue") # "create" /\ (work' = work \/ \E s : work' = [work EXCEPT ![m]["queue"] = s])
        <4>1. CASE HandleEvent(m) \/ HandleMain(m)
          BY <4>1 DEF HandleEvent, HandleMain, Listens
        <4>2. CASE CallNotify(m)
          BY <4>2 DEF CallNotify
        <4>3. CASE BlockReturns(m)
          BY <4>3 DEF BlockReturns
        <4>4. CASE Reply(m) \/ ReplyMain(m)
          BY <4>4 DEF Reply, ReplyMain
        <4>5. CASE Teardown(m) \/ CallExit(m) \/ Delete(m)
          BY <4>5 DEF Teardown, CallExit, Delete
        <4> QED
          BY <2>2, <4>1, <4>2, <4>3, <4>4, <4>5
      <3> QED
        BY <3>1 DEF Workers
    <2>3. ASSUME NEW w \in Workers,
                 \/ Retain(m, w) \/ Release(m, w) \/ Disconnect(m, w) \/ Clear(m, w) \/ Cancel(m, w)
                 \/ \E b \in Blocks : Enqueue(m, w, b)
          PROVE  Doing(m, w) # "create" /\ (work' = work \/ \E s : work' = [work EXCEPT ![m][w] = s])
      <3>1. CASE Retain(m, w) \/ Release(m, w)
        <4>1. Doing(m, w) # "create"
          BY <3>1 DEF Retain, Release, MayCall
        <4> QED
          BY <3>1, <4>1 DEF Retain, Release
      <3>2. CASE Disconnect(m, w) \/ Clear(m, w) \/ Cancel(m, w)
        BY <3>2 DEF Disconnect, Clear, Cancel
      <3>3. CASE \E b \in Blocks : Enqueue(m, w, b)
        BY <3>3 DEF Enqueue, Blocks
      <3> QED
        BY <2>3, <3>1, <3>2, <3>3
    <2> QED
      BY <2>1, <2>2, <2>3 DEF OwnSteps
  <1>3. \A n \in Monitors, v \in Workers : Doing(n, v) = "create" => work'[n][v] = work[n][v]
    BY <1>2, StillWaits DEF MonitorInv
  <1> QED
    BY <1>1, <1>3, CallKept DEF BlockReads, BlockCalls

LEMMA NoCallReads ==
    ASSUME call' = NoCall
    PROVE  Calling' /\ Reading'
  BY DEF Calling, Reading, BlockReads, BlockCalls, CallFields, NoCall

LEMMA CrashReads ==
    ASSUME MonitorInv, Calling, Reading, NEW m \in Monitors, Crash(m)
    PROVE  Calling' /\ Reading'
  <1>1. /\ UNCHANGED <<alive, loaded, infos>> /\ work' = [work EXCEPT ![m] = [w \in Workers |-> <<>>]]
        /\ call' = IF call.at # "none" /\ call.by[1] = m THEN NoCall ELSE call
    BY DEF Crash, memory
  <1>2. CASE call' = NoCall
    BY <1>2, NoCallReads
  <1>3. CASE call' # NoCall
    <2>1. call' = call /\ ~(call.at # "none" /\ call.by[1] = m)
      BY <1>1, <1>3
    <2>2. \A n \in Monitors : n # m => work'[n] = work[n]
      BY <1>1 DEF MonitorInv, Working
    <2>3. \A n \in Monitors, v \in Workers : n # m => Doing(n, v)' = Doing(n, v)
      BY <2>2 DEF Doing
    <2>4. Calling'
      <3>1. ASSUME call.at # "none"
            PROVE  \E n \in Monitors, v \in Workers, c \in BOOLEAN : call.by = <<n, v, c>> /\ Doing(n, v)' = "create"
        <4>1. PICK n \in Monitors, v \in Workers, c \in BOOLEAN : call.by = <<n, v, c>> /\ Doing(n, v) = "create"
          BY <3>1 DEF Calling
        <4>2. n # m
          BY <2>1, <3>1, <4>1
        <4> QED
          BY <2>3, <4>1, <4>2
      <3> QED
        BY <2>1, <3>1 DEF Calling, CallFields
    <2>5. Reading'
      <3>1. UNCHANGED <<call, alive, loaded, infos>>
        BY <1>1, <2>1
      <3>2. call.at # "none" => call.by[1] \in Monitors /\ call.by[1] # m
        BY <2>1 DEF Calling
      <3>3. call.at # "none" => work'[call.by[1]] = work[call.by[1]]
        BY <2>2, <3>2
      <3>4. BlockReads' => BlockReads
        BY <3>1, <3>3 DEF BlockReads, BlockCalls
      <3> QED
        BY <3>1, <3>4 DEF Reading
    <2> QED
      BY <2>4, <2>5
  <1> QED
    BY <1>2, <1>3

LEMMA CallStarts ==
    ASSUME Working, NEW m \in Monitors, NEW w \in Workers, Start(m, w, <<"create">>)
    PROVE  Doing(m, w)' = "create"
  <1> DEFINE T == Tasks \cup {"connect"}
  <1>1. work'[m][w] = <<"create">> \o work[m][w] /\ work[m][w] \in Seq(T)
    BY DEF Start, Working
  <1>2. <<"create">> \in Seq(T)
    BY DEF Tasks
  <1> HIDE DEF T
  <1>3. <<"create">> \o work[m][w] \in Seq(T) /\ (<<"create">> \o work[m][w])[1] = "create"
        /\ Len(<<"create">> \o work[m][w]) # 0
    BY <1>1, <1>2, ConcatProperties
  <1> QED
    BY <1>1, <1>3 DEF Doing

LEMMA InspectReads ==
    ASSUME MonitorInv, NEW m \in Monitors, NEW w \in Workers, NEW stamp, Inspect(m, w, stamp)
    PROVE  Calling' /\ Reading'
  <1>1. call' = [NoCall EXCEPT !.at = "infos", !.by = <<m, w, connected[m]>>, !.stamp = stamp]
    BY DEF Inspect, Create
  <1>2. /\ CallFields(call)' /\ call'.at = "infos" /\ call'.by = <<m, w, connected[m]>> /\ call'.imgs = <<>>
    BY <1>1 DEF NoCall, CallFields
  <1>3. Doing(m, w)' = "create"
    <2>1. MayCall(m, w) /\ Start(m, w, <<"create">>)
      BY DEF Inspect
    <2> QED
      BY <2>1, CallStarts DEF MonitorInv
  <1>4. connected[m] \in BOOLEAN
    BY DEF MonitorInv, MonitorTypes
  <1>5. Calling'
    BY <1>2, <1>3, <1>4 DEF Calling
  <1> QED
    BY <1>2, <1>5 DEF Reading

LEMMA ReadingStep ==
    ASSUME TargetInv, MonitorInv, Calling, Reading, [Next]_vars
    PROVE  Calling' /\ Reading'
  <1>1. CASE \/ Target /\ alive /\ UNCHANGED <<alive, call, sendVars, mainVars, monitorVars>>
             \/ NotifyMonitors \/ Split \/ NextMessage \/ NotifyMain \/ MainNext \/ Exit
    BY <1>1, ProcessReads
  <1>2. CASE ReadOn
    BY <1>2, ReadOnReads
  <1>3. ASSUME NEW m \in Monitors, Send(m) \/ SendMain(m) \/ Register(m) \/ Crash(m)
        PROVE  Calling' /\ Reading'
    BY <1>3, ProcessReads, MonitorReads, CrashReads DEF OwnSteps
  <1>4. ASSUME NEW m \in Monitors, NEW w \in Workers, CallRuns(m, w)
        PROVE  Calling' /\ Reading'
    <2>1. CASE Created(m, w)
      BY <2>1, NoCallReads DEF Created
    <2>2. CASE Disconnect(m, w) \/ Clear(m, w) \/ Cancel(m, w)
      BY <2>2, MonitorReads
    <2>3. CASE ExitLater(m, w) \/ DeleteLater(m, w)
      BY <2>3, MonitorReads DEF ExitLater, DeleteLater, Blocks
    <2> QED
      BY <1>4, <2>1, <2>2, <2>3 DEF CallRuns
  <1>5. ASSUME NEW m \in Monitors, ThreadRuns(m)
        PROVE  Calling' /\ Reading'
    BY <1>4, <1>5, MonitorReads DEF ThreadRuns, Workers, OwnSteps
  <1>6. ASSUME NEW m \in Monitors, QueueRuns(m)
        PROVE  Calling' /\ Reading'
    BY <1>4, <1>6, MonitorReads DEF QueueRuns, Workers, OwnSteps
  <1>7. ASSUME NEW m \in Monitors, NEW w \in Workers,
               Retain(m, w) \/ Release(m, w) \/ \E stamp \in 0..Len(lists) : Inspect(m, w, stamp)
        PROVE  Calling' /\ Reading'
    BY <1>7, MonitorReads, InspectReads
  <1>8. CASE UNCHANGED vars
    <2>1. UNCHANGED <<call, alive, loaded, infos, work>>
      BY <1>8 DEF vars, targetVars, memory, monitorVars
    <2> QED
      BY <2>1, CallKept DEF BlockReads, BlockCalls
  <1> QED
    BY <1>1, <1>2, <1>3, <1>5, <1>6, <1>7, <1>8 DEF Next

LEMMA CallingHolds == Spec => [](Calling /\ Reading)
  <1>1. Init => Calling /\ Reading
    BY DEF Init, Calling, Reading, BlockReads, BlockCalls, CallFields, NoCall
  <1>2. (TargetInv /\ MonitorInv) /\ (Calling /\ Reading) /\ [Next]_vars => (Calling /\ Reading)'
    BY ReadingStep
  <1> QED
    BY <1>1, <1>2, MonitorInvHolds, PTL DEF Spec

\* A notify block that reads the list gets the whole of it as it is, in every attempt:
\* the thread that changes the list waits for the answer, which comes after the blocks,
\* whatever the thread about to call main() has under way.
THEOREM BlocksReadTheList == Spec => []BlockReadsExact
  <1>1. Calling /\ Reading => BlockReadsExact
    BY DEF Reading, BlockReads, BlockCalls, BlockReadsExact
  <1> QED
    BY <1>1, CallingHolds, PTL

-----------------------------------------------------------------------------
(* What a monitor knows *)

\* Monitors are told of image i by the change under way, but not yet ...
Due(i) ==
    \/ pc = "launch" /\ i \in Range(Initial)
    \/ pc \in {"mirror", "fill", "array", "uuids", "notify"} /\ i \in Range(change.imgs)

\* ... a message about it is still to be sent to m ...
Posted(m, i) ==
    /\ pc \in {"send", "wait"}
    /\ \E k \in DOMAIN msgs : i \in Range(msgs[k].imgs) /\ (m \in pending \/ (m \in names /\ k # 1))

\* ... it is in the port of m, or being handled.
InPort(m, i)  == \E k \in DOMAIN inbox[m] : i \in Range(inbox[m][k].imgs)
Expects(m, i) == Due(i) \/ Posted(m, i) \/ InPort(m, i) \/ i \in Range(got[m].imgs)

\* m goes by the list it read: it had no notice of i, and none is to come.
Open(m, i) == seen[m][i] = None /\ ~Expects(m, i)

\* A message says what has changed.
Right(x) ==
    \A i \in Range(x.imgs) : /\ i \in Range(change.imgs)
                             /\ x.kind = (IF change.unload THEN "unload" ELSE "load")

\* Of c entries of the array, image i is among them if and only if it is in the list,
\* and not before its place there.  So it stays while the array is written: an entry
\* of i is only overwritten when those before it are right.
Shows(c, i) ==
    /\ i \in Range(loaded) =>
          \E k \in 1..c : k \in DOMAIN Array /\ Array[k] = i /\ \E p \in DOMAIN loaded : p <= k /\ loaded[p] = i
    /\ i \notin Range(loaded) => \A k \in 1..c : k \in DOMAIN Array => Array[k] # i

\* The process.
ProcessTells ==
    /\ suspended => pc = "launch"
    /\ (pc = "mirror" /\ infos.array # 0) =>
          \A i \in Images : i \notin Range(change.imgs) => Shows(infos.count, i)
    /\ ~change.unload => Range(change.imgs) \subseteq Range(loaded)
    /\ pc \in {"send", "wait"} => \A k \in DOMAIN msgs : Right(msgs[k])

\* The messages of a monitor, and what it has heard.
Hears(m) ==
    /\ port[m] = "live" => m \in registered
    /\ \A k \in DOMAIN inbox[m] : Right(inbox[m][k])
    /\ Right(got[m])
    /\ got[m].imgs # <<>> => "notify" \in Range(work[m]["queue"])
    /\ port[m] = "live" =>
          \A i \in Images : (seen[m][i] # None /\ ~Expects(m, i)) =>
                               (seen[m][i] = "load" <=> i \in Range(loaded))

CallOf(m) == call.at # "none" /\ call.by[1] = m /\ call.by[3]

\* Before it registers it has heard and read nothing.
Begins(m) ==
    port[m] = "none" => snap[m] = NoResult /\ ~CallOf(m) /\ \A i \in Images : seen[m][i] = None

\* What a list that was read says of i.
Whole(r)    == r # NoResult /\ ~r.stale /\ Len(r.imgs) < MaxCount
Says(r, i)  == Whole(r) => (i \in Range(r.imgs) <=> i \in Range(loaded))
CallSays(i) ==
    /\ (call.at = "array" /\ call.infos.array = Len(arrays)) => Shows(call.infos.count, i)
    /\ (call.at = "images" /\ ~call.stale /\ Len(call.imgs) + Len(call.todo) < MaxCount) =>
          (i \in Range(call.imgs) \cup Range(call.todo) <=> i \in Range(loaded))
    /\ Says(call.result, i)

Sees(m) ==
    port[m] = "live" =>
       \A i \in Images : Open(m, i) => Says(snap[m], i) /\ (CallOf(m) => CallSays(i))

\* How far a call has come.
CallTypes ==
    /\ call.at \in {"infos", "suspended", "search", "array"} => call.imgs = <<>>
    /\ call.at = "array" =>
          /\ call.infos.array \in 1..Len(arrays) /\ call.infos.count \in Nat
          /\ call.infos.array = Len(arrays) => call.infos.count <= Len(Array)
    /\ (call.at = "images" /\ ~call.stale) =>
          call.imgs \in Seq(Images \cup {Junk}) /\ call.todo \in Seq(Images \cup {Junk})

ViewTypes ==
    /\ got \in [Monitors -> [kind : {None, "load", "unload", "no_senders"}, imgs : Seq(Images), time : Nat]]
    /\ seen \in [Monitors -> [Images -> {None, "load", "unload", "no_senders"}]]
    /\ DOMAIN snap = Monitors

ViewInv ==
    /\ ViewTypes
    /\ alive => /\ ProcessTells /\ CallTypes
                /\ \A m \in Monitors : Hears(m) /\ Begins(m) /\ Sees(m)

-----------------------------------------------------------------------------
(* Lists *)

\* What is selected does not move back.
LEMMA SelectedBefore ==
    ASSUME NEW U, NEW s \in Seq(U), NEW S, NEW k \in DOMAIN s, s[k] \in S
    PROVE  \E j \in DOMAIN Selected(s, S) : j <= k /\ Selected(s, S)[j] = s[k]
  <1>1. k \in Places(s, S) /\ k \in Nat /\ Places(s, S) \subseteq Nat
    BY DEF Places
  <1>2. PICK j \in 1..Cardinality(Places(s, S)) : Place(s, S, j) = k
    BY <1>1, SelectedPlaces
  <1>3. Rank(Places(s, S), k) = j /\ Selected(s, S)[j] = s[k] /\ j \in DOMAIN Selected(s, S)
    BY <1>2, SelectedPlaces
  <1>4. j <= k
    <2>1. {l \in Places(s, S) : l <= k} \subseteq 1..k
      BY <1>1 DEF Places
    <2>2. IsFiniteSet(1..k) /\ Cardinality(1..k) = k
      BY <1>1, FS_Interval
    <2>3. Cardinality({l \in Places(s, S) : l <= k}) <= k
      BY <2>1, <2>2, FS_Subset
    <2> QED
      BY <1>3, <2>3 DEF Rank
  <1> QED
    BY <1>3, <1>4

LEMMA RangeAppend ==
    ASSUME NEW U, NEW s \in Seq(U), NEW x \in U
    PROVE  Range(Append(s, x)) = Range(s) \cup {x} /\ Len(Append(s, x)) = Len(s) + 1 /\ Append(s, x) \in Seq(U)
  <1>1. /\ Append(s, x) \in Seq(U) /\ Len(Append(s, x)) = Len(s) + 1 /\ Len(s) \in Nat
        /\ \A k \in 1..Len(s) : Append(s, x)[k] = s[k]
        /\ Append(s, x)[Len(s) + 1] = x
    BY AppendProperties
  <1>2. DOMAIN s = 1..Len(s) /\ DOMAIN Append(s, x) = 1..(Len(s) + 1)
    BY <1>1
  <1>3. ASSUME NEW y \in Range(Append(s, x)) PROVE y \in Range(s) \cup {x}
    <2>1. PICK k \in 1..(Len(s) + 1) : y = Append(s, x)[k]
      BY <1>2 DEF Range
    <2> QED
      BY <1>1, <1>2, <2>1 DEF Range
  <1>4. ASSUME NEW y \in Range(s) PROVE y \in Range(Append(s, x))
    <2>1. PICK k \in 1..Len(s) : y = s[k]
      BY <1>2 DEF Range
    <2>2. k \in DOMAIN Append(s, x) /\ Append(s, x)[k] = y
      BY <1>1, <1>2, <2>1
    <2> QED
      BY <2>2 DEF Range
  <1>5. x \in Range(Append(s, x))
    <2>1. Len(s) + 1 \in DOMAIN Append(s, x)
      BY <1>1, <1>2
    <2> QED
      BY <1>1, <2>1 DEF Range
  <1> QED
    BY <1>1, <1>3, <1>4, <1>5

LEMMA RangeHeadTail ==
    ASSUME NEW U, NEW s \in Seq(U), s # <<>>
    PROVE  /\ Range(s) = {Head(s)} \cup Range(Tail(s)) /\ Head(s) \in U /\ Tail(s) \in Seq(U)
           /\ Len(Tail(s)) = Len(s) - 1 /\ Head(s) = s[1]
  <1>1. /\ Tail(s) \in Seq(U) /\ Len(Tail(s)) = Len(s) - 1 /\ Len(s) \in Nat /\ Len(s) # 0 /\ Head(s) = s[1]
        /\ \A k \in 1..Len(Tail(s)) : Tail(s)[k] = s[k + 1]
        /\ Head(s) \in U
    BY HeadTailProperties
  <1>2. DOMAIN s = 1..Len(s) /\ DOMAIN Tail(s) = 1..(Len(s) - 1)
    BY <1>1
  <1>3. ASSUME NEW y \in Range(s) PROVE y \in {Head(s)} \cup Range(Tail(s))
    <2>1. PICK k \in 1..Len(s) : y = s[k]
      BY <1>2 DEF Range
    <2>2. CASE k = 1
      BY <1>1, <2>1, <2>2
    <2>3. CASE k # 1
      <3>1. k - 1 \in DOMAIN Tail(s) /\ Tail(s)[k - 1] = y
        BY <1>1, <1>2, <2>1, <2>3
      <3> QED
        BY <3>1 DEF Range
    <2> QED
      BY <2>2, <2>3
  <1>4. ASSUME NEW y \in Range(Tail(s)) PROVE y \in Range(s)
    <2>1. PICK k \in 1..(Len(s) - 1) : y = Tail(s)[k]
      BY <1>2 DEF Range
    <2>2. k + 1 \in DOMAIN s /\ s[k + 1] = y
      BY <1>1, <1>2, <2>1
    <2> QED
      BY <2>2 DEF Range
  <1>5. Head(s) \in Range(s)
    BY <1>1, <1>2 DEF Range
  <1> QED
    BY <1>1, <1>3, <1>4, <1>5

\* The halves of a list are the list.
LEMMA Halves ==
    ASSUME NEW U, NEW s \in Seq(U), NEW h \in 0..Len(s)
    PROVE  /\ Range(SubSeq(s, 1, h)) \cup Range(SubSeq(s, h + 1, Len(s))) = Range(s)
           /\ SubSeq(s, 1, h) \in Seq(U) /\ SubSeq(s, h + 1, Len(s)) \in Seq(U)
  <1>1. Len(s) \in Nat /\ h \in Nat /\ h <= Len(s) /\ s \in [1..Len(s) -> U]
    OBVIOUS
  <1>2. SubSeq(s, 1, h) \o SubSeq(s, h + 1, Len(s)) = s
    <2>1. CASE s = <<>>
      <3>1. h = 0 /\ SubSeq(s, 1, 0) = <<>> /\ SubSeq(s, 1, 0) = <<>>
        BY <2>1
      <3>2. SubSeq(s, h + 1, Len(s)) = <<>> /\ SubSeq(s, 1, h) = <<>>
        BY <2>1, <3>1
      <3> QED
        BY <2>1, <3>2
    <2>2. CASE s # <<>>
      <3>1. 1 \in 1..(Len(s) + 1) /\ h \in (1 - 1)..Len(s) /\ Len(s) \in h..Len(s)
        BY <1>1
      <3>2. SubSeq(s, 1, h) \o SubSeq(s, h + 1, Len(s)) = SubSeq(s, 1, Len(s))
        BY <3>1, ConcatAdjacentSubSeq
      <3> QED
        BY <3>2, SubSeqFull
    <2> QED
      BY <2>1, <2>2
  <1>3. SubSeq(s, 1, h) \in Seq(U)
    <2>1. \A i \in 1..h : s[i] \in U
      BY <1>1
    <2> QED
      BY <1>1, <2>1, SubSeqProperties
  <1>4. SubSeq(s, h + 1, Len(s)) \in Seq(U)
    <2>1. \A i \in (h + 1)..Len(s) : s[i] \in U
      BY <1>1
    <2>2. h + 1 \in Int /\ Len(s) \in Int
      BY <1>1
    <2> QED
      BY <2>1, <2>2, SubSeqProperties
  <1> DEFINE a == SubSeq(s, 1, h)
             b == SubSeq(s, h + 1, Len(s))
  <1>5. a \in Seq(U) /\ b \in Seq(U) /\ a \o b = s
    BY <1>2, <1>3, <1>4
  <1> HIDE DEF a, b
  <1>6. Range(a \o b) = Range(a) \cup Range(b)
    BY <1>5, RangeConcatenation
  <1>7. Range(a) \cup Range(b) = Range(s)
    BY <1>5, <1>6
  <1> QED
    BY <1>5, <1>7 DEF a, b

-----------------------------------------------------------------------------
(* What a step that is not about a monitor leaves alone *)

SameChange ==
    /\ UNCHANGED <<loaded, infos, arrays, suspended, change, msgs, names, pending>>
    /\ pc' = pc \/ (pc \in {"send", "wait"} /\ pc' \in {"send", "wait"})
SameNews(m) == inbox'[m] = inbox[m] /\ got'[m] = got[m] /\ seen'[m] = seen[m]

LEMMA NewsSame ==
    ASSUME NEW m \in Monitors, SameChange, SameNews(m)
    PROVE  /\ \A i : Expects(m, i)' <=> Expects(m, i)
           /\ \A i : Open(m, i)' <=> Open(m, i)
           /\ \A x : Right(x)' <=> Right(x)
  <1>1. \A i : Due(i)' <=> Due(i)
    BY DEF Due, SameChange
  <1>2. \A i : Posted(m, i)' <=> Posted(m, i)
    BY DEF Posted, SameChange
  <1>3. \A i : InPort(m, i)' <=> InPort(m, i)
    BY DEF InPort, SameNews
  <1>4. \A i : Expects(m, i)' <=> Expects(m, i)
    BY <1>1, <1>2, <1>3 DEF Expects, SameNews
  <1>5. \A i : Open(m, i)' <=> Open(m, i)
    BY <1>4 DEF Open, SameNews
  <1>6. \A x : Right(x)' <=> Right(x)
    BY DEF Right, SameChange
  <1> QED
    BY <1>4, <1>5, <1>6

LEMMA ShowsSame ==
    ASSUME UNCHANGED <<loaded, arrays>>
    PROVE  \A c, i : Shows(c, i)' <=> Shows(c, i)
  <1>1. Array' = Array
    BY DEF Array
  <1> QED
    BY <1>1 DEF Shows

LEMMA ProcessSame ==
    ASSUME ProcessTells, SameChange
    PROVE  ProcessTells'
  <1>1. \A c, i : Shows(c, i)' <=> Shows(c, i)
    BY ShowsSame DEF SameChange
  <1>2. \A x : Right(x)' <=> Right(x)
    BY DEF Right, SameChange
  <1>3. (suspended => pc = "launch")' /\ (~change.unload => Range(change.imgs) \subseteq Range(loaded))'
    BY DEF ProcessTells, SameChange
  <1>4. (pc \in {"send", "wait"} => \A k \in DOMAIN msgs : Right(msgs[k]))'
    <2>1. pc' \in {"send", "wait"} => \A k \in DOMAIN msgs : Right(msgs[k])
      BY DEF ProcessTells, SameChange
    <2> QED
      BY <1>2, <2>1 DEF SameChange
  <1>5. ((pc = "mirror" /\ infos.array # 0) =>
          \A i \in Images : i \notin Range(change.imgs) => Shows(infos.count, i))'
    BY <1>1 DEF ProcessTells, SameChange
  <1> QED
    BY <1>3, <1>4, <1>5 DEF ProcessTells

Notifying(m) == "notify" \in Range(work[m]["queue"])

LEMMA HearsSame ==
    ASSUME NEW m \in Monitors, Hears(m), SameChange, SameNews(m),
           port'[m] = "live" => port[m] = "live" /\ (m \in registered => m \in registered'),
           Notifying(m) => Notifying(m)'
    PROVE  Hears(m)'
  <1>1. /\ \A i : Expects(m, i)' <=> Expects(m, i)
        /\ \A x : Right(x)' <=> Right(x)
    BY NewsSame
  <1>2. (port[m] = "live" => m \in registered)'
    BY DEF Hears
  <1>3. (\A k \in DOMAIN inbox[m] : Right(inbox[m][k]))'
    BY <1>1 DEF Hears, SameNews
  <1>4. Right(got[m])'
    BY <1>1 DEF Hears, SameNews
  <1>5. (got[m].imgs # <<>> => "notify" \in Range(work[m]["queue"]))'
    BY DEF Hears, SameNews, Notifying
  <1>6. (port[m] = "live" =>
          \A i \in Images : (seen[m][i] # None /\ ~Expects(m, i)) =>
                               (seen[m][i] = "load" <=> i \in Range(loaded)))'
    BY <1>1 DEF Hears, SameNews, SameChange
  <1> QED
    BY <1>2, <1>3, <1>4, <1>5, <1>6 DEF Hears

LEMMA BeginsSame ==
    ASSUME NEW m \in Monitors, Begins(m), port'[m] = "none" => port[m] = "none",
           port[m] = "none" => snap'[m] = snap[m] /\ seen'[m] = seen[m] /\ (CallOf(m)' => CallOf(m))
    PROVE  Begins(m)'
  BY DEF Begins

\* An image about which m goes by its list is neither loaded nor unloaded.
Keeps(m) ==
    \A i \in Images : Open(m, i)' => Open(m, i) /\ (i \in Range(loaded') <=> i \in Range(loaded))

ArrayKeeps(m) ==
    \A i \in Images :
       (Open(m, i)' /\ call.at = "array" /\ CallOf(m) /\ call.infos.array = Len(arrays')) =>
           call.infos.array = Len(arrays) /\ (Shows(call.infos.count, i) => Shows(call.infos.count, i)')

LEMMA SeesSame ==
    ASSUME NEW m \in Monitors, Sees(m), snap'[m] = snap[m], call' = call,
           port'[m] = "live" => port[m] = "live" /\ Keeps(m) /\ ArrayKeeps(m)
    PROVE  Sees(m)'
  <1> SUFFICES ASSUME port'[m] = "live", NEW i \in Images, Open(m, i)'
               PROVE  Says(snap[m], i)' /\ (CallOf(m)' => CallSays(i)')
    BY DEF Sees
  <1>1. Open(m, i) /\ (i \in Range(loaded') <=> i \in Range(loaded))
    BY DEF Keeps
  <1>2. Says(snap[m], i) /\ (CallOf(m) => CallSays(i))
    BY <1>1 DEF Sees
  <1>3. \A r : Says(r, i)' <=> Says(r, i)
    BY <1>1 DEF Says, Whole
  <1>4. Says(snap[m], i)'
    BY <1>2, <1>3
  <1>5. CallOf(m)' => CallOf(m)
    BY DEF CallOf
  <1>6. ASSUME CallOf(m) PROVE CallSays(i)'
    <2>1. Says(call.result, i)'
      BY <1>2, <1>3, <1>6 DEF CallSays
    <2>2. ((call.at = "images" /\ ~call.stale /\ Len(call.imgs) + Len(call.todo) < MaxCount) =>
             (i \in Range(call.imgs) \cup Range(call.todo) <=> i \in Range(loaded)))'
      BY <1>1, <1>2, <1>6 DEF CallSays
    <2>3. ((call.at = "array" /\ call.infos.array = Len(arrays)) => Shows(call.infos.count, i))'
      <3> SUFFICES ASSUME call.at = "array", call.infos.array = Len(arrays') PROVE Shows(call.infos.count, i)'
        OBVIOUS
      <3>1. call.infos.array = Len(arrays) /\ (Shows(call.infos.count, i) => Shows(call.infos.count, i)')
        BY <1>6 DEF ArrayKeeps
      <3> QED
        BY <1>2, <1>6, <3>1 DEF CallSays
    <2> QED
      BY <2>1, <2>2, <2>3 DEF CallSays
  <1> QED
    BY <1>4, <1>5, <1>6

LEMMA KeepsSame ==
    ASSUME NEW m \in Monitors, SameChange, SameNews(m), call' = call
    PROVE  Keeps(m) /\ ArrayKeeps(m)
  <1>1. Keeps(m)
    BY NewsSame DEF Keeps, SameChange
  <1>2. ArrayKeeps(m)
    BY ShowsSame DEF ArrayKeeps, SameChange
  <1> QED
    BY <1>1, <1>2

LEMMA CallTypesSame ==
    ASSUME CallTypes, UNCHANGED <<call, arrays>>
    PROVE  CallTypes'
  BY DEF CallTypes, Array

\* Nothing is under way to a monitor while the process does not wait.
LEMMA Quiet ==
    ASSUME MonitorInv, NEW m \in Monitors, Hears(m), alive, pc # "wait"
    PROVE  inbox[m] = <<>> /\ got[m].imgs = <<>> /\ \A i : ~InPort(m, i) /\ i \notin Range(got[m].imgs)
  <1>1. inbox[m] = <<>> /\ ~Answering(work[m]["queue"])
    BY DEF MonitorInv, Waiting, Holds
  <1>2. QueueWork(work[m]["queue"])
    BY DEF MonitorInv, Working, Works
  <1>3. "notify" \notin Range(work[m]["queue"])
    <2> DEFINE q == work[m]["queue"]
    <2> HIDE DEF q
    <2>1. QueueWork(q) /\ ~Answering(q)
      BY <1>1, <1>2 DEF q
    <2>2. "notify" \notin Range(q)
      BY <2>1 DEF QueueWork, Answering, Range
    <2> QED
      BY <2>2 DEF q
  <1>4. got[m].imgs = <<>>
    BY <1>3 DEF Hears
  <1> QED
    BY <1>1, <1>4 DEF InPort, Range

-----------------------------------------------------------------------------
(* The process changes its list *)

\* What has been mirrored is shown.
LEMMA SteadyShows ==
    ASSUME TargetInv, pc \in Steady
    PROVE  \A i : Shows(infos.count, i)
  <1>1. /\ loaded \in Seq(Images) /\ Len(loaded) <= Len(Array) /\ infos.count = Len(loaded)
        /\ Array \in Seq(Images \cup {Junk}) /\ \A k \in 1..Len(loaded) : Array[k] = loaded[k]
    <2>1. arrays \in Seq(Seq(Images \cup {Junk})) /\ arrays # <<>> /\ loaded \in Seq(Images)
      BY DEF TargetInv, TargetTypes, Mirrored
    <2>2. Array \in Seq(Images \cup {Junk})
      BY <2>1 DEF Array, Last
    <2>3. Len(loaded) <= Len(Array) /\ Wrong = {} /\ infos.count = Len(loaded)
      BY DEF TargetInv, Mirrored
    <2> QED
      BY <2>1, <2>2, <2>3 DEF Wrong
  <1>2. Len(loaded) \in Nat /\ Len(Array) \in Nat /\ DOMAIN loaded = 1..Len(loaded) /\ DOMAIN Array = 1..Len(Array)
    BY <1>1
  <1>3. ASSUME NEW i, i \in Range(loaded)
        PROVE  \E k \in 1..infos.count : k \in DOMAIN Array /\ Array[k] = i /\ \E p \in DOMAIN loaded : p <= k /\ loaded[p] = i
    <2>1. PICK p \in DOMAIN loaded : loaded[p] = i
      BY <1>3 DEF Range
    <2>2. p \in 1..infos.count /\ p \in DOMAIN Array /\ Array[p] = i /\ p <= p
      BY <1>1, <1>2, <2>1
    <2> QED
      BY <2>1, <2>2
  <1>4. ASSUME NEW i, i \notin Range(loaded), NEW k \in 1..infos.count
        PROVE  Array[k] # i
    BY <1>1, <1>2, <1>4 DEF Range
  <1> QED
    BY <1>3, <1>4 DEF Shows

\* Images behind the others leave an image where it is ...
LEMMA ShowsAdded ==
    ASSUME TargetTypes, NEW s \in Seq(Images), loaded' = loaded \o s, arrays' = arrays,
           NEW i \in Images, i \notin Range(s)
    PROVE  (i \in Range(loaded') <=> i \in Range(loaded)) /\ \A c : Shows(c, i) => Shows(c, i)'
  <1>1. loaded \in Seq(Images) /\ Range(loaded') = Range(loaded) \cup Range(s)
    BY RangeConcatenation DEF TargetTypes
  <1>2. Array' = Array
    BY DEF Array
  <1>3. \A p \in DOMAIN loaded : p \in DOMAIN loaded' /\ loaded'[p] = loaded[p]
    <2>1. /\ loaded' \in Seq(Images) /\ Len(loaded') = Len(loaded) + Len(s) /\ Len(s) \in Nat /\ Len(loaded) \in Nat
          /\ \A k \in 1..Len(loaded) + Len(s) : loaded'[k] = IF k <= Len(loaded) THEN loaded[k] ELSE s[k - Len(loaded)]
      BY <1>1, ConcatProperties
    <2> QED
      BY <1>1, <2>1
  <1> QED
    BY <1>1, <1>2, <1>3 DEF Shows

\* ... and those taken out do not move it back.
LEMMA ShowsUnloaded ==
    ASSUME TargetTypes, NEW S, loaded' = Selected(loaded, Images \ S), arrays' = arrays,
           NEW i \in Images, i \notin Range(Selected(loaded, S))
    PROVE  (i \in Range(loaded') <=> i \in Range(loaded)) /\ \A c : Shows(c, i) => Shows(c, i)'
  <1>1. /\ loaded \in Seq(Images) /\ Range(loaded') = Range(loaded) \cap (Images \ S)
        /\ Range(Selected(loaded, S)) = Range(loaded) \cap S
    BY SelectedSeq DEF TargetTypes
  <1>2. i \in Range(loaded') <=> i \in Range(loaded)
    BY <1>1
  <1>3. Array' = Array
    BY DEF Array
  <1>4. ASSUME NEW p \in DOMAIN loaded, loaded[p] = i
        PROVE  \E q \in DOMAIN loaded' : q <= p /\ loaded'[q] = i
    <2>1. i \in Images \ S
      BY <1>1, <1>4 DEF Range
    <2>2. PICK R : R = Images \ S
      OBVIOUS
    <2>3. \E q \in DOMAIN Selected(loaded, R) : q <= p /\ Selected(loaded, R)[q] = i
      BY <1>1, <1>4, <2>1, <2>2, SelectedBefore
    <2> QED
      BY <2>2, <2>3
  <1>5. ASSUME NEW c, Shows(c, i), i \in Range(loaded')
        PROVE  \E k \in 1..c : k \in DOMAIN Array /\ Array[k] = i /\ \E p \in DOMAIN loaded' : p <= k /\ loaded'[p] = i
    <2>1. PICK k \in 1..c : k \in DOMAIN Array /\ Array[k] = i /\ \E p \in DOMAIN loaded : p <= k /\ loaded[p] = i
      BY <1>2, <1>5 DEF Shows
    <2>2. PICK p \in DOMAIN loaded : p <= k /\ loaded[p] = i
      BY <2>1
    <2>3. PICK q \in DOMAIN loaded' : q <= p /\ loaded'[q] = i
      BY <1>4, <2>2
    <2>4. q \in Int /\ p \in Int /\ k \in Int
      <3>1. loaded' \in Seq(Images)
        BY <1>1, SelectedSeq
      <3> QED
        BY <1>1, <3>1
    <2> QED
      BY <2>1, <2>2, <2>3, <2>4
  <1>6. \A c : Shows(c, i) => Shows(c, i)'
    BY <1>2, <1>3, <1>5 DEF Shows
  <1> QED
    BY <1>2, <1>6

\* A change of the list that monitors are to be told of.
ListChanges ==
    /\ pc \in {"launch", "idle"} /\ pc' = "mirror" /\ ~suspended' /\ alive /\ alive' = alive
    /\ pc = "launch" => change'.imgs = Initial
    /\ UNCHANGED <<infos, arrays, call, sendVars, mainVars, monitorVars>>
    /\ ~change'.unload => Range(change'.imgs) \subseteq Range(loaded')
    /\ \A i \in Images : i \notin Range(change'.imgs) =>
          (i \in Range(loaded') <=> i \in Range(loaded)) /\ \A c : Shows(c, i) => Shows(c, i)'

LEMMA ListChangesIn ==
    ASSUME TargetInv, alive, ProcessTells, UNCHANGED <<alive, call, sendVars, mainVars, monitorVars>>,
           Launch \/ (\E S \in Batches : Load(S)) \/ (\E S \in SUBSET Others : Unload(S))
    PROVE  ListChanges
  <1> USE DEF memory
  <1>1. TargetTypes /\ loaded \in Seq(Images)
    BY DEF TargetInv, TargetTypes
  <1>2. ASSUME NEW s \in Seq(Images), AddImages(s), arrays' = arrays
        PROVE  /\ change'.imgs = s /\ Range(change'.imgs) \subseteq Range(loaded')
               /\ \A i \in Images : i \notin Range(change'.imgs) =>
                     (i \in Range(loaded') <=> i \in Range(loaded)) /\ \A c : Shows(c, i) => Shows(c, i)'
    <2>1. change'.imgs = s /\ loaded' = loaded \o s
      BY <1>2 DEF AddImages
    <2>2. Range(loaded') = Range(loaded) \cup Range(s)
      BY <1>1, <2>1, RangeConcatenation
    <2> QED
      BY <1>1, <1>2, <2>1, <2>2, ShowsAdded
  <1>3. CASE Launch
    <2>1. /\ pc = "launch" /\ pc' = "mirror" /\ AddImages(Initial) /\ ~suspended' /\ UNCHANGED <<infos, arrays>>
      BY <1>3 DEF Launch
    <2> QED
      BY <1>2, <2>1, InitialImages DEF ListChanges
  <1>4. ASSUME NEW S \in Batches, Load(S) PROVE ListChanges
    <2>1. /\ pc = "idle" /\ pc' = "mirror" /\ AddImages(SetToSeq(S)) /\ suspended' = suspended /\ UNCHANGED <<infos, arrays>>
      BY <1>4 DEF Load
    <2>2. ~suspended'
      BY <2>1 DEF ProcessTells
    <2> QED
      BY <1>2, <2>1, <2>2, BatchImages DEF ListChanges
  <1>5. ASSUME NEW S \in SUBSET Others, Unload(S) PROVE ListChanges
    <2>1. /\ pc = "idle" /\ pc' = "mirror" /\ suspended' = suspended /\ UNCHANGED <<infos, arrays>>
          /\ loaded' = Selected(loaded, Images \ S) /\ change' = [imgs |-> Selected(loaded, S), unload |-> TRUE]
      BY <1>5 DEF Unload
    <2>2. ~suspended'
      BY <2>1 DEF ProcessTells
    <2>3. change'.imgs = Selected(loaded, S) /\ change'.unload = TRUE
      BY <2>1
    <2>4. \A i \in Images : i \notin Range(change'.imgs) =>
                     (i \in Range(loaded') <=> i \in Range(loaded)) /\ \A c : Shows(c, i) => Shows(c, i)'
      BY <1>1, <2>1, <2>3, ShowsUnloaded
    <2> QED
      BY <2>1, <2>2, <2>3, <2>4 DEF ListChanges
  <1> QED
    BY <1>3, <1>4, <1>5

LEMMA ListChangesView ==
    ASSUME TargetInv, MonitorInv, ViewInv, ListChanges
    PROVE  ViewInv'
  <1> USE DEF monitorVars, sendVars, objectVars
  <1>1. /\ pc \in {"launch", "idle"} /\ pc' = "mirror" /\ alive /\ alive' = alive
        /\ UNCHANGED <<infos, arrays, call, msgs, names, pending, registered, port, inbox, work, got, seen, snap>>
    BY DEF ListChanges
  <1>2. ViewTypes' /\ CallTypes'
    BY <1>1, CallTypesSame DEF ViewInv, ViewTypes
  <1>3. ProcessTells'
    <2>1. (suspended => pc = "launch")' /\ (~change.unload => Range(change.imgs) \subseteq Range(loaded))'
          /\ (pc \in {"send", "wait"} => \A k \in DOMAIN msgs : Right(msgs[k]))'
      BY <1>1 DEF ListChanges
    <2>2. ASSUME infos.array # 0, NEW i \in Images, i \notin Range(change'.imgs)
          PROVE  Shows(infos.count, i)'
      <3>1. pc = "idle"
        BY <1>1, <2>2 DEF TargetInv, TargetTypes, Mirrored
      <3>2. Shows(infos.count, i)
        BY <3>1, SteadyShows DEF Steady
      <3>3. \A c : Shows(c, i) => Shows(c, i)'
        BY <2>2 DEF ListChanges
      <3> QED
        BY <1>1, <3>2, <3>3
    <2> QED
      BY <1>1, <2>1, <2>2 DEF ProcessTells
  <1>4. ASSUME NEW m \in Monitors
        PROVE  Hears(m)' /\ Begins(m)' /\ Sees(m)'
    <2>1. Hears(m) /\ Begins(m) /\ Sees(m)
      BY <1>1 DEF ViewInv
    <2>2. inbox[m] = <<>> /\ got[m].imgs = <<>> /\ \A i : ~InPort(m, i) /\ i \notin Range(got[m].imgs)
      BY <1>1, <2>1, Quiet
    <2>3. \A i : Expects(m, i)' <=> i \in Range(change'.imgs)
      BY <1>1, <2>2 DEF Expects, Due, Posted, InPort
    <2>4. \A i : Expects(m, i) => i \in Range(change'.imgs)
      BY <1>1, <2>2 DEF Expects, Due, Posted, ListChanges
    <2>5. \A i : Open(m, i)' => Open(m, i) /\ i \notin Range(change'.imgs)
      BY <1>1, <2>3, <2>4 DEF Open
    <2>6. Keeps(m)
      BY <2>5 DEF Keeps, ListChanges
    <2>7. ArrayKeeps(m)
      <3> SUFFICES ASSUME NEW i \in Images, Open(m, i)', call.infos.array = Len(arrays')
                   PROVE  /\ call.infos.array = Len(arrays)
                          /\ (Shows(call.infos.count, i) => Shows(call.infos.count, i)')
        BY DEF ArrayKeeps
      <3>1. \A c : Shows(c, i) => Shows(c, i)'
        BY <2>5 DEF ListChanges
      <3> QED
        BY <1>1, <3>1
    <2>8. Sees(m)'
      BY <1>1, <2>1, <2>6, <2>7, SeesSame
    <2>9. Begins(m)'
      BY <1>1, <2>1, BeginsSame DEF CallOf
    <2>10. Hears(m)'
      <3>1. (port[m] = "live" => m \in registered)' /\ (\A k \in DOMAIN inbox[m] : Right(inbox[m][k]))'
        BY <1>1, <2>1, <2>2 DEF Hears
      <3>2. Right(got[m])' /\ (got[m].imgs # <<>> => "notify" \in Range(work[m]["queue"]))'
        BY <1>1, <2>2 DEF Right, Range
      <3>3. ASSUME port[m] = "live", NEW i \in Images, seen[m][i] # None, ~Expects(m, i)'
            PROVE  seen[m][i] = "load" <=> i \in Range(loaded')
        <4>1. i \notin Range(change'.imgs) /\ ~Expects(m, i)
          BY <2>3, <2>4, <3>3
        <4>2. seen[m][i] = "load" <=> i \in Range(loaded)
          BY <2>1, <3>3, <4>1 DEF Hears
        <4> QED
          BY <4>1, <4>2 DEF ListChanges
      <3> QED
        BY <1>1, <3>1, <3>2, <3>3 DEF Hears
    <2> QED
      BY <2>8, <2>9, <2>10
  <1> QED
    BY <1>1, <1>2, <1>3, <1>4 DEF ViewInv

-----------------------------------------------------------------------------
(* The process mirrors its list *)

\* An entry is only overwritten when those before it are right.
LEMMA ShowsFilled ==
    ASSUME TargetInv, MirrorFill, NEW i \in Images, NEW c \in Nat, Shows(c, i)
    PROVE  Shows(c, i)'
  <1> DEFINE T == Images \cup {Junk}
  <1>1. PICK j : j = Min(Wrong)
    OBVIOUS
  <1>2. j \in Wrong /\ \A k \in Wrong : j <= k
    <2>1. Wrong \in SUBSET Nat /\ Wrong # {}
      BY DEF MirrorFill, Wrong, TargetInv, TargetTypes
    <2> QED
      BY <1>1, <2>1, LeastPlace
  <1>3. /\ loaded' = loaded /\ arrays \in Seq(Seq(T)) /\ arrays # <<>> /\ Len(loaded) <= Len(Array)
        /\ loaded \in Seq(Images) /\ arrays' = [arrays EXCEPT ![Len(arrays)][j] = loaded[j]]
    BY <1>1 DEF MirrorFill, TargetInv, TargetTypes, Mirrored
  <1>4. Array \in Seq(T) /\ Array = arrays[Len(arrays)] /\ Len(arrays) \in 1..Len(arrays)
    BY <1>3 DEF Array, Last
  <1>5. /\ j \in DOMAIN loaded /\ j \in 1..Len(Array) /\ Array[j] # loaded[j] /\ loaded[j] \in T
        /\ \A p \in DOMAIN loaded : p < j => Array[p] = loaded[p]
    <2>1. j \in DOMAIN loaded /\ Array[j] # loaded[j]
      BY <1>2 DEF Wrong
    <2>2. ASSUME NEW p \in DOMAIN loaded, p < j PROVE Array[p] = loaded[p]
      <3>1. p \notin Wrong
        BY <1>2, <1>3, <2>1, <2>2
      <3> QED
        BY <3>1 DEF Wrong
    <2> QED
      BY <1>3, <1>4, <2>1, <2>2
  <1>6. Array' = [Array EXCEPT ![j] = loaded[j]]
    <2> HIDE DEF T
    <2>1. arrays' = [arrays EXCEPT ![Len(arrays)] = [Array EXCEPT ![j] = loaded[j]]]
      BY <1>3, <1>4
    <2>2. Len(arrays') = Len(arrays) /\ arrays'[Len(arrays)] = [Array EXCEPT ![j] = loaded[j]]
      <3>1. [Array EXCEPT ![j] = loaded[j]] \in Seq(T)
        BY <1>4, <1>5, ExceptSeq
      <3>2. PICK e \in Seq(T) : e = [Array EXCEPT ![j] = loaded[j]]
        BY <3>1
      <3>3. arrays' = [arrays EXCEPT ![Len(arrays)] = e]
        BY <2>1, <3>2
      <3>4. /\ Len([arrays EXCEPT ![Len(arrays)] = e]) = Len(arrays)
            /\ [arrays EXCEPT ![Len(arrays)] = e][Len(arrays)] = e
        BY <1>3, <1>4, ExceptSeq
      <3> QED
        BY <3>2, <3>3, <3>4
    <2> QED
      BY <2>2 DEF Array, Last
  <1>7. DOMAIN Array' = DOMAIN Array /\ \A k \in DOMAIN Array : Array'[k] = IF k = j THEN loaded[j] ELSE Array[k]
    BY <1>4, <1>5, <1>6
  <1>8. CASE i \notin Range(loaded)
    <2>1. \A k \in 1..c : k \in DOMAIN Array => Array[k] # i
      BY <1>8 DEF Shows
    <2>2. loaded[j] # i
      BY <1>5, <1>8 DEF Range
    <2> QED
      BY <1>3, <1>7, <1>8, <2>1, <2>2 DEF Shows
  <1>9. CASE i \in Range(loaded)
    <2>1. PICK k \in 1..c : k \in DOMAIN Array /\ Array[k] = i /\ \E p \in DOMAIN loaded : p <= k /\ loaded[p] = i
      BY <1>9 DEF Shows
    <2>2. PICK p \in DOMAIN loaded : p <= k /\ loaded[p] = i
      BY <2>1
    <2>3. \E l \in 1..c : l \in DOMAIN Array' /\ Array'[l] = i /\ \E q \in DOMAIN loaded : q <= l /\ loaded[q] = i
      <3>1. CASE k # j
        BY <1>7, <2>1, <2>2, <3>1
      <3>2. CASE k = j
        <4>5. p \in Nat /\ 1 <= p /\ p <= Len(loaded) /\ Len(loaded) \in Nat /\ Len(Array) \in Nat
          BY <1>3, <1>4, <2>2
        <4>6. p # j
          BY <1>5, <2>1, <2>2, <3>2
        <4>1. p < j /\ p \in 1..c /\ p <= p
          BY <2>1, <2>2, <3>2, <4>5, <4>6
        <4>7. p \in DOMAIN Array
          BY <1>3, <1>4, <4>5
        <4>2. p \in DOMAIN Array /\ Array[p] = i
          BY <1>5, <2>2, <4>1, <4>7
        <4>3. Array'[p] = i
          BY <1>7, <4>2, <4>6
        <4> QED
          BY <1>7, <2>2, <4>1, <4>2, <4>3
      <3> QED
        BY <3>1, <3>2
    <2> QED
      BY <1>3, <1>9, <2>3 DEF Shows
  <1> QED
    BY <1>8, <1>9

\* The list stays as it is, and monitors are told of the same images.
ListStays ==
    /\ alive /\ UNCHANGED <<loaded, alive, call, sendVars, mainVars, monitorVars>>
    /\ pc \notin {"send", "wait"} /\ pc' \notin {"send", "wait", "mirror"}
    /\ \A i : Due(i)' <=> Due(i)

LEMMA ListStaysView ==
    ASSUME TargetInv, MonitorInv, ViewInv, ListStays,
           suspended' => pc' = "launch",
           ~change'.unload => Range(change'.imgs) \subseteq Range(loaded),
           CallTypes', \A m \in Monitors : ArrayKeeps(m)
    PROVE  ViewInv'
  <1> USE DEF monitorVars, sendVars, objectVars
  <1>1. /\ pc \notin {"send", "wait"} /\ pc' \notin {"send", "wait", "mirror"} /\ alive /\ alive' = alive
        /\ UNCHANGED <<loaded, call, msgs, names, pending, registered, port, inbox, work, got, seen, snap>>
    BY DEF ListStays
  <1>2. ViewTypes'
    BY <1>1 DEF ViewInv, ViewTypes
  <1>3. ProcessTells'
    BY <1>1 DEF ProcessTells
  <1>4. ASSUME NEW m \in Monitors
        PROVE  Hears(m)' /\ Begins(m)' /\ Sees(m)'
    <2>1. Hears(m) /\ Begins(m) /\ Sees(m)
      BY <1>1 DEF ViewInv
    <2>2. inbox[m] = <<>> /\ got[m].imgs = <<>>
      BY <1>1, <2>1, Quiet
    <2>3. \A i : Expects(m, i)' <=> Expects(m, i)
      BY <1>1 DEF Expects, Posted, InPort, ListStays
    <2>4. \A i : Open(m, i)' <=> Open(m, i)
      BY <1>1, <2>3 DEF Open
    <2>5. Keeps(m)
      BY <1>1, <2>4 DEF Keeps
    <2>6. Sees(m)'
      BY <1>1, <2>1, <2>5, SeesSame
    <2>7. Begins(m)'
      BY <1>1, <2>1, BeginsSame DEF CallOf
    <2>8. Hears(m)'
      <3>1. (port[m] = "live" => m \in registered)' /\ (\A k \in DOMAIN inbox[m] : Right(inbox[m][k]))'
        BY <1>1, <2>1, <2>2 DEF Hears
      <3>2. Right(got[m])' /\ (got[m].imgs # <<>> => "notify" \in Range(work[m]["queue"]))'
        BY <1>1, <2>2 DEF Right, Range
      <3> QED
        BY <1>1, <2>1, <2>3, <3>1, <3>2 DEF Hears
    <2> QED
      BY <2>6, <2>7, <2>8
  <1> QED
    BY <1>1, <1>2, <1>3, <1>4 DEF ViewInv

LEMMA MirrorView ==
    ASSUME TargetInv, MonitorInv, ViewInv, alive, UNCHANGED <<alive, call, sendVars, mainVars, monitorVars>>, Mirror
    PROVE  ViewInv'
  <1> USE DEF Mirror
  <1>1. ProcessTells /\ CallTypes
    BY DEF ViewInv
  <1>2. /\ UNCHANGED <<loaded, change, suspended>> /\ pc \in {"mirror", "fill", "array", "uuids"}
        /\ pc' \in {"fill", "array", "uuids", "notify"}
    BY DEF MirrorBegin, MirrorFill, MirrorTime, MirrorArray, MirrorUuids
  <1>3. ListStays
    <2>1. \A i : Due(i)' <=> Due(i)
      BY <1>2 DEF Due
    <2> QED
      BY <1>2, <2>1 DEF ListStays
  <1>4. ~suspended' /\ (~change'.unload => Range(change'.imgs) \subseteq Range(loaded))
    BY <1>1, <1>2 DEF ProcessTells
  <1>5. CASE arrays' = arrays
    <2>1. CallTypes'
      BY <1>1, <1>5, CallTypesSame
    <2>2. ASSUME NEW m \in Monitors PROVE ArrayKeeps(m)
      BY <1>2, <1>5, ShowsSame DEF ArrayKeeps
    <2> QED
      BY <1>3, <1>4, <2>1, <2>2, ListStaysView
  <1>6. CASE MirrorFill
    <2>1. Len(arrays') = Len(arrays) /\ Len(Array') = Len(Array)
      <3>1. PICK k : k \in DOMAIN loaded /\ arrays' = [arrays EXCEPT ![Len(arrays)][k] = loaded[k]]
        <4>1. Wrong \in SUBSET Nat /\ Wrong # {}
          <5>1. loaded \in Seq(Images)
            BY DEF TargetInv, TargetTypes
          <5> QED
            BY <1>6, <5>1 DEF MirrorFill, Wrong
        <4>2. Min(Wrong) \in Wrong
          BY <4>1, LeastPlace
        <4> QED
          BY <1>6, <4>2 DEF MirrorFill, Wrong
      <3>2. /\ arrays \in Seq(Seq(Images \cup {Junk})) /\ arrays # <<>> /\ Len(loaded) <= Len(Array)
            /\ loaded \in Seq(Images)
        BY <1>6 DEF MirrorFill, TargetInv, TargetTypes, Mirrored
      <3>3. Array \in Seq(Images \cup {Junk}) /\ Array = arrays[Len(arrays)] /\ Len(arrays) \in 1..Len(arrays)
        BY <3>2 DEF Array, Last
      <3>4. k \in 1..Len(Array) /\ loaded[k] \in Images \cup {Junk}
        BY <3>1, <3>2, <3>3
      <3>5. /\ [Array EXCEPT ![k] = loaded[k]] \in Seq(Images \cup {Junk})
            /\ Len([Array EXCEPT ![k] = loaded[k]]) = Len(Array)
        BY <3>3, <3>4, ExceptSeq
      <3>6. arrays' = [arrays EXCEPT ![Len(arrays)] = [Array EXCEPT ![k] = loaded[k]]]
        BY <3>1, <3>3
      <3>7. Len(arrays') = Len(arrays) /\ arrays'[Len(arrays)] = [Array EXCEPT ![k] = loaded[k]]
        <4>1. PICK a, x, l :
                 /\ a = arrays /\ x = [Array EXCEPT ![k] = loaded[k]] /\ l = Len(arrays)
                 /\ a \in Seq(Seq(Images \cup {Junk})) /\ l \in 1..Len(a)
          BY <3>2, <3>3
        <4>2. arrays' = [a EXCEPT ![l] = x]
          BY <3>6, <4>1
        <4> QED
          BY <4>1, <4>2
      <3> QED
        BY <3>5, <3>7 DEF Array, Last
    <2>2. call' = call
      OBVIOUS
    <2>3. CallTypes'
      BY <1>1, <2>1, <2>2 DEF CallTypes
    <2>4. ASSUME NEW m \in Monitors PROVE ArrayKeeps(m)
      <3> SUFFICES ASSUME NEW i \in Images, call.at = "array"
                   PROVE  Shows(call.infos.count, i) => Shows(call.infos.count, i)'
        BY <2>1 DEF ArrayKeeps
      <3>1. call.infos.count \in Nat
        BY <1>1 DEF CallTypes
      <3>2. \A c \in Nat : Shows(c, i) => Shows(c, i)'
        BY <1>6, ShowsFilled
      <3> QED
        BY <2>2, <3>1, <3>2
    <2> QED
      BY <1>3, <1>4, <2>3, <2>4, ListStaysView
  <1>7. CASE MirrorBegin /\ arrays' # arrays
    <2>1. Len(arrays') = Len(arrays) + 1 /\ Len(arrays) \in Nat
      <3>1. arrays \in Seq(Seq(Images \cup {Junk})) /\ Len(loaded) \in Nat
        BY DEF TargetInv, TargetTypes
      <3>2. \A n \in Nat : [k \in 1..n |-> IF k <= infos.count THEN Array[k] ELSE Junk] \in Seq(Images \cup {Junk})
        BY NewArray
      <3>3. Len(loaded) + Slack \in Nat
        BY <3>1, InfosAssumption
      <3>4. arrays' = Append(arrays, [k \in 1..(Len(loaded) + Slack) |-> IF k <= infos.count THEN Array[k] ELSE Junk])
        BY <1>7 DEF MirrorBegin
      <3> QED
        BY <3>1, <3>2, <3>3, <3>4, AppendProperties
    <2>2. call' = call
      OBVIOUS
    <2>3. call.at = "array" => call.infos.array \in 1..Len(arrays') /\ call.infos.array # Len(arrays')
      BY <1>1, <2>1 DEF CallTypes
    <2>4. CallTypes'
      BY <1>1, <2>2, <2>3 DEF CallTypes
    <2>5. ASSUME NEW m \in Monitors PROVE ArrayKeeps(m)
      BY <2>3 DEF ArrayKeeps
    <2> QED
      BY <1>3, <1>4, <2>4, <2>5, ListStaysView
  <1> QED
    BY <1>5, <1>6, <1>7 DEF MirrorTime, MirrorArray, MirrorUuids

LEMMA TargetView ==
    ASSUME TargetInv, MonitorInv, ViewInv, alive, UNCHANGED <<alive, call, sendVars, mainVars, monitorVars>>, Target
    PROVE  ViewInv'
  <1>1. ProcessTells /\ CallTypes
    BY DEF ViewInv
  <1>2. CASE Launch \/ (\E S \in Batches : Load(S)) \/ (\E S \in SUBSET Others : Unload(S))
    BY <1>1, <1>2, ListChangesIn, ListChangesView
  <1>3. CASE Mirror
    BY <1>3, MirrorView
  <1>4. CASE Resume \/ Unmap
    <2>1. /\ UNCHANGED <<loaded, arrays>> /\ ~suspended'
          /\ ~change'.unload => Range(change'.imgs) \subseteq Range(loaded)
      <3>1. CASE Resume
        BY <1>1, <3>1 DEF Resume, ProcessTells, memory
      <3>2. CASE Unmap
        BY <1>1, <3>2 DEF Unmap, ProcessTells, NoChange, Range, memory
      <3> QED
        BY <1>4, <3>1, <3>2
    <2>2. \/ pc = "launch" /\ pc' = "launch" /\ change' = change
          \/ pc = "unmap" /\ pc' = "idle"
      BY <1>1, <1>4 DEF Resume, Unmap, ProcessTells
    <2>3. \A i : Due(i)' <=> Due(i)
      BY <2>2 DEF Due
    <2>4. ListStays
      BY <2>1, <2>2, <2>3 DEF ListStays
    <2>5. CallTypes'
      BY <1>1, <2>1, CallTypesSame
    <2>6. ASSUME NEW m \in Monitors PROVE ArrayKeeps(m)
      BY <2>1, ShowsSame DEF ArrayKeeps
    <2> QED
      BY <2>1, <2>4, <2>5, <2>6, ListStaysView
  <1> QED
    BY <1>2, <1>3, <1>4 DEF Target

-----------------------------------------------------------------------------
(* The process tells its monitors *)

\* Messages are sent and put into ports; whoever is to hear of an image goes on to.
Sends ==
    /\ alive /\ pc # "launch" /\ pc' # "mirror"
    /\ UNCHANGED <<alive, loaded, infos, arrays, suspended, change, call, registered, port, work, got, seen, snap>>
    /\ pc' \in {"send", "wait"} => \A k \in DOMAIN msgs' : Right(msgs'[k])
    /\ \A m \in Monitors : \A k \in DOMAIN inbox'[m] : Right(inbox'[m][k])
    /\ \A m \in Monitors, i \in Images : port[m] = "live" /\ Expects(m, i) => Expects(m, i)'

LEMMA SendsView ==
    ASSUME TargetInv, MonitorInv, ViewInv, Sends
    PROVE  ViewInv'
  <1>1. /\ alive /\ alive' = alive /\ pc # "launch" /\ pc' # "mirror"
        /\ UNCHANGED <<loaded, infos, arrays, suspended, change, call, registered, port, work, got, seen, snap>>
    BY DEF Sends
  <1>2. ViewTypes' /\ CallTypes'
    BY <1>1, CallTypesSame DEF ViewInv, ViewTypes
  <1>3. \A x : Right(x)' <=> Right(x)
    BY <1>1 DEF Right
  <1>4. ProcessTells'
    <2>1. ProcessTells
      BY <1>1 DEF ViewInv
    <2>2. (pc \in {"send", "wait"} => \A k \in DOMAIN msgs : Right(msgs[k]))'
      BY <1>3 DEF Sends
    <2> QED
      BY <1>1, <2>1, <2>2 DEF ProcessTells
  <1>5. ASSUME NEW m \in Monitors
        PROVE  Hears(m)' /\ Begins(m)' /\ Sees(m)'
    <2>1. Hears(m) /\ Begins(m) /\ Sees(m)
      BY <1>1 DEF ViewInv
    <2>2. \A i \in Images : port[m] = "live" /\ Expects(m, i) => Expects(m, i)'
      BY DEF Sends
    <2>3. port[m] = "live" => \A i \in Images : Open(m, i)' => Open(m, i)
      BY <1>1, <2>2 DEF Open
    <2>4. port[m] = "live" => Keeps(m) /\ ArrayKeeps(m)
      BY <1>1, <2>3, ShowsSame DEF Keeps, ArrayKeeps
    <2>5. Sees(m)'
      BY <1>1, <2>1, <2>4, SeesSame
    <2>6. Begins(m)'
      BY <1>1, <2>1, BeginsSame DEF CallOf
    <2>7. Hears(m)'
      <3>1. (port[m] = "live" => m \in registered)' /\ (got[m].imgs # <<>> => "notify" \in Range(work[m]["queue"]))'
        BY <1>1, <2>1 DEF Hears
      <3>2. (\A k \in DOMAIN inbox[m] : Right(inbox[m][k]))'
        BY <1>3 DEF Sends
      <3>3. Right(got[m])'
        BY <1>1, <1>3, <2>1 DEF Hears
      <3>4. (port[m] = "live" =>
               \A i \in Images : (seen[m][i] # None /\ ~Expects(m, i)) =>
                                    (seen[m][i] = "load" <=> i \in Range(loaded)))'
        BY <1>1, <2>1, <2>2 DEF Hears
      <3> QED
        BY <3>1, <3>2, <3>3, <3>4 DEF Hears
    <2> QED
      BY <2>5, <2>6, <2>7
  <1> QED
    BY <1>1, <1>2, <1>4, <1>5 DEF ViewInv

LEMMA InboxesRight ==
    ASSUME ViewInv, alive, UNCHANGED <<inbox, change>>
    PROVE  \A m \in Monitors : \A k \in DOMAIN inbox'[m] : Right(inbox'[m][k])
  BY DEF ViewInv, Hears

LEMMA NotifyView ==
    ASSUME TargetInv, MonitorInv, ViewInv, NotifyMonitors
    PROVE  ViewInv'
  <1> USE DEF monitorVars, objectVars, memory
  <1>1. PICK x : /\ GetPorts(<<x>>) /\ pc = "notify"
                 /\ x = Message(IF change.unload THEN "unload" ELSE "load", change.imgs)
    BY Zenon DEF NotifyMonitors
  <1>2. /\ UNCHANGED <<alive, loaded, infos, arrays, suspended, change, call, registered, port, work, got, seen, snap, inbox>>
        /\ pc = "notify"
    BY DEF NotifyMonitors
  <1>3. alive
    BY <1>2 DEF MonitorInv, Waiting
  <1>4. Right(x) /\ x.imgs = change.imgs
    BY <1>1 DEF Right, Message, Range
  <1>5. /\ registered # {} => names' = registered /\ pending' = registered /\ msgs' = <<x>> /\ pc' = "send"
        /\ registered = {} => pc' \in {"unmap", "idle"}
    <2>1. GetPorts(<<x>>)
      BY <1>1
    <2>2. CASE registered # {}
      BY <2>1, <2>2, Zenon DEF GetPorts
    <2>3. CASE registered = {}
      BY <2>1, <2>3 DEF GetPorts, AfterNotices
    <2> QED
      BY <2>2, <2>3
  <1>6. pc' \in {"send", "wait"} => \A k \in DOMAIN msgs' : Right(msgs'[k])
    BY <1>4, <1>5
  <1>7. ASSUME NEW m \in Monitors, NEW i \in Images, port[m] = "live", Expects(m, i)
        PROVE  Expects(m, i)'
    <2>1. Hears(m)
      BY <1>3 DEF ViewInv
    <2>2. \A j : ~InPort(m, j) /\ j \notin Range(got[m].imgs)
      BY <1>2, <1>3, <2>1, Quiet
    <2>3. pc = "notify" /\ i \in Range(change.imgs)
      BY <1>2, <1>7, <2>2 DEF Expects, Due, Posted
    <2>4. m \in registered
      BY <1>7, <2>1 DEF Hears
    <2>5. names' = registered /\ pending' = registered /\ msgs' = <<x>> /\ pc' = "send" /\ i \in Range(x.imgs)
      BY <1>4, <1>5, <2>3, <2>4
    <2>6. 1 \in DOMAIN msgs' /\ msgs'[1] = x
      BY <2>5
    <2>7. Posted(m, i)'
      BY <2>4, <2>5, <2>6 DEF Posted
    <2> QED
      BY <2>7 DEF Expects
  <1>8. Sends
    <2>1. pc # "launch" /\ pc' # "mirror"
      BY <1>2, <1>5
    <2> QED
      BY <1>2, <1>3, <1>6, <1>7, <2>1, InboxesRight DEF Sends
  <1> QED
    BY <1>8, SendsView

LEMMA SplitView ==
    ASSUME TargetInv, MonitorInv, ViewInv, Split
    PROVE  ViewInv'
  <1> USE DEF monitorVars, objectVars, memory, targetVars
  <1>1. /\ UNCHANGED <<alive, loaded, infos, arrays, suspended, change, call, registered, port, work, got, seen, snap, inbox,
                       names, pending>>
        /\ pc = "send" /\ pc' = pc /\ pending = names
    BY DEF Split
  <1>2. alive /\ msgs # <<>> /\ msgs \in Seq(Notices)
    BY <1>1 DEF MonitorInv, MonitorTypes, Waiting
  <1>3. PICK x, s : x = Head(msgs) /\ s = x.imgs
    OBVIOUS
  <1>4. x \in Notices /\ s \in Seq(Images) /\ Len(s) \in Nat /\ x = msgs[1] /\ 1 \in DOMAIN msgs
    <2>1. x \in Notices /\ x = msgs[1] /\ 1 \in DOMAIN msgs
      BY <1>2, <1>3, RangeHeadTail
    <2> QED
      BY <1>3, <2>1 DEF Notices
  <1>5. PICK h : h = Len(s) \div 2
    OBVIOUS
  <1>6. h \in 0..Len(s)
    BY <1>4, <1>5
  <1>7. PICK a, b : a = [x EXCEPT !.imgs = SubSeq(s, 1, h)] /\ b = [x EXCEPT !.imgs = SubSeq(s, h + 1, Len(s))]
    OBVIOUS
  <1>8. msgs' = <<a, b>> \o Tail(msgs)
    BY <1>3, <1>5, <1>7 DEF Split, SecondHalf
  <1>9. /\ Range(SubSeq(s, 1, h)) \cup Range(SubSeq(s, h + 1, Len(s))) = Range(s)
        /\ SubSeq(s, 1, h) \in Seq(Images) /\ SubSeq(s, h + 1, Len(s)) \in Seq(Images)
    BY <1>4, <1>6, Halves
  <1>10. /\ a \in Notices /\ b \in Notices /\ Range(a.imgs) \cup Range(b.imgs) = Range(x.imgs)
         /\ a.kind = x.kind /\ b.kind = x.kind
    BY <1>3, <1>4, <1>7, <1>9 DEF Notices
  <1>11. /\ msgs' \in Seq(Notices) /\ Len(msgs') = Len(msgs) + 1 /\ msgs'[1] = a /\ msgs'[2] = b
         /\ \A k \in 3..Len(msgs') : msgs'[k] = msgs[k - 1]
         /\ Len(msgs) \in Nat
    <2>1. Tail(msgs) \in Seq(Notices) /\ Len(Tail(msgs)) = Len(msgs) - 1 /\ Len(msgs) \in Nat /\ Len(msgs) # 0
          /\ \A k \in 1..Len(Tail(msgs)) : Tail(msgs)[k] = msgs[k + 1]
      BY <1>2, HeadTailProperties
    <2>2. PICK t : t = Tail(msgs)
      OBVIOUS
    <2>3. PICK u : u = <<a, b>>
      OBVIOUS
    <2>4. u \in Seq(Notices) /\ Len(u) = 2 /\ u[1] = a /\ u[2] = b
      BY <1>10, <2>3
    <2>5. /\ u \o t \in Seq(Notices) /\ Len(u \o t) = 2 + Len(t)
          /\ \A k \in 1..2 + Len(t) : (u \o t)[k] = IF k <= 2 THEN u[k] ELSE t[k - 2]
      <3>1. u \in Seq(Notices) /\ t \in Seq(Notices)
        BY <2>1, <2>2, <2>4
      <3>2. /\ u \o t \in Seq(Notices) /\ Len(u \o t) = Len(u) + Len(t)
            /\ \A k \in 1..Len(u) + Len(t) : (u \o t)[k] = IF k <= Len(u) THEN u[k] ELSE t[k - Len(u)]
        BY <3>1, ConcatProperties
      <3> QED
        BY <2>4, <3>2
    <2>6. msgs' = u \o t
      BY <1>8, <2>2, <2>3
    <2>7. t \in Seq(Notices) /\ Len(t) = Len(msgs) - 1 /\ \A k \in 1..Len(t) : t[k] = msgs[k + 1]
      BY <2>1, <2>2
    <2>8. msgs' \in Seq(Notices) /\ Len(msgs') = Len(msgs) + 1
      BY <2>1, <2>5, <2>6, <2>7
    <2>9. msgs'[1] = a /\ msgs'[2] = b
      BY <2>1, <2>4, <2>5, <2>6, <2>7
    <2>10. ASSUME NEW k \in 3..Len(msgs') PROVE msgs'[k] = msgs[k - 1]
      <3>1. k \in 1..2 + Len(t) /\ ~(k <= 2) /\ k - 2 \in 1..Len(t) /\ (k - 2) + 1 = k - 1
        BY <2>1, <2>7, <2>8
      <3>2. msgs'[k] = t[k - 2]
        BY <2>5, <2>6, <3>1
      <3> QED
        BY <2>7, <3>1, <3>2
    <2> QED
      BY <2>1, <2>8, <2>9, <2>10
  <1>12. \A k \in DOMAIN msgs : Right(msgs[k])
    BY <1>1, <1>2 DEF ViewInv, ProcessTells
  <1>13. Right(a) /\ Right(b)
    <2>1. Right(x)
      BY <1>4, <1>12
    <2> QED
      BY <1>10, <2>1 DEF Right
  <1>14. ASSUME NEW k \in DOMAIN msgs' PROVE Right(msgs'[k])
    <2>1. k \in 1..Len(msgs')
      BY <1>11
    <2>2. CASE k \in 3..Len(msgs')
      <3>1. k - 1 \in DOMAIN msgs
        BY <1>2, <1>11, <2>2
      <3> QED
        BY <1>11, <1>12, <2>2, <3>1
    <2>3. CASE k = 1 \/ k = 2
      BY <1>11, <1>13, <2>3
    <2> QED
      BY <1>11, <2>1, <2>2, <2>3
  <1>15. ASSUME NEW m \in Monitors, NEW i, Posted(m, i) PROVE Posted(m, i)'
    <2>1. PICK k \in DOMAIN msgs : i \in Range(msgs[k].imgs) /\ m \in names
      BY <1>1, <1>15 DEF Posted
    <2>2. m \in pending' /\ pc' \in {"send", "wait"}
      BY <1>1, <2>1
    <2>3. k \in 1..Len(msgs) /\ DOMAIN msgs' = 1..(Len(msgs) + 1)
      BY <1>2, <1>11
    <2>4. \E l \in DOMAIN msgs' : i \in Range(msgs'[l].imgs)
      <3>1. CASE k = 1
        <4>1. i \in Range(a.imgs) \/ i \in Range(b.imgs)
          BY <1>4, <1>10, <2>1, <3>1
        <4>2. 1 \in DOMAIN msgs' /\ 2 \in DOMAIN msgs'
          BY <1>11, <2>3
        <4> QED
          BY <1>11, <4>1, <4>2
      <3>2. CASE k # 1
        <4>1. k + 1 \in 3..Len(msgs') /\ (k + 1) - 1 = k /\ k + 1 \in DOMAIN msgs'
          BY <1>11, <2>3, <3>2
        <4>2. msgs'[k + 1] = msgs[k]
          BY <1>11, <4>1
        <4> QED
          BY <2>1, <4>1, <4>2
      <3> QED
        BY <3>1, <3>2
    <2> QED
      BY <2>2, <2>4 DEF Posted
  <1>16. \A m \in Monitors, i \in Images : port[m] = "live" /\ Expects(m, i) => Expects(m, i)'
    BY <1>1, <1>15 DEF Expects, Due, InPort
  <1>17. Sends
    BY <1>1, <1>2, <1>14, <1>16, InboxesRight DEF Sends
  <1> QED
    BY <1>17, SendsView

LEMMA NextMessageView ==
    ASSUME TargetInv, MonitorInv, ViewInv, NextMessage
    PROVE  ViewInv'
  <1> USE DEF monitorVars, objectVars, memory
  <1>1. /\ UNCHANGED <<alive, loaded, infos, arrays, suspended, change, call, registered, port, work, got, seen, snap, inbox>>
        /\ pc = "send" /\ pending = {} /\ msgs' = Tail(msgs)
        /\ msgs' # <<>> => pending' = names /\ names' = names /\ pc' = "send"
        /\ msgs' = <<>> => pc' \in {"unmap", "idle"}
    BY DEF NextMessage, AfterNotices
  <1>2. alive /\ msgs # <<>> /\ msgs \in Seq(Notices)
    BY <1>1 DEF MonitorInv, MonitorTypes, Waiting
  <1>3. /\ msgs' \in Seq(Notices) /\ Len(msgs') = Len(msgs) - 1 /\ Len(msgs) \in Nat /\ Len(msgs) # 0
        /\ \A k \in 1..Len(msgs') : msgs'[k] = msgs[k + 1]
    BY <1>1, <1>2, HeadTailProperties
  <1>4. ASSUME NEW k \in DOMAIN msgs' PROVE Right(msgs'[k])
    <2>1. k \in 1..Len(msgs') /\ k + 1 \in DOMAIN msgs
      BY <1>2, <1>3
    <2>2. Right(msgs[k + 1])
      BY <1>1, <1>2, <2>1 DEF ViewInv, ProcessTells
    <2> QED
      BY <1>3, <2>1, <2>2
  <1>5. ASSUME NEW m \in Monitors, NEW i, Posted(m, i) PROVE Posted(m, i)'
    <2>1. PICK k \in DOMAIN msgs : i \in Range(msgs[k].imgs) /\ m \in names /\ k # 1
      BY <1>1, <1>5 DEF Posted
    <2>2. k - 1 \in 1..Len(msgs') /\ (k - 1) + 1 = k
      BY <1>2, <1>3, <2>1
    <2>3. k - 1 \in DOMAIN msgs' /\ msgs'[k - 1] = msgs[k] /\ msgs' # <<>>
      BY <1>3, <2>2
    <2> QED
      BY <1>1, <2>1, <2>3 DEF Posted
  <1>6. \A m \in Monitors, i \in Images : port[m] = "live" /\ Expects(m, i) => Expects(m, i)'
    <2>1. \A i : ~Due(i)
      BY <1>1 DEF Due
    <2> QED
      BY <1>1, <1>5, <2>1 DEF Expects, InPort
  <1>7. pc # "launch" /\ pc' # "mirror"
    BY <1>1
  <1>8. Sends
    BY <1>1, <1>2, <1>4, <1>6, <1>7, InboxesRight DEF Sends
  <1> QED
    BY <1>8, SendsView

LEMMA SendView ==
    ASSUME TargetInv, MonitorInv, ViewInv, NEW m \in Monitors, Send(m)
    PROVE  ViewInv'
  <1> USE DEF memory, objectVars
  <1>1. /\ UNCHANGED <<alive, loaded, infos, arrays, suspended, change, call, registered, port, work, got, seen, snap, msgs>>
        /\ pc = "send" /\ pc' \in {"send", "wait"} /\ m \in pending /\ pending' = pending \ {m}
    BY DEF Send
  <1>2. /\ alive /\ msgs # <<>> /\ msgs \in Seq(Notices) /\ inbox \in [Monitors -> Seq(Messages)] /\ m \in names
    BY <1>1 DEF MonitorInv, MonitorTypes, Waiting
  <1>3. Head(msgs) \in Messages /\ Head(msgs) = msgs[1] /\ 1 \in DOMAIN msgs
    <2>1. Head(msgs) \in Notices /\ Head(msgs) = msgs[1]
      BY <1>2, RangeHeadTail
    <2>2. 1 \in DOMAIN msgs
      BY <1>2
    <2> QED
      BY <2>1, <2>2 DEF Notices, Messages
  <1>4. \A k \in DOMAIN msgs : Right(msgs[k])
    BY <1>1, <1>2 DEF ViewInv, ProcessTells
  <1>5. \A n \in Monitors : \A k \in DOMAIN inbox[n] : Right(inbox[n][k])
    BY <1>2 DEF ViewInv, Hears
  <1>6. \A i : Due(i)' <=> Due(i)
    BY <1>1 DEF Due
  <1>7. CASE port[m] = "live"
    <2>1. inbox' = [inbox EXCEPT ![m] = Append(inbox[m], Head(msgs))] /\ names' = names
      BY <1>7 DEF Send
    <2>2. PICK q : q = inbox[m]
      OBVIOUS
    <2>3. /\ q \in Seq(Messages) /\ inbox'[m] = Append(q, msgs[1]) /\ msgs[1] \in Messages
          /\ \A n \in Monitors : n # m => inbox'[n] = inbox[n]
      BY <1>2, <1>3, <2>1, <2>2
    <2>4. /\ Append(q, msgs[1]) \in Seq(Messages) /\ Len(Append(q, msgs[1])) = Len(q) + 1 /\ Len(q) \in Nat
          /\ \A k \in 1..Len(q) : Append(q, msgs[1])[k] = q[k]
          /\ Append(q, msgs[1])[Len(q) + 1] = msgs[1]
      BY <2>3, AppendProperties
    <2>5. DOMAIN inbox'[m] = 1..(Len(q) + 1) /\ DOMAIN q = 1..Len(q)
      BY <2>3, <2>4
    <2>6. /\ \A k \in DOMAIN q : k \in DOMAIN inbox'[m] /\ inbox'[m][k] = q[k]
          /\ Len(q) + 1 \in DOMAIN inbox'[m] /\ inbox'[m][Len(q) + 1] = msgs[1]
          /\ \A k \in DOMAIN inbox'[m] : k \in DOMAIN q \/ k = Len(q) + 1
      BY <2>3, <2>4, <2>5
    <2>7. \A n \in Monitors : \A k \in DOMAIN inbox'[n] : Right(inbox'[n][k])
      <3>1. \A k \in DOMAIN inbox'[m] : Right(inbox'[m][k])
        BY <1>3, <1>4, <1>5, <2>2, <2>6
      <3> QED
        BY <1>5, <2>3, <3>1
    <2>8. ASSUME NEW n \in Monitors, NEW i, Expects(n, i) PROVE Expects(n, i)'
      <3>1. CASE Due(i) \/ i \in Range(got[n].imgs)
        BY <1>1, <1>6, <3>1 DEF Expects
      <3>2. CASE InPort(n, i)
        <4>1. InPort(n, i)'
          BY <2>2, <2>3, <2>6, <3>2 DEF InPort
        <4> QED
          BY <4>1 DEF Expects
      <3>3. CASE Posted(n, i)
        <4>1. PICK k \in DOMAIN msgs : i \in Range(msgs[k].imgs) /\ (n \in pending \/ (n \in names /\ k # 1))
          BY <3>3 DEF Posted
        <4>2. CASE n = m /\ k = 1
          <5>1. InPort(n, i)'
            BY <2>6, <4>1, <4>2 DEF InPort
          <5> QED
            BY <5>1 DEF Expects
        <4>3. CASE n # m \/ k # 1
          <5>1. Posted(n, i)'
            BY <1>1, <1>2, <2>1, <4>1, <4>3 DEF Posted
          <5> QED
            BY <5>1 DEF Expects
        <4> QED
          BY <4>2, <4>3
      <3> QED
        BY <2>8, <3>1, <3>2, <3>3 DEF Expects
    <2>9. Sends
      BY <1>1, <1>2, <1>4, <2>7, <2>8 DEF Sends
    <2> QED
      BY <2>9, SendsView
  <1>8. CASE port[m] # "live"
    <2>1. inbox' = inbox /\ names' = names \ {m}
      BY <1>8 DEF Send
    <2>2. ASSUME NEW n \in Monitors, NEW i, n # m, Expects(n, i) PROVE Expects(n, i)'
      <3>1. Posted(n, i) => Posted(n, i)'
        BY <1>1, <2>1, <2>2 DEF Posted
      <3>2. InPort(n, i)' <=> InPort(n, i)
        BY <2>1 DEF InPort
      <3> QED
        BY <1>1, <1>6, <2>2, <3>1, <3>2 DEF Expects
    <2>3. Sends
      BY <1>1, <1>2, <1>4, <1>5, <1>8, <2>1, <2>2 DEF Sends
    <2> QED
      BY <2>3, SendsView
  <1> QED
    BY <1>7, <1>8

LEMMA ExitView ==
    ASSUME ViewInv, Exit
    PROVE  ViewInv'
  BY DEF ViewInv, ViewTypes, Exit

-----------------------------------------------------------------------------
(* The monitors *)

\* A notice is handled until every image of it was looked at.
LEMMA StillNotifying ==
    ASSUME Working, NEW m \in Monitors, NEW w \in Workers, NEW s \in Seq(Tasks \cup {"connect"}),
           Start(m, w, s) \/ (Do(m, w, s) /\ Doing(m, w) \notin {"notify", "idle"})
    PROVE  \A n \in Monitors : Notifying(n) => Notifying(n)'
  <1> DEFINE T == Tasks \cup {"connect"}
  <1>1. PICK x : x = work[m][w]
    OBVIOUS
  <1>2. x \in Seq(T)
    BY <1>1 DEF Working
  <1>3. \/ work' = [work EXCEPT ![m][w] = s \o x]
        \/ work' = [work EXCEPT ![m][w] = s \o Tail(x)] /\ x # <<>> /\ Head(x) # "notify"
    BY <1>1 DEF Start, Do, Doing
  <1> HIDE DEF T
  <1>4. PICK y : work' = [work EXCEPT ![m][w] = y] /\ ("notify" \in Range(x) => "notify" \in Range(y))
    <2>1. CASE work' = [work EXCEPT ![m][w] = s \o x]
      <3>1. Range(s \o x) = Range(s) \cup Range(x)
        BY <1>2, RangeConcatenation DEF T
      <3> QED
        BY <2>1, <3>1
    <2>2. CASE work' = [work EXCEPT ![m][w] = s \o Tail(x)] /\ x # <<>> /\ Head(x) # "notify"
      <3>1. Range(x) = {Head(x)} \cup Range(Tail(x)) /\ Tail(x) \in Seq(T)
        BY <1>2, <2>2, RangeHeadTail
      <3>3. s \in Seq(T)
        BY DEF T
      <3>4. PICK z \in Seq(T) : z = Tail(x)
        BY <3>1
      <3>5. Range(s \o z) = Range(s) \cup Range(z)
        BY <3>3, RangeConcatenation
      <3>2. Range(s \o Tail(x)) = Range(s) \cup Range(Tail(x))
        BY <3>4, <3>5
      <3> QED
        BY <2>2, <3>1, <3>2
    <2> QED
      BY <1>3, <2>1, <2>2
  <1>5. /\ work'[m][w] = y /\ \A v \in Workers : v # w => work'[m][v] = work[m][v]
        /\ \A n \in Monitors : n # m => work'[n] = work[n]
    <2>1. work' = [work EXCEPT ![m][w] = y]
      BY <1>4
    <2> QED
      BY <2>1 DEF Working
  <1>6. "queue" \in Workers
    BY DEF Workers
  <1> QED
    BY <1>1, <1>4, <1>5, <1>6 DEF Notifying

\* A monitor that a step is not about.
Untouched(n) ==
    /\ SameNews(n) /\ port'[n] = port[n] /\ snap'[n] = snap[n] /\ (n \in registered => n \in registered')
    /\ (Notifying(n) => Notifying(n)') /\ (call' = call \/ ~CallOf(n)')

LEMMA UntouchedView ==
    ASSUME NEW n \in Monitors, Hears(n), Begins(n), Sees(n), SameChange, Untouched(n)
    PROVE  Hears(n)' /\ Begins(n)' /\ Sees(n)'
  <1>1. Hears(n)'
    BY HearsSame DEF Untouched
  <1>2. Begins(n)'
    BY BeginsSame DEF Untouched, SameNews, CallOf
  <1>3. Sees(n)'
    <2>1. CASE call' = call
      BY <2>1, KeepsSame, SeesSame DEF Untouched
    <2>2. CASE ~CallOf(n)'
      <3>1. \A i : Open(n, i)' <=> Open(n, i)
        BY NewsSame DEF Untouched
      <3>2. \A r, i : Says(r, i)' <=> Says(r, i)
        BY DEF Says, Whole, SameChange
      <3>3. ASSUME NEW i \in Images, port'[n] = "live", Open(n, i)' PROVE Says(snap[n], i)'
        <4>1. Says(snap[n], i)
          BY <3>1, <3>3 DEF Sees, Untouched
        <4> QED
          BY <3>2, <4>1 DEF Untouched
      <3> QED
        BY <2>2, <3>3 DEF Sees
    <2> QED
      BY <2>1, <2>2 DEF Untouched
  <1> QED
    BY <1>1, <1>2, <1>3

\* Steps that a view does not depend on.
LEMMA OwnView ==
    ASSUME ViewInv, SameChange, UNCHANGED <<alive, inbox, got, seen, snap, port, registered, call>>,
           \A n \in Monitors : Notifying(n) => Notifying(n)'
    PROVE  ViewInv'
  <1>1. ViewTypes'
    BY DEF ViewInv, ViewTypes
  <1>2. ASSUME alive PROVE ProcessTells' /\ CallTypes'
    BY <1>2, ProcessSame, CallTypesSame DEF ViewInv, SameChange
  <1>3. ASSUME alive, NEW n \in Monitors PROVE Hears(n)' /\ Begins(n)' /\ Sees(n)'
    <2>1. Hears(n) /\ Begins(n) /\ Sees(n)
      BY <1>3 DEF ViewInv
    <2>2. Untouched(n)
      BY DEF Untouched, SameNews
    <2> QED
      BY <2>1, <2>2, UntouchedView
  <1> QED
    BY <1>1, <1>2, <1>3 DEF ViewInv

\* What the thread about to call main() does.
LEMMA MainView ==
    ASSUME ViewInv, NotifyMain \/ MainNext \/ \E m \in Monitors : SendMain(m)
    PROVE  ViewInv'
  <1>1. /\ SameChange /\ UNCHANGED <<alive, inbox, got, seen, snap, port, registered, call, work>>
    BY DEF NotifyMain, MainNext, SendMain, targetVars, memory, sendVars, monitorVars, SameChange
  <1>2. \A n \in Monitors : Notifying(n) => Notifying(n)'
    BY <1>1 DEF Notifying
  <1> QED
    BY <1>1, <1>2, OwnView

LEMMA OwnStepsView ==
    ASSUME MonitorInv, ViewInv, NEW m \in Monitors, NEW w \in Workers,
           \/ Connect(m) \/ Retain(m, w) \/ Release(m, w) \/ Disconnect(m, w) \/ Clear(m, w) \/ Cancel(m, w)
           \/ Enqueue(m, w, "exit") \/ Enqueue(m, w, "delete")
           \/ HandleMain(m) \/ BlockReturns(m) \/ CallExit(m) \/ Delete(m) \/ Reply(m) \/ ReplyMain(m)
    PROVE  ViewInv'
  <1> USE DEF targetVars, memory, sendVars, objectVars
  <1> DEFINE T == Tasks \cup {"connect"}
  <1>1. /\ UNCHANGED <<loaded, infos, arrays, suspended, change, msgs, names, pending>>
        /\ UNCHANGED <<alive, inbox, got, seen, snap, port, registered, call>>
    <2>1. CASE Connect(m) \/ Retain(m, w) \/ Release(m, w) \/ BlockReturns(m)
      BY <2>1 DEF Connect, Retain, Release, BlockReturns
    <2>2. CASE Disconnect(m, w) \/ Clear(m, w) \/ Cancel(m, w)
      BY <2>2 DEF Disconnect, Clear, Cancel
    <2>3. CASE Enqueue(m, w, "exit") \/ Enqueue(m, w, "delete") \/ CallExit(m) \/ Delete(m)
      BY <2>3 DEF Enqueue, CallExit, Delete
    <2>4. CASE HandleMain(m) \/ Reply(m) \/ ReplyMain(m)
      BY <2>4 DEF HandleMain, Reply, ReplyMain
    <2> QED
      BY <2>1, <2>2, <2>3, <2>4
  <1>2. pc' = pc \/ (pc \in {"send", "wait"} /\ pc' \in {"send", "wait"})
    <2>1. CASE Connect(m) \/ Retain(m, w) \/ Release(m, w) \/ BlockReturns(m) \/ HandleMain(m) \/ ReplyMain(m)
      BY <2>1 DEF Connect, Retain, Release, BlockReturns, HandleMain, ReplyMain
    <2>2. CASE Disconnect(m, w) \/ Clear(m, w) \/ Cancel(m, w)
      BY <2>2 DEF Disconnect, Clear, Cancel
    <2>3. CASE Enqueue(m, w, "exit") \/ Enqueue(m, w, "delete") \/ CallExit(m) \/ Delete(m)
      BY <2>3 DEF Enqueue, CallExit, Delete
    <2>4. CASE Reply(m)
      <3>1. Doing(m, "queue") = "reply" /\ QueueWork(work[m]["queue"])
        BY <2>4 DEF Reply, MonitorInv, Working, Works
      <3>2. work[m]["queue"] # <<>> /\ "reply" \in Range(work[m]["queue"])
        <4> DEFINE q == work[m]["queue"]
        <4>1. q # <<>> /\ Head(q) = "reply" /\ q \in Seq(Tasks)
          BY <3>1 DEF Doing, QueueWork
        <4> HIDE DEF q
        <4>2. 1 \in DOMAIN q /\ q[1] = "reply"
          BY <4>1
        <4> QED
          BY <4>1, <4>2 DEF Range, q
      <3>3. Answering(work[m]["queue"])
        BY <3>1, <3>2, RepliesDue
      <3>4. alive => pc = "wait"
        BY <3>3 DEF MonitorInv, Waiting, Holds
      <3> QED
        BY <2>4, <3>4 DEF Reply, Answers
    <2> QED
      BY <2>1, <2>2, <2>3, <2>4
  <1>3. /\ <<>> \in Seq(T) /\ <<"disconnect">> \in Seq(T) /\ <<"clear">> \in Seq(T) /\ <<"cancel">> \in Seq(T)
        /\ <<"exit">> \in Seq(T) /\ <<"block">> \in Seq(T) /\ <<"disconnect", "delete">> \in Seq(T)
        /\ <<"block", "replyMain">> \in Seq(T)
    BY DEF Tasks
  <1>4. \/ work' = work
        \/ \E v \in Workers : \E s \in Seq(T) :
              Start(m, v, s) \/ (Do(m, v, s) /\ Doing(m, v) \notin {"notify", "idle"})
    <2> HIDE DEF T
    <2>0. "thread" \in Workers /\ "queue" \in Workers
      BY DEF Workers
    <2>1. CASE Connect(m)
      <3>1. Do(m, "thread", <<>>) /\ Doing(m, "thread") \notin {"notify", "idle"}
        BY <2>1 DEF Connect
      <3> QED
        BY <1>3, <2>0, <3>1
    <2>2. CASE Retain(m, w) \/ Delete(m)
      BY <2>2 DEF Retain, Delete
    <2>3. CASE Release(m, w)
      <3>1. work' = work \/ Start(m, w, <<"disconnect", "delete">>)
        BY <2>3 DEF Release
      <3> QED
        BY <1>3, <3>1
    <2>4. CASE Disconnect(m, w)
      <3>1. (Do(m, w, <<>>) \/ Do(m, w, <<"clear">>)) /\ Doing(m, w) \notin {"notify", "idle"}
        BY <2>4 DEF Disconnect
      <3> QED
        BY <1>3, <3>1
    <2>5. CASE Clear(m, w) \/ Cancel(m, w)
      <3>1. (Do(m, w, <<"cancel">>) \/ Do(m, w, <<"exit">>)) /\ Doing(m, w) \notin {"notify", "idle"}
        BY <2>5 DEF Clear, Cancel
      <3> QED
        BY <1>3, <3>1
    <2>6. CASE Enqueue(m, w, "exit") \/ Enqueue(m, w, "delete")
      <3>1. Do(m, w, <<>>) /\ Doing(m, w) \notin {"notify", "idle"}
        BY <2>6 DEF Enqueue
      <3> QED
        BY <1>3, <3>1
    <2>7. CASE BlockReturns(m) \/ Reply(m) \/ ReplyMain(m)
      <3>1. (Do(m, "queue", <<>>) \/ Do(m, "queue", <<"disconnect">>)) /\ Doing(m, "queue") \notin {"notify", "idle"}
        BY <2>7 DEF BlockReturns, Reply, ReplyMain
      <3> QED
        BY <1>3, <2>0, <3>1
    <2>8. CASE HandleMain(m) \/ CallExit(m)
      <3>1. Start(m, "queue", <<"block">>) \/ Start(m, "queue", <<"block", "replyMain">>)
        BY <2>8 DEF HandleMain, CallExit, Handling
      <3> QED
        BY <1>3, <2>0, <3>1
    <2> QED
      BY <2>1, <2>2, <2>3, <2>4, <2>5, <2>6, <2>7, <2>8
  <1>5. \A n \in Monitors : Notifying(n) => Notifying(n)'
    <2>1. CASE work' = work
      BY <2>1 DEF Notifying
    <2>2. CASE \E v \in Workers : \E s \in Seq(T) :
                  Start(m, v, s) \/ (Do(m, v, s) /\ Doing(m, v) \notin {"notify", "idle"})
      BY <2>2, StillNotifying DEF MonitorInv
    <2> QED
      BY <1>4, <2>1, <2>2
  <1>6. SameChange
    BY <1>1, <1>2 DEF SameChange
  <1> QED
    BY <1>1, <1>5, <1>6, OwnView

LEMMA RegisterView ==
    ASSUME MonitorInv, ViewInv, NEW m \in Monitors, Register(m)
    PROVE  ViewInv'
  <1> USE DEF targetVars, memory, sendVars
  <1>1. /\ UNCHANGED <<loaded, infos, arrays, suspended, pc, change, msgs, names, pending>>
        /\ UNCHANGED <<alive, inbox, got, seen, snap, call>> /\ alive /\ port[m] = "none"
        /\ port' = [port EXCEPT ![m] = "live"] /\ registered' = registered \cup {m}
        /\ Start(m, "thread", <<"connect">>)
    BY DEF Register
  <1>2. SameChange /\ \A n \in Monitors : SameNews(n)
    BY <1>1 DEF SameChange, SameNews
  <1>3. \A n \in Monitors : Notifying(n) => Notifying(n)'
    <2>1. <<"connect">> \in Seq(Tasks \cup {"connect"}) /\ "thread" \in Workers
      BY DEF Workers
    <2> QED
      BY <1>1, <2>1, StillNotifying DEF MonitorInv
  <1>4. port \in [Monitors -> {"none", "live", "dead"}]
    BY DEF MonitorInv, MonitorTypes
  <1>5. ViewTypes' /\ ProcessTells' /\ CallTypes'
    BY <1>1, <1>2, ProcessSame, CallTypesSame DEF ViewInv, ViewTypes
  <1>6. ASSUME NEW n \in Monitors, n # m PROVE Hears(n)' /\ Begins(n)' /\ Sees(n)'
    <2>1. Untouched(n)
      BY <1>1, <1>2, <1>3, <1>4, <1>6 DEF Untouched
    <2> QED
      BY <1>1, <1>2, <2>1, UntouchedView DEF ViewInv
  <1>7. port'[m] = "live" /\ m \in registered'
    BY <1>1, <1>4
  <1>8. snap[m] = NoResult /\ ~CallOf(m) /\ (\A i \in Images : seen[m][i] = None) /\ Hears(m)
    BY <1>1 DEF ViewInv, Begins
  <1>9. Begins(m)'
    BY <1>7 DEF Begins
  <1>10. Sees(m)'
    <2>1. snap'[m] = NoResult /\ ~CallOf(m)'
      BY <1>1, <1>8 DEF CallOf
    <2>2. \A i : Says(NoResult, i)'
      BY DEF Says, Whole
    <2> QED
      BY <2>1, <2>2 DEF Sees
  <1>11. Hears(m)'
    <2>1. \A x : Right(x)' <=> Right(x)
      BY <1>2, NewsSame
    <2>2. (\A k \in DOMAIN inbox[m] : Right(inbox[m][k]))' /\ Right(got[m])'
      BY <1>1, <1>8, <2>1 DEF Hears
    <2>3. (got[m].imgs # <<>> => "notify" \in Range(work[m]["queue"]))'
      BY <1>1, <1>3, <1>8 DEF Hears, Notifying
    <2>4. \A i \in Images : seen'[m][i] = None
      BY <1>1, <1>8
    <2> QED
      BY <1>7, <2>2, <2>3, <2>4 DEF Hears
  <1>12. \A n \in Monitors : Hears(n)' /\ Begins(n)' /\ Sees(n)'
    BY <1>6, <1>9, <1>10, <1>11
  <1> QED
    BY <1>1, <1>5, <1>12 DEF ViewInv

\* A call begins, goes on or returns: what its monitor then has read is what matters.
LEMMA CallView ==
    ASSUME MonitorInv, ViewInv, alive, alive', NEW m \in Monitors, NEW w \in Workers,
           SameChange, UNCHANGED <<inbox, got, seen, port, registered>>,
           \A n \in Monitors : n # m => snap'[n] = snap[n] /\ ~CallOf(n)',
           DOMAIN snap' = Monitors, CallTypes',
           \A n \in Monitors : Notifying(n) => Notifying(n)',
           port[m] = "none" => snap'[m] = snap[m] /\ ~CallOf(m)',
           port[m] = "live" => \A i \in Images : Open(m, i) => Says(snap'[m], i) /\ (CallOf(m)' => CallSays(i)')
    PROVE  ViewInv'
  <1>1. ViewTypes'
    BY DEF ViewInv, ViewTypes
  <1>2. ProcessTells'
    BY ProcessSame DEF ViewInv
  <1>3. \A n \in Monitors : SameNews(n)
    BY DEF SameNews
  <1>4. ASSUME NEW n \in Monitors, n # m PROVE Hears(n)' /\ Begins(n)' /\ Sees(n)'
    <2>1. Untouched(n)
      BY <1>3, <1>4 DEF Untouched
    <2> QED
      BY <2>1, UntouchedView DEF ViewInv
  <1>5. Hears(m)'
    BY <1>3, HearsSame DEF ViewInv
  <1>6. Begins(m)'
    <2>1. Begins(m)
      BY DEF ViewInv
    <2> QED
      BY <2>1 DEF Begins
  <1>7. Sees(m)'
    <2>1. \A i : Open(m, i)' <=> Open(m, i)
      BY <1>3, NewsSame
    <2>2. \A r, i : Says(r, i)' <=> Says(r, i)
      BY DEF Says, Whole, SameChange
    <2>3. ASSUME NEW i \in Images, port'[m] = "live", Open(m, i)'
          PROVE  Says(snap[m], i)' /\ (CallOf(m)' => CallSays(i)')
      <3>1. Says(snap'[m], i) /\ (CallOf(m)' => CallSays(i)')
        BY <2>1, <2>3
      <3> QED
        BY <2>2, <3>1
    <2> QED
      BY <2>3 DEF Sees
  <1>8. \A n \in Monitors : Hears(n)' /\ Begins(n)' /\ Sees(n)'
    BY <1>4, <1>5, <1>6, <1>7
  <1> QED
    BY <1>1, <1>2, <1>8 DEF ViewInv

LEMMA InspectView ==
    ASSUME MonitorInv, ViewInv, NEW m \in Monitors, NEW w \in Workers, NEW stamp, Inspect(m, w, stamp)
    PROVE  ViewInv'
  <1> USE DEF targetVars, memory, sendVars
  <1>1. /\ UNCHANGED <<loaded, infos, arrays, suspended, pc, change, msgs, names, pending>>
        /\ UNCHANGED <<alive, inbox, got, seen, snap, port, registered>> /\ alive
        /\ Start(m, w, <<"create">>)
        /\ call' = [NoCall EXCEPT !.at = "infos", !.by = <<m, w, connected[m]>>, !.stamp = stamp]
    BY DEF Inspect, Create
  <1>2. /\ call'.at = "infos" /\ call'.by[1] = m /\ call'.by[3] = connected[m] /\ call'.imgs = <<>>
        /\ call'.result = NoResult
    BY <1>1 DEF NoCall
  <1>3. \A n \in Monitors : Notifying(n) => Notifying(n)'
    <2>1. <<"create">> \in Seq(Tasks \cup {"connect"})
      BY DEF Tasks
    <2> QED
      BY <1>1, <2>1, StillNotifying DEF MonitorInv
  <1>4. CallTypes'
    BY <1>2 DEF CallTypes
  <1>5. \A i : CallSays(i)'
    BY <1>2 DEF CallSays, Says, Whole
  <1>6. port[m] = "none" => ~CallOf(m)'
    BY <1>2 DEF CallOf, MonitorInv, Living, Lives
  <1>7. \A n \in Monitors : n # m => ~CallOf(n)'
    BY <1>2 DEF CallOf
  <1>8. SameChange
    BY <1>1 DEF SameChange
  <1>9. port[m] = "live" => \A i \in Images : Open(m, i) => Says(snap'[m], i)
    BY <1>1 DEF ViewInv, Sees
  <1>10. DOMAIN snap' = Monitors
    BY <1>1 DEF ViewInv, ViewTypes
  <1> QED
    BY <1>1, <1>3, <1>4, <1>5, <1>6, <1>7, <1>8, <1>9, <1>10, CallView

LEMMA CreatedView ==
    ASSUME MonitorInv, Calling, ViewInv, NEW m \in Monitors, NEW w \in Workers, Created(m, w)
    PROVE  ViewInv'
  <1> USE DEF targetVars, memory, sendVars
  <1>1. /\ UNCHANGED <<loaded, infos, arrays, suspended, pc, change, msgs, names, pending>>
        /\ UNCHANGED <<alive, inbox, got, seen, port, registered>>
        /\ Do(m, w, <<>>) /\ Doing(m, w) = "create" /\ call.at = "done" /\ call.by[1] = m
        /\ snap' = [snap EXCEPT ![m] = IF call.result # NoResult /\ call.by[3] THEN call.result ELSE @]
        /\ call' = NoCall
    BY DEF Created
  <1>2. ViewTypes /\ DOMAIN snap = Monitors
    BY DEF ViewInv, ViewTypes
  <1>3. DOMAIN snap' = Monitors /\ ViewTypes'
    <2>1. DOMAIN snap' = Monitors
      BY <1>1, <1>2
    <2> QED
      BY <1>1, <1>2, <2>1 DEF ViewTypes
  <1>4. CASE ~alive
    BY <1>1, <1>3, <1>4 DEF ViewInv
  <1>5. CASE alive
    <2>1. \A n \in Monitors : Notifying(n) => Notifying(n)'
      <3>1. <<>> \in Seq(Tasks \cup {"connect"})
        OBVIOUS
      <3> QED
        BY <1>1, <3>1, StillNotifying DEF MonitorInv
    <2>2. call'.at = "none"
      BY <1>1 DEF NoCall
    <2>3. CallTypes' /\ \A n \in Monitors : ~CallOf(n)'
      BY <2>2 DEF CallTypes, CallOf
    <2>4. \A n \in Monitors : n # m => snap'[n] = snap[n]
      BY <1>1, <1>2
    <2>5. /\ call.by[3] => CallOf(m)
          /\ snap'[m] = snap[m] \/ (snap'[m] = call.result /\ call.by[3])
      BY <1>1, <1>2 DEF CallOf
    <2>6. port[m] = "none" => snap'[m] = snap[m]
      BY <1>5, <2>5 DEF ViewInv, Begins
    <2>7. port[m] = "live" => \A i \in Images : Open(m, i) => Says(snap'[m], i)
      <3> SUFFICES ASSUME port[m] = "live", NEW i \in Images, Open(m, i) PROVE Says(snap'[m], i)
        OBVIOUS
      <3>1. Says(snap[m], i) /\ (CallOf(m) => CallSays(i))
        BY <1>5 DEF ViewInv, Sees
      <3>2. CallOf(m) => Says(call.result, i)
        BY <3>1 DEF CallSays
      <3> QED
        BY <2>5, <3>1, <3>2
    <2>8. SameChange /\ alive'
      BY <1>1, <1>5 DEF SameChange
    <2> QED
      BY <1>1, <1>3, <1>5, <2>1, <2>3, <2>4, <2>6, <2>7, <2>8, CallView
  <1> QED
    BY <1>4, <1>5

\* What a reader finds published is right about an image that is not being changed.
LEMMA PublishedShows ==
    ASSUME TargetInv, MonitorInv, ProcessTells, alive, infos.array # 0, NEW i \in Images, ~Due(i)
    PROVE  Shows(infos.count, i)
  <1>1. CASE pc \in Steady
    BY <1>1, SteadyShows
  <1>2. CASE pc = "mirror"
    <2>1. i \notin Range(change.imgs)
      BY <1>2 DEF Due
    <2> QED
      BY <1>2, <2>1 DEF ProcessTells
  <1>3. CASE pc \in {"launch", "exited", "fill", "array"}
    BY <1>3 DEF TargetInv, TargetTypes, Mirrored
  <1> QED
    BY <1>1, <1>2, <1>3 DEF TargetInv, TargetTypes

LEMMA AttemptSays ==
    ASSUME CallFields(call), NEW base, NEW kr, AttemptEnds(call, base, kr), UNCHANGED <<loaded, arrays>>
    PROVE  /\ CallTypes' /\ call'.by = call.by /\ call'.at # "none"
           /\ \A i \in Images : CallSays(i) /\ Says(base, i) => CallSays(i)'
  <1>1. /\ call'.at \in {"infos", "done"} /\ call'.imgs = <<>> /\ call'.by = call.by
        /\ call'.result = call.result \/ call'.result = base
    BY DEF AttemptEnds, CallFields
  <1>2. \A r, i : Says(r, i)' <=> Says(r, i)
    BY DEF Says, Whole
  <1> QED
    BY <1>1, <1>2 DEF CallTypes, CallSays

LEMMA SaysNothing == \A i : Says(NoResult, i)
  BY DEF Says, Whole

\* Each read keeps a call right about the images that are not being changed.
ReadsRight ==
    /\ CallTypes' /\ call'.by = call.by /\ call'.at # "none" /\ call.at # "none"
    /\ \A i \in Images : CallSays(i) /\ ~Due(i) => CallSays(i)'

LEMMA InfosSay ==
    ASSUME TargetInv, MonitorInv, Calling, ViewInv, alive, UNCHANGED <<loaded, arrays>>, ReadInfos
    PROVE  ReadsRight
  <1>1. call.at = "infos" /\ CallFields(call) /\ CallTypes /\ ProcessTells
    BY DEF ReadInfos, Calling, ViewInv
  <1>2. CASE \E kr : AttemptEnds(call, NoResult, kr)
    BY <1>1, <1>2, AttemptSays, SaysNothing DEF ReadsRight
  <1>3. \A r, i : Says(r, i)' <=> Says(r, i)
    BY DEF Says, Whole
  <1>4. CASE call' = [call EXCEPT !.at = "suspended"]
    <2>1. call'.at = "suspended" /\ call'.by = call.by /\ call'.imgs = call.imgs /\ call'.result = call.result
      BY <1>1, <1>4 DEF CallFields
    <2> QED
      BY <1>1, <1>3, <2>1 DEF ReadsRight, CallTypes, CallSays
  <1>5. CASE infos.array # 0 /\ call' = [call EXCEPT !.at = "array", !.infos = infos]
    <2>1. /\ call'.at = "array" /\ call'.by = call.by /\ call'.imgs = call.imgs /\ call'.result = call.result
          /\ call'.infos = infos
      BY <1>1, <1>5 DEF CallFields
    <2>2. \A c, i : Shows(c, i)' <=> Shows(c, i)
      BY ShowsSame
    <2>3. \A i \in Images : ~Due(i) => Shows(infos.count, i)
      BY <1>1, <1>5, PublishedShows
    <2>4. ASSUME NEW i \in Images, CallSays(i), ~Due(i) PROVE CallSays(i)'
      BY <1>3, <2>1, <2>2, <2>3, <2>4 DEF CallSays
    <2>5. infos.array \in 1..Len(arrays) /\ infos.count \in Nat /\ infos.count <= Len(Array)
      BY <1>5 DEF TargetInv, TargetTypes, Published
    <2>6. Array' = Array
      BY DEF Array
    <2>7. CallTypes'
      BY <1>1, <2>1, <2>5, <2>6 DEF CallTypes
    <2> QED
      BY <1>1, <2>1, <2>4, <2>7 DEF ReadsRight
  <1> QED
    BY <1>2, <1>4, <1>5 DEF ReadInfos

LEMMA SuspendedSays ==
    ASSUME TargetInv, Calling, ViewInv, alive, UNCHANGED <<loaded, arrays>>, MakeSuspended
    PROVE  ReadsRight
  <1>1. call.at \in {"suspended", "search"} /\ CallFields(call) /\ CallTypes /\ ProcessTells
    BY DEF MakeSuspended, Calling, ViewInv
  <1>2. CASE \E kr : AttemptEnds(call, NoResult, kr)
    BY <1>1, <1>2, AttemptSays, SaysNothing DEF ReadsRight
  <1>3. \A r, i : Says(r, i)' <=> Says(r, i)
    BY DEF Says, Whole
  <1>4. CASE call' = [call EXCEPT !.at = "search"]
    <2>1. call'.at = "search" /\ call'.by = call.by /\ call'.imgs = call.imgs /\ call'.result = call.result
      BY <1>1, <1>4 DEF CallFields
    <2> QED
      BY <1>1, <1>3, <2>1 DEF ReadsRight, CallTypes, CallSays
  <1>5. CASE /\ suspended
             /\ AttemptEnds(call, [time |-> 0, imgs |-> <<Head(Initial)>>, stale |-> FALSE], "SUCCESS")
    <2>1. pc = "launch" /\ loaded = <<>>
      BY <1>1, <1>5 DEF ProcessTells, TargetInv, InMemory
    <2>2. Head(Initial) \in Range(Initial)
      BY InfosAssumption DEF Range
    <2>3. PICK r : r = [time |-> 0, imgs |-> <<Head(Initial)>>, stale |-> FALSE]
      OBVIOUS
    <2>4. Range(r.imgs) = {Head(Initial)} /\ Range(loaded) = {}
      BY <2>1, <2>3 DEF Range
    <2>5. \A i : ~Due(i) => Says(r, i)
      BY <2>1, <2>2, <2>4 DEF Due, Says
    <2>6. AttemptEnds(call, r, "SUCCESS")
      BY <1>5, <2>3
    <2> QED
      BY <1>1, <2>5, <2>6, AttemptSays DEF ReadsRight
  <1> QED
    BY <1>2, <1>4, <1>5 DEF MakeSuspended

LEMMA ArraySays ==
    ASSUME TargetInv, Calling, ViewInv, alive, UNCHANGED <<loaded, arrays>>, ReadArray
    PROVE  ReadsRight
  <1>1. CallFields(call) /\ CallTypes
    BY DEF Calling, ViewInv
  <1> DEFINE n     == IF call.infos.count < MaxCount THEN call.infos.count ELSE MaxCount
             free  == call.infos.array # Len(arrays)
             t(lost) == [k \in 1..n |-> IF k \in lost THEN Junk ELSE arrays[call.infos.array][k]]
  <1>2. call.at = "array"
    BY Zenon DEF ReadArray
  <1>3. \/ AttemptEnds(call, NoResult, "FAILURE")
        \/ \E lost : /\ ~free => lost = {}
                     /\ call' = [call EXCEPT !.at = "images", !.stale = free, !.todo = t(lost)]
    BY Zenon DEF ReadArray
  <1>4. CASE AttemptEnds(call, NoResult, "FAILURE")
    BY <1>1, <1>2, <1>4, AttemptSays, SaysNothing DEF ReadsRight
  <1>5. ASSUME NEW lost, ~free => lost = {},
               call' = [call EXCEPT !.at = "images", !.stale = free, !.todo = t(lost)]
        PROVE  ReadsRight
    <2> HIDE DEF t, free
    <2>1. /\ call'.at = "images" /\ call'.by = call.by /\ call'.imgs = <<>> /\ call'.result = call.result
          /\ call'.stale = free /\ call'.todo = t(lost)
      BY <1>1, <1>2, <1>5 DEF CallFields, CallTypes
    <2>2. \A r, i : Says(r, i)' <=> Says(r, i)
      BY DEF Says, Whole
    <2>3. CASE free
      <3>1. CallTypes'
        BY <2>1, <2>3 DEF CallTypes
      <3>2. \A i \in Images : CallSays(i) => CallSays(i)'
        BY <2>1, <2>2, <2>3 DEF CallSays
      <3> QED
        BY <1>2, <2>1, <3>1, <3>2 DEF ReadsRight
    <2>4. CASE ~free
      <3>1. call.infos.array = Len(arrays) /\ lost = {}
        BY <1>5, <2>4 DEF free
      <3>2. PICK c : c = call.infos.count
        OBVIOUS
      <3>3. c \in Nat /\ c <= Len(Array) /\ MaxCount \in Nat /\ n \in Nat /\ n <= c /\ (n < MaxCount => n = c)
        BY <1>1, <1>2, <3>1, <3>2, ReaderAssumption DEF CallTypes
      <3>4. Array = arrays[call.infos.array] /\ Array \in Seq(Images \cup {Junk})
        <4>1. arrays \in Seq(Seq(Images \cup {Junk})) /\ Len(arrays) \in 1..Len(arrays)
          BY <1>1, <1>2, <3>1 DEF TargetInv, TargetTypes, CallTypes
        <4> QED
          BY <3>1, <4>1 DEF Array, Last
      <3>5. PICK s : s = t(lost)
        OBVIOUS
      <3>6. s = [k \in 1..n |-> Array[k]]
        BY <3>1, <3>4, <3>5 DEF t
      <3>7. s \in Seq(Images \cup {Junk}) /\ Len(s) = n /\ DOMAIN s = 1..n /\ \A k \in 1..n : s[k] = Array[k]
        <4> HIDE DEF n
        <4>1. \A k \in 1..n : Array[k] \in Images \cup {Junk}
          BY <3>3, <3>4
        <4> QED
          BY <3>3, <3>6, <4>1
      <3>8. CallTypes'
        BY <2>1, <3>5, <3>7 DEF CallTypes
      <3>9. ASSUME NEW i \in Images, CallSays(i), Len(<<>>) + Len(s) < MaxCount
            PROVE  i \in Range(<<>>) \cup Range(s) <=> i \in Range(loaded)
        <4> HIDE DEF n
        <4>1. n = c
          BY <3>3, <3>7, <3>9
        <4>2. Shows(c, i)
          BY <1>2, <3>1, <3>2, <3>9 DEF CallSays
        <4>3. \A k \in 1..c : k \in DOMAIN Array
          BY <3>3, <3>4
        <4>4. i \in Range(loaded) <=> \E k \in 1..c : Array[k] = i
          BY <4>2, <4>3 DEF Shows
        <4>5. i \in Range(s) <=> \E k \in 1..c : Array[k] = i
          BY <3>7, <4>1 DEF Range
        <4>6. Range(<<>>) = {}
          BY DEF Range
        <4> QED
          BY <4>4, <4>5, <4>6
      <3>10. \A i \in Images : CallSays(i) => CallSays(i)'
        BY <2>1, <2>2, <3>5, <3>9 DEF CallSays
      <3> QED
        BY <1>2, <2>1, <3>8, <3>10 DEF ReadsRight
    <2> QED
      BY <2>3, <2>4
  <1> HIDE DEF t, free, n
  <1> QED
    BY <1>3, <1>4, <1>5, Zenon

LEMMA ImageSays ==
    ASSUME TargetInv, Calling, ViewInv, alive, UNCHANGED <<loaded, arrays>>, ReadImage
    PROVE  ReadsRight
  <1>1. CallFields(call) /\ CallTypes /\ call.at = "images" /\ call.todo # <<>>
    BY DEF Calling, ViewInv, ReadImage
  <1>2. CASE AttemptEnds(call, NoResult, "FAILURE")
    BY <1>1, <1>2, AttemptSays, SaysNothing DEF ReadsRight
  <1>3. CASE call' = [call EXCEPT !.todo = Tail(@), !.imgs = Append(@, Head(call.todo))]
    <2>1. PICK a, b : a = call.imgs /\ b = call.todo
      OBVIOUS
    <2>2. /\ call'.at = "images" /\ call'.by = call.by /\ call'.imgs = Append(a, Head(b)) /\ call'.result = call.result
          /\ call'.stale = call.stale /\ call'.todo = Tail(b)
      BY <1>1, <1>3, <2>1 DEF CallFields
    <2>3. \A r, i : Says(r, i)' <=> Says(r, i)
      BY DEF Says, Whole
    <2>4. ASSUME ~call.stale
          PROVE  /\ Append(a, Head(b)) \in Seq(Images \cup {Junk}) /\ Tail(b) \in Seq(Images \cup {Junk})
                 /\ Len(Append(a, Head(b))) + Len(Tail(b)) = Len(a) + Len(b)
                 /\ Range(Append(a, Head(b))) \cup Range(Tail(b)) = Range(a) \cup Range(b)
      <3>1. a \in Seq(Images \cup {Junk}) /\ b \in Seq(Images \cup {Junk}) /\ b # <<>>
        BY <1>1, <2>1, <2>4 DEF CallTypes
      <3>2. /\ Range(b) = {Head(b)} \cup Range(Tail(b)) /\ Head(b) \in Images \cup {Junk}
            /\ Tail(b) \in Seq(Images \cup {Junk}) /\ Len(Tail(b)) = Len(b) - 1
        BY <3>1, RangeHeadTail
      <3>3. PICK x : x = Head(b)
        OBVIOUS
      <3>4. /\ Range(Append(a, x)) = Range(a) \cup {x} /\ Len(Append(a, x)) = Len(a) + 1
            /\ Append(a, x) \in Seq(Images \cup {Junk})
        BY <3>1, <3>2, <3>3, RangeAppend
      <3>5. Len(a) \in Nat /\ Len(b) \in Nat
        BY <3>1
      <3> QED
        BY <3>2, <3>3, <3>4, <3>5
    <2>5. CallTypes'
      BY <2>2, <2>4 DEF CallTypes
    <2>6. \A i \in Images : CallSays(i) => CallSays(i)'
      BY <1>1, <2>1, <2>2, <2>3, <2>4 DEF CallSays
    <2> QED
      BY <1>1, <2>2, <2>5, <2>6 DEF ReadsRight
  <1> QED
    BY <1>2, <1>3 DEF ReadImage

LEMMA InfoSays ==
    ASSUME TargetInv, Calling, ViewInv, alive, UNCHANGED <<loaded, arrays>>, MakeInfo
    PROVE  ReadsRight
  <1>1. CallFields(call) /\ CallTypes /\ call.at = "images" /\ call.todo = <<>>
    BY DEF Calling, ViewInv, MakeInfo
  <1>2. PICK r : r = [time |-> call.infos.time, imgs |-> call.imgs, stale |-> call.stale]
    OBVIOUS
  <1>3. AttemptEnds(call, r, "SUCCESS") /\ r.imgs = call.imgs /\ r.stale = call.stale
    BY <1>2 DEF MakeInfo
  <1>4. ASSUME NEW i \in Images, CallSays(i) PROVE Says(r, i)
    <2> SUFFICES ASSUME Whole(r) PROVE i \in Range(r.imgs) <=> i \in Range(loaded)
      BY DEF Says
    <2>1. ~call.stale /\ Len(call.imgs) < MaxCount
      BY <1>3 DEF Whole
    <2>2. Len(call.imgs) + Len(call.todo) < MaxCount
      <3>1. call.imgs \in Seq(Images \cup {Junk})
        BY <1>1, <2>1 DEF CallTypes
      <3> QED
        BY <1>1, <2>1, <3>1
    <2>3. i \in Range(call.imgs) \cup Range(call.todo) <=> i \in Range(loaded)
      BY <1>1, <1>4, <2>1, <2>2 DEF CallSays
    <2> QED
      BY <1>1, <1>3, <2>3 DEF Range
  <1> QED
    BY <1>1, <1>3, <1>4, AttemptSays DEF ReadsRight

LEMMA ReadOnView ==
    ASSUME TargetInv, MonitorInv, Calling, ViewInv, ReadOn
    PROVE  ViewInv'
  <1> USE DEF targetVars, memory, sendVars, monitorVars, objectVars
  <1>1. /\ UNCHANGED <<loaded, infos, arrays, suspended, pc, change, msgs, names, pending, work>>
        /\ UNCHANGED <<alive, inbox, got, seen, port, registered, snap>> /\ Reader
    BY DEF ReadOn
  <1>2. ViewTypes'
    BY <1>1 DEF ViewInv, ViewTypes
  <1>3. CASE ~alive
    BY <1>1, <1>2, <1>3 DEF ViewInv
  <1>4. CASE alive
    <2>1. ReadsRight
      BY <1>1, <1>4, InfosSay, SuspendedSays, ArraySays, ImageSays, InfoSays DEF Reader
    <2>2. PICK m \in Monitors, w \in Workers, c \in BOOLEAN : call.by = <<m, w, c>>
      BY <2>1 DEF ReadsRight, Calling
    <2>3. call'.by[1] = m /\ call.by[1] = m
      BY <2>1, <2>2 DEF ReadsRight
    <2>4. \A n \in Monitors : n # m => ~CallOf(n)'
      BY <2>3 DEF CallOf
    <2>5. CallOf(m)' => CallOf(m)
      BY <2>1 DEF CallOf, ReadsRight
    <2>6. port[m] = "none" => ~CallOf(m)'
      BY <1>4, <2>5 DEF ViewInv, Begins
    <2>7. ASSUME port[m] = "live", NEW i \in Images, Open(m, i)
          PROVE  Says(snap'[m], i) /\ (CallOf(m)' => CallSays(i)')
      <3>1. Says(snap[m], i) /\ (CallOf(m) => CallSays(i))
        BY <1>4, <2>7 DEF ViewInv, Sees
      <3>2. ~Due(i)
        BY <2>7 DEF Open, Expects
      <3>3. CallSays(i) => CallSays(i)'
        BY <2>1, <3>2 DEF ReadsRight
      <3> QED
        BY <1>1, <2>5, <3>1, <3>3
    <2>8. SameChange /\ alive' /\ DOMAIN snap' = Monitors /\ CallTypes'
      BY <1>1, <1>2, <1>4, <2>1 DEF SameChange, ViewTypes, ReadsRight
    <2>9. \A n \in Monitors : Notifying(n) => Notifying(n)'
      BY <1>1 DEF Notifying
    <2> QED
      BY <1>1, <1>4, <2>4, <2>6, <2>7, <2>8, <2>9, CallView
  <1> QED
    BY <1>3, <1>4

LEMMA IdleQueue ==
    ASSUME MonitorInv, NEW m \in Monitors, Doing(m, "queue") = "idle"
    PROVE  work[m]["queue"] = <<>>
  <1>1. QueueWork(work[m]["queue"])
    BY DEF MonitorInv, Working, Works
  <1>2. work[m]["queue"] # <<>> => Head(work[m]["queue"]) \in Tasks
    BY <1>1 DEF QueueWork
  <1>3. "idle" \notin Tasks
    BY DEF Tasks
  <1> QED
    BY <1>2, <1>3 DEF Doing

LEMMA HandleEventView ==
    ASSUME MonitorInv, ViewInv, NEW m \in Monitors, HandleEvent(m)
    PROVE  ViewInv'
  <1> USE DEF targetVars, memory, sendVars
  <1>1. PICK x : x = Head(inbox[m])
    OBVIOUS
  <1>2. /\ UNCHANGED <<loaded, infos, arrays, suspended, pc, change, msgs, names, pending>>
        /\ UNCHANGED <<alive, seen, snap, port, registered, call>>
        /\ Doing(m, "queue") = "idle" /\ inbox[m] # <<>>
        /\ got' = [got EXCEPT ![m] = IF x.imgs = <<>> THEN NoMessage ELSE x]
        /\ inbox' = [inbox EXCEPT ![m] = Tail(inbox[m])]
        /\ Start(m, "queue", Handling(x.kind))
    BY <1>1 DEF HandleEvent, Listens
  <1>3. inbox \in [Monitors -> Seq(Messages)] /\ ViewTypes
    BY DEF MonitorInv, MonitorTypes, ViewInv
  <1>4. PICK q : q = inbox[m]
    OBVIOUS
  <1>5. /\ q \in Seq(Messages) /\ q # <<>> /\ x = q[1] /\ x \in Messages /\ Len(q) \in Nat /\ Len(q) # 0
        /\ Tail(q) \in Seq(Messages) /\ Len(Tail(q)) = Len(q) - 1
        /\ \A k \in 1..Len(Tail(q)) : Tail(q)[k] = q[k + 1]
    BY <1>1, <1>2, <1>3, <1>4, HeadTailProperties
  <1>6. /\ got'[m] = (IF x.imgs = <<>> THEN NoMessage ELSE x) /\ \A n \in Monitors : n # m => got'[n] = got[n]
        /\ inbox'[m] = Tail(q) /\ \A n \in Monitors : n # m => inbox'[n] = inbox[n]
        /\ got'[m].imgs = x.imgs
    BY <1>2, <1>3, <1>4 DEF ViewTypes, NoMessage
  <1>7. ViewTypes'
    <2>1. /\ NoMessage \in [kind : {None, "load", "unload", "no_senders"}, imgs : Seq(Images), time : Nat]
          /\ x \in [kind : {None, "load", "unload", "no_senders"}, imgs : Seq(Images), time : Nat]
      BY <1>5 DEF NoMessage, Messages
    <2> QED
      BY <1>2, <1>3, <2>1 DEF ViewTypes
  <1>8. CASE ~alive
    BY <1>2, <1>7, <1>8 DEF ViewInv
  <1>9. CASE alive
    <2>1. SameChange
      BY <1>2 DEF SameChange
    <2>2. ProcessTells' /\ CallTypes'
      BY <1>2, <1>9, <2>1, ProcessSame, CallTypesSame DEF ViewInv
    <2>3. Hears(m) /\ Begins(m) /\ Sees(m)
      BY <1>9 DEF ViewInv
    <2>4. work[m]["queue"] = <<>> /\ work \in [Monitors -> [Workers -> Seq(Tasks \cup {"connect"})]]
      BY <1>2, IdleQueue DEF MonitorInv, Working
    <2>5. got[m].imgs = <<>>
      BY <2>3, <2>4 DEF Hears, Range
    <2>6. \A n \in Monitors : n # m => work'[n] = work[n]
      BY <1>2, <2>4 DEF Start
    <2>7. ASSUME NEW n \in Monitors, n # m PROVE Hears(n)' /\ Begins(n)' /\ Sees(n)'
      <3>1. Untouched(n)
        BY <1>2, <1>6, <2>6, <2>7 DEF Untouched, SameNews, Notifying
      <3> QED
        BY <1>9, <2>1, <3>1, UntouchedView DEF ViewInv
    <2>8. \A y : Right(y)' <=> Right(y)
      BY <1>2 DEF Right
    <2>9. \A k \in DOMAIN q : Right(q[k])
      BY <1>4, <2>3 DEF Hears
    <2>10. Right(x)
      <3>1. 1 \in DOMAIN q
        BY <1>5
      <3> QED
        BY <1>5, <2>9, <3>1
    <2>11. DOMAIN q = 1..Len(q) /\ DOMAIN Tail(q) = 1..(Len(q) - 1)
      BY <1>5
    <2>12. \A i : Expects(m, i)' <=> Expects(m, i)
      <3>1. \A i : Due(i)' <=> Due(i)
        BY <1>2 DEF Due
      <3>2. \A i : Posted(m, i)' <=> Posted(m, i)
        BY <1>2 DEF Posted
      <3>3. ASSUME NEW i PROVE InPort(m, i) <=> i \in Range(x.imgs) \/ InPort(m, i)'
        <4>1. ASSUME InPort(m, i) PROVE i \in Range(x.imgs) \/ InPort(m, i)'
          <5>1. PICK k \in DOMAIN q : i \in Range(q[k].imgs)
            BY <1>4, <4>1 DEF InPort
          <5>2. CASE k = 1
            BY <1>5, <5>1, <5>2
          <5>3. CASE k # 1
            <6>1. k - 1 \in DOMAIN Tail(q) /\ Tail(q)[k - 1] = q[k]
              BY <1>5, <2>11, <5>3
            <6> QED
              BY <1>6, <5>1, <6>1 DEF InPort
          <5> QED
            BY <5>2, <5>3
        <4>2. ASSUME i \in Range(x.imgs) PROVE InPort(m, i)
          BY <1>4, <1>5, <2>11, <4>2 DEF InPort
        <4>3. ASSUME InPort(m, i)' PROVE InPort(m, i)
          <5>1. PICK k \in DOMAIN Tail(q) : i \in Range(Tail(q)[k].imgs)
            BY <1>6, <4>3 DEF InPort
          <5>2. k + 1 \in DOMAIN q /\ Tail(q)[k] = q[k + 1]
            BY <1>5, <2>11
          <5> QED
            BY <1>4, <5>1, <5>2 DEF InPort
        <4> QED
          BY <4>1, <4>2, <4>3
      <3>4. \A i : i \notin Range(got[m].imgs)
        BY <2>5 DEF Range
      <3> QED
        BY <1>6, <3>1, <3>2, <3>3, <3>4 DEF Expects
    <2>13. \A i : Open(m, i)' <=> Open(m, i)
      BY <1>2, <2>12 DEF Open
    <2>14. Keeps(m) /\ ArrayKeeps(m)
      BY <1>2, <2>13, ShowsSame DEF Keeps, ArrayKeeps
    <2>15. Sees(m)'
      BY <1>2, <2>3, <2>14, SeesSame
    <2>16. Begins(m)'
      BY <1>2, <2>3, BeginsSame DEF CallOf
    <2>17. (got[m].imgs # <<>> => "notify" \in Range(work[m]["queue"]))'
      <3> SUFFICES ASSUME x.imgs # <<>> PROVE "notify" \in Range(work'[m]["queue"])
        BY <1>6
      <3>1. x.imgs \in Seq(Images)
        BY <1>5 DEF Messages
      <3>2. x.imgs[1] \in Range(x.imgs)
        BY <3>1 DEF Range
      <3>3. x.kind \in {"load", "unload"}
        BY <2>10, <3>2 DEF Right
      <3>4. Handling(x.kind) = <<"notify", "reply">>
        BY <3>3 DEF Handling
      <3>5. work'[m]["queue"] = <<"notify", "reply">> \o <<>>
        BY <1>2, <2>4, <3>4 DEF Start, Workers
      <3>6. work'[m]["queue"] = <<"notify", "reply">>
        BY <3>5
      <3> QED
        BY <3>6 DEF Range
    <2>18. (\A k \in DOMAIN inbox[m] : Right(inbox[m][k]))'
      <3>1. ASSUME NEW k \in DOMAIN Tail(q) PROVE Right(Tail(q)[k])
        <4>1. k + 1 \in DOMAIN q /\ Tail(q)[k] = q[k + 1]
          BY <1>5, <2>11
        <4> QED
          BY <2>9, <4>1
      <3> QED
        BY <1>6, <2>8, <3>1
    <2>19. Right(got[m])'
      <3>1. Right(got'[m])
        <4>1. CASE x.imgs = <<>>
          <5>1. \A i : i \notin Range(got'[m].imgs)
            BY <1>6, <4>1 DEF Range
          <5> QED
            BY <5>1 DEF Right
        <4>2. CASE x.imgs # <<>>
          <5>1. got'[m] = x
            BY <1>6, <4>2
          <5> QED
            BY <2>10, <5>1
        <4> QED
          BY <4>1, <4>2
      <3> QED
        BY <2>8, <3>1
    <2>20. Hears(m)'
      BY <1>2, <2>3, <2>12, <2>17, <2>18, <2>19 DEF Hears
    <2>21. \A n \in Monitors : Hears(n)' /\ Begins(n)' /\ Sees(n)'
      BY <2>7, <2>15, <2>16, <2>20
    <2> QED
      BY <1>7, <2>2, <2>21 DEF ViewInv
  <1> QED
    BY <1>8, <1>9

LEMMA CallNotifyView ==
    ASSUME TargetInv, MonitorInv, ViewInv, NEW m \in Monitors, CallNotify(m)
    PROVE  ViewInv'
  <1> USE DEF targetVars, memory, sendVars, objectVars
  <1>1. /\ UNCHANGED <<loaded, infos, arrays, suspended, pc, change, msgs, names, pending>>
        /\ UNCHANGED <<alive, snap, port, registered, call, inbox>>
        /\ Doing(m, "queue") = "notify"
    BY DEF CallNotify
  <1>2. PICK g, s : g = got[m] /\ s = g.imgs
    OBVIOUS
  <1>3. ViewTypes /\ s \in Seq(Images) /\ g.kind \in {None, "load", "unload", "no_senders"} /\ g.time \in Nat
        /\ g \in [kind : {None, "load", "unload", "no_senders"}, imgs : Seq(Images), time : Nat]
    BY <1>2 DEF ViewInv, ViewTypes
  <1>4. \/ s = <<>> /\ got' = [got EXCEPT ![m] = NoMessage] /\ Do(m, "queue", <<>>) /\ seen' = seen
        \/ /\ s # <<>> /\ seen' = [seen EXCEPT ![m][Head(s)] = g.kind]
           /\ got' = [got EXCEPT ![m].imgs = Tail(s)] /\ Start(m, "queue", <<"block">>)
    BY <1>2 DEF CallNotify
  <1>5. s # <<>> => /\ Range(s) = {Head(s)} \cup Range(Tail(s)) /\ Head(s) \in Images /\ Tail(s) \in Seq(Images)
    BY <1>3, RangeHeadTail
  <1>6. /\ \A n \in Monitors : n # m => got'[n] = got[n] /\ seen'[n] = seen[n]
        /\ s = <<>> => got'[m].imgs = <<>> /\ seen'[m] = seen[m]
        /\ s # <<>> => /\ got'[m].imgs = Tail(s) /\ got'[m].kind = g.kind
                       /\ seen'[m] = [seen[m] EXCEPT ![Head(s)] = g.kind]
    <2>1. /\ got \in [Monitors -> [kind : {None, "load", "unload", "no_senders"}, imgs : Seq(Images), time : Nat]]
          /\ seen \in [Monitors -> [Images -> {None, "load", "unload", "no_senders"}]]
      BY <1>3 DEF ViewTypes
    <2>2. CASE s = <<>>
      <3>1. got' = [got EXCEPT ![m] = NoMessage] /\ seen' = seen
        BY <1>4, <2>2
      <3> QED
        BY <2>1, <2>2, <3>1 DEF NoMessage
    <2>3. CASE s # <<>>
      <3>1. PICK h \in Images : h = Head(s)
        BY <1>5, <2>3
      <3>2. PICK t \in Seq(Images) : t = Tail(s)
        BY <1>5, <2>3
      <3>3. seen' = [seen EXCEPT ![m][h] = g.kind] /\ got' = [got EXCEPT ![m].imgs = t]
        BY <1>4, <2>3, <3>1, <3>2
      <3>4. got'[m] = [g EXCEPT !.imgs = t] /\ \A n \in Monitors : n # m => got'[n] = got[n] /\ seen'[n] = seen[n]
        BY <1>2, <2>1, <3>3
      <3>5. seen'[m] = [seen[m] EXCEPT ![h] = g.kind]
        BY <2>1, <3>3
      <3>6. got'[m].imgs = t /\ got'[m].kind = g.kind
        BY <1>3, <3>4
      <3> QED
        BY <2>3, <3>1, <3>2, <3>4, <3>5, <3>6
    <2> QED
      BY <2>2, <2>3
  <1>7. ViewTypes'
    <2>1. got' \in [Monitors -> [kind : {None, "load", "unload", "no_senders"}, imgs : Seq(Images), time : Nat]]
      <3>1. NoMessage \in [kind : {None, "load", "unload", "no_senders"}, imgs : Seq(Images), time : Nat]
        BY DEF NoMessage
      <3>2. s # <<>> => [g EXCEPT !.imgs = Tail(s)] \in [kind : {None, "load", "unload", "no_senders"}, imgs : Seq(Images), time : Nat]
        BY <1>3, <1>5
      <3>3. s # <<>> => got' = [got EXCEPT ![m] = [g EXCEPT !.imgs = Tail(s)]]
        BY <1>2, <1>3, <1>4 DEF ViewTypes
      <3> QED
        BY <1>3, <1>4, <3>1, <3>2, <3>3 DEF ViewTypes
    <2>2. seen' \in [Monitors -> [Images -> {None, "load", "unload", "no_senders"}]]
      <3>1. seen \in [Monitors -> [Images -> {None, "load", "unload", "no_senders"}]]
        BY <1>3 DEF ViewTypes
      <3>2. CASE s = <<>>
        <4>1. seen' = seen
          BY <1>4, <3>2
        <4> QED
          BY <3>1, <4>1
      <3>3. CASE s # <<>>
        <4>1. PICK h \in Images : h = Head(s)
          BY <1>5, <3>3
        <4>2. seen' = [seen EXCEPT ![m][h] = g.kind]
          BY <1>4, <3>3, <4>1
        <4> QED
          BY <1>3, <3>1, <4>1, <4>2
      <3> QED
        BY <3>2, <3>3
    <2> QED
      BY <1>1, <1>3, <2>1, <2>2 DEF ViewTypes
  <1>8. CASE ~alive
    BY <1>1, <1>7, <1>8 DEF ViewInv
  <1>9. CASE alive
    <2>1. SameChange
      BY <1>1 DEF SameChange
    <2>2. ProcessTells' /\ CallTypes' /\ ProcessTells
      BY <1>1, <1>9, <2>1, ProcessSame, CallTypesSame DEF ViewInv
    <2>3. Hears(m) /\ Begins(m) /\ Sees(m)
      BY <1>9 DEF ViewInv
    <2>4. work \in [Monitors -> [Workers -> Seq(Tasks \cup {"connect"})]]
      BY DEF MonitorInv, Working
    <2>5. \A n \in Monitors : n # m => work'[n] = work[n]
      BY <1>4, <2>4 DEF Start, Do
    <2>6. ASSUME NEW n \in Monitors, n # m PROVE Hears(n)' /\ Begins(n)' /\ Sees(n)'
      <3>1. Untouched(n)
        BY <1>1, <1>6, <2>5, <2>6 DEF Untouched, SameNews, Notifying
      <3> QED
        BY <1>9, <2>1, <3>1, UntouchedView DEF ViewInv
    <2>7. \A y : Right(y)' <=> Right(y)
      BY <1>1 DEF Right
    <2>8. Right(g)
      BY <1>2, <2>3 DEF Hears
    <2>9. \A i : (Due(i)' <=> Due(i)) /\ (Posted(m, i)' <=> Posted(m, i)) /\ (InPort(m, i)' <=> InPort(m, i))
      BY <1>1 DEF Due, Posted, InPort
    <2>10. port[m] # "none"
      <3>1. work[m]["queue"] # <<>>
        BY <1>1 DEF Doing
      <3> QED
        BY <3>1 DEF MonitorInv, Living, Lives
    <2>11. Begins(m)'
      BY <1>1, <2>10 DEF Begins
    <2>12. (port[m] = "live" => m \in registered)' /\ (\A k \in DOMAIN inbox[m] : Right(inbox[m][k]))'
      BY <1>1, <2>3, <2>7 DEF Hears
    <2>13. CASE s = <<>>
      <3>1. \A i : Expects(m, i)' <=> Expects(m, i)
        BY <1>2, <1>6, <2>9, <2>13 DEF Expects
      <3>2. Keeps(m) /\ ArrayKeeps(m)
        BY <1>1, <1>6, <2>13, <3>1, ShowsSame DEF Keeps, ArrayKeeps, Open
      <3>3. Sees(m)'
        BY <1>1, <2>3, <3>2, SeesSame
      <3>4. Right(got[m])' /\ (got[m].imgs # <<>> => "notify" \in Range(work[m]["queue"]))'
        BY <1>6, <2>13 DEF Right, Range
      <3>5. Hears(m)'
        BY <1>1, <1>6, <2>3, <2>12, <2>13, <3>1, <3>4 DEF Hears
      <3> QED
        BY <1>7, <2>2, <2>6, <2>11, <3>3, <3>5 DEF ViewInv
    <2>14. CASE s # <<>>
      <3>1. PICK h \in Images : h = Head(s)
        BY <1>5, <2>14
      <3>2. h \in Range(change.imgs) /\ g.kind = (IF change.unload THEN "unload" ELSE "load")
        BY <1>2, <1>5, <2>8, <2>14, <3>1 DEF Right
      <3>3. g.kind # None /\ (g.kind = "load" <=> h \in Range(loaded))
        <4>1. CASE change.unload
          BY <3>2, <4>1 DEF TargetInv, InMemory, None
        <4>2. CASE ~change.unload
          BY <2>2, <3>2, <4>2 DEF ProcessTells, None
        <4> QED
          BY <4>1, <4>2
      <3>4. /\ \A i : i # h => (Expects(m, i)' <=> Expects(m, i))
            /\ \A i : Expects(m, i)' => Expects(m, i)
        BY <1>2, <1>5, <1>6, <2>9, <2>14, <3>1 DEF Expects
      <3>5. seen'[m][h] = g.kind /\ \A i \in Images : i # h => seen'[m][i] = seen[m][i]
        BY <1>3, <1>6, <2>14, <3>1 DEF ViewTypes
      <3>6. \A i \in Images : Open(m, i)' => Open(m, i)
        BY <3>3, <3>4, <3>5 DEF Open
      <3>7. Keeps(m) /\ ArrayKeeps(m)
        BY <1>1, <3>6, ShowsSame DEF Keeps, ArrayKeeps
      <3>8. Sees(m)'
        BY <1>1, <2>3, <3>7, SeesSame
      <3>9. Right(got[m])'
        <4>1. Right(got'[m])
          BY <1>2, <1>5, <1>6, <2>8, <2>14 DEF Right
        <4> QED
          BY <2>7, <4>1
      <3>10. (got[m].imgs # <<>> => "notify" \in Range(work[m]["queue"]))'
        <4>1. <<"block">> \in Seq(Tasks \cup {"connect"}) /\ "queue" \in Workers
          BY DEF Tasks, Workers
        <4>2. Start(m, "queue", <<"block">>)
          BY <1>4, <2>14
        <4>3. Notifying(m) => Notifying(m)'
          BY <4>1, <4>2, StillNotifying DEF MonitorInv
        <4>4. Notifying(m)
          BY <1>2, <2>3, <2>14 DEF Hears, Notifying
        <4> QED
          BY <4>3, <4>4 DEF Notifying
      <3>11. (port[m] = "live" =>
               \A i \in Images : (seen[m][i] # None /\ ~Expects(m, i)) =>
                                    (seen[m][i] = "load" <=> i \in Range(loaded)))'
        <4> SUFFICES ASSUME port[m] = "live", NEW i \in Images, seen'[m][i] # None, ~Expects(m, i)'
                     PROVE  seen'[m][i] = "load" <=> i \in Range(loaded)
          BY <1>1
        <4>1. CASE i = h
          BY <3>3, <3>5, <4>1
        <4>2. CASE i # h
          BY <2>3, <3>4, <3>5, <4>2 DEF Hears
        <4> QED
          BY <4>1, <4>2
      <3>12. Hears(m)'
        BY <2>12, <3>9, <3>10, <3>11 DEF Hears
      <3> QED
        BY <1>7, <2>2, <2>6, <2>11, <3>8, <3>12 DEF ViewInv
    <2> QED
      BY <2>13, <2>14
  <1> QED
    BY <1>8, <1>9

\* The port of a monitor goes, and with it what was under way to it.
LEMMA PortGoneView ==
    ASSUME ViewInv, alive, alive', NEW m \in Monitors, SameChange, ViewTypes', CallTypes',
           port'[m] # "live", inbox'[m] = <<>>, got'[m].imgs = <<>>, Begins(m)',
           \A n \in Monitors : n # m => Untouched(n)
    PROVE  ViewInv'
  <1>1. ProcessTells'
    BY ProcessSame DEF ViewInv
  <1>2. ASSUME NEW n \in Monitors, n # m PROVE Hears(n)' /\ Begins(n)' /\ Sees(n)'
    BY <1>2, UntouchedView DEF ViewInv
  <1>3. Right(got[m])'
    <2>1. \A i : i \notin Range(got'[m].imgs)
      BY DEF Range
    <2> QED
      BY <2>1 DEF Right
  <1>4. Hears(m)'
    BY <1>3 DEF Hears
  <1>5. Sees(m)'
    BY DEF Sees
  <1>6. \A n \in Monitors : Hears(n)' /\ Begins(n)' /\ Sees(n)'
    BY <1>2, <1>4, <1>5
  <1> QED
    BY <1>1, <1>6 DEF ViewInv

LEMMA TeardownView ==
    ASSUME MonitorInv, ViewInv, NEW m \in Monitors, Teardown(m)
    PROVE  ViewInv'
  <1> USE DEF memory, sendVars
  <1>1. /\ UNCHANGED <<loaded, infos, arrays, suspended, change, msgs, names, pending>>
        /\ UNCHANGED <<alive, got, seen, snap, call, work>>
        /\ pc' = pc \/ (pc = "wait" /\ pc' = "send")
        /\ registered' = registered \ {m} /\ port' = [port EXCEPT ![m] = "dead"]
        /\ inbox' = [inbox EXCEPT ![m] = <<>>] /\ Doing(m, "queue") = "idle"
    BY DEF Teardown, PortGoes
  <1>2. ViewTypes'
    BY <1>1 DEF ViewInv, ViewTypes
  <1>3. CASE ~alive
    BY <1>1, <1>2, <1>3 DEF ViewInv
  <1>4. CASE alive
    <2>1. SameChange
      BY <1>1 DEF SameChange
    <2>2. CallTypes'
      BY <1>1, <1>4, CallTypesSame DEF ViewInv
    <2>3. port \in [Monitors -> {"none", "live", "dead"}] /\ inbox \in [Monitors -> Seq(Messages)]
      BY DEF MonitorInv, MonitorTypes
    <2>4. port'[m] = "dead" /\ inbox'[m] = <<>> /\ \A n \in Monitors : n # m => port'[n] = port[n] /\ inbox'[n] = inbox[n]
      BY <1>1, <2>3
    <2>5. work[m]["queue"] = <<>>
      BY <1>1, IdleQueue DEF MonitorInv, Working
    <2>6. got'[m].imgs = <<>>
      <3>1. Hears(m)
        BY <1>4 DEF ViewInv
      <3>2. "notify" \notin Range(work[m]["queue"])
        BY <2>5 DEF Range
      <3> QED
        BY <1>1, <3>1, <3>2 DEF Hears
    <2>7. Begins(m)'
      BY <2>4 DEF Begins
    <2>8. ASSUME NEW n \in Monitors, n # m PROVE Untouched(n)
      BY <1>1, <2>4, <2>8 DEF Untouched, SameNews, Notifying
    <2> QED
      BY <1>1, <1>2, <1>4, <2>1, <2>2, <2>4, <2>6, <2>7, <2>8, PortGoneView
  <1> QED
    BY <1>3, <1>4

LEMMA CrashView ==
    ASSUME MonitorInv, ViewInv, NEW m \in Monitors, Crash(m)
    PROVE  ViewInv'
  <1> USE DEF memory, sendVars
  <1>1. /\ UNCHANGED <<loaded, infos, arrays, suspended, change, msgs, names, pending, alive>>
        /\ pc' = pc \/ (pc = "wait" /\ pc' = "send")
        /\ \/ /\ port[m] = "live" /\ registered' = registered \ {m} /\ port' = [port EXCEPT ![m] = "dead"]
              /\ inbox' = [inbox EXCEPT ![m] = <<>>]
           \/ port[m] # "live" /\ UNCHANGED <<registered, port, inbox>>
    BY DEF Crash, PortGoes
  <1>2. /\ work' = [work EXCEPT ![m] = [w \in Workers |-> <<>>]]
        /\ got' = [got EXCEPT ![m] = NoMessage]
        /\ call' = IF call.at # "none" /\ call.by[1] = m THEN NoCall ELSE call
        /\ snap' = [snap EXCEPT ![m] = NoResult]
        /\ seen' = [seen EXCEPT ![m] = [i \in Images |-> None]]
    BY DEF Crash
  <1>3. /\ got \in [Monitors -> [kind : {None, "load", "unload", "no_senders"}, imgs : Seq(Images), time : Nat]]
        /\ seen \in [Monitors -> [Images -> {None, "load", "unload", "no_senders"}]]
        /\ DOMAIN snap = Monitors
    BY DEF ViewInv, ViewTypes
  <1>4. /\ got'[m] = NoMessage /\ \A n \in Monitors : n # m => got'[n] = got[n]
        /\ seen'[m] = [i \in Images |-> None] /\ \A n \in Monitors : n # m => seen'[n] = seen[n]
        /\ snap'[m] = NoResult /\ \A n \in Monitors : n # m => snap'[n] = snap[n]
    BY <1>2, <1>3
  <1>5. ViewTypes'
    <2>1. NoMessage \in [kind : {None, "load", "unload", "no_senders"}, imgs : Seq(Images), time : Nat]
      BY DEF NoMessage
    <2>2. got' \in [Monitors -> [kind : {None, "load", "unload", "no_senders"}, imgs : Seq(Images), time : Nat]]
      BY <1>2, <1>3, <2>1
    <2>3. seen' \in [Monitors -> [Images -> {None, "load", "unload", "no_senders"}]]
      BY <1>2, <1>3
    <2> QED
      BY <1>2, <1>3, <2>2, <2>3 DEF ViewTypes
  <1>6. CASE ~alive
    BY <1>1, <1>5, <1>6 DEF ViewInv
  <1>7. CASE alive
    <2>1. SameChange
      BY <1>1 DEF SameChange
    <2>2. CallTypes' /\ ~CallOf(m)' /\ \A n \in Monitors : call' = call \/ ~CallOf(n)'
      <3>1. CASE call.at # "none" /\ call.by[1] = m
        <4>1. call' = NoCall
          BY <1>2, <3>1
        <4>2. call'.at = "none"
          BY <4>1 DEF NoCall
        <4> QED
          BY <4>2 DEF CallTypes, CallOf
      <3>2. CASE ~(call.at # "none" /\ call.by[1] = m)
        <4>1. call' = call
          BY <1>2, <3>2
        <4> QED
          BY <1>1, <1>7, <3>2, <4>1, CallTypesSame DEF ViewInv, CallOf
      <3> QED
        BY <3>1, <3>2
    <2>3. port \in [Monitors -> {"none", "live", "dead"}] /\ inbox \in [Monitors -> Seq(Messages)]
      BY DEF MonitorInv, MonitorTypes
    <2>4. port[m] # "live" => inbox[m] = <<>>
      BY DEF MonitorInv, Living, Lives
    <2>5. /\ port'[m] # "live" /\ inbox'[m] = <<>>
          /\ \A n \in Monitors : n # m => port'[n] = port[n] /\ inbox'[n] = inbox[n] /\ (n \in registered => n \in registered')
      BY <1>1, <2>3, <2>4
    <2>6. got'[m].imgs = <<>>
      BY <1>4 DEF NoMessage
    <2>7. Begins(m)'
      BY <1>4, <2>2 DEF Begins
    <2>8. \A n \in Monitors : n # m => work'[n] = work[n]
      BY <1>2 DEF MonitorInv, Working
    <2>9. ASSUME NEW n \in Monitors, n # m PROVE Untouched(n)
      BY <1>4, <2>2, <2>5, <2>8, <2>9 DEF Untouched, SameNews, Notifying
    <2> QED
      BY <1>1, <1>5, <1>7, <2>1, <2>2, <2>5, <2>6, <2>7, <2>9, PortGoneView
  <1> QED
    BY <1>6, <1>7

-----------------------------------------------------------------------------
(* Every view is exact *)

LEMMA ViewInit == Init => ViewInv
  <1> SUFFICES ASSUME Init PROVE ViewInv
    OBVIOUS
  <1>1. /\ got = [m \in Monitors |-> NoMessage] /\ seen = [m \in Monitors |-> [i \in Images |-> None]]
        /\ snap = [m \in Monitors |-> NoResult] /\ inbox = [m \in Monitors |-> <<>>]
        /\ port = [m \in Monitors |-> "none"] /\ call = NoCall
    BY DEF Init
  <1>2. /\ pc = "launch" /\ change.unload = FALSE /\ change.imgs = <<>> /\ infos.array = 0
    BY DEF Init, TargetInit, NoChange, NoInfos
  <1>3. ViewTypes
    BY <1>1 DEF ViewTypes, NoMessage
  <1>4. ProcessTells
    <2>1. Range(change.imgs) = {}
      BY <1>2 DEF Range
    <2> QED
      BY <1>2, <2>1 DEF ProcessTells
  <1>5. call.at = "none"
    BY <1>1 DEF NoCall
  <1>6. CallTypes
    BY <1>5 DEF CallTypes
  <1>7. ASSUME NEW m \in Monitors PROVE Hears(m) /\ Begins(m) /\ Sees(m)
    <2>1. /\ port[m] = "none" /\ inbox[m] = <<>> /\ got[m].imgs = <<>> /\ snap[m] = NoResult
          /\ \A i \in Images : seen[m][i] = None
      BY <1>1 DEF NoMessage
    <2>2. Right(got[m])
      <3>1. \A i : i \notin Range(got[m].imgs)
        BY <2>1 DEF Range
      <3> QED
        BY <3>1 DEF Right
    <2>3. Hears(m)
      BY <2>1, <2>2 DEF Hears
    <2> QED
      BY <1>5, <2>1, <2>3 DEF Begins, Sees, CallOf
  <1> QED
    BY <1>3, <1>4, <1>6, <1>7 DEF ViewInv

LEMMA ViewStep ==
    ASSUME TargetInv, MonitorInv, Calling, ViewInv, [Next]_vars
    PROVE  ViewInv'
  <1>1. CASE Target /\ alive /\ UNCHANGED <<alive, call, sendVars, mainVars, monitorVars>>
    BY <1>1, TargetView
  <1>2. CASE NotifyMonitors \/ Split \/ NextMessage \/ NotifyMain \/ MainNext \/ Exit
    BY <1>2, NotifyView, SplitView, NextMessageView, MainView, ExitView
  <1>3. CASE ReadOn
    BY <1>3, ReadOnView
  <1>4. "thread" \in Workers /\ "queue" \in Workers
    BY DEF Workers
  <1>5. ASSUME NEW m \in Monitors, Send(m) \/ SendMain(m) \/ Register(m) \/ Crash(m)
        PROVE  ViewInv'
    BY <1>5, SendView, MainView, RegisterView, CrashView
  <1>6. ASSUME NEW m \in Monitors, NEW w \in Workers, CallRuns(m, w)
        PROVE  ViewInv'
    BY <1>6, CreatedView, OwnStepsView DEF CallRuns, ExitLater, DeleteLater
  <1>7. ASSUME NEW m \in Monitors, ThreadRuns(m)
        PROVE  ViewInv'
    BY <1>4, <1>6, <1>7, OwnStepsView DEF ThreadRuns
  <1>8. ASSUME NEW m \in Monitors, QueueRuns(m)
        PROVE  ViewInv'
    <2>1. CASE HandleEvent(m) \/ CallNotify(m) \/ Teardown(m)
      BY <2>1, HandleEventView, CallNotifyView, TeardownView
    <2>2. CASE HandleMain(m) \/ BlockReturns(m) \/ Reply(m) \/ ReplyMain(m) \/ CallExit(m) \/ Delete(m)
      BY <1>4, <2>2, OwnStepsView
    <2>3. CASE CallRuns(m, "queue")
      BY <1>4, <1>6, <2>3
    <2> QED
      BY <1>8, <2>1, <2>2, <2>3 DEF QueueRuns
  <1>9. ASSUME NEW m \in Monitors, NEW w \in Workers,
               Retain(m, w) \/ Release(m, w) \/ \E stamp \in 0..Len(lists) : Inspect(m, w, stamp)
        PROVE  ViewInv'
    BY <1>9, OwnStepsView, InspectView
  <1>10. CASE UNCHANGED vars
    <2>1. SameChange /\ UNCHANGED <<alive, inbox, got, seen, snap, port, registered, call, work>>
      BY <1>10 DEF vars, targetVars, memory, sendVars, monitorVars, SameChange
    <2>2. \A n \in Monitors : Notifying(n) => Notifying(n)'
      BY <2>1 DEF Notifying
    <2> QED
      BY <2>1, <2>2, OwnView
  <1> QED
    BY <1>1, <1>2, <1>3, <1>5, <1>7, <1>8, <1>9, <1>10 DEF Next

LEMMA ViewFollows ==
    ASSUME TargetInv, MonitorInv, ViewInv
    PROVE  ViewExact
  <1> SUFFICES ASSUME NEW m \in Monitors, alive, pc = "idle", connected[m], snap[m] # NoResult,
                      ~snap[m].stale, Len(snap[m].imgs) < MaxCount
               PROVE  {i \in Images : seen[m][i] = "load" \/ (seen[m][i] = None /\ i \in Range(snap[m].imgs))}
                         = Range(loaded)
    BY DEF ViewExact
  <1>1. port[m] = "live"
    BY DEF MonitorInv, Living, Lives
  <1>2. Hears(m) /\ Sees(m)
    BY DEF ViewInv
  <1>3. \A i : ~Expects(m, i)
    BY <1>2, Quiet DEF Expects, Due, Posted
  <1>4. ASSUME NEW i \in Images
        PROVE  (seen[m][i] = "load" \/ (seen[m][i] = None /\ i \in Range(snap[m].imgs))) <=> i \in Range(loaded)
    <2>1. CASE seen[m][i] = None
      <3>1. Says(snap[m], i) /\ Whole(snap[m])
        BY <1>1, <1>2, <1>3, <2>1 DEF Sees, Open, Whole
      <3> QED
        BY <2>1, <3>1 DEF Says, None
    <2>2. CASE seen[m][i] # None
      BY <1>1, <1>2, <1>3, <2>2 DEF Hears
    <2> QED
      BY <2>1, <2>2
  <1>5. Range(loaded) \subseteq Images
    BY RangeOfSeq DEF TargetInv, TargetTypes
  <1> QED
    BY <1>4, <1>5

\* A monitor that registers first and reads the list then knows at rest exactly what
\* is loaded, for every order in which the process changes its list, publishes it and
\* tells the monitors, and every moment at which the monitor registers, reads and is
\* told, with any number of monitors that come, go and die meanwhile.
THEOREM ViewIsExact == Spec => []ViewExact
  <1>1. Init => ViewInv
    BY ViewInit
  <1>2. (TargetInv /\ MonitorInv) /\ (Calling /\ Reading) /\ ViewInv /\ [Next]_vars => ViewInv'
    BY ViewStep
  <1>3. (TargetInv /\ MonitorInv) /\ ViewInv => ViewExact
    BY ViewFollows
  <1> QED
    BY <1>1, <1>2, <1>3, MonitorInvHolds, CallingHolds, PTL DEF Spec

=============================================================================
