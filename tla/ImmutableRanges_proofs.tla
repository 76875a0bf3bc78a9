------------------------ MODULE ImmutableRanges_proofs ------------------------
(****************************************************************************)
(* Proofs about ImmutableRanges, for any images, segments, bucket sizes and *)
(* word width.                                                              *)
(*                                                                          *)
(* The argument is the one the comment on struct ImmutableRanges makes:     *)
(* entries are only ever appended, and a slot is final once its start is    *)
(* set; what a reader has seen of it is therefore still there when it reads *)
(* the rest.                                                                *)
(****************************************************************************)
EXTENDS ImmutableRanges, SequenceTheorems, TLAPS

BucketSet == [1..FirstSize -> Slot] \cup [1..NewSize -> Slot]

\* What may be registered: it is of an image that stays.
Known == UNION {ReadOnly[i] : i \in loaded \cap NeverUnload}

\* Every slot in use holds a range of an image that stays.
SlotsOK ==
    \A b \in 1..Len(buckets) : \A k \in DOMAIN buckets[b] :
        buckets[b][k].start # 0 => buckets[b][k] \in Known

\* The writer registers only such ranges, and sets `start' last.
WriterOK ==
    /\ adding \subseteq Known
    /\ wpc = "start" => /\ cur \in Known
                        /\ buckets[slot[1]][slot[2]] = [start |-> 0, end |-> cur.end]

\* The comparison of immutableMemory(), without the word's width.
Within(q, s) == s.start <= q.addr /\ q.addr + q.len < s.end

\* A reader that has compared `start' may go on to compare `end'; `known' holds
\* ranges that contain what was asked.
ReadersOK ==
    \A r \in Readers : /\ rpc[r] = "end" => SlotOf(r).start <= query[r].addr
                       /\ \A s \in known[r] : Contains(s, query[r])

\* TypeOK in two parts.
WriterTypes ==
    /\ loaded \subseteq Images
    /\ lowest \in 0..(W - 1)
    /\ highest \in 0..(W - 1)
    /\ buckets \in Seq(BucketSet)
    /\ wpc \in {"idle", "low", "high", "scan", "widen", "add", "start"}
    /\ scan \subseteq Images
    /\ adding \subseteq AddrRange
    /\ wpc = "widen" => cur \in Images
    /\ wpc = "start" => cur \in AddrRange /\ slot \in Slots
    /\ published \subseteq AddrRange

ReaderTypes ==
    /\ rpc \in [Readers -> {"idle", "low", "high", "used", "start", "end", "next"}]
    /\ query \in [Readers -> Queries]
    /\ pos \in [Readers -> (1..Len(buckets)) \X (Nat \ {0})]
    /\ ans \in [Readers -> {"none", "yes", "no"}]
    /\ known \in [Readers -> SUBSET AddrRange]
    /\ calm \in [Readers -> BOOLEAN]
    /\ \A r \in Readers : rpc[r] \in {"start", "end"} =>
           pos[r][2] \in DOMAIN buckets[pos[r][1]] /\ SlotOf(r).start # 0

IInv == WriterTypes /\ ReaderTypes /\ SlotsOK /\ WriterOK /\ ReadersOK /\ YesIsImmutable

-----------------------------------------------------------------------------
(* The list of buckets. *)

\* The slot at place s becomes x ...
StoreAt(s, x) == buckets' = [buckets EXCEPT ![s[1]] = [@ EXCEPT ![s[2]] = x]]

\* ... and nothing else changes.
Stored(s, x) ==
    /\ buckets' \in Seq(BucketSet)
    /\ Len(buckets') = Len(buckets)
    /\ \A b \in 1..Len(buckets) : DOMAIN buckets'[b] = DOMAIN buckets[b]
    /\ \A b \in 1..Len(buckets) : \A k \in DOMAIN buckets[b] :
           buckets'[b][k] = IF b = s[1] /\ k = s[2] THEN x ELSE buckets[b][k]

\* A store changes one slot.
LEMMA StoreFacts ==
    ASSUME buckets \in Seq(BucketSet), NEW s \in Slots, NEW x \in Slot, StoreAt(s, x)
    PROVE  Stored(s, x)
<1> DEFINE b == s[1]
           k == s[2]
           e == [buckets[b] EXCEPT ![k] = x]
<1>1. b \in 1..Len(buckets) /\ k \in DOMAIN buckets[b] /\ Len(buckets) \in Nat
  BY DEF Slots
<1>2. buckets[b] \in BucketSet
  BY <1>1
<1>3. e \in BucketSet /\ DOMAIN e = DOMAIN buckets[b]
  BY <1>1, <1>2 DEF BucketSet
<1>4. \A j \in DOMAIN buckets[b] : e[j] = IF j = k THEN x ELSE buckets[b][j]
  OBVIOUS
<1> HIDE DEF e
<1>5. /\ buckets' \in Seq(BucketSet)
      /\ Len(buckets') = Len(buckets)
      /\ \A c \in 1..Len(buckets) : buckets'[c] = IF c = b THEN e ELSE buckets[c]
  <2>1. buckets' = [buckets EXCEPT ![b] = e]
    BY DEF e, StoreAt
  <2> QED BY <1>1, <1>3, <2>1, ExceptSeq
<1> QED BY <1>1, <1>3, <1>4, <1>5 DEF Stored

\* A new bucket leaves the others as they were.
LEMMA LinkFacts ==
    ASSUME buckets \in Seq(BucketSet), NEW e \in BucketSet, buckets' = Append(buckets, e)
    PROVE  /\ buckets' \in Seq(BucketSet)
           /\ Len(buckets') = Len(buckets) + 1
           /\ \A b \in 1..Len(buckets) : buckets'[b] = buckets[b]
           /\ buckets'[Len(buckets) + 1] = e
           /\ Len(buckets) \in Nat
  OBVIOUS

-----------------------------------------------------------------------------
(* Steps of the writer. *)

\* Buckets are added and slots filled, but a slot in use is never changed.
Grows ==
    /\ buckets' \in Seq(BucketSet)
    /\ Len(buckets') >= Len(buckets)
    /\ \A b \in 1..Len(buckets) : DOMAIN buckets'[b] = DOMAIN buckets[b]
    /\ \A b \in 1..Len(buckets) : \A k \in DOMAIN buckets[b] :
           buckets[b][k].start # 0 => buckets'[b][k] = buckets[b][k]

\* Whatever the writer does, the readers' part is kept.
LEMMA ReadersKeep ==
    ASSUME IInv, Grows, loaded \cap NeverUnload \subseteq loaded',
           UNCHANGED <<rpc, query, pos, ans, known>>,
           calm' \in [Readers -> BOOLEAN]
    PROVE  ReaderTypes' /\ ReadersOK' /\ YesIsImmutable'
<1>1. Len(buckets) \in Nat /\ Len(buckets') \in Nat
  BY DEF IInv, WriterTypes, Grows
<1>2. \A r \in Readers : pos[r][1] \in 1..Len(buckets) /\ pos[r][2] \in Nat \ {0}
  BY DEF IInv, ReaderTypes
<1>3. \A r \in Readers : rpc[r] \in {"start", "end"} =>
          /\ pos[r][2] \in DOMAIN buckets'[pos[r][1]]
          /\ SlotOf(r)' = SlotOf(r)
  BY <1>2 DEF IInv, ReaderTypes, Grows, SlotOf
<1>4. pos' \in [Readers -> (1..Len(buckets')) \X (Nat \ {0})]
  BY <1>1 DEF IInv, ReaderTypes, Grows
<1>5. ReaderTypes'
  BY <1>3, <1>4 DEF IInv, ReaderTypes
<1>6. ReadersOK'
  BY <1>3 DEF IInv, ReadersOK
<1>7. YesIsImmutable'
  BY DEF IInv, YesIsImmutable
<1> QED BY <1>5, <1>6, <1>7

\* What the stores of addImmutableRange() do: `end' goes to the first slot with no
\* `start' ...
LEMMA StoreEndDoes ==
    ASSUME IInv, NEW x \in adding, StoreEnd(x)
    PROVE  \E s \in Slots :
              /\ slot' = s /\ buckets[s[1]][s[2]].start = 0
              /\ \A t \in EmptySlots : Before(s, t)
              /\ Stored(s, [start |-> 0, end |-> x.end])
<1> USE RangesAssumption
<1>1. buckets \in Seq(BucketSet) /\ Len(buckets) \in Nat
  BY DEF IInv, WriterTypes
<1>2. PICK s \in EmptySlots :
          /\ slot' = s /\ \A t \in EmptySlots : Before(s, t)
          /\ buckets' = [buckets EXCEPT ![s[1]][s[2]].end = x.end]
  BY DEF StoreEnd
<1>3. /\ s \in Slots /\ buckets[s[1]][s[2]].start = 0
      /\ s[1] \in 1..Len(buckets) /\ s[2] \in DOMAIN buckets[s[1]]
  BY DEF EmptySlots, Slots
<1> DEFINE v == [buckets[s[1]][s[2]] EXCEPT !.end = x.end]
<1>4. v \in Slot /\ v = [start |-> 0, end |-> x.end]
  <2>1. buckets[s[1]] \in BucketSet
    BY <1>1, <1>3
  <2>2. buckets[s[1]][s[2]] \in Slot
    BY <1>3, <2>1 DEF BucketSet
  <2>3. x.end \in 0..(W - 1)
    BY DEF AddrRange, IInv, WriterTypes
  <2>4. v = [start |-> buckets[s[1]][s[2]].start, end |-> x.end]
    BY <2>2 DEF Slot
  <2>5. v = [start |-> 0, end |-> x.end]
    BY <1>3, <2>4
  <2>6. 0 \in 0..(W - 1)
    BY RangesAssumption
  <2> HIDE DEF v
  <2> QED BY <2>3, <2>5, <2>6 DEF Slot
<1>5. StoreAt(s, v)
  BY <1>2 DEF StoreAt
<1> HIDE DEF v
<1>6. Stored(s, v)
  BY <1>1, <1>3, <1>4, <1>5, StoreFacts
<1> QED BY <1>2, <1>3, <1>4, <1>6

\* ... and the slot is then the range.
LEMMA StoreStartDoes ==
    ASSUME IInv, StoreStart
    PROVE  Stored(slot, cur)
<1> DEFINE v == [buckets[slot[1]][slot[2]] EXCEPT !.start = cur.start]
<1>1. /\ slot \in Slots /\ cur \in AddrRange /\ buckets \in Seq(BucketSet)
      /\ buckets[slot[1]][slot[2]] = [start |-> 0, end |-> cur.end]
  BY DEF StoreStart, IInv, WriterTypes, WriterOK
<1>2. v = cur /\ v \in Slot
  <2>1. cur = [start |-> cur.start, end |-> cur.end]
    BY <1>1 DEF AddrRange
  <2>2. v = [start |-> cur.start, end |-> cur.end]
    BY <1>1
  <2>3. cur.start \in 0..(W - 1) /\ cur.end \in 0..(W - 1)
    BY <1>1 DEF AddrRange
  <2> QED BY <2>1, <2>2, <2>3 DEF Slot
<1>3. StoreAt(slot, v)
  BY DEF StoreStart, StoreAt
<1> HIDE DEF v
<1> QED BY <1>1, <1>2, <1>3, StoreFacts

\* A new bucket holds the range in its first slot and nothing else.
LEMMA BucketHolds ==
    ASSUME NEW x \in AddrRange
    PROVE  /\ Bucket(x) \in BucketSet /\ DOMAIN Bucket(x) = 1..NewSize
           /\ Bucket(x)[1] = x
           /\ \A k \in 1..NewSize : Bucket(x)[k].start # 0 => k = 1
<1>1. x \in Slot
  BY RangesAssumption DEF AddrRange, Slot
<1>2. Empty \in Slot /\ Empty.start = 0
  BY RangesAssumption DEF Empty, Slot
<1>3. 1 \in 1..NewSize
  BY RangesAssumption
<1> QED BY <1>1, <1>2, <1>3 DEF Bucket, BucketSet

\* Every store of dlopen() and dlclose() keeps the invariant: one case per
\* action.
LEMMA WriterStep ==
    ASSUME IInv, Writer
    PROVE  IInv'
<1> USE RangesAssumption
<1>0. buckets \in Seq(BucketSet) /\ calm \in [Readers -> BOOLEAN] /\ Len(buckets) \in Nat
  BY DEF IInv, WriterTypes, ReaderTypes
\* Steps that leave the buckets alone.
<1>1. ASSUME buckets' = buckets, loaded \cap NeverUnload \subseteq loaded',
             UNCHANGED <<rpc, query, pos, ans, known>>, calm' \in [Readers -> BOOLEAN]
      PROVE  ReaderTypes' /\ SlotsOK' /\ ReadersOK' /\ YesIsImmutable'
  <2>1. Grows
    BY <1>0, <1>1 DEF Grows
  <2>2. SlotsOK'
    BY <1>1 DEF IInv, SlotsOK, Known
  <2> QED BY <1>1, <2>1, <2>2, ReadersKeep
<1>2. ASSUME NEW i \in Images, Load(i) PROVE IInv'
  <2>1. ToRegister(i) \subseteq AddrRange
    BY DEF ToRegister
  <2>2. WriterTypes'
    BY <1>2, <2>1 DEF Load, IInv, WriterTypes, Slots
  <2>3. WriterOK'
    BY <1>2 DEF Load, WriterOK, ToRegister, Known
  <2>4. calm' \in [Readers -> BOOLEAN]
    BY <1>2 DEF Load
  <2> QED BY <1>1, <1>2, <2>2, <2>3, <2>4 DEF Load, IInv
<1>3. ASSUME NEW i \in Images, Unload(i) PROVE IInv'
  <2>1. WriterTypes'
    BY <1>3 DEF Unload, IInv, WriterTypes, Slots
  <2>2. WriterOK'
    BY <1>3 DEF Unload, WriterOK
  <2>3. calm' \in [Readers -> BOOLEAN]
    BY <1>3 DEF Unload
  <2> QED BY <1>1, <1>3, <2>1, <2>2, <2>3 DEF Unload, IInv
<1>4. ASSUME UNCHANGED <<loaded, buckets, adding, published, readerVars>>,
             ResetLow \/ ResetHigh \/ WidenHigh \/ BoundsDone
                \/ \E i \in Images : WidenLow(i)
      PROVE  IInv'
  <2>1. WriterTypes'
    <3>1. CASE ResetLow
      BY <3>1 DEF ResetLow, IInv, WriterTypes, Slots
    <3>2. CASE ResetHigh
      BY <3>2 DEF ResetHigh, IInv, WriterTypes, Slots
    <3>3. CASE WidenHigh
      BY <3>3 DEF WidenHigh, IInv, WriterTypes, Slots
    <3>4. CASE BoundsDone
      BY <3>4 DEF BoundsDone, IInv, WriterTypes, Slots
    <3>5. ASSUME NEW i \in Images, WidenLow(i) PROVE WriterTypes'
      BY <3>5 DEF WidenLow, IInv, WriterTypes, Slots
    <3> QED BY <1>4, <3>1, <3>2, <3>3, <3>4, <3>5
  <2>2. WriterOK'
    <3>1. wpc' # "start"
      BY <1>4 DEF ResetLow, ResetHigh, WidenHigh, BoundsDone, WidenLow
    <3> QED BY <1>4, <3>1 DEF IInv, WriterOK, Known
  <2> QED BY <1>0, <1>1, <1>4, <2>1, <2>2 DEF IInv, readerVars
<1>5. ASSUME NEW x \in adding, StoreEnd(x) PROVE IInv'
  <2>1. PICK s \in Slots :
            /\ slot' = s /\ buckets[s[1]][s[2]].start = 0
            /\ Stored(s, [start |-> 0, end |-> x.end])
    BY <1>5, StoreEndDoes
  <2>2. s[1] \in 1..Len(buckets) /\ s[2] \in DOMAIN buckets[s[1]]
    BY DEF Slots
  <2> DEFINE v == [start |-> 0, end |-> x.end]
  <2>3. x \in AddrRange /\ x \in Known
    BY DEF IInv, WriterTypes, WriterOK
  <2>4. v.start = 0
    OBVIOUS
  <2>5. v = [start |-> 0, end |-> x.end]
    OBVIOUS
  <2> HIDE DEF v
  <2>6. /\ buckets' \in Seq(BucketSet)
        /\ Len(buckets') = Len(buckets)
        /\ \A b \in 1..Len(buckets) : DOMAIN buckets'[b] = DOMAIN buckets[b]
        /\ \A b \in 1..Len(buckets) : \A k \in DOMAIN buckets[b] :
               buckets'[b][k] = IF b = s[1] /\ k = s[2] THEN v ELSE buckets[b][k]
    BY <2>1, <2>5 DEF Stored
  <2>7. Grows
    BY <1>0, <2>1, <2>2, <2>6 DEF Grows
  <2>8. ReaderTypes' /\ ReadersOK' /\ YesIsImmutable'
    BY <1>0, <1>5, <2>7, ReadersKeep DEF StoreEnd, readerVars
  <2>9. SlotsOK'
    <3>1. Known' = Known
      BY <1>5 DEF StoreEnd, Known
    <3>2. ASSUME NEW b \in 1..Len(buckets), NEW k \in DOMAIN buckets[b],
                 buckets'[b][k].start # 0
          PROVE  buckets'[b][k] \in Known
      <4>1. ~(b = s[1] /\ k = s[2])
        BY <2>4, <2>6, <3>2
      <4>2. buckets'[b][k] = buckets[b][k]
        BY <2>6, <4>1
      <4> QED BY <3>2, <4>2 DEF IInv, SlotsOK
    <3> QED BY <2>6, <3>1, <3>2 DEF SlotsOK
  <2>10. Slots' = Slots
    BY <2>6 DEF Slots
  <2>11. WriterTypes'
    BY <1>5, <2>1, <2>2, <2>3, <2>6, <2>10 DEF StoreEnd, IInv, WriterTypes
  <2>12. WriterOK'
    <3>1. Known' = Known /\ adding' = adding /\ cur' = x
      BY <1>5 DEF StoreEnd, Known
    <3>2. buckets'[slot'[1]][slot'[2]] = [start |-> 0, end |-> cur'.end]
      <4>1. buckets'[s[1]][s[2]] = v
        BY <2>2, <2>6
      <4> QED BY <2>1, <2>5, <3>1, <4>1
    <3> QED BY <2>3, <3>1, <3>2 DEF IInv, WriterOK
  <2> QED BY <2>8, <2>9, <2>11, <2>12 DEF IInv
<1>6. CASE StoreStart
  <2> DEFINE s == slot
  <2>1. /\ s \in Slots /\ cur \in AddrRange /\ cur \in Known
        /\ buckets[s[1]][s[2]] = [start |-> 0, end |-> cur.end]
        /\ s[1] \in 1..Len(buckets) /\ s[2] \in DOMAIN buckets[s[1]]
    BY <1>6 DEF StoreStart, IInv, WriterTypes, WriterOK, Slots
  <2>4. /\ buckets' \in Seq(BucketSet)
        /\ Len(buckets') = Len(buckets)
        /\ \A b \in 1..Len(buckets) : DOMAIN buckets'[b] = DOMAIN buckets[b]
        /\ \A b \in 1..Len(buckets) : \A k \in DOMAIN buckets[b] :
               buckets'[b][k] = IF b = s[1] /\ k = s[2] THEN cur ELSE buckets[b][k]
    BY <1>6, StoreStartDoes DEF Stored
  <2>5. Grows
    <3>1. buckets[s[1]][s[2]].start = 0
      BY <2>1
    <3>2. ASSUME NEW b \in 1..Len(buckets), NEW k \in DOMAIN buckets[b],
                 buckets[b][k].start # 0
          PROVE  buckets'[b][k] = buckets[b][k]
      <4>1. ~(b = s[1] /\ k = s[2])
        BY <3>1, <3>2
      <4> QED BY <2>4, <4>1
    <3> QED BY <1>0, <2>4, <3>2 DEF Grows
  <2>6. ReaderTypes' /\ ReadersOK' /\ YesIsImmutable'
    BY <1>0, <1>6, <2>5, ReadersKeep DEF StoreStart, readerVars
  <2>7. Known' = Known
    BY <1>6 DEF StoreStart, Known
  <2>8. SlotsOK'
    <3> SUFFICES ASSUME NEW b \in 1..Len(buckets), NEW k \in DOMAIN buckets[b],
                        buckets'[b][k].start # 0
                 PROVE  buckets'[b][k] \in Known
      BY <2>4, <2>7 DEF SlotsOK
    <3>1. CASE b = s[1] /\ k = s[2]
      BY <2>1, <2>4, <3>1
    <3>2. CASE ~(b = s[1] /\ k = s[2])
      BY <2>4, <3>2 DEF IInv, SlotsOK
    <3> QED BY <3>1, <3>2
  <2>9. wpc' \in {"idle", "add"}
    BY <1>6 DEF StoreStart
  <2>10. WriterTypes'
    BY <1>6, <2>1, <2>4, <2>9 DEF StoreStart, IInv, WriterTypes
  <2>11. WriterOK'
    BY <1>6, <2>7, <2>9 DEF StoreStart, IInv, WriterOK
  <2> QED BY <2>6, <2>8, <2>10, <2>11 DEF IInv
<1>7. ASSUME NEW x \in adding, NewBucket(x) PROVE IInv'
  <2>1. x \in AddrRange /\ x \in Known
    BY DEF IInv, WriterTypes, WriterOK
  <2> DEFINE e == Bucket(x)
  <2>2. /\ e \in BucketSet
        /\ \A k \in DOMAIN e : e[k].start # 0 => e[k] = x
    BY <2>1, BucketHolds
  <2> HIDE DEF e
  <2>3. /\ buckets' \in Seq(BucketSet)
        /\ Len(buckets') = Len(buckets) + 1
        /\ \A b \in 1..Len(buckets) : buckets'[b] = buckets[b]
        /\ buckets'[Len(buckets) + 1] = e
    <3>1. buckets' = Append(buckets, e)
      BY <1>7 DEF NewBucket, e
    <3> QED BY <1>0, <2>2, <3>1, LinkFacts
  <2>4. Grows
    BY <1>0, <2>3 DEF Grows
  <2>5. ReaderTypes' /\ ReadersOK' /\ YesIsImmutable'
    BY <1>0, <1>7, <2>4, ReadersKeep DEF NewBucket, readerVars
  <2>6. Known' = Known
    BY <1>7 DEF NewBucket, Known
  <2>7. SlotsOK'
    <3> SUFFICES ASSUME NEW b \in 1..Len(buckets'), NEW k \in DOMAIN buckets'[b],
                        buckets'[b][k].start # 0
                 PROVE  buckets'[b][k] \in Known
      BY <2>6 DEF SlotsOK
    <3>1. CASE b \in 1..Len(buckets)
      BY <2>3, <3>1 DEF IInv, SlotsOK
    <3>2. CASE b = Len(buckets) + 1
      BY <2>1, <2>2, <2>3, <3>2
    <3> QED BY <1>0, <2>3, <3>1, <3>2
  <2>8. wpc' \in {"idle", "add"}
    BY <1>7 DEF NewBucket
  <2>9. WriterTypes'
    BY <1>7, <2>1, <2>3, <2>8 DEF NewBucket, IInv, WriterTypes
  <2>10. WriterOK'
    BY <1>7, <2>6, <2>8 DEF NewBucket, IInv, WriterOK
  <2> QED BY <2>5, <2>7, <2>9, <2>10 DEF IInv
<1> QED BY <1>2, <1>3, <1>4, <1>5, <1>6, <1>7
        DEF Writer, ResetLow, ResetHigh, WidenHigh, BoundsDone, WidenLow

-----------------------------------------------------------------------------
(* Steps of a reader. *)

\* Arithmetic on words is exact where it does not wrap.
LEMMA ModSmall ==
    ASSUME NEW n \in Nat, NEW m \in Nat \ {0}, n < m
    PROVE  n % m = n
  OBVIOUS

\* Every load of immutableMemory() keeps the invariant: one case per action.
LEMMA ReaderStep ==
    ASSUME NoWrap, IInv, NEW r \in Readers, Reader(r)
    PROVE  IInv'
<1> USE RangesAssumption
<1>0. UNCHANGED writerVars
  BY DEF Reader, Ask, ReadLow, ReadHigh, ReadUsed, ReadStart, ReadEnd, ReadNext
<1>1. WriterTypes' /\ SlotsOK' /\ WriterOK'
  BY <1>0 DEF IInv, writerVars, WriterTypes, SlotsOK, WriterOK, Known, Slots
<1>2. /\ buckets' = buckets /\ loaded' = loaded /\ Len(buckets) \in Nat
      /\ pos[r][1] \in 1..Len(buckets) /\ pos[r][2] \in Nat \ {0}
  BY <1>0 DEF writerVars, IInv, WriterTypes, ReaderTypes
<1>3. Len(buckets) >= 1
  BY <1>2
\* A step that goes on to `pc' at a place `p' in the buckets.
<1>4. ASSUME NEW pc \in {"high", "used", "start", "end", "next"},
             NEW p \in (1..Len(buckets)) \X (Nat \ {0}),
             Continue(r, pc, p), UNCHANGED <<query, known, calm>>,
             pc \in {"start", "end"} => /\ p[2] \in DOMAIN buckets[p[1]]
                                        /\ buckets[p[1]][p[2]].start # 0,
             pc = "end" => buckets[p[1]][p[2]].start <= query[r].addr
      PROVE  IInv'
  <2>1. ReaderTypes'
    BY <1>2, <1>4 DEF Continue, Goto, IInv, ReaderTypes, SlotOf
  <2>2. ReadersOK'
    BY <1>2, <1>4 DEF Continue, Goto, IInv, ReaderTypes, ReadersOK, SlotOf
  <2>3. YesIsImmutable'
    BY <1>2, <1>4 DEF Continue, IInv, YesIsImmutable
  <2> QED BY <1>1, <2>1, <2>2, <2>3 DEF IInv
\* A step that returns.
<1>5. ASSUME NEW a \in {"yes", "no"}, Return(r, a), UNCHANGED <<query, known, calm>>,
             a = "yes" => \E s \in Known : Contains(s, query[r])
      PROVE  IInv'
  <2>1. ReaderTypes'
    BY <1>2, <1>5 DEF Return, Goto, IInv, ReaderTypes, SlotOf
  <2>2. ReadersOK'
    BY <1>2, <1>5 DEF Return, Goto, IInv, ReaderTypes, ReadersOK, SlotOf
  <2>3. YesIsImmutable'
    BY <1>2, <1>5 DEF Return, IInv, ReaderTypes, YesIsImmutable, Known
  <2> QED BY <1>1, <2>1, <2>2, <2>3 DEF IInv
<1>6. ASSUME NEW q \in Queries, Ask(r, q) PROVE IInv'
  <2>0. {s \in published : Contains(s, q)} \in SUBSET AddrRange
    BY DEF IInv, WriterTypes
  <2>1. ReaderTypes'
    BY <1>2, <1>6, <2>0 DEF Ask, Goto, IInv, ReaderTypes, SlotOf
  <2>2. ReadersOK'
    BY <1>2, <1>6 DEF Ask, Goto, IInv, ReaderTypes, ReadersOK, SlotOf
  <2>3. YesIsImmutable'
    BY <1>2, <1>6 DEF Ask, IInv, ReaderTypes, YesIsImmutable
  <2> QED BY <1>1, <2>1, <2>2, <2>3 DEF IInv
<1>7. <<1, 1>> \in (1..Len(buckets)) \X (Nat \ {0})
  BY <1>2, <1>3
<1>8. /\ pos[r] \in (1..Len(buckets)) \X (Nat \ {0})
      /\ <<pos[r][1], pos[r][2] + 1>> \in (1..Len(buckets)) \X (Nat \ {0})
      /\ pos[r][1] < Len(buckets) =>
             <<pos[r][1] + 1, 1>> \in (1..Len(buckets)) \X (Nat \ {0})
  <2>1. pos[r] \in (1..Len(buckets)) \X (Nat \ {0})
    BY DEF IInv, ReaderTypes
  <2>2. pos[r][2] + 1 \in Nat \ {0}
    BY <1>2
  <2>3. pos[r][1] < Len(buckets) => pos[r][1] + 1 \in 1..Len(buckets)
    BY <1>2
  <2> QED BY <1>2, <2>1, <2>2, <2>3
<1>9. CASE ReadLow(r)
  BY <1>4, <1>5, <1>7, <1>9 DEF ReadLow
<1>10. CASE ReadHigh(r)
  BY <1>4, <1>5, <1>7, <1>10 DEF ReadHigh
<1>11. CASE ReadUsed(r)
  BY <1>4, <1>8, <1>11 DEF ReadUsed, SlotOf
<1>12. CASE ReadStart(r)
  <2>1. pos[r][2] \in DOMAIN buckets[pos[r][1]] /\ buckets[pos[r][1]][pos[r][2]].start # 0
    BY <1>12 DEF ReadStart, IInv, ReaderTypes, SlotOf
  <2> QED BY <1>4, <1>8, <1>12, <2>1 DEF ReadStart, NextSlot, SlotOf
<1>13. CASE ReadEnd(r)
  <2> DEFINE s == SlotOf(r)
  <2>1. s \in Known /\ s.start <= query[r].addr
    BY <1>2, <1>13 DEF ReadEnd, IInv, ReaderTypes, ReadersOK, SlotsOK, SlotOf
  <2>2. EndOf(query[r]) = query[r].addr + query[r].len
    <3>1. /\ query[r].addr \in Nat /\ query[r].len \in Nat
          /\ query[r].addr + query[r].len < W
      BY DEF IInv, ReaderTypes, NoWrap
    <3> DEFINE n == query[r].addr + query[r].len
    <3>2. n \in Nat /\ n < W
      BY <3>1
    <3>3. EndOf(query[r]) = n % W
      BY DEF EndOf
    <3> HIDE DEF n
    <3>4. n % W = n
      BY <3>2, ModSmall
    <3> QED BY <3>3, <3>4 DEF n
  <2>3. s.end > EndOf(query[r]) => Contains(s, query[r])
    <3>1. s.end \in Nat /\ query[r].addr + query[r].len \in Nat
      BY <2>1 DEF Known, AddrRange, IInv, ReaderTypes
    <3> QED BY <2>1, <2>2, <3>1 DEF Contains
  <2> QED BY <1>4, <1>5, <1>8, <1>13, <2>1, <2>3 DEF ReadEnd, NextSlot
<1>14. CASE ReadNext(r)
  BY <1>4, <1>5, <1>8, <1>14 DEF ReadNext
<1> QED BY <1>6, <1>9, <1>10, <1>11, <1>12, <1>13, <1>14 DEF Reader

-----------------------------------------------------------------------------
(* The theorems. *)

\* With nothing registered and nobody asking the invariant holds.
LEMMA IInvInit ==
    ASSUME Init
    PROVE  IInv
<1> USE RangesAssumption
<1> DEFINE e == [k \in 1..FirstSize |-> Empty]
<1>1. e \in BucketSet /\ \A k \in DOMAIN e : e[k].start = 0
  BY DEF BucketSet, Empty, Slot
<1> HIDE DEF e
<1>2. buckets = <<e>>
  BY DEF Init, e
<1>3. buckets \in Seq(BucketSet) /\ Len(buckets) = 1 /\ buckets[1] = e
  BY <1>1, <1>2
<1>4. WriterTypes
  BY <1>3 DEF Init, WriterTypes
<1>5. ReaderTypes
  BY <1>3 DEF Init, ReaderTypes
<1>6. SlotsOK
  <2>1. \A b \in 1..Len(buckets) : b = 1
    BY <1>3
  <2> QED BY <1>1, <1>3, <2>1 DEF SlotsOK
<1>7. WriterOK /\ ReadersOK /\ YesIsImmutable
  BY DEF Init, WriterOK, ReadersOK, YesIsImmutable
<1> QED BY <1>4, <1>5, <1>6, <1>7 DEF IInv

\* The inductive invariant holds in every behaviour.
LEMMA IInvHolds ==
    ASSUME NoWrap
    PROVE  Spec => []IInv
<1>1. IInv /\ [Next]_vars => IInv'
  <2> SUFFICES ASSUME IInv, [Next]_vars PROVE IInv'
    OBVIOUS
  <2>1. CASE UNCHANGED vars
    BY <2>1 DEF vars, writerVars, readerVars, IInv, WriterTypes, ReaderTypes, SlotsOK,
       WriterOK, ReadersOK, YesIsImmutable, Known, Slots, SlotOf
  <2> QED BY <2>1, WriterStep, ReaderStep DEF Next
<1> QED BY <1>1, IInvInit, PTL DEF Spec

\* A yes of immutableMemory(), which takes no lock, is right and stays right,
\* however its loads interleave with dlopen() and dlclose(), whatever segments
\* images have and however many buckets they fill, provided that the range
\* asked about does not wrap around the address space.
THEOREM YesIsRight ==
    ASSUME NoWrap
    PROVE  Spec => []YesIsImmutable
<1>1. Spec => []IInv
  BY IInvHolds
<1> QED BY <1>1, PTL DEF IInv

\* The types hold; in particular no reader leaves the list of buckets or
\* compares a slot that is not in use.
THEOREM TypeCorrect ==
    ASSUME NoWrap
    PROVE  Spec => []TypeOK
<1>1. Spec => []IInv
  BY IInvHolds
<1>2. IInv => TypeOK
  BY DEF IInv, WriterTypes, ReaderTypes, TypeOK, BucketSet
<1> QED BY <1>1, <1>2, PTL

-----------------------------------------------------------------------------
(* A published range is found. *)

\* A bucket is filled from its first slot on.
Packed ==
    \A b \in 1..Len(buckets) : \A k \in DOMAIN buckets[b] :
        buckets[b][k].start # 0 => \A j \in 1..k : buckets[b][j].start # 0

\* The slot that is about to be filled is the first one that is not.
SlotIsNext ==
    wpc = "start" => \A j \in 1..(slot[2] - 1) : buckets[slot[1]][j].start # 0

\* The bounds take in every image, but for those recomputeBounds() has yet to see.
Covered(i) == lowest <= Lo[i] /\ Hi[i] <= highest
BoundsOK ==
    /\ wpc \in {"idle", "add", "start"} => \A i \in loaded : Covered(i)
    /\ wpc \in {"scan", "widen"} => \A i \in loaded \ scan : Covered(i)
    /\ wpc = "widen" => lowest <= Lo[cur]

CalmOK == \A r \in Readers : calm[r] => wpc \in {"idle", "add", "start"}

PublishedOK ==
    /\ published \subseteq Known
    /\ \A s \in published : \E b \in 1..Len(buckets) : \E k \in DOMAIN buckets[b] :
           buckets[b][k] = s

\* A reader that asked for it has not passed the slot that holds the answer.
Ahead(r) ==
    \E b \in 1..Len(buckets) : \E k \in DOMAIN buckets[b] :
        /\ buckets[b][k].start # 0 /\ Within(query[r], buckets[b][k])
        /\ \/ pos[r][1] < b
           \/ pos[r][1] = b /\ pos[r][2] <= k /\ rpc[r] # "next"

WillFind(r) ==
    /\ rpc[r] = "idle" /\ CacheAnswer[query[r]] = "none" => ans[r] # "no"
    /\ rpc[r] \in {"low", "high"} => \E s \in published : Within(query[r], s)
    /\ rpc[r] \in {"used", "start", "end", "next"} => Ahead(r)

\* What was asked lies in a published range and ends before it does.
Hit(r) == \E s \in known[r] : Within(query[r], s)

Finding == \A r \in Readers : Hit(r) /\ calm[r] => WillFind(r)

FindInv == Packed /\ SlotIsNext /\ BoundsOK /\ CalmOK /\ PublishedOK /\ Finding

\* Slots that are filled and buckets that are added do not hide what a reader looks
\* for, and what is published stays.
LEMMA FindKept ==
    ASSUME IInv, FindInv, Grows, published \subseteq published',
           UNCHANGED <<rpc, query, pos, ans, known>>,
           \A r \in Readers : calm'[r] => calm[r]
    PROVE  /\ Finding'
           /\ \A s \in published : \E b \in 1..Len(buckets') : \E k \in DOMAIN buckets'[b] :
                  buckets'[b][k] = s
<1>0. Len(buckets) \in Nat /\ Len(buckets') \in Nat /\ Len(buckets) <= Len(buckets')
  BY DEF IInv, WriterTypes, Grows
<1>1. ASSUME NEW b \in 1..Len(buckets), NEW k \in DOMAIN buckets[b], buckets[b][k].start # 0
      PROVE  /\ b \in 1..Len(buckets') /\ k \in DOMAIN buckets'[b]
             /\ buckets'[b][k] = buckets[b][k]
  BY <1>0, <1>1 DEF Grows
<1>2. ASSUME NEW r \in Readers, Ahead(r) PROVE Ahead(r)'
  <2>1. PICK b \in 1..Len(buckets) : \E k \in DOMAIN buckets[b] :
            /\ buckets[b][k].start # 0 /\ Within(query[r], buckets[b][k])
            /\ \/ pos[r][1] < b
               \/ pos[r][1] = b /\ pos[r][2] <= k /\ rpc[r] # "next"
    BY <1>2 DEF Ahead
  <2>2. PICK k \in DOMAIN buckets[b] :
            /\ buckets[b][k].start # 0 /\ Within(query[r], buckets[b][k])
            /\ \/ pos[r][1] < b
               \/ pos[r][1] = b /\ pos[r][2] <= k /\ rpc[r] # "next"
    BY <2>1
  <2>3. /\ b \in 1..Len(buckets') /\ k \in DOMAIN buckets'[b]
        /\ buckets'[b][k] = buckets[b][k]
    BY <1>1, <2>2
  <2>4. /\ buckets'[b][k].start # 0 /\ Within(query'[r], buckets'[b][k])
        /\ \/ pos'[r][1] < b
           \/ pos'[r][1] = b /\ pos'[r][2] <= k /\ rpc'[r] # "next"
    BY <2>2, <2>3
  <2> QED BY <2>3, <2>4 DEF Ahead
<1>3. Finding'
  <2> SUFFICES ASSUME NEW r \in Readers, Hit(r), calm'[r] PROVE WillFind(r)'
    BY DEF Finding, Hit
  <2>1. WillFind(r)
    BY DEF FindInv, Finding
  <2> QED BY <1>2, <2>1 DEF WillFind
<1>4. ASSUME NEW s \in published
      PROVE  \E b \in 1..Len(buckets') : \E k \in DOMAIN buckets'[b] : buckets'[b][k] = s
  <2>1. PICK b \in 1..Len(buckets) : \E k \in DOMAIN buckets[b] : buckets[b][k] = s
    BY DEF FindInv, PublishedOK
  <2>2. PICK k \in DOMAIN buckets[b] : buckets[b][k] = s
    BY <2>1
  <2>3. s.start # 0
    BY RangesAssumption DEF IInv, WriterTypes, AddrRange
  <2> QED BY <1>1, <2>2, <2>3
<1> QED BY <1>3, <1>4

\* Every store of dlopen() and dlclose() keeps FindInv.
LEMMA FindWriter ==
    ASSUME IInv, FindInv, Writer
    PROVE  FindInv'
<1> USE RangesAssumption
<1>0. /\ buckets \in Seq(BucketSet) /\ Len(buckets) \in Nat
      /\ \A b \in 1..Len(buckets) : buckets[b] \in BucketSet
  BY DEF IInv, WriterTypes
<1>1. \A b \in 1..Len(buckets) : \E n \in Nat \ {0} : DOMAIN buckets[b] = 1..n
  BY <1>0 DEF BucketSet
\* Steps that leave the buckets alone.
<1>2. ASSUME buckets' = buckets, published' = published, wpc' # "start",
             loaded \cap NeverUnload \subseteq loaded',
             UNCHANGED <<rpc, query, pos, ans, known>>,
             \A r \in Readers : calm'[r] => calm[r],
             CalmOK', BoundsOK'
      PROVE  FindInv'
  <2>1. Grows
    BY <1>0, <1>2 DEF Grows
  <2>2. Finding' /\ \A s \in published : \E b \in 1..Len(buckets') :
                        \E k \in DOMAIN buckets'[b] : buckets'[b][k] = s
    BY <1>2, <2>1, FindKept
  <2>3. PublishedOK'
    <3>1. Known \subseteq Known'
      BY <1>2 DEF Known
    <3> QED BY <1>2, <2>2, <3>1 DEF FindInv, PublishedOK
  <2>4. Packed' /\ SlotIsNext'
    BY <1>2 DEF FindInv, Packed, SlotIsNext
  <2> QED BY <1>2, <2>2, <2>3, <2>4 DEF FindInv
<1>3. ASSUME NEW i \in Images, Load(i) \/ Unload(i) PROVE FindInv'
  <2>1. CalmOK' /\ BoundsOK' /\ \A r \in Readers : ~calm'[r]
    BY <1>3 DEF Load, Unload, CalmOK, BoundsOK
  <2> QED BY <1>2, <1>3, <2>1 DEF Load, Unload
<1>4. ASSUME UNCHANGED <<loaded, buckets, published, readerVars>>,
             wpc' # "start", wpc \in {"low", "high", "scan", "widen"}, BoundsOK'
      PROVE  FindInv'
  <2>1. \A r \in Readers : ~calm[r]
    BY <1>4 DEF FindInv, CalmOK
  <2>2. CalmOK'
    BY <1>4, <2>1 DEF CalmOK, readerVars
  <2> QED BY <1>2, <1>4, <2>2 DEF readerVars
<1>5. /\ loaded \subseteq Images /\ lowest \in Int /\ highest \in Int
      /\ \A i \in Images : Lo[i] \in Int /\ Hi[i] \in Int
      /\ \A i \in Images : Lo[i] <= W - 1 /\ Hi[i] >= 0
  BY DEF IInv, WriterTypes
<1>6. CASE ResetLow
  BY <1>4, <1>6 DEF ResetLow, BoundsOK
<1>7. CASE ResetHigh
  BY <1>4, <1>7 DEF ResetHigh, BoundsOK
<1>8. ASSUME NEW i \in Images, WidenLow(i) PROVE FindInv'
  <2>1. lowest' <= lowest /\ lowest' <= Lo[i] /\ lowest' \in Int /\ highest' = highest
    BY <1>5, <1>8 DEF WidenLow
  <2>2. \A j \in loaded \ scan : Covered(j)
    BY <1>8 DEF WidenLow, FindInv, BoundsOK
  <2>3. \A j \in loaded \ scan : Covered(j)'
    BY <1>5, <2>1, <2>2 DEF Covered
  <2>4. BoundsOK'
    BY <1>8, <2>1, <2>3 DEF WidenLow, BoundsOK
  <2> QED BY <1>4, <1>8, <2>4 DEF WidenLow
<1>9. CASE WidenHigh
  <2>1. /\ highest' >= highest /\ highest' >= Hi[cur] /\ highest' \in Int /\ lowest' = lowest
        /\ cur \in Images
    BY <1>5, <1>9 DEF WidenHigh, IInv, WriterTypes
  <2>2. (\A j \in loaded \ scan : Covered(j)) /\ lowest <= Lo[cur]
    BY <1>9 DEF WidenHigh, FindInv, BoundsOK
  <2>3. \A j \in loaded \ (scan \ {cur}) : Covered(j)'
    BY <1>5, <2>1, <2>2 DEF Covered
  <2>4. BoundsOK'
    BY <1>9, <2>3 DEF WidenHigh, BoundsOK
  <2> QED BY <1>4, <1>9, <2>4 DEF WidenHigh
<1>10. CASE BoundsDone
  <2>1. \A j \in loaded : Covered(j)
    BY <1>10 DEF BoundsDone, FindInv, BoundsOK
  <2>2. BoundsOK'
    BY <1>10, <2>1 DEF BoundsDone, BoundsOK, Covered
  <2> QED BY <1>4, <1>10, <2>2 DEF BoundsDone
\* Steps that change them: nobody is in recomputeBounds().
<1>11. ASSUME Grows, published \subseteq published', UNCHANGED <<loaded, lowest, highest, readerVars>>,
              wpc \in {"add", "start"}, wpc' \in {"idle", "add", "start"}
       PROVE  BoundsOK' /\ CalmOK' /\ Finding'
              /\ \A s \in published : \E b \in 1..Len(buckets') :
                     \E k \in DOMAIN buckets'[b] : buckets'[b][k] = s
  <2>1. BoundsOK' /\ CalmOK'
    BY <1>11 DEF FindInv, BoundsOK, CalmOK, Covered, readerVars
  <2>2. Finding' /\ \A s \in published : \E b \in 1..Len(buckets') :
                     \E k \in DOMAIN buckets'[b] : buckets'[b][k] = s
    BY <1>11, FindKept DEF readerVars
  <2> QED BY <2>1, <2>2
<1>12. ASSUME NEW x \in adding, StoreEnd(x) PROVE FindInv'
  <2>1. PICK s \in Slots :
            /\ slot' = s /\ buckets[s[1]][s[2]].start = 0
            /\ \A t \in EmptySlots : Before(s, t)
            /\ Stored(s, [start |-> 0, end |-> x.end])
    BY <1>12, StoreEndDoes
  <2> DEFINE v == [start |-> 0, end |-> x.end]
             c == s[1]
             m == s[2]
  <2>2. c \in 1..Len(buckets) /\ m \in DOMAIN buckets[c] /\ m \in Nat \ {0}
    BY <1>1 DEF Slots
  <2>3. v.start = 0
    OBVIOUS
  <2> HIDE DEF v
  <2>4. /\ buckets' \in Seq(BucketSet) /\ Len(buckets') = Len(buckets)
        /\ \A b \in 1..Len(buckets) : DOMAIN buckets'[b] = DOMAIN buckets[b]
        /\ \A b \in 1..Len(buckets) : \A k \in DOMAIN buckets[b] :
               buckets'[b][k] = IF b = c /\ k = m THEN v ELSE buckets[b][k]
    BY <2>1 DEF Stored, v
  <2>5. \A b \in 1..Len(buckets) : \A k \in DOMAIN buckets[b] :
            /\ buckets'[b][k].start = buckets[b][k].start
            /\ buckets[b][k].start # 0 => buckets'[b][k] = buckets[b][k]
    BY <2>1, <2>3, <2>4
  <2>6. Grows
    <3>1. /\ buckets' \in Seq(BucketSet) /\ Len(buckets') >= Len(buckets)
          /\ \A b \in 1..Len(buckets) : DOMAIN buckets'[b] = DOMAIN buckets[b]
      BY <1>0, <2>4
    <3> QED BY <2>5, <3>1 DEF Grows
  <2>7. BoundsOK' /\ CalmOK' /\ Finding' /\ PublishedOK'
    <3>1. published' = published /\ Known' = Known
      BY <1>12 DEF StoreEnd, Known
    <3> QED BY <1>11, <1>12, <2>6, <3>1 DEF StoreEnd, PublishedOK, FindInv
  <2>8. Packed'
    <3> SUFFICES ASSUME NEW b \in 1..Len(buckets), NEW k \in DOMAIN buckets[b],
                        buckets'[b][k].start # 0, NEW j \in 1..k
                 PROVE  buckets'[b][j].start # 0
      BY <2>4 DEF Packed
    <3>1. buckets[b][j].start # 0
      BY <2>5 DEF FindInv, Packed
    <3>2. j \in DOMAIN buckets[b]
      BY <1>1
    <3> QED BY <2>5, <3>1, <3>2
  <2>9. SlotIsNext'
    <3> SUFFICES ASSUME NEW j \in 1..(m - 1) PROVE buckets'[c][j].start # 0
      BY <2>1 DEF SlotIsNext
    <3>1. j \in DOMAIN buckets[c]
      BY <1>1, <2>2
    <3>2. buckets[c][j].start # 0
      <4>1. SUFFICES ASSUME buckets[c][j].start = 0 PROVE FALSE
        OBVIOUS
      <4> DEFINE e == <<c, j>>
      <4>2. e \in Slots
        <5>1. m \in 1..(FirstSize + NewSize)
          BY DEF Slots
        <5>2. j \in 1..(FirstSize + NewSize)
          BY <2>2, <5>1
        <5> QED BY <2>2, <3>1, <5>2 DEF Slots
      <4>3. e \in EmptySlots
        BY <4>1, <4>2 DEF EmptySlots
      <4>4. Before(s, e)
        BY <2>1, <4>3
      <4>5. s[1] < c \/ s[2] <= j
        BY <4>4 DEF Before
      <4> QED BY <2>2, <4>5
    <3> QED BY <2>2, <2>5, <3>1, <3>2
  <2> QED BY <2>7, <2>8, <2>9 DEF FindInv
<1>13. CASE StoreStart
  <2> DEFINE c == slot[1]
             m == slot[2]
  <2>1. /\ slot \in Slots /\ cur \in AddrRange /\ cur \in Known /\ wpc = "start"
        /\ buckets[c][m] = [start |-> 0, end |-> cur.end]
    BY <1>13 DEF StoreStart, IInv, WriterTypes, WriterOK
  <2>2. c \in 1..Len(buckets) /\ m \in DOMAIN buckets[c] /\ m \in Nat \ {0}
    BY <1>1, <2>1 DEF Slots
  <2>3. cur.start # 0 /\ buckets[c][m].start = 0
    BY <2>1 DEF AddrRange
  <2>4. /\ buckets' \in Seq(BucketSet) /\ Len(buckets') = Len(buckets)
        /\ \A b \in 1..Len(buckets) : DOMAIN buckets'[b] = DOMAIN buckets[b]
        /\ \A b \in 1..Len(buckets) : \A k \in DOMAIN buckets[b] :
               buckets'[b][k] = IF b = c /\ k = m THEN cur ELSE buckets[b][k]
    BY <1>13, StoreStartDoes DEF Stored
  <2> HIDE DEF c, m
  <2>5. \A b \in 1..Len(buckets) : \A k \in DOMAIN buckets[b] :
            buckets[b][k].start # 0 => buckets'[b][k] = buckets[b][k]
    BY <2>3, <2>4
  <2>6. Grows
    BY <1>0, <2>4, <2>5 DEF Grows
  <2>7. /\ BoundsOK' /\ CalmOK' /\ Finding'
        /\ \A s \in published : \E b \in 1..Len(buckets') :
               \E k \in DOMAIN buckets'[b] : buckets'[b][k] = s
    BY <1>11, <1>13, <2>6 DEF StoreStart
  <2>8. PublishedOK'
    <3>1. published' = published \cup {cur} /\ Known' = Known
      BY <1>13 DEF StoreStart, Known
    <3>2. c \in 1..Len(buckets') /\ m \in DOMAIN buckets'[c] /\ buckets'[c][m] = cur
      BY <2>2, <2>4
    <3> QED BY <2>1, <2>7, <3>1, <3>2 DEF PublishedOK, FindInv
  <2>9. Packed'
    <3> SUFFICES ASSUME NEW b \in 1..Len(buckets), NEW k \in DOMAIN buckets[b],
                        buckets'[b][k].start # 0, NEW j \in 1..k
                 PROVE  buckets'[b][j].start # 0
      BY <2>4 DEF Packed
    <3>1. j \in DOMAIN buckets[b] /\ k \in Nat
      BY <1>1
    <3>2. CASE b = c /\ k = m
      <4>1. CASE j = m
        BY <2>2, <2>3, <2>4, <3>2, <4>1
      <4>2. CASE j # m
        <5>1. j \in 1..(m - 1)
          BY <2>2, <3>2, <4>2
        <5>2. buckets[c][j].start # 0
          BY <2>1, <5>1 DEF FindInv, SlotIsNext, c, m
        <5> QED BY <2>5, <3>1, <3>2, <5>2
      <4> QED BY <4>1, <4>2
    <3>3. CASE ~(b = c /\ k = m)
      <4>1. buckets[b][k].start # 0
        BY <2>4, <3>3
      <4>2. buckets[b][j].start # 0
        BY <4>1 DEF FindInv, Packed
      <4> QED BY <2>5, <3>1, <4>2
    <3> QED BY <3>2, <3>3
  <2>10. SlotIsNext'
    BY <1>13 DEF StoreStart, SlotIsNext
  <2> QED BY <2>7, <2>8, <2>9, <2>10 DEF FindInv
<1>14. ASSUME NEW x \in adding, NewBucket(x) PROVE FindInv'
  <2> DEFINE e == Bucket(x)
             n == Len(buckets) + 1
  <2>1. x \in AddrRange /\ x \in Known
    BY DEF IInv, WriterTypes, WriterOK
  <2>2. /\ e \in BucketSet /\ DOMAIN e = 1..NewSize /\ e[1] = x
        /\ \A k \in 1..NewSize : e[k].start # 0 => k = 1
    BY <2>1, BucketHolds
  <2>3. buckets' = Append(buckets, e)
    BY <1>14 DEF NewBucket
  <2> HIDE DEF e
  <2>4. /\ buckets' \in Seq(BucketSet) /\ Len(buckets') = n
        /\ \A b \in 1..Len(buckets) : buckets'[b] = buckets[b]
        /\ buckets'[n] = e
    BY <1>0, <2>2, <2>3, LinkFacts
  <2>5. Grows
    BY <1>0, <2>4 DEF Grows
  <2>6. /\ BoundsOK' /\ CalmOK' /\ Finding'
        /\ \A s \in published : \E b \in 1..Len(buckets') :
               \E k \in DOMAIN buckets'[b] : buckets'[b][k] = s
    BY <1>11, <1>14, <2>5 DEF NewBucket
  <2>7. PublishedOK'
    <3>1. published' = published \cup {x} /\ Known' = Known
      BY <1>14 DEF NewBucket, Known
    <3>2. n \in 1..Len(buckets') /\ 1 \in DOMAIN buckets'[n] /\ buckets'[n][1] = x
      BY <1>0, <2>2, <2>4
    <3> QED BY <2>1, <2>6, <3>1, <3>2 DEF PublishedOK, FindInv
  <2>8. Packed'
    <3> SUFFICES ASSUME NEW b \in 1..Len(buckets'), NEW k \in DOMAIN buckets'[b],
                        buckets'[b][k].start # 0, NEW j \in 1..k
                 PROVE  buckets'[b][j].start # 0
      BY DEF Packed
    <3>1. CASE b \in 1..Len(buckets)
      BY <2>4, <3>1 DEF FindInv, Packed
    <3>2. CASE b = n
      <4>1. k = 1
        BY <2>2, <2>4, <3>2
      <4> QED BY <4>1
    <3> QED BY <1>0, <2>4, <3>1, <3>2
  <2>9. SlotIsNext'
    BY <1>14 DEF NewBucket, SlotIsNext
  <2> QED BY <2>6, <2>7, <2>8, <2>9 DEF FindInv
<1> QED BY <1>3, <1>6, <1>7, <1>8, <1>9, <1>10, <1>12, <1>13, <1>14 DEF Writer

\* Every load of immutableMemory() keeps FindInv.
LEMMA FindReader ==
    ASSUME IInv, FindInv, NEW r \in Readers, Reader(r)
    PROVE  FindInv'
<1> USE RangesAssumption
<1>0. UNCHANGED writerVars
  BY DEF Reader, Ask, ReadLow, ReadHigh, ReadUsed, ReadStart, ReadEnd, ReadNext
<1>1. Packed' /\ SlotIsNext' /\ BoundsOK' /\ PublishedOK'
  BY <1>0 DEF FindInv, writerVars, Packed, SlotIsNext, BoundsOK, Covered, PublishedOK, Known
<1>2. /\ buckets' = buckets /\ published' = published /\ Len(buckets) \in Nat
      /\ pos[r][1] \in 1..Len(buckets) /\ pos[r][2] \in Nat \ {0}
  BY <1>0 DEF writerVars, IInv, WriterTypes, ReaderTypes
<1>3. /\ buckets \in Seq(BucketSet)
      /\ \A b \in 1..Len(buckets) : buckets[b] \in BucketSet
  BY DEF IInv, WriterTypes
<1>4. \A b \in 1..Len(buckets) : \E n \in Nat \ {0} : DOMAIN buckets[b] = 1..n
  BY <1>3 DEF BucketSet
\* The other readers are where they were.
<1>5. ASSUME \A u \in Readers \ {r} : /\ rpc'[u] = rpc[u] /\ query'[u] = query[u]
                                      /\ pos'[u] = pos[u] /\ ans'[u] = ans[u]
                                      /\ known'[u] = known[u] /\ calm'[u] = calm[u],
             calm'[r] => wpc \in {"idle", "add", "start"},
             Hit(r)' /\ calm'[r] => WillFind(r)'
      PROVE  FindInv'
  <2>1. CalmOK'
    BY <1>0, <1>5 DEF FindInv, CalmOK, writerVars
  <2>2. Finding'
    <3> SUFFICES ASSUME NEW u \in Readers, Hit(u)', calm'[u] PROVE WillFind(u)'
      BY DEF Finding
    <3>1. CASE u = r
      BY <1>5, <3>1
    <3>2. CASE u # r
      <4>1. WillFind(u)
        BY <1>5, <3>2 DEF FindInv, Finding, Hit
      <4>2. Ahead(u) => Ahead(u)'
        <5>1. /\ buckets' = buckets /\ query'[u] = query[u] /\ pos'[u] = pos[u]
              /\ rpc'[u] = rpc[u]
          BY <1>2, <1>5, <3>2
        <5> QED BY <5>1 DEF Ahead
      <4> QED BY <1>2, <1>5, <3>2, <4>1, <4>2 DEF WillFind
    <3> QED BY <3>1, <3>2
  <2> QED BY <1>1, <2>1, <2>2 DEF FindInv
<1>6. ASSUME NEW q \in Queries, Ask(r, q) PROVE FindInv'
  <2>1. WillFind(r)' \/ ~Hit(r)'
    <3>1. query'[r] = q /\ known'[r] = {s \in published : Contains(s, q)}
          /\ rpc'[r] = (IF CacheAnswer[q] = "none" THEN "low" ELSE "idle")
          /\ ans'[r] = CacheAnswer[q]
      BY <1>6 DEF Ask, Goto, IInv, ReaderTypes
    <3> QED BY <1>2, <3>1 DEF WillFind, Hit
  <2>2. calm'[r] => wpc \in {"idle", "add", "start"}
    BY <1>6 DEF Ask, IInv, ReaderTypes
  <2> QED BY <1>5, <1>6, <2>1, <2>2 DEF Ask, Goto, IInv, ReaderTypes
\* A step that goes on to `pc' at a place `p' in the buckets, or returns `a'.
<1>7. ASSUME NEW pc, NEW p, Continue(r, pc, p), UNCHANGED <<query, known, calm>>,
             Hit(r) /\ calm[r] => WillFind(r)'
      PROVE  FindInv'
  <2>1. Hit(r)' = Hit(r)
    BY <1>7 DEF Hit
  <2> QED BY <1>5, <1>7, <2>1 DEF Continue, Goto, IInv, ReaderTypes, FindInv, CalmOK
<1>8. ASSUME NEW a, Return(r, a), UNCHANGED <<query, known, calm>>,
             Hit(r) /\ calm[r] => a # "no"
      PROVE  FindInv'
  <2>1. Hit(r) /\ calm[r] => WillFind(r)'
    BY <1>8 DEF Return, Goto, IInv, ReaderTypes, WillFind
  <2>2. Hit(r)' = Hit(r)
    BY <1>8 DEF Hit
  <2> QED BY <1>5, <1>8, <2>1, <2>2 DEF Return, Goto, IInv, ReaderTypes, FindInv, CalmOK
<1>9. /\ \A pc, p : Continue(r, pc, p) => rpc'[r] = pc /\ pos'[r] = p
      /\ query[r] \in Queries /\ query[r].addr \in Nat /\ query[r].len \in Nat
  BY DEF Continue, Goto, IInv, ReaderTypes
\* What a calm reader that asked about a published range finds at the bounds.
<1>10. ASSUME Hit(r), calm[r], rpc[r] \in {"low", "high"}
       PROVE  /\ lowest <= query[r].addr /\ ~(EndOf(query[r]) > highest)
              /\ \E s \in published : Within(query[r], s)
  <2>1. PICK s \in published : Within(query[r], s)
    BY <1>10 DEF FindInv, Finding, WillFind
  <2>2. PICK i \in loaded \cap NeverUnload : s \in ReadOnly[i]
    BY DEF FindInv, PublishedOK, Known
  <2>3. i \in Images /\ s.start \in Nat /\ s.end \in 1..(W - 1)
    BY <2>2 DEF IInv, WriterTypes, AddrRange
  <2>4. Lo[i] <= s.start /\ s.end <= Hi[i] /\ Lo[i] \in Nat /\ Hi[i] \in Nat
    BY <2>2, <2>3, SegmentsAssumption
  <2>5. lowest <= Lo[i] /\ Hi[i] <= highest /\ lowest \in Nat /\ highest \in Nat
    BY <1>10, <2>2 DEF FindInv, CalmOK, BoundsOK, Covered, IInv, WriterTypes
  <2> DEFINE n == query[r].addr + query[r].len
  <2>6. s.start <= query[r].addr /\ n < s.end /\ n \in Nat
    BY <1>9, <2>1 DEF Within
  <2>7. EndOf(query[r]) = n % W
    BY DEF EndOf
  <2> HIDE DEF n
  <2>8. EndOf(query[r]) = n
    <3>1. n < W
      BY <2>3, <2>6
    <3> QED BY <2>6, <2>7, <3>1, ModSmall
  <2> QED BY <1>9, <2>1, <2>3, <2>4, <2>5, <2>6, <2>8
<1>11. CASE ReadLow(r)
  <2>1. CASE query[r].addr < lowest
    <3>1. ~(Hit(r) /\ calm[r])
      <4>1. lowest \in Nat
        BY DEF IInv, WriterTypes
      <4> QED BY <1>9, <1>10, <1>11, <2>1, <4>1 DEF ReadLow
    <3> QED BY <1>8, <1>11, <2>1, <3>1 DEF ReadLow
  <2>2. CASE ~(query[r].addr < lowest)
    <3>1. Continue(r, "high", <<1, 1>>) /\ UNCHANGED <<query, known, calm>> /\ rpc[r] = "low"
      BY <1>11, <2>2 DEF ReadLow
    <3>2. Hit(r) /\ calm[r] => WillFind(r)'
      BY <1>2, <1>9, <1>10, <3>1 DEF WillFind
    <3> QED BY <1>7, <3>1, <3>2
  <2> QED BY <2>1, <2>2
<1>12. CASE ReadHigh(r)
  <2>1. CASE EndOf(query[r]) > highest
    BY <1>8, <1>10, <1>12, <2>1 DEF ReadHigh
  <2>2. CASE ~(EndOf(query[r]) > highest)
    <3>1. Continue(r, "used", <<1, 1>>) /\ UNCHANGED <<query, known, calm>> /\ rpc[r] = "high"
      BY <1>12, <2>2 DEF ReadHigh
    <3>2. ASSUME Hit(r), calm[r] PROVE Ahead(r)'
      <4>1. PICK s \in published : Within(query[r], s)
        BY <1>10, <3>1, <3>2
      <4>2. PICK b \in 1..Len(buckets) : \E k \in DOMAIN buckets[b] : buckets[b][k] = s
        BY DEF FindInv, PublishedOK
      <4>3. PICK k \in DOMAIN buckets[b] : buckets[b][k] = s
        BY <4>2
      <4>4. s.start # 0 /\ k \in Nat \ {0}
        BY <1>4 DEF IInv, WriterTypes, AddrRange
      <4>5. pos'[r][1] = 1 /\ pos'[r][2] = 1 /\ rpc'[r] # "next"
        BY <1>9, <3>1
      <4>6. pos'[r][1] < b \/ (pos'[r][1] = b /\ pos'[r][2] <= k)
        BY <4>4, <4>5
      <4> QED BY <1>2, <3>1, <4>1, <4>3, <4>4, <4>5, <4>6 DEF Ahead
    <3>3. Hit(r) /\ calm[r] => WillFind(r)'
      BY <1>9, <3>1, <3>2 DEF WillFind
    <3> QED BY <1>7, <3>1, <3>3
  <2> QED BY <2>1, <2>2
\* A step in the buckets keeps the slot ahead, if it passes only slots that do not
\* hold the answer.
<1>13. ASSUME NEW pc \in {"used", "start", "end", "next"}, NEW p, Continue(r, pc, p),
              UNCHANGED <<query, known, calm>>,
              rpc[r] \in {"used", "start", "end", "next"},
              ASSUME NEW b \in 1..Len(buckets), NEW k \in DOMAIN buckets[b],
                     buckets[b][k].start # 0, Within(query[r], buckets[b][k]),
                     \/ pos[r][1] < b
                     \/ pos[r][1] = b /\ pos[r][2] <= k /\ rpc[r] # "next"
              PROVE  p[1] < b \/ (p[1] = b /\ p[2] <= k /\ pc # "next")
       PROVE  FindInv'
  <2>1. ASSUME Ahead(r) PROVE Ahead(r)'
    <3>1. PICK b \in 1..Len(buckets) : \E k \in DOMAIN buckets[b] :
              /\ buckets[b][k].start # 0 /\ Within(query[r], buckets[b][k])
              /\ \/ pos[r][1] < b
                 \/ pos[r][1] = b /\ pos[r][2] <= k /\ rpc[r] # "next"
      BY <2>1 DEF Ahead
    <3>2. PICK k \in DOMAIN buckets[b] :
              /\ buckets[b][k].start # 0 /\ Within(query[r], buckets[b][k])
              /\ \/ pos[r][1] < b
                 \/ pos[r][1] = b /\ pos[r][2] <= k /\ rpc[r] # "next"
      BY <3>1
    <3>3. p[1] < b \/ (p[1] = b /\ p[2] <= k /\ pc # "next")
      BY <1>13, <3>2
    <3>4. pos'[r] = p /\ rpc'[r] = pc /\ query'[r] = query[r]
      BY <1>9, <1>13
    <3> QED BY <1>2, <3>2, <3>3, <3>4 DEF Ahead
  <2>2. Hit(r) /\ calm[r] => WillFind(r)'
    <3>1. Hit(r) /\ calm[r] => Ahead(r)
      BY <1>13 DEF FindInv, Finding, WillFind
    <3> QED BY <1>9, <1>13, <2>1, <3>1 DEF WillFind
  <2> QED BY <1>7, <1>13, <2>2
<1>14. CASE ReadUsed(r)
  <2>0. rpc[r] = "used" /\ UNCHANGED <<query, known, calm>>
    BY <1>14 DEF ReadUsed
  <2>1. CASE pos[r][2] \in DOMAIN buckets[pos[r][1]] /\ SlotOf(r).start # 0
    <3>1. Continue(r, "start", pos[r])
      BY <1>14, <2>1 DEF ReadUsed
    <3> QED BY <1>13, <2>0, <3>1
  <2>2. CASE ~(pos[r][2] \in DOMAIN buckets[pos[r][1]] /\ SlotOf(r).start # 0)
    <3>1. Continue(r, "next", pos[r])
      BY <1>14, <2>2 DEF ReadUsed
    <3>2. ASSUME NEW b \in 1..Len(buckets), NEW k \in DOMAIN buckets[b],
                 buckets[b][k].start # 0, pos[r][1] = b, pos[r][2] <= k
          PROVE  FALSE
      <4>1. k \in Nat /\ pos[r][2] \in 1..k /\ pos[r][2] \in DOMAIN buckets[b]
        BY <1>2, <1>4, <3>2
      <4>2. buckets[b][pos[r][2]].start # 0
        BY <3>2, <4>1 DEF FindInv, Packed
      <4> QED BY <2>2, <3>2, <4>1, <4>2 DEF SlotOf
    <3> QED BY <1>13, <2>0, <3>1, <3>2
  <2> QED BY <2>1, <2>2
\* A slot that does not hold the answer is passed.
<1>15. ASSUME NextSlot(r), UNCHANGED <<query, known, calm>>, rpc[r] \in {"start", "end"},
              ~Within(query[r], SlotOf(r))
       PROVE  FindInv'
  <2> DEFINE p == <<pos[r][1], pos[r][2] + 1>>
  <2>1. p[1] = pos[r][1] /\ p[2] = pos[r][2] + 1 /\ Continue(r, "used", p)
    BY <1>15 DEF NextSlot
  <2> HIDE DEF p
  <2>2. ASSUME NEW b \in 1..Len(buckets), NEW k \in DOMAIN buckets[b],
               buckets[b][k].start # 0, Within(query[r], buckets[b][k]),
               \/ pos[r][1] < b
               \/ pos[r][1] = b /\ pos[r][2] <= k /\ rpc[r] # "next"
        PROVE  p[1] < b \/ (p[1] = b /\ p[2] <= k /\ "used" # "next")
    <3>1. CASE pos[r][1] < b
      BY <2>1, <3>1
    <3>2. CASE pos[r][1] = b /\ pos[r][2] <= k
      <4>1. k # pos[r][2]
        BY <1>15, <2>2, <3>2 DEF SlotOf
      <4>2. k \in Nat
        BY <1>4
      <4> QED BY <1>2, <2>1, <3>2, <4>1, <4>2
    <3> QED BY <2>2, <3>1, <3>2
  <2> QED BY <1>13, <1>15, <2>1, <2>2
<1>16. /\ rpc[r] \in {"start", "end"} => SlotOf(r) \in Known
       /\ \A s \in Known : s.start \in Nat /\ s.end \in 1..(W - 1)
  <2>1. \A s \in Known : s.start \in Nat /\ s.end \in 1..(W - 1)
    BY DEF IInv, WriterTypes, Known, AddrRange
  <2>2. rpc[r] \in {"start", "end"} => SlotOf(r) \in Known
    BY <1>2 DEF IInv, ReaderTypes, SlotsOK, SlotOf
  <2> QED BY <2>1, <2>2
<1>17. CASE ReadStart(r)
  <2>0. rpc[r] = "start" /\ UNCHANGED <<query, known, calm>>
    BY <1>17 DEF ReadStart
  <2>1. CASE SlotOf(r).start <= query[r].addr
    <3>1. Continue(r, "end", pos[r])
      BY <1>17, <2>1 DEF ReadStart
    <3> QED BY <1>13, <2>0, <3>1
  <2>2. CASE ~(SlotOf(r).start <= query[r].addr)
    BY <1>15, <1>17, <2>0, <2>2 DEF ReadStart, Within
  <2> QED BY <2>1, <2>2
<1>18. CASE ReadEnd(r)
  <2>0. rpc[r] = "end" /\ UNCHANGED <<query, known, calm>>
    BY <1>18 DEF ReadEnd
  <2>1. CASE SlotOf(r).end > EndOf(query[r])
    BY <1>8, <1>18, <2>0, <2>1 DEF ReadEnd
  <2>2. CASE ~(SlotOf(r).end > EndOf(query[r]))
    <3>1. ~Within(query[r], SlotOf(r))
      <4> SUFFICES ASSUME Within(query[r], SlotOf(r)) PROVE FALSE
        OBVIOUS
      <4> DEFINE n == query[r].addr + query[r].len
      <4>1. n < SlotOf(r).end /\ n \in Nat /\ SlotOf(r).end \in 1..(W - 1)
        BY <1>9, <1>16, <2>0 DEF Within
      <4>2. EndOf(query[r]) = n % W
        BY DEF EndOf
      <4> HIDE DEF n
      <4>3. n < W
        BY <4>1
      <4>4. EndOf(query[r]) = n
        BY <4>1, <4>2, <4>3, ModSmall
      <4> QED BY <2>2, <4>1, <4>4
    <3> QED BY <1>15, <1>18, <2>0, <2>2, <3>1 DEF ReadEnd
  <2> QED BY <2>1, <2>2
<1>19. CASE ReadNext(r)
  <2>0. rpc[r] = "next" /\ UNCHANGED <<query, known, calm>>
    BY <1>19 DEF ReadNext
  <2>1. CASE pos[r][1] < Len(buckets)
    <3> DEFINE p == <<pos[r][1] + 1, 1>>
    <3>1. p[1] = pos[r][1] + 1 /\ p[2] = 1 /\ Continue(r, "used", p)
      BY <1>19, <2>1 DEF ReadNext
    <3> HIDE DEF p
    <3>2. ASSUME NEW b \in 1..Len(buckets), NEW k \in DOMAIN buckets[b], pos[r][1] < b
          PROVE  p[1] < b \/ (p[1] = b /\ p[2] <= k)
      <4>1. k \in Nat \ {0}
        BY <1>4
      <4> QED BY <1>2, <3>1, <3>2, <4>1
    <3> QED BY <1>13, <2>0, <3>1, <3>2
  <2>2. CASE ~(pos[r][1] < Len(buckets))
    <3>1. ~(Hit(r) /\ calm[r])
      <4> SUFFICES ASSUME Hit(r), calm[r] PROVE FALSE
        OBVIOUS
      <4>1. Ahead(r)
        BY <2>0 DEF FindInv, Finding, WillFind
      <4>2. \E b \in 1..Len(buckets) : pos[r][1] < b
        BY <2>0, <4>1 DEF Ahead
      <4> QED BY <1>2, <2>2, <4>2
    <3> QED BY <1>8, <1>19, <2>0, <2>2, <3>1 DEF ReadNext
  <2> QED BY <2>1, <2>2
<1> QED BY <1>6, <1>11, <1>12, <1>14, <1>17, <1>18, <1>19 DEF Reader

\* Memory in a range that addImmutableRange() has returned for is found by every
\* later query, in whatever bucket the range is and however many ranges are
\* registered meanwhile, unless recomputeBounds() runs between the query's start
\* and its end, or the query reaches to the very end of the range: the answer "no"
\* is given to no other query.
THEOREM PublishedFound ==
    ASSUME NoWrap
    PROVE  Spec => []PublishedIsFound
<1>1. Init => FindInv
  <2> SUFFICES ASSUME Init PROVE FindInv
    OBVIOUS
  <2> DEFINE e == [k \in 1..FirstSize |-> Empty]
  <2>1. \A k \in DOMAIN e : e[k].start = 0
    BY DEF Empty
  <2> HIDE DEF e
  <2>2. buckets = <<e>>
    BY DEF Init, e
  <2>3. Packed
    BY <2>1, <2>2 DEF Packed
  <2>4. SlotIsNext /\ BoundsOK /\ CalmOK /\ PublishedOK /\ Finding
    BY DEF Init, SlotIsNext, BoundsOK, CalmOK, PublishedOK, Finding
  <2> QED BY <2>3, <2>4 DEF FindInv
<1>2. IInv /\ FindInv /\ [Next]_vars => FindInv'
  <2> SUFFICES ASSUME IInv, FindInv, [Next]_vars PROVE FindInv'
    OBVIOUS
  <2>1. CASE UNCHANGED vars
    BY <2>1 DEF vars, writerVars, readerVars, FindInv, Packed, SlotIsNext, BoundsOK, Covered,
       CalmOK, PublishedOK, Known, Finding, Hit, WillFind, Ahead
  <2> QED BY <2>1, FindWriter, FindReader DEF Next
<1>3. IInv /\ FindInv => PublishedIsFound
  <2> SUFFICES ASSUME IInv, FindInv, NEW r \in Readers, rpc[r] = "idle", ans[r] = "no",
                      CacheAnswer[query[r]] = "none", calm[r], NEW s \in known[r]
               PROVE  query[r].addr + query[r].len = s.end
    BY DEF PublishedIsFound
  <2>1. ~Within(query[r], s) /\ Contains(s, query[r])
    BY DEF FindInv, Finding, Hit, WillFind, IInv, ReadersOK
  <2>2. query[r].addr + query[r].len \in Int /\ s.end \in Int
    BY RangesAssumption DEF IInv, ReaderTypes, AddrRange
  <2> QED BY <2>1, <2>2 DEF Within, Contains
<1>4. Spec => []IInv
  BY IInvHolds
<1> QED BY <1>1, <1>2, <1>3, <1>4, PTL DEF Spec

=============================================================================
