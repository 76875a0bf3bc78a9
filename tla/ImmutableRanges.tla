--------------------------- MODULE ImmutableRanges ---------------------------
(****************************************************************************)
(* _dyld_is_memory_immutable() (AllImages::immutableMemory), which takes no *)
(* lock, against the calls that change what it reads: dlopen() widens the   *)
(* bounds of the images outside the shared cache and registers the          *)
(* read-only segments of images that cannot be unloaded; dlclose()          *)
(* recomputes the bounds.                                                   *)
(*                                                                          *)
(* The load lock is held through both, so there is one writer.  Every load  *)
(* and store of a word is a step of its own; addresses are words of W       *)
(* values.                                                                  *)
(****************************************************************************)
EXTENDS Naturals, Sequences, FiniteSets

CONSTANTS
    Readers,     \* threads that ask
    Images,      \* images outside the shared cache
    Lo, Hi,      \* Lo[i]..Hi[i]: where i is mapped
    ReadOnly,    \* ReadOnly[i]: its read-only segments, as [start, end]
    NeverUnload, \* images that cannot be unloaded
    Queries,     \* what is asked, as [addr, len]
    CacheAnswer, \* CacheAnswer[q]: "yes" or "no" if q is in the cache, else "none"
    FirstSize,   \* slots of _immutableRanges (2)
    NewSize,     \* slots of every further bucket (15)
    W            \* number of values of a uintptr_t

AddrRange == [start : 1..(W - 1), end : 1..(W - 1)]

ASSUME RangesAssumption ==
    /\ W \in Nat \ {0} /\ FirstSize \in Nat \ {0} /\ NewSize \in Nat \ {0}
    /\ Lo \in [Images -> 1..(W - 1)]
    /\ Hi \in [Images -> 1..(W - 1)]
    /\ ReadOnly \in [Images -> SUBSET AddrRange]
    /\ NeverUnload \subseteq Images
    /\ Queries \subseteq [addr : 0..(W - 1), len : 0..(W - 1)] /\ Queries # {}
    /\ CacheAnswer \in [Queries -> {"none", "yes", "no"}]

\* Segments are parts of what is mapped for their image.
ASSUME SegmentsAssumption ==
    \A i \in Images : \A s \in ReadOnly[i] : Lo[i] <= s.start /\ s.end <= Hi[i]

VARIABLES
    loaded,    \* the images of _loadedImages outside the shared cache
    lowest,    \* _lowestNonCached
    highest,   \* _highestNonCached
    buckets,   \* _immutableRanges and the buckets linked to it
    wpc,       \* where the writer is
    scan,      \* images recomputeBounds() has still to look at
    adding,    \* ranges still to register
    cur,       \* the range being registered, or the image being looked at
    slot,      \* the slot being filled
    published, \* history: ranges addImmutableRange() has returned for
    rpc,       \* where each reader is
    query,     \* what it asked last
    pos,       \* the bucket and slot it looks at
    ans,       \* the answer it got last
    known,     \* history: the published ranges that contain what it asked about
    calm       \* history: no bounds were being recomputed meanwhile

writerVars == <<loaded, lowest, highest, buckets, wpc, scan, adding, cur, slot, published>>
readerVars == <<rpc, query, pos, ans, known, calm>>
vars == <<writerVars, readerVars>>

Empty == [start |-> 0, end |-> 0]

\* uintptr_t arithmetic
EndOf(q) == (q.addr + q.len) % W

\* What dyld_priv.h means by memory that lies in a range: up to its very end.
Contains(s, q) == s.start <= q.addr /\ q.addr + q.len <= s.end

-----------------------------------------------------------------------------
(* The writer *)

Disjoint(i, j) == Hi[i] <= Lo[j] \/ Hi[j] <= Lo[i]

\* (faulty variant: segments of images that can be unloaded are registered too)
ToRegister_All(i) == ReadOnly[i]
\* runImageNotifiers: what to register for a new image.
ToRegister(i) == IF i \in NeverUnload THEN ReadOnly[i] ELSE {}

\* dlopen() has mapped i and appended it to _loadedImages.
Load(i) ==
    /\ wpc = "idle" /\ i \notin loaded
    /\ \A j \in loaded : Disjoint(i, j)
    /\ loaded' = loaded \cup {i}
    /\ adding' = ToRegister(i)
    /\ wpc' = "low"
    /\ calm' = [r \in Readers |-> FALSE]
    /\ UNCHANGED <<lowest, highest, buckets, scan, cur, slot, published,
                   rpc, query, pos, ans, known>>

\* dlclose() has erased i from _loadedImages.
Unload(i) ==
    /\ wpc = "idle" /\ i \in loaded \ NeverUnload
    /\ loaded' = loaded \ {i}
    /\ adding' = {}
    /\ wpc' = "low"
    /\ calm' = [r \in Readers |-> FALSE]
    /\ UNCHANGED <<lowest, highest, buckets, scan, cur, slot, published,
                   rpc, query, pos, ans, known>>

\* recomputeBounds()
ResetLow ==
    /\ wpc = "low"
    /\ lowest' = W - 1
    /\ wpc' = "high"
    /\ UNCHANGED <<loaded, highest, buckets, scan, adding, cur, slot, published, readerVars>>

ResetHigh ==
    /\ wpc = "high"
    /\ highest' = 0
    /\ wpc' = "scan"
    /\ scan' = loaded
    /\ UNCHANGED <<loaded, lowest, buckets, adding, cur, slot, published, readerVars>>

WidenLow(i) ==
    /\ wpc = "scan" /\ i \in scan
    /\ lowest' = IF Lo[i] < lowest THEN Lo[i] ELSE lowest
    /\ cur' = i
    /\ wpc' = "widen"
    /\ UNCHANGED <<loaded, highest, buckets, scan, adding, slot, published, readerVars>>

WidenHigh ==
    /\ wpc = "widen"
    /\ highest' = IF Hi[cur] > highest THEN Hi[cur] ELSE highest
    /\ scan' = scan \ {cur}
    /\ wpc' = "scan"
    /\ UNCHANGED <<loaded, lowest, buckets, adding, cur, slot, published, readerVars>>

BoundsDone ==
    /\ wpc = "scan" /\ scan = {}
    /\ wpc' = IF adding = {} THEN "idle" ELSE "add"
    /\ UNCHANGED <<loaded, lowest, highest, buckets, scan, adding, cur, slot, published, readerVars>>

\* addImmutableRange(): the first empty slot of the first bucket that has one.
Slots == {s \in (1..Len(buckets)) \X (1..(FirstSize + NewSize)) :
             s[2] \in DOMAIN buckets[s[1]]}

EmptySlots == {s \in Slots : buckets[s[1]][s[2]].start = 0}

Before(s, t) == s[1] < t[1] \/ (s[1] = t[1] /\ s[2] <= t[2])

\* 'end' is set before 'start' ...
StoreEnd(r) ==
    /\ wpc = "add" /\ r \in adding
    /\ \E s \in EmptySlots :
          /\ \A t \in EmptySlots : Before(s, t)
          /\ slot' = s
          /\ buckets' = [buckets EXCEPT ![s[1]][s[2]].end = r.end]
    /\ cur' = r
    /\ wpc' = "start"
    /\ UNCHANGED <<loaded, lowest, highest, scan, adding, published, readerVars>>

StoreStart ==
    /\ wpc = "start"
    /\ buckets' = [buckets EXCEPT ![slot[1]][slot[2]].start = cur.start]
    /\ adding' = adding \ {cur}
    /\ published' = published \cup {cur}
    /\ wpc' = IF adding' = {} THEN "idle" ELSE "add"
    /\ UNCHANGED <<loaded, lowest, highest, scan, cur, slot, readerVars>>

Bucket(r) == [k \in 1..NewSize |-> IF k = 1 THEN r ELSE Empty]

\* (faulty variant: linked to the first bucket instead of the last)
NewBucket_First(r) ==
    /\ wpc = "add" /\ r \in adding /\ EmptySlots = {}
    /\ buckets' = <<buckets[1], Bucket(r)>>
    /\ adding' = adding \ {r}
    /\ published' = published \cup {r}
    /\ wpc' = IF adding' = {} THEN "idle" ELSE "add"
    /\ UNCHANGED <<loaded, lowest, highest, scan, cur, slot, readerVars>>

\* ... and a new bucket is filled before it is linked to the last one.
NewBucket(r) ==
    /\ wpc = "add" /\ r \in adding /\ EmptySlots = {}
    /\ buckets' = Append(buckets, Bucket(r))
    /\ adding' = adding \ {r}
    /\ published' = published \cup {r}
    /\ wpc' = IF adding' = {} THEN "idle" ELSE "add"
    /\ UNCHANGED <<loaded, lowest, highest, scan, cur, slot, readerVars>>

-----------------------------------------------------------------------------
(* A reader: immutableMemory() *)

SlotOf(r) == buckets[pos[r][1]][pos[r][2]]

Goto(r, pc) == rpc' = [rpc EXCEPT ![r] = pc]

Return(r, a) ==
    /\ Goto(r, "idle")
    /\ ans' = [ans EXCEPT ![r] = a]
    /\ UNCHANGED pos

Continue(r, pc, p) ==
    /\ Goto(r, pc)
    /\ pos' = [pos EXCEPT ![r] = p]
    /\ UNCHANGED ans

\* Addresses in the shared cache are answered at once.
Ask(r, q) ==
    /\ rpc[r] = "idle"
    /\ query' = [query EXCEPT ![r] = q]
    /\ known' = [known EXCEPT ![r] = {s \in published : Contains(s, q)}]
    /\ calm' = [calm EXCEPT ![r] = wpc \in {"idle", "add", "start"}]
    /\ ans' = [ans EXCEPT ![r] = CacheAnswer[q]]
    /\ Goto(r, IF CacheAnswer[q] = "none" THEN "low" ELSE "idle")
    /\ UNCHANGED <<writerVars, pos>>

ReadLow(r) ==
    /\ rpc[r] = "low"
    /\ IF query[r].addr < lowest
       THEN Return(r, "no")
       ELSE Continue(r, "high", <<1, 1>>)
    /\ UNCHANGED <<writerVars, query, known, calm>>

ReadHigh(r) ==
    /\ rpc[r] = "high"
    /\ IF EndOf(query[r]) > highest
       THEN Return(r, "no")
       ELSE Continue(r, "used", <<1, 1>>)
    /\ UNCHANGED <<writerVars, query, known, calm>>

\* Is there another slot in this bucket, and is it in use?
ReadUsed(r) ==
    /\ rpc[r] = "used"
    /\ IF pos[r][2] \in DOMAIN buckets[pos[r][1]] /\ SlotOf(r).start # 0
       THEN Continue(r, "start", pos[r])
       ELSE Continue(r, "next", pos[r])
    /\ UNCHANGED <<writerVars, query, known, calm>>

NextSlot(r) == Continue(r, "used", <<pos[r][1], pos[r][2] + 1>>)

ReadStart(r) ==
    /\ rpc[r] = "start"
    /\ IF SlotOf(r).start <= query[r].addr
       THEN Continue(r, "end", pos[r])
       ELSE NextSlot(r)
    /\ UNCHANGED <<writerVars, query, known, calm>>

ReadEnd(r) ==
    /\ rpc[r] = "end"
    /\ IF SlotOf(r).end > EndOf(query[r]) THEN Return(r, "yes") ELSE NextSlot(r)
    /\ UNCHANGED <<writerVars, query, known, calm>>

\* (faulty variant: follows the link of the last bucket)
ReadNext_Always(r) ==
    /\ rpc[r] = "next"
    /\ Continue(r, "used", <<pos[r][1] + 1, 1>>)
    /\ UNCHANGED <<writerVars, query, known, calm>>

ReadNext(r) ==
    /\ rpc[r] = "next"
    /\ IF pos[r][1] < Len(buckets)
       THEN Continue(r, "used", <<pos[r][1] + 1, 1>>)
       ELSE Return(r, "no")
    /\ UNCHANGED <<writerVars, query, known, calm>>

-----------------------------------------------------------------------------

Init ==
    /\ loaded = {}
    /\ lowest = 0
    /\ highest = W - 1
    /\ buckets = <<[k \in 1..FirstSize |-> Empty]>>
    /\ wpc = "idle"
    /\ scan = {}
    /\ adding = {}
    /\ cur = Empty
    /\ slot = <<1, 1>>
    /\ published = {}
    /\ rpc = [r \in Readers |-> "idle"]
    /\ query = [r \in Readers |-> CHOOSE q \in Queries : TRUE]
    /\ pos = [r \in Readers |-> <<1, 1>>]
    /\ ans = [r \in Readers |-> "none"]
    /\ known = [r \in Readers |-> {}]
    /\ calm = [r \in Readers |-> FALSE]

Writer ==
    \/ \E i \in Images : Load(i) \/ Unload(i) \/ WidenLow(i)
    \/ ResetLow \/ ResetHigh \/ WidenHigh \/ BoundsDone \/ StoreStart
    \/ \E r \in adding : StoreEnd(r) \/ NewBucket(r)

Reader(r) ==
    \/ \E q \in Queries : Ask(r, q)
    \/ ReadLow(r) \/ ReadHigh(r) \/ ReadUsed(r) \/ ReadStart(r) \/ ReadEnd(r) \/ ReadNext(r)

Next == Writer \/ \E r \in Readers : Reader(r)

Spec == Init /\ [][Next]_vars

-----------------------------------------------------------------------------
(* Properties *)

Slot == [start : 0..(W - 1), end : 0..(W - 1)]

\* The kinds of value the state has; in particular a reader never leaves the
\* list of buckets, and compares only slots that exist and are in use.
TypeOK ==
    /\ loaded \subseteq Images
    /\ lowest \in 0..(W - 1)
    /\ highest \in 0..(W - 1)
    /\ buckets \in Seq([1..FirstSize -> Slot] \cup [1..NewSize -> Slot])
    /\ wpc \in {"idle", "low", "high", "scan", "widen", "add", "start"}
    /\ scan \subseteq Images
    /\ adding \subseteq AddrRange
    /\ wpc = "widen" => cur \in Images
    /\ wpc = "start" => cur \in AddrRange /\ slot \in Slots
    /\ published \subseteq AddrRange
    /\ rpc \in [Readers -> {"idle", "low", "high", "used", "start", "end", "next"}]
    /\ query \in [Readers -> Queries]
    /\ pos \in [Readers -> (1..Len(buckets)) \X (Nat \ {0})]
    /\ ans \in [Readers -> {"none", "yes", "no"}]
    /\ known \in [Readers -> SUBSET AddrRange]
    /\ calm \in [Readers -> BOOLEAN]
    /\ \A r \in Readers : rpc[r] \in {"start", "end"} =>
           pos[r][2] \in DOMAIN buckets[pos[r][1]] /\ SlotOf(r).start # 0

\* Callers ask about ranges that do not wrap around the address space.
NoWrap == \A q \in Queries : q.addr + q.len < W

\* A caller can rely on a yes for as long as the process lives: the range it
\* asked about lies in a read-only segment of an image that is loaded and will
\* never be unloaded (or in the cache), whatever the writer did between the
\* loads immutableMemory() makes.
YesIsImmutable ==
    \A r \in Readers : ans[r] = "yes" =>
        \/ CacheAnswer[query[r]] = "yes"
        \/ \E i \in loaded \cap NeverUnload : \E s \in ReadOnly[i] : Contains(s, query[r])

\* Memory in a range addImmutableRange() has returned for is found by every
\* query that starts later, in whatever bucket the range is, unless
\* recomputeBounds() runs between the query's start and its end, or the query
\* reaches the very end of every such range.  The second exception is the code's:
\* it wants the end of the range to lie beyond addr+length, so a whole
\* read-only segment is answered "no", against the words quoted below.
PublishedIsFound ==
    \A r \in Readers :
        rpc[r] = "idle" /\ ans[r] = "no" /\ CacheAnswer[query[r]] = "none" /\ calm[r] =>
            \A s \in known[r] : query[r].addr + query[r].len = s.end

\* The same without the exceptions: "Returns if the specified address range is
\* in a dyld owned memory that is mapped read-only and will never be unloaded"
\* (_dyld_is_memory_immutable).
ImmutableIsYes ==
    \A r \in Readers : rpc[r] = "idle" /\ ans[r] = "no" /\ CacheAnswer[query[r]] = "none" =>
        known[r] = {}

=============================================================================
