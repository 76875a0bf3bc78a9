-------------------------- MODULE ThreadEnd_proofs --------------------------
(****************************************************************************)
(* Proofs about what is left when a thread ends (ThreadLocalVariables), for *)
(* any images, keys, number of rounds and bounds.                           *)
(*                                                                          *)
(* ThreadLocalVariables_proofs shows where the objects not yet destroyed    *)
(* are: on the list of the terminators' key or on one that is walked.  Here *)
(* the clean-up is followed through the keys: behind the key it has reached *)
(* in a round there is only what a destructor of the program has made in    *)
(* that round, because the terminators' key is the first one.               *)
(****************************************************************************)
EXTENDS ThreadLocalVariables_proofs

-----------------------------------------------------------------------------
(* The inductive invariant. *)

HeapTypes ==
    /\ \A l \in 1..Len(lists) : lists[l].allocCount >= 1
                                /\ Len(lists[l].entries) <= lists[l].allocCount
    /\ \A b \in 1..Len(buffers) : buffers[b].key \in 1..Len(keys) /\ keys[buffers[b].key] \in Images
    /\ \A o \in 1..Len(objects) : objects[o].buffer \in 1..Len(buffers)
    /\ orphans \subseteq 1..Len(objects)
    /\ sets \in 0..MaxSets

\* What runs in each phase.  In the clean-up a list is walked by the destructor of
\* the first key, and the destructor of a key of the program is that of the last key
\* the clean-up has passed.
PhaseInv ==
    /\ phase \in {"run", "cleanup", "exit", "gone"}
    /\ phase \in {"run", "gone"} => stack = <<>>
    /\ phase \in {"run", "exit"} => round = 0
    /\ phase = "cleanup" => round \in 1..Iterations
    /\ phase = "gone" => round \in 0..Iterations
    /\ \A n \in 1..Len(stack) :
          /\ stack[n].kind = "walk" /\ phase = "cleanup" => pos = 2
          /\ stack[n].kind = "dtor" => phase = "cleanup" /\ pos > 1 /\ stack[n].at = pos - 1

\* Made in this round by the destructor of a key the clean-up has passed.
Late(made) == made.round = round /\ made.by \in 1..(pos - 1)

\* What the list at the head holds, unless a terminator is running, whose objects are
\* destroyed as soon as it returns.
HeadInv ==
    /\ phase = "cleanup" /\ pos > 1 /\ ~Doing("term") =>
          \A o \in 1..Len(objects) : OnHead(o) => Late(objects[o].made)
    /\ phase = "exit" /\ ~Doing("term") => value[1] = 0
    /\ phase = "gone" => \A o \in 1..Len(objects) : OnHead(o) => TooLate(objects[o].made)

\* A list that is not free is at the head or is walked.
ListsHeld ==
    \A l \in 1..Len(lists) : ~lists[l].freed =>
        l = value[1] \/ \E n \in 1..Len(stack) : stack[n].kind = "walk" /\ stack[n].at = l

\* A buffer that is not free is the value of its image's key.
BuffersHeld ==
    /\ \A k \in 1..Len(keys) : keys[k] \in Images /\ value[k] # 0 =>
          value[k] \in 1..Len(buffers) /\ buffers[value[k]].key = k /\ ~buffers[value[k]].freed
    /\ \A b \in 1..Len(buffers) : ~buffers[b].freed => value[buffers[b].key] = b

BuffersInv ==
    /\ phase = "cleanup" =>
          \A b \in 1..Len(buffers) : ~buffers[b].freed /\ buffers[b].key < pos => Late(buffers[b].made)
    /\ phase = "gone" /\ round > 0 =>
          \A b \in 1..Len(buffers) : ~buffers[b].freed => TooLate(buffers[b].made)

\* Made by the destructor of a key that lies before the one of its buffer.
Between(o) ==
    /\ objects[o].made.by # 0
    /\ objects[o].made.by < buffers[objects[o].buffer].key

OrphansInv ==
    /\ \A o \in 1..Len(objects) :
          ~Destroyed(o) /\ buffers[objects[o].buffer].freed => Between(o)
    /\ \A o \in orphans : Between(o)

EndInv == /\ HeapTypes /\ PhaseInv /\ HeadInv /\ ListsHeld /\ BuffersHeld /\ BuffersInv
          /\ OrphansInv

-----------------------------------------------------------------------------
(* What the steps have in common. *)

\* The types that are needed again and again.
LEMMA Basics ==
  ASSUME IInv
  PROVE  /\ TerminatorsKey = 1 /\ Len(keys) \in Nat /\ Len(keys) >= 1
         /\ DOMAIN keys = 1..Len(keys) /\ DOMAIN value = 1..Len(keys) /\ Len(value) = Len(keys)
         /\ \A k \in 1..Len(keys) : value[k] \in Nat
         /\ \A k \in 1..Len(keys) : keys[k] \in Images \cup UserKeys => k # 1
         /\ \A k \in 1..Len(keys) : keys[k] \in UserKeys => keys[k] \notin Images
         /\ Len(lists) \in Nat /\ value[1] \in 0..Len(lists)
         /\ Len(objects) \in Nat /\ Len(buffers) \in Nat /\ Len(stack) \in Nat
         /\ stack \in Seq(Frame) /\ buffers \in Seq(Buffer) /\ objects \in Seq(Object)
         /\ lists \in Seq(List)
         /\ \A b \in 1..Len(buffers) : buffers[b] \in Buffer
         /\ pos \in Nat \ {0} /\ round \in Nat
<1>1. /\ KeysInv /\ CleanupInv /\ HeapInv /\ StackInv
  BY DEF IInv, Shape
<1>2. TerminatorsKey = 1 /\ DOMAIN keys = DOMAIN value
  BY <1>1, FirstKey
<1>3. /\ Len(keys) \in Nat /\ Len(keys) >= 1 /\ DOMAIN keys = 1..Len(keys)
      /\ DOMAIN value = 1..Len(keys) /\ Len(value) = Len(keys)
      /\ \A k \in 1..Len(keys) : value[k] \in Nat
  BY <1>1 DEF KeysInv
<1>4. \A k \in 1..Len(keys) : keys[k] \in Images \cup UserKeys => k # 1
  BY <1>1, TlvAssumption DEF KeysInv
<1>5. \A k \in 1..Len(keys) : keys[k] \in UserKeys => keys[k] \notin Images
  BY TlvAssumption
<1>6. /\ Len(lists) \in Nat /\ value[1] \in 0..Len(lists)
      /\ Len(objects) \in Nat /\ Len(buffers) \in Nat /\ Len(stack) \in Nat
      /\ stack \in Seq(Frame) /\ buffers \in Seq(Buffer) /\ objects \in Seq(Object)
      /\ lists \in Seq(List) /\ pos \in Nat \ {0} /\ round \in Nat
  BY <1>1 DEF HeapInv, StackInv, CleanupInv
<1>7. \A b \in 1..Len(buffers) : buffers[b] \in Buffer
  BY <1>6
<1> QED BY <1>2, <1>3, <1>4, <1>5, <1>6, <1>7

\* What code of the program that runs can be, and what it makes.
LEMMA NowIs ==
  ASSUME IInv, EndInv, UserRuns
  PROVE  /\ Now \in Moment /\ phase \in {"run", "cleanup", "exit"}
         /\ phase = "cleanup" => \/ Doing("term") /\ pos = 2
                                 \/ ~Doing("term") /\ pos > 1 /\ Late(Now)
         /\ phase = "exit" => Doing("term")
<1>1. /\ stack \in Seq(Frame) /\ Len(stack) \in Nat /\ pos \in Nat \ {0} /\ round \in Nat
  BY Basics
<1>2. Now \in Moment
  BY WhenUserRuns
<1>3. CASE stack = <<>>
  BY <1>2, <1>3 DEF UserRuns, EndInv, PhaseInv
<1>4. CASE stack # <<>>
  <2> DEFINE n == Len(stack)
  <2>1. n \in 1..Len(stack) /\ Last(stack) = stack[n]
    BY <1>1, <1>4 DEF Last
  <2>2. stack[n].kind \in {"term", "dtor"}
    <3>1. stack[n].kind \in {"walk", "term", "dtor"}
      BY <2>1, Types DEF IInv, Shape
    <3> QED BY <1>4, <2>1, <3>1 DEF UserRuns, Doing
  <2>3. phase \in {"cleanup", "exit"}
    BY <1>4 DEF EndInv, PhaseInv
  <2>4. CASE stack[n].kind = "term"
    <3>1. Doing("term")
      BY <1>4, <2>1, <2>4 DEF Doing
    <3>2. n > 1 /\ stack[n - 1].kind = "walk"
      BY <2>1, <2>4 DEF IInv, Shape, StackInv
    <3>3. phase = "cleanup" => pos = 2
      BY <1>1, <3>2 DEF EndInv, PhaseInv
    <3> QED BY <1>2, <2>3, <3>1, <3>3
  <2>5. CASE stack[n].kind = "dtor"
    <3>1. ~Doing("term")
      BY <2>1, <2>5 DEF Doing
    <3>2. n = 1 /\ phase = "cleanup" /\ pos > 1 /\ stack[1].at = pos - 1
      BY <2>1, <2>5 DEF IInv, Shape, StackInv, EndInv, PhaseInv
    <3> DEFINE dtors == {m \in DOMAIN stack : stack[m].kind = "dtor"}
    <3>3. dtors = {1}
      BY <1>1, <2>5, <3>2
    <3>4. Max({1}) = 1
      BY DEF Max
    <3>5. Now = [round |-> round, by |-> stack[1].at]
      <4>1. Now = [round |-> round, by |-> IF dtors = {} THEN 0 ELSE stack[Max(dtors)].at]
        BY DEF Now
      <4> HIDE DEF dtors
      <4>2. dtors # {} /\ Max(dtors) = 1
        BY <3>3, <3>4
      <4> QED BY <4>1, <4>2
    <3>6. Now.round = round /\ Now.by = pos - 1
      BY <3>2, <3>5
    <3>7. Late(Now)
      BY <1>1, <3>2, <3>6 DEF Late
    <3> QED BY <1>2, <3>1, <3>2, <3>7
  <2> QED BY <2>2, <2>4, <2>5
<1> QED BY <1>3, <1>4

\* A step that leaves the buffers and the objects alone, and the values of the images'
\* keys with them.
LEMMA HeapKept ==
  ASSUME IInv, EndInv, UNCHANGED <<keys, buffers, objects, sets>>, DOMAIN value' = DOMAIN value,
         \A k \in 1..Len(keys) : keys[k] \in Images => value'[k] = value[k],
         Len(lists') = Len(lists),
         \A l \in 1..Len(lists) : /\ lists'[l].allocCount = lists[l].allocCount
                                  /\ lists'[l].entries = lists[l].entries
  PROVE  /\ BuffersHeld'
         /\ orphans' \subseteq 1..Len(objects) => HeapTypes'
         /\ UNCHANGED <<ran, orphans>> => OrphansInv'
<1>1. BuffersHeld'
  <2>1. \A b \in 1..Len(buffers) : buffers[b].key \in 1..Len(keys) /\ keys[buffers[b].key] \in Images
    BY DEF EndInv, HeapTypes
  <2> QED BY <2>1 DEF EndInv, BuffersHeld
<1>2. ASSUME orphans' \subseteq 1..Len(objects) PROVE HeapTypes'
  BY <1>2 DEF EndInv, HeapTypes
<1>3. ASSUME UNCHANGED <<ran, orphans>> PROVE OrphansInv'
  BY <1>3 DEF EndInv, OrphansInv, Destroyed, Between
<1> QED BY <1>1, <1>2, <1>3

-----------------------------------------------------------------------------
(* Code of the program. *)

\* A key is allocated, or a key of the program is given a value.
LEMMA EndKeys ==
  ASSUME IInv, EndInv,
         \/ \E name \in Images \cup UserKeys : KeyCreate(name) /\ phase # "gone" /\ sets' = sets
         \/ \E k \in DOMAIN keys : SetUserValue(k),
         UNCHANGED <<lists, buffers, history, stack, phase, round, pos>>
  PROVE  EndInv'
<1>1. /\ Len(keys) \in Nat /\ DOMAIN keys = 1..Len(keys) /\ Len(value) = Len(keys)
      /\ DOMAIN value = 1..Len(keys) /\ Len(keys) >= 1
      /\ \A k \in 1..Len(keys) : keys[k] \in UserKeys => k # 1 /\ keys[k] \notin Images
      /\ value \in Seq(Nat) /\ keys \in Seq({"terminators"} \cup Images \cup UserKeys)
  BY Basics DEF IInv, Shape, KeysInv
<1>2. /\ Len(keys') \in Nat /\ Len(keys) <= Len(keys')
      /\ \A k \in 1..Len(keys) : /\ keys'[k] = keys[k]
                                 /\ keys[k] \in Images \/ k = 1 => value'[k] = value[k]
      /\ \A k \in 1..Len(keys') : k \notin 1..Len(keys) => value'[k] = 0
      /\ sets' \in 0..MaxSets
  <2>1. ASSUME NEW name, KeyCreate(name), sets' = sets
        PROVE  /\ Len(keys') = Len(keys) + 1
               /\ \A k \in 1..Len(keys) : keys'[k] = keys[k] /\ value'[k] = value[k]
               /\ value'[Len(keys) + 1] = 0
               /\ sets' \in 0..MaxSets
    BY <1>1, <2>1 DEF KeyCreate, EndInv, HeapTypes
  <2>2. ASSUME NEW k \in DOMAIN keys, SetUserValue(k)
        PROVE  /\ keys' = keys /\ \A j \in 1..Len(keys) : j # k => value'[j] = value[j]
               /\ k # 1 /\ keys[k] \notin Images
               /\ sets' \in 0..MaxSets
    BY <1>1, <2>2, TlvAssumption DEF SetUserValue, EndInv, HeapTypes
  <2>3. CASE \E name \in Images \cup UserKeys : KeyCreate(name) /\ phase # "gone" /\ sets' = sets
    BY <1>1, <2>1, <2>3
  <2>4. CASE \E k \in DOMAIN keys : SetUserValue(k)
    BY <1>1, <2>2, <2>4
  <2> QED BY <2>3, <2>4
<1>3. UNCHANGED <<objects, ran, orphans>>
  BY DEF history
<1>4. value'[1] = value[1]
  BY <1>1, <1>2
<1>5. HeapTypes'
  BY <1>1, <1>2, <1>3 DEF EndInv, HeapTypes
<1>6. PhaseInv' /\ ListsHeld' /\ OrphansInv' /\ BuffersInv'
  BY <1>3, <1>4 DEF EndInv, PhaseInv, ListsHeld, OrphansInv, BuffersInv, Destroyed, Between, Late, TooLate
<1>7. HeadInv'
  BY <1>3, <1>4 DEF EndInv, HeadInv, OnHead, Late, Doing, TooLate
<1>8. BuffersHeld'
  BY <1>1, <1>2 DEF EndInv, HeapTypes, BuffersHeld
<1> QED BY <1>5, <1>6, <1>7, <1>8 DEF EndInv

\* The first use of a variable of the image.
LEMMA EndAllocate ==
  ASSUME IInv, EndInv, NEW k \in DOMAIN keys, AllocateForKey(k)
  PROVE  EndInv'
<1> DEFINE n == Len(buffers) + 1
           x == [key |-> k, freed |-> FALSE, made |-> Now]
<1>1. /\ Len(keys) \in Nat /\ DOMAIN keys = 1..Len(keys) /\ DOMAIN value = 1..Len(keys)
      /\ \A j \in 1..Len(keys) : value[j] \in Nat /\ (keys[j] \in Images => j # 1)
      /\ Len(buffers) \in Nat /\ pos \in Nat \ {0} /\ buffers \in Seq(Buffer)
      /\ 1 \in 1..Len(keys)
  BY Basics
<1>2. /\ UserRuns /\ keys[k] \in Images /\ value[k] = 0 /\ k \in 1..Len(keys) /\ k # 1
      /\ buffers' = Append(buffers, x) /\ value' = [value EXCEPT ![k] = n]
      /\ UNCHANGED <<keys, lists, objects, ran, orphans, stack, phase, round, pos, sets>>
  BY <1>1 DEF AllocateForKey, ImageKeys, history
<1>3. /\ phase \in {"run", "cleanup", "exit"} /\ Now \in Moment
      /\ phase = "cleanup" /\ k < pos => Late(Now)
  <2>1. /\ Now \in Moment /\ phase \in {"run", "cleanup", "exit"}
        /\ phase = "cleanup" => \/ Doing("term") /\ pos = 2
                                \/ ~Doing("term") /\ pos > 1 /\ Late(Now)
    BY <1>2, NowIs
  <2> QED BY <1>2, <2>1
<1>4. x.key = k /\ x.freed = FALSE /\ x.made = Now /\ x \in Buffer
  BY <1>2, <1>3 DEF Buffer
<1> HIDE DEF x
<1>5. /\ Len(buffers') = n /\ buffers'[n] = x
      /\ \A b \in 1..Len(buffers) : buffers'[b] = buffers[b]
  BY <1>1, <1>2, <1>4
<1>6. \A b \in 1..n : b \in 1..Len(buffers) \/ b = n
  BY <1>1
<1>7. \A j \in 1..Len(keys) : value'[j] = IF j = k THEN n ELSE value[j]
  BY <1>1, <1>2
<1>8. HeapTypes'
  <2>1. \A o \in 1..Len(objects) : objects[o].buffer \in 1..Len(buffers')
    BY <1>1, <1>5 DEF EndInv, HeapTypes
  <2>2. \A b \in 1..Len(buffers') : buffers'[b].key \in 1..Len(keys) /\ keys[buffers'[b].key] \in Images
    BY <1>2, <1>4, <1>5, <1>6 DEF EndInv, HeapTypes
  <2> QED BY <1>2, <2>1, <2>2 DEF EndInv, HeapTypes
<1>9. PhaseInv' /\ ListsHeld' /\ HeadInv'
  <2>1. value'[1] = value[1]
    BY <1>1, <1>2, <1>7
  <2> QED BY <1>2, <2>1 DEF EndInv, PhaseInv, ListsHeld, HeadInv, OnHead, Late, Doing, TooLate
<1>10. BuffersHeld'
  <2>1. ASSUME NEW j \in 1..Len(keys), keys[j] \in Images, value'[j] # 0
        PROVE  /\ value'[j] \in 1..Len(buffers') /\ buffers'[value'[j]].key = j
               /\ ~buffers'[value'[j]].freed
    <3>1. CASE j = k
      BY <1>1, <1>4, <1>5, <1>7, <3>1
    <3>2. CASE j # k
      <4>1. value'[j] = value[j] /\ value[j] \in 1..Len(buffers)
        BY <1>7, <2>1, <3>2 DEF EndInv, BuffersHeld
      <4> QED BY <1>1, <1>5, <2>1, <4>1 DEF EndInv, BuffersHeld
    <3> QED BY <3>1, <3>2
  <2>2. ASSUME NEW b \in 1..Len(buffers'), ~buffers'[b].freed
        PROVE  value'[buffers'[b].key] = b
    <3>1. CASE b = n
      BY <1>2, <1>4, <1>5, <1>7, <3>1
    <3>2. CASE b \in 1..Len(buffers)
      <4>1. value[buffers[b].key] = b /\ buffers[b].key \in 1..Len(keys)
        BY <1>5, <2>2, <3>2 DEF EndInv, BuffersHeld, HeapTypes
      <4> QED BY <1>1, <1>2, <1>5, <1>7, <3>2, <4>1
    <3> QED BY <1>5, <1>6, <3>1, <3>2
  <2> QED BY <1>2, <2>1, <2>2 DEF BuffersHeld
<1>11. BuffersInv'
  <2>1. ASSUME phase = "cleanup", NEW b \in 1..Len(buffers'), ~buffers'[b].freed, buffers'[b].key < pos
        PROVE  Late(buffers'[b].made)
    BY <1>3, <1>4, <1>5, <1>6, <2>1 DEF EndInv, BuffersInv
  <2> QED BY <1>2, <1>3, <2>1 DEF BuffersInv, Late
<1>12. OrphansInv'
  BY <1>2, <1>5 DEF EndInv, HeapTypes, OrphansInv, Destroyed, Between
<1> QED BY <1>8, <1>9, <1>10, <1>11, <1>12 DEF EndInv

\* The list _tlv_atexit() appends to has room, and one that was full is freed when its
\* copy takes its place.
LEMMA AtexitRoom ==
  ASSUME IInv, EndInv, NEW k \in DOMAIN keys, Atexit(k)
  PROVE  /\ \A l \in 1..Len(lists') : /\ lists'[l].allocCount >= 1
                                      /\ Len(lists'[l].entries) <= lists'[l].allocCount
         /\ value[1] # 0 /\ value'[1] # value[1] => lists'[value[1]].freed
<1> DEFINE l == value[1]
           o == Len(objects) + 1
           n == Len(lists) + 1
<1>1. /\ TerminatorsKey = 1 /\ 1 \in DOMAIN value /\ Len(objects) \in Nat
      /\ lists \in Seq(List) /\ Len(lists) \in Nat /\ l \in 0..Len(lists)
  BY Basics
<1>2. \A j \in 1..Len(lists) : /\ lists[j] \in List /\ Len(lists[j].entries) \in Nat
                               /\ lists[j].allocCount \in Nat
                               /\ lists[j].allocCount >= 1
                               /\ Len(lists[j].entries) <= lists[j].allocCount
                               /\ lists[j].entries \in Seq(Nat)
  BY <1>1, Types DEF EndInv, HeapTypes, IInv, Shape
<1>3. CASE l = 0 /\ NewList(o)
  <2> DEFINE new == [allocCount |-> 1, freed |-> FALSE, entries |-> <<o>>]
  <2>1. new.allocCount = 1 /\ Len(new.entries) = 1
    OBVIOUS
  <2>2. lists' = Append(lists, new)
    BY <1>3 DEF NewList
  <2> HIDE DEF new
  <2>3. Len(lists') = n /\ lists'[n] = new /\ \A j \in 1..Len(lists) : lists'[j] = lists[j]
    BY <1>1, <2>2
  <2>4. \A j \in 1..n : j \in 1..Len(lists) \/ j = n
    BY <1>1
  <2>5. \A j \in 1..Len(lists) : /\ lists'[j].allocCount >= 1
                                 /\ Len(lists'[j].entries) <= lists'[j].allocCount
    BY <1>2, <2>3
  <2> HIDE DEF n
  <2>6. lists'[n].allocCount = 1 /\ Len(lists'[n].entries) = 1
    BY <2>1, <2>3, Zenon
  <2>7. lists'[n].allocCount >= 1 /\ Len(lists'[n].entries) <= lists'[n].allocCount
    BY <2>6
  <2>8. \A j \in 1..Len(lists') : /\ lists'[j].allocCount >= 1
                                  /\ Len(lists'[j].entries) <= lists'[j].allocCount
    BY <2>3, <2>4, <2>5, <2>7, Zenon
  <2> QED BY <1>3, <2>8
<1>4. CASE l # 0 /\ Len(lists[l].entries) = lists[l].allocCount /\ GrowList(l, o)
  <2> DEFINE old == [lists[l] EXCEPT !.freed = TRUE]
             ls  == [lists EXCEPT ![l] = old]
             new == [allocCount |-> 2 * lists[l].allocCount, freed |-> FALSE,
                     entries |-> Append(lists[l].entries, o)]
  <2>0. l \in 1..Len(lists) /\ lists[l] \in List
    BY <1>1, <1>2, <1>4
  <2>1. /\ old.entries = lists[l].entries /\ old.allocCount = lists[l].allocCount /\ old.freed
        /\ old \in List
    BY <2>0 DEF List
  <2>2. new.allocCount >= 1 /\ Len(new.entries) <= new.allocCount
    <3>1. Len(Append(lists[l].entries, o)) = Len(lists[l].entries) + 1
      BY <1>2, <2>0
    <3> QED BY <1>2, <1>4, <2>0, <3>1
  <2>3. lists' = Append(ls, new)
    BY <1>4 DEF GrowList
  <2> HIDE DEF old, new
  <2>4. /\ ls \in Seq(List) /\ Len(ls) = Len(lists)
        /\ \A j \in 1..Len(lists) : ls[j] = IF j = l THEN old ELSE lists[j]
    BY <1>1, <2>0, <2>1
  <2> HIDE DEF ls
  <2>5. /\ Len(lists') = n /\ lists'[n] = new
        /\ \A j \in 1..Len(lists) : lists'[j] = IF j = l THEN old ELSE lists[j]
    BY <1>1, <2>3, <2>4
  <2>6. \A j \in 1..n : j \in 1..Len(lists) \/ j = n
    BY <1>1
  <2>7. \A j \in 1..Len(lists) : /\ lists'[j].entries = lists[j].entries
                                 /\ lists'[j].allocCount = lists[j].allocCount
    BY <2>1, <2>5
  <2>8. \A j \in 1..Len(lists) : /\ lists'[j].allocCount >= 1
                                 /\ Len(lists'[j].entries) <= lists'[j].allocCount
    BY <1>2, <2>7
  <2>9. lists'[l].freed
    BY <2>0, <2>1, <2>5
  <2> QED BY <2>2, <2>5, <2>6, <2>8, <2>9
<1>5. CASE /\ l # 0 /\ Len(lists[l].entries) < lists[l].allocCount
           /\ lists' = [lists EXCEPT ![l].entries = Append(@, o)] /\ UNCHANGED value
  <2> DEFINE new == [lists[l] EXCEPT !.entries = Append(lists[l].entries, o)]
  <2>0. l \in 1..Len(lists) /\ lists[l] \in List
    BY <1>1, <1>2, <1>5
  <2>1. /\ new.entries = Append(lists[l].entries, o) /\ new.allocCount = lists[l].allocCount
    BY <2>0 DEF List
  <2>2. Len(new.entries) <= new.allocCount /\ new.allocCount >= 1
    <3>1. Len(Append(lists[l].entries, o)) = Len(lists[l].entries) + 1
      BY <1>2, <2>0
    <3> QED BY <1>2, <1>5, <2>0, <2>1, <3>1
  <2>3. lists' = [lists EXCEPT ![l] = new]
    BY <1>5
  <2> HIDE DEF new
  <2>4. /\ Len(lists') = Len(lists)
        /\ \A j \in 1..Len(lists) : lists'[j] = IF j = l THEN new ELSE lists[j]
    BY <1>1, <2>0, <2>3
  <2> QED BY <1>2, <1>5, <2>2, <2>4
<1> QED BY <1>1, <1>3, <1>4, <1>5 DEF Atexit

\* An object is registered.
LEMMA EndAtexit ==
  ASSUME IInv, EndInv, NEW k \in DOMAIN keys, Atexit(k)
  PROVE  EndInv'
<1> DEFINE n == Len(objects) + 1
           x == [buffer |-> value[k], made |-> Now]
<1>1. /\ TerminatorsKey = 1 /\ Len(keys) \in Nat /\ DOMAIN keys = 1..Len(keys)
      /\ DOMAIN value = 1..Len(keys) /\ 1 \in DOMAIN value
      /\ \A j \in 1..Len(keys) : value[j] \in Nat /\ (keys[j] \in Images => j # 1)
      /\ Len(objects) \in Nat /\ Len(lists) \in Nat /\ value[1] \in 0..Len(lists)
      /\ objects \in Seq(Object)
  BY Basics
<1>2. /\ UserRuns /\ keys[k] \in Images /\ value[k] # 0 /\ k \in 1..Len(keys)
      /\ objects' = Append(objects, x)
      /\ UNCHANGED <<keys, buffers, ran, orphans, stack, phase, round, pos, sets>>
  BY <1>1 DEF Atexit, ImageKeys
<1>3. PICK h \in Nat : HeadGains(h) /\ (value' = value \/ value' = [value EXCEPT ![1] = h])
  BY <1>1, AtexitGains
<1>4. /\ \A l \in 1..Len(lists') : /\ lists'[l].allocCount >= 1
                                   /\ Len(lists'[l].entries) <= lists'[l].allocCount
      /\ value[1] # 0 /\ value'[1] # value[1] => lists'[value[1]].freed
  BY AtexitRoom
<1>5. /\ Now \in Moment /\ phase \in {"run", "cleanup", "exit"}
      /\ phase = "cleanup" => \/ Doing("term") /\ pos = 2
                              \/ ~Doing("term") /\ pos > 1 /\ Late(Now)
      /\ phase = "exit" => Doing("term")
  BY <1>2, NowIs
<1>6. /\ value[k] \in 1..Len(buffers) /\ ~buffers[value[k]].freed
  BY <1>2 DEF EndInv, BuffersHeld
<1>7. x.buffer = value[k] /\ x.made = Now /\ x \in Object
  BY <1>1, <1>2, <1>5 DEF Object
<1> HIDE DEF x
<1>8. /\ Len(objects') = n /\ objects'[n] = x
      /\ \A o \in 1..Len(objects) : objects'[o] = objects[o]
      /\ \A o \in 1..n : o \in 1..Len(objects) \/ o = n
  BY <1>1, <1>2, <1>7
<1>9. \A j \in 1..Len(keys) : keys[j] \in Images => value'[j] = value[j]
  BY <1>1, <1>3
<1>10. HeapTypes'
  <2>1. \A o \in 1..Len(objects') : objects'[o].buffer \in 1..Len(buffers)
    BY <1>6, <1>7, <1>8 DEF EndInv, HeapTypes
  <2>2. orphans \subseteq 1..Len(objects')
    BY <1>1, <1>8 DEF EndInv, HeapTypes
  <2> QED BY <1>2, <1>4, <2>1, <2>2 DEF EndInv, HeapTypes
<1>11. PhaseInv'
  BY <1>2 DEF EndInv, PhaseInv
<1>12. BuffersHeld' /\ BuffersInv'
  <2>1. \A b \in 1..Len(buffers) : buffers[b].key \in 1..Len(keys) /\ keys[buffers[b].key] \in Images
    BY DEF EndInv, HeapTypes
  <2> QED BY <1>2, <1>9, <2>1 DEF EndInv, BuffersHeld, BuffersInv, Late, TooLate
<1>13. ListsHeld'
  <2> SUFFICES ASSUME NEW l \in 1..Len(lists'), ~lists'[l].freed
               PROVE  l = value'[1] \/ \E m \in 1..Len(stack) : stack[m].kind = "walk" /\ stack[m].at = l
    BY <1>2 DEF ListsHeld
  <2>1. value'[1] = h /\ (l # h => l \in 1..Len(lists))
        /\ (l \in 1..Len(lists) /\ l # value[1] => lists'[l] = lists[l])
    BY <1>1, <1>3 DEF HeadGains
  <2>2. CASE l = h
    BY <2>1, <2>2
  <2>3. CASE l # h
    <3>1. l # value[1]
      BY <1>1, <1>4, <2>1, <2>3
    <3> QED BY <2>1, <2>3, <3>1 DEF EndInv, ListsHeld
  <2> QED BY <2>2, <2>3
<1>14. HeadInv'
  <2>1. CASE phase = "cleanup" /\ ~Doing("term")
    <3> SUFFICES ASSUME NEW o \in 1..n, OnHead(o)' PROVE Late(objects'[o].made)
      BY <1>2, <1>8, <2>1 DEF HeadInv, Late, Doing
    <3>1. CASE o = n
      BY <1>5, <1>7, <1>8, <2>1, <3>1
    <3>2. CASE o \in 1..Len(objects)
      <4>1. value'[1] = h /\ lists'[h].entries = Append(HeadEntries, n)
        BY <1>3 DEF HeadGains
      <4>2. PICK i \in 1..Len(lists'[h].entries) : lists'[h].entries[i] = o
        BY <4>1 DEF OnHead
      <4>3. HeadEntries \in Seq(Nat)
        <5>1. value[1] # 0 => lists[value[1]].entries \in Seq(Nat)
          BY <1>1, Types DEF IInv, Shape
        <5> QED BY <5>1 DEF HeadEntries
      <4>4. i \in 1..Len(HeadEntries) /\ HeadEntries[i] = o
        <5> DEFINE e == HeadEntries
        <5>1. e \in Seq(Nat) /\ i \in 1..Len(Append(e, n)) /\ Append(e, n)[i] = o /\ o # n
          BY <1>1, <3>2, <4>1, <4>2, <4>3
        <5> HIDE DEF e, n
        <5>a. n \in Nat
          BY <1>1 DEF n
        <5>b. /\ Len(e) \in Nat /\ Len(Append(e, n)) = Len(e) + 1
              /\ Append(e, n)[Len(e) + 1] = n
              /\ \A j \in 1..Len(e) : Append(e, n)[j] = e[j]
          BY <5>1, <5>a
        <5>2. i \in 1..Len(e) /\ e[i] = o
          BY <5>1, <5>b
        <5> QED BY <5>2 DEF e
      <4>5. value[1] # 0 /\ HeadEntries = lists[value[1]].entries
        BY <4>4 DEF HeadEntries
      <4>6. OnHead(o)
        BY <4>4, <4>5 DEF OnHead
      <4>7. Late(objects[o].made)
        BY <1>5, <2>1, <3>2, <4>6 DEF EndInv, HeadInv
      <4> QED BY <1>8, <3>2, <4>7
    <3> QED BY <1>8, <3>1, <3>2
  <2>2. CASE ~(phase = "cleanup" /\ ~Doing("term"))
    BY <1>2, <1>5, <2>2 DEF HeadInv, Doing
  <2> QED BY <2>1, <2>2
<1>15. OrphansInv'
  <2>1. ASSUME NEW o \in 1..n, ~Destroyed(o), buffers[objects'[o].buffer].freed
        PROVE  o \in 1..Len(objects) /\ objects'[o] = objects[o] /\ Between(o)
    BY <1>6, <1>7, <1>8, <2>1 DEF EndInv, OrphansInv
  <2>2. \A o \in orphans : o \in 1..Len(objects) /\ Between(o)
    BY DEF EndInv, OrphansInv, HeapTypes
  <2> QED BY <1>2, <1>8, <2>1, <2>2 DEF OrphansInv, Between, Destroyed
<1> QED BY <1>10, <1>11, <1>12, <1>13, <1>14, <1>15 DEF EndInv

\* The destructor of a key of the program returns.
LEMMA EndDtorReturns ==
  ASSUME IInv, EndInv, DtorReturns
  PROVE  EndInv'
<1>1. /\ stack \in Seq(Frame) /\ Len(stack) \in Nat /\ Len(lists) \in Nat
      /\ Len(objects) \in Nat
  BY Basics
<1>2. /\ stack # <<>> /\ stack[Len(stack)].kind = "dtor" /\ stack' = Front(stack)
      /\ UNCHANGED <<keys, value, lists, buffers, objects, ran, orphans, phase, round, pos, sets>>
  BY DEF DtorReturns, Doing, Last, history
<1>3. Len(stack) = 1 /\ stack[1].kind = "dtor"
  BY <1>1, <1>2 DEF IInv, Shape, StackInv
<1>4. stack' = <<>>
  <2>1. stack' \in Seq(Frame) /\ Len(stack') = 0
    BY <1>1, <1>2, <1>3, PushedPopped
  <2> QED BY <2>1
<1>5. phase = "cleanup" /\ pos > 1
  BY <1>3 DEF EndInv, PhaseInv
<1>6. HeapTypes' /\ BuffersHeld' /\ OrphansInv'
  BY <1>2, HeapKept DEF EndInv, HeapTypes
<1>7. PhaseInv'
  BY <1>2, <1>4, <1>5 DEF EndInv, PhaseInv
<1>8. HeadInv'
  <2>1. ~Doing("term")
    BY <1>2 DEF Doing, Last
  <2>2. \A o \in 1..Len(objects) : OnHead(o) => Late(objects[o].made)
    BY <1>5, <2>1 DEF EndInv, HeadInv
  <2> QED BY <1>2, <1>5, <2>2 DEF HeadInv, OnHead, Late
<1>9. ListsHeld'
  BY <1>2, <1>3 DEF EndInv, ListsHeld
<1>10. BuffersInv'
  BY <1>2 DEF EndInv, BuffersInv, Late, TooLate
<1> QED BY <1>6, <1>7, <1>8, <1>9, <1>10 DEF EndInv

-----------------------------------------------------------------------------
(* tlv_finalize_list() *)

\* A terminator is called: its object was not destroyed before, so what was known of
\* the objects whose buffer is free holds for it.
LEMMA EndCallTerminator ==
  ASSUME IInv, EndInv, CallTerminator
  PROVE  EndInv'
<1> DEFINE top == Len(stack)
           o   == NextEntry(Last(stack))
<1>1. /\ stack \in Seq(Frame) /\ top \in Nat /\ Len(objects) \in Nat
  BY Basics
<1>2. /\ stack # <<>> /\ stack[top].kind = "walk" /\ stack[top].left > 0
      /\ ran' = Append(ran, o) /\ stack' = Append(stack, Term)
      /\ orphans' = IF buffers[objects[o].buffer].freed THEN orphans \cup {o} ELSE orphans
      /\ UNCHANGED <<keys, value, lists, buffers, objects, phase, round, pos, sets>>
  BY DEF CallTerminator, Doing, Last
<1>3. top \in 1..top
  BY <1>1, <1>2
<1>4. /\ stack[top].at \in 1..Len(lists) /\ stack[top].left \in Nat
      /\ stack[top].left <= Len(lists[stack[top].at].entries)
      /\ Len(lists[stack[top].at].entries) \in Nat
  BY <1>2, <1>3, Types DEF IInv, Shape, StackInv
<1>5. o = lists[stack[top].at].entries[stack[top].left]
  BY DEF NextEntry, Last
<1> HIDE DEF o
<1>i. stack[top].left \in 1..Len(lists[stack[top].at].entries)
  BY <1>2, <1>4
<1>6. o \in 1..Len(objects)
  BY <1>4, <1>5, <1>i DEF IInv, Shape, EntriesInv
<1>7. ~Destroyed(o)
  <2>1. ToDo(top) = stack[top].left
    BY <1>1, <1>2 DEF ToDo
  <2>2. OnWalk(o)
    <3>1. stack[top].left \in 1..ToDo(top)
      BY <1>2, <1>4, <2>1
    <3> QED BY <1>2, <1>3, <1>5, <3>1 DEF OnWalk
  <2> QED BY <1>6, <2>2 DEF IInv, Order, Accounted
<1>8. /\ Len(stack') = top + 1 /\ stack'[top + 1] = Term
      /\ \A n \in 1..top : stack'[n] = stack[n]
  <2>1. Term \in Frame
    BY DEF Term, Frame
  <2> QED BY <1>1, <1>2, <2>1, PushedPopped
<1>9. Doing("term")' /\ Term.kind = "term"
  BY <1>1, <1>2, <1>8 DEF Doing, Last, Term
<1>10. phase \notin {"run", "gone"}
  BY <1>2 DEF EndInv, PhaseInv
<1>11. HeapTypes' /\ BuffersHeld'
  <2>1. orphans' \subseteq 1..Len(objects)
    BY <1>2, <1>6 DEF EndInv, HeapTypes
  <2> QED BY <1>2, <2>1, HeapKept
<1>12. PhaseInv'
  <2>1. \A n \in 1..Len(stack') : n \in 1..top \/ stack'[n].kind = "term"
    BY <1>1, <1>8, <1>9
  <2>2. \A n \in 1..Len(stack') :
          /\ stack'[n].kind = "walk" /\ phase = "cleanup" => pos = 2
          /\ stack'[n].kind = "dtor" => phase = "cleanup" /\ pos > 1 /\ stack'[n].at = pos - 1
    BY <1>8, <2>1 DEF EndInv, PhaseInv
  <2> QED BY <1>2, <1>10, <2>2 DEF EndInv, PhaseInv
<1>13. HeadInv'
  BY <1>2, <1>9, <1>10 DEF HeadInv
<1>14. ListsHeld'
  <2> SUFFICES ASSUME NEW l \in 1..Len(lists), ~lists[l].freed, l # value[1]
               PROVE  \E n \in 1..Len(stack') : stack'[n].kind = "walk" /\ stack'[n].at = l
    BY <1>2 DEF ListsHeld
  <2>1. PICK n \in 1..top : stack[n].kind = "walk" /\ stack[n].at = l
    BY DEF EndInv, ListsHeld
  <2>2. n \in 1..Len(stack') /\ stack'[n] = stack[n]
    BY <1>1, <1>8
  <2> QED BY <2>1, <2>2
<1>15. BuffersInv'
  BY <1>2 DEF EndInv, BuffersInv, Late, TooLate
<1>16. OrphansInv'
  <2>1. \A p : Destroyed(p) => Destroyed(p)'
    <3>1. ran \in Seq(Nat) /\ Len(ran) \in Nat
      BY DEF IInv, Shape, HeapInv
    <3>2. o \in Nat
      BY <1>6
    <3>3. Len(ran') = Len(ran) + 1 /\ \A n \in 1..Len(ran) : ran'[n] = ran[n]
      BY <1>2, <3>1, <3>2
    <3> QED BY <3>1, <3>3 DEF Destroyed
  <2>2. \A p \in 1..Len(objects) :
          ~Destroyed(p)' /\ buffers[objects[p].buffer].freed => Between(p)
    BY <2>1 DEF EndInv, OrphansInv
  <2>3. \A p \in orphans' : Between(p)
    BY <1>2, <1>6, <1>7 DEF EndInv, OrphansInv
  <2> QED BY <1>2, <2>2, <2>3 DEF OrphansInv, Between
<1> QED BY <1>11, <1>12, <1>13, <1>14, <1>15, <1>16 DEF EndInv

\* The list at the head, if there is one, becomes the innermost that is walked, over
\* the lists that were walked before.
LEMMA EndTaken ==
  ASSUME IInv, EndInv, UNCHANGED <<lists, objects>>, value'[1] = 0,
         NEW s \in Seq(Frame),
         \A n \in 1..Len(s) : s[n].kind = "walk",
         \A n \in 1..Len(stack) : stack[n].kind = "walk" => n \in 1..Len(s) /\ s[n].at = stack[n].at,
         stack' = IF value[1] = 0 THEN s
                  ELSE Append(s, Walk(value[1], Len(lists[value[1]].entries)))
  PROVE  /\ ListsHeld'
         /\ \A n \in 1..Len(stack') : stack'[n].kind = "walk"
         /\ stack' = <<>> => s = <<>>
         /\ phase' # "gone" => HeadInv'
<1> DEFINE w == Walk(value[1], Len(lists[value[1]].entries))
<1>0. Len(s) \in Nat
  OBVIOUS
<1>1. value[1] \in 0..Len(lists) /\ Len(lists) \in Nat /\ Len(stack) \in Nat
  BY Basics
<1>2. value[1] # 0 => w \in Frame /\ w.kind = "walk" /\ w.at = value[1]
  <2>1. value[1] # 0 => Len(lists[value[1]].entries) \in Nat
    BY <1>1, Types DEF IInv, Shape
  <2> QED BY <1>1, <2>1 DEF Walk, Frame
<1>3. stack' = IF value[1] = 0 THEN s ELSE Append(s, w)
  OBVIOUS
<1> HIDE DEF w
<1>4. /\ value[1] # 0 => Len(stack') = Len(s) + 1 /\ stack'[Len(s) + 1] = w
      /\ value[1] = 0 => Len(stack') = Len(s)
      /\ \A n \in 1..Len(s) : stack'[n] = s[n]
  BY <1>2, <1>3, PushedPopped
<1>5. \A n \in 1..Len(stack') : stack'[n].kind = "walk"
  <2> SUFFICES ASSUME NEW n \in 1..Len(stack') PROVE stack'[n].kind = "walk"
    OBVIOUS
  <2>1. n \in 1..Len(s) \/ (value[1] # 0 /\ n = Len(s) + 1)
    BY <1>0, <1>4
  <2> QED BY <1>2, <1>4, <2>1
<1>6. ListsHeld'
  <2> SUFFICES ASSUME NEW l \in 1..Len(lists), ~lists[l].freed
               PROVE  \E n \in 1..Len(stack') : stack'[n].at = l
    BY <1>5 DEF ListsHeld
  <2>1. CASE l = value[1]
    <3>1. value[1] # 0
      BY <1>1, <2>1
    <3>2. Len(s) + 1 \in 1..Len(stack')
      BY <1>0, <1>4, <3>1
    <3> QED BY <1>2, <1>4, <2>1, <3>1, <3>2
  <2>2. CASE l # value[1]
    <3>1. PICK n \in 1..Len(stack) : stack[n].kind = "walk" /\ stack[n].at = l
      BY <2>2 DEF EndInv, ListsHeld
    <3>2. n \in 1..Len(s) /\ s[n].at = l
      BY <3>1
    <3>3. n \in 1..Len(stack') /\ stack'[n] = s[n]
      BY <1>0, <1>4, <3>2
    <3> QED BY <3>2, <3>3
  <2> QED BY <2>1, <2>2
<1>7. stack' = <<>> => s = <<>>
  BY <1>0, <1>4
<1>8. ASSUME phase' # "gone" PROVE HeadInv'
  BY <1>8 DEF HeadInv, OnHead
<1> QED BY <1>5, <1>6, <1>7, <1>8

\* A terminator returns, and what it registered is destroyed at once.
LEMMA EndTerminatorReturns ==
  ASSUME IInv, EndInv, TerminatorReturns
  PROVE  EndInv'
<1>1. /\ UNCHANGED <<keys, lists, buffers, objects, ran, orphans, phase, round, pos, sets>>
      /\ stack # <<>> /\ stack[Len(stack)].kind = "term"
  BY DEF TerminatorReturns, Doing, Last, history
<1>2. PICK s \in Seq(Frame) : TerminatorBackTo(s)
  BY TerminatorGoesBack
<1>3. /\ 1 \in 1..Len(keys) /\ DOMAIN value = 1..Len(keys) /\ Len(stack) \in Nat
      /\ stack \in Seq(Frame)
      /\ \A k \in 1..Len(keys) : keys[k] \in Images => k # 1
  BY Basics
<1>4. /\ value' = [value EXCEPT ![1] = 0] /\ Len(s) = Len(stack) - 1
      /\ \A n \in 1..Len(s) : /\ stack[n].kind = "walk" /\ s[n].kind = "walk"
                              /\ s[n].at = stack[n].at
      /\ \A n \in 1..Len(stack) : stack[n].kind = "walk" => n <= Len(s)
      /\ stack' = IF value[1] = 0 THEN s
                  ELSE Append(s, Walk(value[1], Len(lists[value[1]].entries)))
  BY <1>2 DEF TerminatorBackTo
<1>5. /\ value'[1] = 0 /\ DOMAIN value' = DOMAIN value
      /\ \A k \in 1..Len(keys) : keys[k] \in Images => value'[k] = value[k]
  BY <1>3, <1>4
<1>6. \A n \in 1..Len(stack) : stack[n].kind = "walk" => n \in 1..Len(s) /\ s[n].at = stack[n].at
  BY <1>3, <1>4
<1>7. phase \in {"cleanup", "exit"}
  BY <1>1 DEF EndInv, PhaseInv
<1>8. /\ ListsHeld' /\ HeadInv'
      /\ \A n \in 1..Len(stack') : stack'[n].kind = "walk"
  BY <1>1, <1>4, <1>5, <1>6, <1>7, EndTaken
<1>9. phase = "cleanup" => pos = 2
  <2>1. Len(stack) \in 1..Len(stack)
    BY <1>1, <1>3
  <2>2. Len(stack) > 1 /\ stack[Len(stack) - 1].kind = "walk"
    BY <1>1, <2>1 DEF IInv, Shape, StackInv
  <2> QED BY <1>3, <2>2 DEF EndInv, PhaseInv
<1>10. PhaseInv'
  <2>1. \A n \in 1..Len(stack') : stack'[n].kind # "dtor"
    BY <1>8
  <2> QED BY <1>1, <1>7, <1>9, <2>1 DEF EndInv, PhaseInv
<1>11. HeapTypes' /\ BuffersHeld' /\ OrphansInv'
  BY <1>1, <1>5, HeapKept DEF EndInv, HeapTypes
<1>12. BuffersInv'
  BY <1>1 DEF EndInv, BuffersInv, Late, TooLate
<1> QED BY <1>8, <1>10, <1>11, <1>12 DEF EndInv

\* A list that was walked to its end is freed.
LEMMA EndFreeList ==
  ASSUME IInv, EndInv, FreeList
  PROVE  EndInv'
<1> DEFINE top == Len(stack)
           a   == stack[top].at
           new == [lists[a] EXCEPT !.freed = TRUE]
<1>1. /\ stack \in Seq(Frame) /\ top \in Nat /\ lists \in Seq(List)
  BY Basics
<1>2. /\ stack # <<>> /\ stack[top].kind = "walk" /\ stack' = Front(stack)
      /\ lists' = [lists EXCEPT ![a] = new]
      /\ UNCHANGED <<keys, value, buffers, objects, ran, orphans, phase, round, pos, sets>>
  BY DEF FreeList, Doing, Last, history
<1>3. top \in 1..top /\ top >= 1
  BY <1>1, <1>2
<1>4. a \in 1..Len(lists) /\ value[1] = 0
  BY <1>2, <1>3 DEF IInv, Shape, StackInv
<1>5. /\ new.freed /\ new.entries = lists[a].entries /\ new.allocCount = lists[a].allocCount
  <2>1. lists[a] \in List
    BY <1>1, <1>4
  <2> QED BY <2>1 DEF List
<1> HIDE DEF new, a
<1>6. /\ Len(lists') = Len(lists)
      /\ \A l \in 1..Len(lists) : lists'[l] = IF l = a THEN new ELSE lists[l]
  BY <1>1, <1>2, <1>4
<1>7. /\ Len(stack') = top - 1 /\ \A n \in 1..(top - 1) : stack'[n] = stack[n]
  BY <1>1, <1>2, <1>3, PushedPopped
<1>8. phase \in {"cleanup", "exit"}
  BY <1>2 DEF EndInv, PhaseInv
<1>9. HeapTypes' /\ BuffersHeld' /\ OrphansInv'
  <2>1. \A l \in 1..Len(lists) : /\ lists'[l].allocCount = lists[l].allocCount
                                 /\ lists'[l].entries = lists[l].entries
    BY <1>5, <1>6
  <2> QED BY <1>2, <1>6, <2>1, HeapKept DEF EndInv, HeapTypes
<1>10. \A n \in 1..Len(stack') : n \in 1..top /\ stack'[n] = stack[n]
  BY <1>1, <1>7
<1>11. PhaseInv'
  BY <1>2, <1>8, <1>10 DEF EndInv, PhaseInv
<1>12. HeadInv'
  BY <1>2, <1>4, <1>8 DEF HeadInv, OnHead
<1>13. ListsHeld'
  <2> SUFFICES ASSUME NEW l \in 1..Len(lists), ~lists'[l].freed
               PROVE  \E n \in 1..Len(stack') : stack'[n].kind = "walk" /\ stack'[n].at = l
    BY <1>6 DEF ListsHeld
  <2>1. l # a /\ ~lists[l].freed
    BY <1>5, <1>6
  <2>2. l # value[1]
    BY <1>4
  <2>3. PICK n \in 1..top : stack[n].kind = "walk" /\ stack[n].at = l
    BY <2>1, <2>2 DEF EndInv, ListsHeld
  <2>4. n # top
    BY <2>1, <2>3 DEF a
  <2>5. n \in 1..Len(stack') /\ stack'[n] = stack[n]
    BY <1>1, <1>7, <2>4
  <2> QED BY <2>3, <2>5
<1>14. BuffersInv'
  BY <1>2 DEF EndInv, BuffersInv, Late, TooLate
<1> QED BY <1>9, <1>11, <1>12, <1>13, <1>14 DEF EndInv

-----------------------------------------------------------------------------
(* The end of the thread. *)

\* exit() on the thread, at its start and at its end, and the start of the clean-up.
LEMMA EndExit ==
  ASSUME IInv, EndInv, TlvExit \/ Exited \/ ThreadExit
  PROVE  EndInv'
<1>1. /\ TerminatorsKey = 1 /\ 1 \in 1..Len(keys) /\ DOMAIN value = 1..Len(keys)
      /\ \A k \in 1..Len(keys) : keys[k] \in Images => k # 1
      /\ Len(keys) \in Nat
  BY Basics
<1>2. CASE TlvExit
  <2> DEFINE s == <<>>
  <2>1. /\ phase = "run" /\ stack = <<>> /\ phase' = "exit" /\ value' = [value EXCEPT ![1] = 0]
        /\ stack' = IF value[1] = 0 THEN <<>>
                    ELSE <<Walk(value[1], Len(lists[value[1]].entries))>>
        /\ UNCHANGED <<keys, lists, buffers, objects, ran, orphans, round, pos, sets>>
    BY <1>1, <1>2 DEF TlvExit, history
  <2>2. /\ s \in Seq(Frame) /\ Len(s) = 0 /\ Len(stack) = 0
        /\ stack' = IF value[1] = 0 THEN s
                    ELSE Append(s, Walk(value[1], Len(lists[value[1]].entries)))
    BY <2>1
  <2> HIDE DEF s
  <2>3. /\ value'[1] = 0 /\ DOMAIN value' = DOMAIN value
        /\ \A k \in 1..Len(keys) : keys[k] \in Images => value'[k] = value[k]
    BY <1>1, <2>1
  <2>4. /\ \A n \in 1..Len(s) : s[n].kind = "walk"
        /\ \A n \in 1..Len(stack) :
              stack[n].kind = "walk" => n \in 1..Len(s) /\ s[n].at = stack[n].at
    BY <2>2
  <2>5. /\ ListsHeld' /\ HeadInv' /\ \A n \in 1..Len(stack') : stack'[n].kind = "walk"
    BY <2>1, <2>2, <2>3, <2>4, EndTaken
  <2>6. PhaseInv'
    BY <2>1, <2>5 DEF EndInv, PhaseInv
  <2>7. HeapTypes' /\ BuffersHeld' /\ OrphansInv'
    BY <2>1, <2>3, HeapKept DEF EndInv, HeapTypes
  <2>8. BuffersInv'
    BY <2>1 DEF BuffersInv
  <2> QED BY <2>5, <2>6, <2>7, <2>8 DEF EndInv
<1>3. CASE Exited
  <2>1. /\ phase = "exit" /\ stack = <<>> /\ phase' = "gone"
        /\ UNCHANGED <<keys, value, lists, buffers, objects, ran, orphans, stack, round, pos, sets>>
    BY <1>3 DEF Exited, history
  <2>2. round = 0 /\ value[1] = 0
    BY <2>1 DEF EndInv, PhaseInv, HeadInv, Doing
  <2>3. HeapTypes' /\ BuffersHeld' /\ OrphansInv'
    BY <2>1, HeapKept DEF EndInv, HeapTypes
  <2>4. PhaseInv' /\ BuffersInv' /\ ListsHeld'
    BY <2>1, <2>2, TlvAssumption DEF EndInv, PhaseInv, BuffersInv, ListsHeld
  <2>5. HeadInv'
    BY <2>1, <2>2 DEF HeadInv, OnHead
  <2> QED BY <2>3, <2>4, <2>5 DEF EndInv
<1>4. CASE ThreadExit
  <2>1. /\ phase = "run" /\ stack = <<>> /\ phase' = "cleanup" /\ round' = 1 /\ pos' = 1
        /\ UNCHANGED <<keys, value, lists, buffers, objects, ran, orphans, stack, sets>>
    BY <1>4 DEF ThreadExit, history
  <2>2. HeapTypes' /\ BuffersHeld' /\ OrphansInv'
    BY <2>1, HeapKept DEF EndInv, HeapTypes
  <2>3. PhaseInv' /\ HeadInv' /\ ListsHeld'
    BY <2>1, TlvAssumption DEF EndInv, PhaseInv, HeadInv, ListsHeld
  <2>4. BuffersInv'
    <3>1. \A b \in 1..Len(buffers) : ~(buffers[b].key < 1)
      BY DEF EndInv, HeapTypes
    <3> QED BY <2>1, <3>1 DEF BuffersInv
  <2> QED BY <2>2, <2>3, <2>4 DEF EndInv
<1> QED BY <1>2, <1>3, <1>4

\* In the clean-up, between two destructors, what lies behind the key that was
\* reached was made in this round, also when the clean-up goes on over keys that have
\* no value.
LEMMA Behind ==
  ASSUME IInv, EndInv, phase = "cleanup", stack = <<>>, NEW k \in Nat, k >= pos,
         \A j \in 1..Len(keys) : j >= pos /\ j < k => value[j] = 0
  PROVE  /\ \A m \in Moment : Late(m) => m.round = round /\ m.by \in 1..(k - 1)
         /\ k > 1 => \A o \in 1..Len(objects) :
               OnHead(o) => pos > 1 /\ Late(objects[o].made)
         /\ \A b \in 1..Len(buffers) : ~buffers[b].freed /\ buffers[b].key < k =>
               Late(buffers[b].made)
         /\ \A o \in 1..Len(objects) : objects[o].made \in Moment
         /\ \A b \in 1..Len(buffers) : buffers[b].made \in Moment
         /\ \A o \in 1..Len(objects) : ~Destroyed(o) => OnHead(o)
<1>1. /\ pos \in Nat \ {0} /\ objects \in Seq(Object) /\ buffers \in Seq(Buffer)
      /\ Len(keys) \in Nat /\ 1 \in 1..Len(keys)
  BY Basics
<1>2. \A m \in Moment : Late(m) => m.round = round /\ m.by \in 1..(k - 1)
  BY <1>1 DEF Late, Moment
<1>3. ~Doing("term")
  BY DEF Doing
<1>4. ASSUME k > 1, NEW o \in 1..Len(objects), OnHead(o)
      PROVE  pos > 1 /\ Late(objects[o].made)
  <2>1. pos > 1
    BY <1>1, <1>4 DEF OnHead
  <2> QED BY <1>3, <1>4, <2>1 DEF EndInv, HeadInv
<1>5. ASSUME NEW b \in 1..Len(buffers), ~buffers[b].freed, buffers[b].key < k
      PROVE  Late(buffers[b].made)
  <2>1. value[buffers[b].key] = b /\ buffers[b].key \in 1..Len(keys)
    BY <1>5 DEF EndInv, BuffersHeld, HeapTypes
  <2>2. buffers[b].key < pos
    BY <1>1, <1>5, <2>1
  <2> QED BY <1>5, <2>2 DEF EndInv, BuffersInv
<1>6. \A o \in 1..Len(objects) : objects[o].made \in Moment
  <2>1. \A o \in 1..Len(objects) : objects[o] \in Object
    BY <1>1
  <2> QED BY <2>1 DEF Object
<1>7. \A b \in 1..Len(buffers) : buffers[b].made \in Moment
  <2>1. \A b \in 1..Len(buffers) : buffers[b] \in Buffer
    BY <1>1
  <2> QED BY <2>1 DEF Buffer
<1>8. \A o \in 1..Len(objects) : ~Destroyed(o) => OnHead(o)
  <2>1. \A o : ~OnWalk(o)
    BY DEF OnWalk
  <2> QED BY <2>1 DEF IInv, Order, Accounted
<1> QED BY <1>2, <1>4, <1>5, <1>6, <1>7, <1>8

\* The clean-up calls the destructor of the next key that has a value.
LEMMA EndCleanupKey ==
  ASSUME IInv, EndInv, CleanupKey
  PROVE  EndInv'
<1>1. /\ TerminatorsKey = 1 /\ Len(keys) \in Nat /\ DOMAIN value = 1..Len(keys)
      /\ \A k \in 1..Len(keys) : keys[k] \in Images \cup UserKeys => k # 1
      /\ \A k \in 1..Len(keys) : keys[k] \in UserKeys => keys[k] \notin Images
      /\ pos \in Nat \ {0} /\ round \in Nat /\ Len(lists) \in Nat /\ Len(buffers) \in Nat
      /\ buffers \in Seq(Buffer) /\ 1 \in 1..Len(keys)
      /\ value[1] \in 0..Len(lists) /\ stack \in Seq(Frame)
  BY Basics
<1>2. /\ phase = "cleanup" /\ stack = <<>>
      /\ UNCHANGED <<keys, lists, objects, ran, orphans, phase, round, sets>>
      /\ \E k \in pos..Len(keys) :
            /\ value[k] # 0 /\ \A j \in pos..(k - 1) : value[j] = 0
            /\ value' = [value EXCEPT ![k] = 0] /\ Destructor(k) /\ pos' = k + 1
  BY DEF CleanupKey, history
<1>3. PICK k \in pos..Len(keys) :
        /\ value[k] # 0 /\ \A j \in pos..(k - 1) : value[j] = 0
        /\ value' = [value EXCEPT ![k] = 0] /\ Destructor(k) /\ pos' = k + 1
  BY <1>2
<1>4. /\ k \in 1..Len(keys) /\ k \in Nat /\ k >= pos
      /\ \A j \in 1..Len(keys) : j >= pos /\ j < k => value[j] = 0
  BY <1>1, <1>3
<1>5. \A j \in 1..Len(keys) : value'[j] = IF j = k THEN 0 ELSE value[j]
  BY <1>1, <1>3, <1>4
<1>6. /\ \A m \in Moment : Late(m) => m.round = round /\ m.by \in 1..(k - 1)
      /\ k > 1 => \A o \in 1..Len(objects) :
            OnHead(o) => pos > 1 /\ Late(objects[o].made)
      /\ \A b \in 1..Len(buffers) : ~buffers[b].freed /\ buffers[b].key < k =>
            Late(buffers[b].made)
      /\ \A o \in 1..Len(objects) : objects[o].made \in Moment
      /\ \A b \in 1..Len(buffers) : buffers[b].made \in Moment
      /\ \A o \in 1..Len(objects) : ~Destroyed(o) => OnHead(o)
  BY <1>2, <1>3, <1>4, Behind
<1>7. \A m \in Moment : Late(m) => Late(m)'
  BY <1>2, <1>3, <1>4, <1>6 DEF Late
<1>8. round \in 1..Iterations
  BY <1>2 DEF EndInv, PhaseInv
<1>9. pos' > 1 /\ pos' - 1 = k
  BY <1>3, <1>4
\* What lies behind the new key, unless it is the one of the terminators.
<1>10. ASSUME k # 1 PROVE HeadInv'
  <2>1. value'[1] = value[1] /\ k > 1
    BY <1>1, <1>4, <1>5, <1>10
  <2>2. \A o \in 1..Len(objects) : OnHead(o)' => Late(objects[o].made)'
    BY <1>2, <1>6, <1>7, <2>1 DEF OnHead
  <2> QED BY <1>2, <2>2 DEF HeadInv
<1>11. ASSUME buffers' = buffers, keys[k] \notin Images PROVE BuffersInv'
  <2>1. ASSUME NEW b \in 1..Len(buffers), ~buffers[b].freed, buffers[b].key < pos'
        PROVE  Late(buffers[b].made)'
    <3>1. buffers[b].key \in 1..Len(keys) /\ buffers[b].key # k
      BY <1>11 DEF EndInv, HeapTypes
    <3>2. buffers[b].key < k
      BY <1>3, <1>4, <2>1, <3>1
    <3>3. Late(buffers[b].made)
      BY <1>6, <2>1, <3>2
    <3>4. buffers[b].made \in Moment
      BY <1>6
    <3> QED BY <1>2, <1>6, <1>9, <1>11, <3>3, <3>4 DEF Late
  <2> QED BY <1>2, <1>11, <2>1 DEF BuffersInv, Late
<1>12. ASSUME buffers' = buffers, keys[k] \notin Images
       PROVE  HeapTypes' /\ BuffersHeld' /\ OrphansInv'
  <2>1. /\ DOMAIN value' = DOMAIN value
        /\ \A j \in 1..Len(keys) : keys[j] \in Images => value'[j] = value[j]
    BY <1>1, <1>3, <1>5, <1>12
  <2> QED BY <1>2, <1>12, <2>1, HeapKept DEF EndInv, HeapTypes
<1>13. CASE /\ k = TerminatorsKey /\ UNCHANGED buffers
            /\ stack' = <<Walk(value[k], Len(lists[value[k]].entries))>>
  <2> DEFINE s == <<>>
  <2>0. k = 1 /\ value[1] # 0 /\ keys[k] \notin Images
    BY <1>1, <1>3, <1>13
  <2>1. /\ s \in Seq(Frame) /\ Len(s) = 0 /\ Len(stack) = 0
        /\ stack' = IF value[1] = 0 THEN s
                    ELSE Append(s, Walk(value[1], Len(lists[value[1]].entries)))
    BY <1>2, <1>13, <2>0
  <2> HIDE DEF s
  <2>2. value'[1] = 0
    BY <1>1, <1>5, <2>0
  <2>3. /\ \A n \in 1..Len(s) : s[n].kind = "walk"
        /\ \A n \in 1..Len(stack) :
              stack[n].kind = "walk" => n \in 1..Len(s) /\ s[n].at = stack[n].at
    BY <2>1
  <2>4. /\ ListsHeld' /\ HeadInv' /\ \A n \in 1..Len(stack') : stack'[n].kind = "walk"
    BY <1>2, <2>1, <2>2, <2>3, EndTaken
  <2>5. PhaseInv'
    <3>1. pos' = 2
      BY <1>3, <2>0
    <3> QED BY <1>2, <1>8, <2>4, <3>1 DEF PhaseInv
  <2> QED BY <1>11, <1>12, <1>13, <2>0, <2>4, <2>5 DEF EndInv
<1>14. CASE keys[k] \in UserKeys /\ UNCHANGED buffers /\ stack' = <<Dtor(k)>>
  <2>1. k # 1 /\ keys[k] \notin Images
    BY <1>1, <1>4, <1>14
  <2>2. Len(stack') = 1 /\ stack'[1].kind = "dtor" /\ stack'[1].at = k
    BY <1>14 DEF Dtor
  <2>3. PhaseInv'
    <3>1. \A n \in 1..Len(stack') : stack'[n].kind = "dtor" /\ stack'[n].at = pos' - 1
      BY <1>9, <2>2
    <3> QED BY <1>2, <1>8, <1>9, <3>1 DEF PhaseInv
  <2>4. ListsHeld'
    <3>1. \A l \in 1..Len(lists) : ~lists[l].freed => l = value[1]
      BY <1>2 DEF EndInv, ListsHeld
    <3>2. value'[1] = value[1]
      BY <1>1, <1>5, <2>1
    <3> QED BY <1>2, <3>1, <3>2 DEF ListsHeld
  <2> QED BY <1>10, <1>11, <1>12, <1>14, <2>1, <2>3, <2>4 DEF EndInv
<1>15. CASE /\ keys[k] \in Images /\ UNCHANGED stack
            /\ buffers' = [buffers EXCEPT ![value[k]].freed = TRUE]
  <2> DEFINE v == value[k]
             x == [buffers[v] EXCEPT !.freed = TRUE]
  <2>1. k # 1 /\ value'[1] = value[1]
    BY <1>1, <1>4, <1>5, <1>15
  <2>2. v \in 1..Len(buffers) /\ buffers[v].key = k /\ ~buffers[v].freed
    BY <1>3, <1>4, <1>15 DEF EndInv, BuffersHeld
  <2>3. /\ buffers' = [buffers EXCEPT ![v] = x]
        /\ x.key = k /\ x.freed /\ x.made = buffers[v].made
    <3>1. buffers[v] \in Buffer
      BY <1>1, <2>2
    <3> QED BY <1>15, <2>2, <3>1 DEF Buffer
  <2> HIDE DEF v, x
  <2>4. /\ Len(buffers') = Len(buffers)
        /\ \A b \in 1..Len(buffers) : buffers'[b] = IF b = v THEN x ELSE buffers[b]
    BY <1>1, <2>2, <2>3
  <2>5. \A b \in 1..Len(buffers) : buffers'[b].key = buffers[b].key /\ buffers'[b].made = buffers[b].made
    BY <2>2, <2>3, <2>4
  <2>6. \A b \in 1..Len(buffers) : ~buffers'[b].freed =>
            b # v /\ ~buffers[b].freed /\ buffers[b].key # k /\ buffers[b].key \in 1..Len(keys)
    BY <2>3, <2>4 DEF EndInv, BuffersHeld, HeapTypes, v
  <2>7. HeapTypes'
    BY <1>2, <2>4, <2>5 DEF EndInv, HeapTypes
  <2>8. PhaseInv' /\ ListsHeld'
    BY <1>2, <1>8, <1>15, <2>1 DEF EndInv, PhaseInv, ListsHeld
  <2>9. BuffersHeld'
    <3>1. ASSUME NEW j \in 1..Len(keys), keys[j] \in Images, value'[j] # 0
          PROVE  /\ value'[j] \in 1..Len(buffers') /\ buffers'[value'[j]].key = j
                 /\ ~buffers'[value'[j]].freed
      <4>1. j # k /\ value'[j] = value[j]
        BY <1>5, <3>1
      <4>2. value[j] \in 1..Len(buffers) /\ buffers[value[j]].key = j /\ ~buffers[value[j]].freed
        BY <3>1, <4>1 DEF EndInv, BuffersHeld
      <4> QED BY <2>2, <2>4, <4>1, <4>2
    <3>2. ASSUME NEW b \in 1..Len(buffers'), ~buffers'[b].freed
          PROVE  value'[buffers'[b].key] = b
      BY <1>5, <2>4, <2>5, <2>6, <3>2 DEF EndInv, BuffersHeld
    <3> QED BY <1>2, <3>1, <3>2 DEF BuffersHeld
  <2>10. BuffersInv'
    <3>1. ASSUME NEW b \in 1..Len(buffers'), ~buffers'[b].freed, buffers'[b].key < pos'
          PROVE  buffers'[b].made.round = round /\ buffers'[b].made.by \in 1..(pos' - 1)
      <4>1. b \in 1..Len(buffers) /\ ~buffers[b].freed /\ buffers[b].key < k
        BY <1>3, <1>4, <2>4, <2>5, <2>6, <3>1
      <4>2. Late(buffers[b].made) /\ buffers[b].made \in Moment
        BY <1>6, <4>1
      <4> DEFINE m == buffers[b].made
      <4>3. m \in Moment /\ Late(m) /\ buffers'[b].made = m
        BY <2>5, <4>1, <4>2
      <4> HIDE DEF m
      <4> QED BY <1>6, <1>9, <4>3
    <3> QED BY <1>2, <3>1 DEF BuffersInv, Late
  <2>11. OrphansInv'
    <3>1. ASSUME NEW o \in 1..Len(objects), ~Destroyed(o), buffers'[objects[o].buffer].freed
          PROVE  Between(o)
      <4>1. objects[o].buffer \in 1..Len(buffers)
        BY DEF EndInv, HeapTypes
      <4>2. CASE buffers[objects[o].buffer].freed
        BY <3>1, <4>2 DEF EndInv, OrphansInv
      <4>3. CASE ~buffers[objects[o].buffer].freed
        <5>1. objects[o].buffer = v
          BY <2>4, <3>1, <4>1, <4>3
        <5>2. objects[o].made.by \in 1..(k - 1)
          BY <1>4, <1>6, <2>1, <3>1
        <5> QED BY <1>4, <2>2, <5>1, <5>2 DEF Between
      <4> QED BY <4>2, <4>3
    <3>2. \A o \in 1..Len(objects) : Between(o) => Between(o)'
      BY <1>2, <2>5 DEF Between, EndInv, HeapTypes
    <3>3. \A o \in orphans : o \in 1..Len(objects) /\ Between(o)
      BY DEF EndInv, OrphansInv, HeapTypes
    <3> QED BY <1>2, <3>1, <3>2, <3>3 DEF OrphansInv, Destroyed
  <2> QED BY <1>10, <2>1, <2>7, <2>8, <2>9, <2>10, <2>11 DEF EndInv
<1> QED BY <1>3, <1>13, <1>14, <1>15 DEF Destructor

\* The end of a round: what still has a value was given it behind the clean-up's back,
\* in the round that ends.
LEMMA EndCleanupRound ==
  ASSUME IInv, EndInv, CleanupRound
  PROVE  EndInv'
<1> DEFINE k == Len(keys) + pos
<1>1. /\ Len(keys) \in Nat /\ Len(keys) >= 1 /\ pos \in Nat \ {0} /\ round \in Nat
  BY Basics
<1>2. /\ phase = "cleanup" /\ stack = <<>> /\ \A j \in pos..Len(keys) : value[j] = 0
      /\ UNCHANGED <<keys, value, lists, buffers, objects, ran, orphans, stack, sets>>
      /\ IF round = Iterations
         THEN phase' = "gone" /\ UNCHANGED <<round, pos>>
         ELSE round' = round + 1 /\ pos' = 1 /\ UNCHANGED phase
  BY DEF CleanupRound, history
<1>3. round \in 1..Iterations /\ Iterations \in Nat
  BY <1>2, TlvAssumption DEF EndInv, PhaseInv
<1>4. HeapTypes' /\ BuffersHeld' /\ OrphansInv'
  BY <1>2, HeapKept DEF EndInv, HeapTypes
<1>5. ListsHeld'
  BY <1>2 DEF EndInv, ListsHeld
<1>6. CASE round = Iterations
  <2>1. phase' = "gone" /\ UNCHANGED <<round, pos>>
    BY <1>2, <1>6
  <2>2. PhaseInv'
    BY <1>2, <1>3, <2>1 DEF PhaseInv
  <2>3. \A m \in Moment : Late(m) => TooLate(m)
    BY <1>6 DEF Late, TooLate, Moment
  <2>4. /\ \A o \in 1..Len(objects) : OnHead(o) => TooLate(objects[o].made)
        /\ \A b \in 1..Len(buffers) : ~buffers[b].freed => TooLate(buffers[b].made)
    <3>1. /\ k \in Nat /\ k >= pos /\ k > 1
          /\ \A j \in 1..Len(keys) : j >= pos /\ j < k => value[j] = 0
      BY <1>1, <1>2
    <3> HIDE DEF k
    <3>2. /\ k > 1 => \A o \in 1..Len(objects) :
                OnHead(o) => pos > 1 /\ Late(objects[o].made)
          /\ \A b \in 1..Len(buffers) : ~buffers[b].freed /\ buffers[b].key < k =>
                Late(buffers[b].made)
          /\ \A o \in 1..Len(objects) : objects[o].made \in Moment
          /\ \A b \in 1..Len(buffers) : buffers[b].made \in Moment
      BY <1>2, <3>1, Behind
    <3>3. \A b \in 1..Len(buffers) : buffers[b].key < k
      BY <1>1 DEF EndInv, HeapTypes, k
    <3> QED BY <2>3, <3>1, <3>2, <3>3
  <2>5. HeadInv' /\ BuffersInv'
    BY <1>2, <2>1, <2>4 DEF HeadInv, BuffersInv, OnHead, TooLate
  <2> QED BY <1>4, <1>5, <2>2, <2>5 DEF EndInv
<1>7. CASE round # Iterations
  <2>1. phase' = "cleanup" /\ round' = round + 1 /\ pos' = 1
    BY <1>2, <1>7
  <2>2. PhaseInv'
    BY <1>2, <1>3, <1>7, <2>1 DEF PhaseInv
  <2>3. HeadInv'
    BY <2>1 DEF HeadInv
  <2>4. BuffersInv'
    <3>1. \A b \in 1..Len(buffers) : ~(buffers[b].key < 1)
      BY DEF EndInv, HeapTypes
    <3> QED BY <1>2, <2>1, <3>1 DEF BuffersInv
  <2> QED BY <1>4, <1>5, <2>2, <2>3, <2>4 DEF EndInv
<1> QED BY <1>6, <1>7

-----------------------------------------------------------------------------
(* The invariant, and the theorems. *)

LEMMA EndInductive ==
  /\ Init => IInv /\ EndInv
  /\ IInv /\ EndInv /\ [Next]_vars => IInv' /\ EndInv'
<1>1. ASSUME Init PROVE EndInv
  <2>1. HeapTypes /\ PhaseInv
    BY <1>1, TlvAssumption DEF Init, HeapTypes, PhaseInv
  <2>2. HeadInv /\ ListsHeld
    BY <1>1 DEF Init, HeadInv, ListsHeld
  <2>3. BuffersHeld /\ BuffersInv
    <3>1. keys[1] \notin Images /\ Len(keys) = 1
      BY <1>1, TlvAssumption DEF Init
    <3> QED BY <1>1, <3>1 DEF Init, BuffersHeld, BuffersInv
  <2>4. OrphansInv
    BY <1>1 DEF Init, OrphansInv
  <2> QED BY <2>1, <2>2, <2>3, <2>4 DEF EndInv
<1>2. ASSUME IInv, EndInv, UNCHANGED vars PROVE EndInv'
  <2>1. UNCHANGED <<keys, value, lists, buffers, objects, ran, orphans, stack, phase, round, pos, sets>>
    BY <1>2 DEF vars, history
  <2>2. HeapTypes' /\ PhaseInv' /\ ListsHeld' /\ BuffersHeld'
    BY <1>2, <2>1 DEF EndInv, HeapTypes, PhaseInv, ListsHeld, BuffersHeld
  <2>3. HeadInv' /\ BuffersInv'
    BY <1>2, <2>1 DEF EndInv, HeadInv, BuffersInv, OnHead, Late, Doing, TooLate
  <2>4. OrphansInv'
    BY <1>2, <2>1 DEF EndInv, OrphansInv, Destroyed, Between
  <2> QED BY <2>2, <2>3, <2>4 DEF EndInv
<1>3. ASSUME IInv, EndInv, Next PROVE EndInv'
  <2>1. CASE \E x \in Images : LoadImage(x)
    BY <1>3, <2>1, EndKeys DEF LoadImage
  <2>2. CASE \E u \in UserKeys : CreateUserKey(u)
    BY <1>3, <2>2, EndKeys DEF CreateUserKey
  <2>3. CASE \E k \in DOMAIN keys : SetUserValue(k)
    BY <1>3, <2>3, EndKeys DEF SetUserValue
  <2>4. CASE \E k \in DOMAIN keys : AllocateForKey(k)
    BY <1>3, <2>4, EndAllocate
  <2>5. CASE \E k \in DOMAIN keys : Atexit(k)
    BY <1>3, <2>5, EndAtexit
  <2>6. CASE DtorReturns
    BY <1>3, <2>6, EndDtorReturns
  <2>7. CASE CallTerminator
    BY <1>3, <2>7, EndCallTerminator
  <2>8. CASE TerminatorReturns
    BY <1>3, <2>8, EndTerminatorReturns
  <2>9. CASE FreeList
    BY <1>3, <2>9, EndFreeList
  <2>10. CASE TlvExit \/ Exited \/ ThreadExit
    BY <1>3, <2>10, EndExit
  <2>11. CASE CleanupKey
    BY <1>3, <2>11, EndCleanupKey
  <2>12. CASE CleanupRound
    BY <1>3, <2>12, EndCleanupRound
  <2> QED BY <1>3, <2>1, <2>2, <2>3, <2>4, <2>5, <2>6, <2>7, <2>8, <2>9, <2>10, <2>11, <2>12
          DEF Next
<1> QED BY <1>1, <1>2, <1>3, Inductive

\* The values of the thread's keys, its lists, its buffers and what it is doing have
\* the types the code gives them: a list never holds more than it was allocated for,
\* a buffer belongs to the key of an image, an object to a buffer, and pthread makes
\* no more than its number of rounds.
THEOREM TypesKept == Spec => []TypeOK
<1>1. IInv /\ EndInv => TypeOK
  <2> SUFFICES ASSUME IInv, EndInv PROVE TypeOK
    OBVIOUS
  <2>1. /\ lists \in Seq(List) /\ buffers \in Seq(Buffer) /\ objects \in Seq(Object)
        /\ stack \in Seq(Frame) /\ ran \in Seq(Nat) /\ pos \in Nat /\ round \in Nat
    BY Basics DEF IInv, Shape, HeapInv
  <2>2. /\ DOMAIN lists = 1..Len(lists) /\ DOMAIN buffers = 1..Len(buffers)
        /\ DOMAIN objects = 1..Len(objects) /\ DOMAIN stack = 1..Len(stack)
        /\ DOMAIN keys = 1..Len(keys) /\ DOMAIN ran = 1..Len(ran)
    BY <2>1, Basics
  <2>3. /\ keys \in Seq({"terminators"} \cup Images \cup UserKeys)
        /\ value \in Seq(Nat) /\ Len(value) = Len(keys)
    BY DEF IInv, Shape, KeysInv
  <2>4. ASSUME NEW l \in DOMAIN lists
        PROVE  /\ lists[l].entries \in Seq(DOMAIN objects)
               /\ Len(lists[l].entries) <= lists[l].allocCount
    <3> DEFINE e == lists[l].entries
    <3>1. e \in Seq(Nat) /\ \A i \in 1..Len(e) : e[i] \in DOMAIN objects
      BY <2>2, <2>4, Types DEF IInv, Shape, EntriesInv
    <3> HIDE DEF e
    <3>2. e \in Seq(DOMAIN objects)
      BY <3>1
    <3> QED BY <2>2, <2>4, <3>2 DEF EndInv, HeapTypes, e
  <2>5. \A b \in DOMAIN buffers : buffers[b].key \in ImageKeys
    BY <2>2 DEF EndInv, HeapTypes, ImageKeys
  <2>6. /\ \A o \in DOMAIN objects : objects[o].buffer \in DOMAIN buffers
        /\ orphans \subseteq DOMAIN objects /\ sets \in 0..MaxSets
    BY <2>2 DEF EndInv, HeapTypes
  <2>7. ran \in Seq(DOMAIN objects)
    <3>1. \A n \in 1..Len(ran) : ran[n] \in DOMAIN objects
      BY <2>2 DEF IInv, Order, RanOnce
    <3> QED BY <2>1, <3>1
  <2>8. \A n \in DOMAIN stack : stack[n].kind \in {"walk", "term", "dtor"}
    BY <2>2, Types DEF IInv, Shape
  <2>9. phase \in {"run", "cleanup", "exit", "gone"} /\ round \in 0..Iterations
    BY TlvAssumption DEF EndInv, PhaseInv
  <2> QED BY <2>1, <2>3, <2>4, <2>5, <2>6, <2>7, <2>8, <2>9 DEF TypeOK
<1> QED BY <1>1, EndInductive, PTL DEF Spec

\* tlv_finalize_list() destroys no object twice, and a thread that is gone has left
\* none undestroyed, however many objects terminators and the program's destructors
\* registered while it ended: but for those that such a destructor registered in the
\* last of pthread's rounds.
THEOREM AllDestroyedOnce == Spec => []DestroyedExactlyOnce
<1>1. IInv /\ EndInv => DestroyedExactlyOnce
  <2> SUFFICES ASSUME IInv, EndInv PROVE DestroyedExactlyOnce
    OBVIOUS
  <2>1. DOMAIN ran = 1..Len(ran) /\ DOMAIN objects = 1..Len(objects)
    BY DEF IInv, Shape, HeapInv
  <2>2. IsInjective(ran)
    BY <2>1 DEF IInv, Order, RanOnce, IsInjective
  <2>3. ASSUME phase = "gone", NEW o \in DOMAIN objects
        PROVE  o \in Range(ran) \/ TooLate(objects[o].made)
    <3>1. stack = <<>>
      BY <2>3 DEF EndInv, PhaseInv
    <3>2. ~OnWalk(o)
      BY <3>1 DEF OnWalk
    <3>3. Destroyed(o) \/ OnHead(o)
      BY <2>1, <3>2 DEF IInv, Order, Accounted
    <3>4. OnHead(o) => TooLate(objects[o].made)
      BY <2>1, <2>3 DEF EndInv, HeadInv
    <3>5. Destroyed(o) => o \in Range(ran)
      BY <2>1 DEF Destroyed, Range
    <3> QED BY <3>3, <3>4, <3>5
  <2> QED BY <2>2, <2>3 DEF DestroyedExactlyOnce
<1> QED BY <1>1, EndInductive, PTL DEF Spec

\* tlv_initializer() allocates the terminators' key first, so an object is destroyed
\* while its image's buffer for the thread is still there, unless the destructor of a
\* key of the program constructed it that lies between the two keys.
THEOREM BuffersOutliveObjects == Spec => []DestroyedBeforeFreed
<1>1. EndInv => DestroyedBeforeFreed
  BY DEF EndInv, OrphansInv, Between, DestroyedBeforeFreed
<1> QED BY <1>1, EndInductive, PTL DEF Spec

\* A thread that pthread ended has freed every list and every buffer, the list that
\* _tlv_atexit() replaced by a larger one included, but for what a destructor of the
\* program used in the last round.
THEOREM ThreadLeavesNothing == Spec => []NothingLeaked
<1>1. IInv /\ EndInv => NothingLeaked
  <2> SUFFICES ASSUME IInv, EndInv, phase = "gone", round > 0 PROVE NothingLeaked
    BY DEF NothingLeaked
  <2>1. /\ DOMAIN lists = 1..Len(lists) /\ DOMAIN buffers = 1..Len(buffers)
    BY Basics
  <2>2. stack = <<>> /\ Len(stack) = 0
    BY DEF EndInv, PhaseInv
  <2>3. ASSUME NEW l \in DOMAIN lists, ~lists[l].freed, NEW n \in DOMAIN lists[l].entries
        PROVE  TooLate(objects[lists[l].entries[n]].made)
    <3>1. l = value[1] /\ l # 0
      BY <2>1, <2>2, <2>3 DEF EndInv, ListsHeld
    <3>2. n \in 1..Len(lists[l].entries)
      <4>1. lists[l].entries \in Seq(Nat)
        BY <2>1, <2>3, Types DEF IInv, Shape
      <4> QED BY <2>3, <4>1
    <3>3. lists[l].entries[n] \in 1..Len(objects)
      BY <2>1, <3>2 DEF IInv, Shape, EntriesInv
    <3>4. OnHead(lists[l].entries[n])
      BY <3>1, <3>2 DEF OnHead
    <3> QED BY <3>3, <3>4 DEF EndInv, HeadInv
  <2>4. \A b \in DOMAIN buffers : buffers[b].freed \/ TooLate(buffers[b].made)
    BY <2>1 DEF EndInv, BuffersInv
  <2> QED BY <2>3, <2>4 DEF NothingLeaked
<1> QED BY <1>1, EndInductive, PTL DEF Spec

=============================================================================
