--------------------- MODULE ThreadLocalVariables_proofs ---------------------
(****************************************************************************)
(* Proofs about ThreadLocalVariables, for any images, keys and bounds.      *)
(*                                                                          *)
(* Neither who owns a list nor the order of destruction is inductive: both  *)
(* rest on how the lists that are being walked, one inside a terminator of  *)
(* another, lie under each other (Shape), and on what is still to be        *)
(* destroyed being on them, oldest at the bottom (Order).                   *)
(****************************************************************************)
EXTENDS ThreadLocalVariables, SequenceTheorems, TLAPS

-----------------------------------------------------------------------------
(* The inductive invariant. *)

Frame  == [kind : {"walk", "term", "dtor"}, at : Nat, left : Nat]
List   == [allocCount : Nat, freed : BOOLEAN, entries : Seq(Nat)]
Moment == [round : Nat, by : Nat]
Buffer == [key : Nat, freed : BOOLEAN, made : Moment]
Object == [buffer : Nat, made : Moment]

\* The terminators' key is the first one, and only that.
KeysInv ==
    /\ keys \in Seq({"terminators"} \cup Images \cup UserKeys)
    /\ Len(keys) >= 1 /\ keys[1] = "terminators"
    /\ \A k \in 2..Len(keys) : keys[k] # "terminators"
    /\ value \in Seq(Nat) /\ Len(value) = Len(keys)

HeapInv ==
    /\ lists \in Seq(List) /\ objects \in Seq(Object) /\ ran \in Seq(Nat)
    /\ value[1] \in 0..Len(lists)

CleanupInv == round \in Nat /\ pos \in Nat \ {0} /\ buffers \in Seq(Buffer)

\* A list holds objects in the order in which they were constructed.
EntriesInv ==
    \A l \in 1..Len(lists) : \A i \in 1..Len(lists[l].entries) :
        /\ lists[l].entries[i] \in 1..Len(objects)
        /\ \A j \in 1..Len(lists[l].entries) : i < j => lists[l].entries[i] < lists[l].entries[j]

\* Lists are walked one inside another; a terminator runs above the innermost walk;
\* the destructor of a key of the program is called by pthread itself.
StackInv ==
    /\ stack \in Seq(Frame)
    /\ \A n \in 1..Len(stack) :
          /\ stack[n].kind = "walk" =>
                /\ stack[n].at \in 1..Len(lists)
                /\ stack[n].left <= Len(lists[stack[n].at].entries)
                /\ n = Len(stack) => value[1] = 0
          /\ stack[n].kind = "term" =>
                n = Len(stack) /\ n > 1 /\ stack[n - 1].kind = "walk" /\ stack[n - 1].left > 0
          /\ stack[n].kind = "dtor" => Len(stack) = 1

Shape == KeysInv /\ CleanupInv /\ HeapInv /\ EntriesInv /\ StackInv

\* The list at the head of the key and the lists that are walked, once each.
Owned ==
    /\ value[1] # 0 => ~lists[value[1]].freed
    /\ \A n \in 1..Len(stack) : stack[n].kind = "walk" =>
          /\ ~lists[stack[n].at].freed /\ stack[n].at # value[1]
          /\ \A m \in 1..Len(stack) :
                stack[m].kind = "walk" /\ m # n => stack[m].at # stack[n].at

\* How many objects of its list the n-th frame has still to destroy: the one whose
\* terminator is running is counted off when it returns.
ToDo(n) == IF n = Len(stack) - 1 /\ stack[Len(stack)].kind = "term"
           THEN stack[n].left - 1 ELSE stack[n].left

\* What lies on an inner list is younger than all that lies on an outer one.
Older(s, t) == \A i \in 1..Len(s), j \in 1..Len(t) : s[i] < t[j]
Layered ==
    /\ \A n \in 1..Len(stack) : stack[n].kind = "walk" /\ value[1] # 0 =>
          Older(lists[stack[n].at].entries, lists[value[1]].entries)
    /\ \A m, n \in 1..Len(stack) : stack[m].kind = "walk" /\ stack[n].kind = "walk" /\ n < m =>
          Older(lists[stack[n].at].entries, lists[stack[m].at].entries)

OnHead(o) == value[1] # 0 /\ \E i \in 1..Len(lists[value[1]].entries) :
                                 lists[value[1]].entries[i] = o
OnWalk(o) == \E n \in 1..Len(stack) :
                 stack[n].kind = "walk" /\ \E i \in 1..ToDo(n) :
                                               lists[stack[n].at].entries[i] = o

\* Every object was destroyed or is on a list, and not both.
Destroyed(o) == \E n \in 1..Len(ran) : ran[n] = o
Accounted == \A o \in 1..Len(objects) : Destroyed(o) <=> ~(OnHead(o) \/ OnWalk(o))

\* No object is destroyed twice.
RanOnce ==
    /\ \A n \in 1..Len(ran) : ran[n] \in 1..Len(objects)
    /\ \A m, n \in 1..Len(ran) : ran[m] = ran[n] => m = n

Order == Layered /\ Accounted /\ RanOnce
IInv  == Shape /\ Owned /\ Order

-----------------------------------------------------------------------------
(* The keys. *)

\* The key that _tlv_atexit() and tlv_finalize() use is the first one.  A new key
\* leaves it and its value alone, and so does a new value of another key.
LEMMA FirstKey ==
  ASSUME KeysInv
  PROVE  /\ TerminatorsKey = 1 /\ 1 \in DOMAIN value /\ 1 \in DOMAIN keys
         /\ DOMAIN keys = DOMAIN value
         /\ \A name \in Images \cup UserKeys : KeyCreate(name) => KeysInv' /\ value'[1] = value[1]
         /\ \A k \in DOMAIN value, v \in Nat : keys' = keys /\ value' = [value EXCEPT ![k] = v] =>
               /\ KeysInv'
               /\ k # 1 => value'[1] = value[1]
               /\ k = 1 => value'[1] = v
<1>1. 1 \in DOMAIN keys /\ 1 \in DOMAIN value /\ DOMAIN keys = DOMAIN value
  BY DEF KeysInv
<1>2. \A k \in DOMAIN keys : keys[k] = "terminators" => k = 1
  BY DEF KeysInv
<1>3. TerminatorsKey = 1
  BY <1>1, <1>2 DEF KeysInv, TerminatorsKey
<1>4. ASSUME NEW name \in Images \cup UserKeys, KeyCreate(name)
      PROVE  KeysInv' /\ value'[1] = value[1]
  <2>1. name # "terminators"
    BY TlvAssumption
  <2> QED
    BY <2>1, <1>4 DEF KeysInv, KeyCreate
<1>5. ASSUME NEW k \in DOMAIN value, NEW v \in Nat,
             keys' = keys, value' = [value EXCEPT ![k] = v]
      PROVE  /\ KeysInv'
             /\ k # 1 => value'[1] = value[1]
             /\ k = 1 => value'[1] = v
  BY <1>5 DEF KeysInv
<1> QED
  BY <1>1, <1>3, <1>4, <1>5

-----------------------------------------------------------------------------
(* One lemma for each thing a step can do to the lists and to the stack. *)

\* A step that leaves the lists, the stack and the objects alone.
LEMMA Quiet ==
  ASSUME IInv, KeysInv', CleanupInv', value'[1] = value[1],
         UNCHANGED <<lists, stack, objects, ran>>
  PROVE  IInv'
<1> USE DEF IInv, Shape, Order
<1>1. HeapInv' /\ EntriesInv' /\ StackInv'
  BY DEF HeapInv, EntriesInv, StackInv
<1>2. Owned' /\ Layered'
  BY DEF Owned, Layered
<1>3. RanOnce'
  BY DEF RanOnce
<1>4. Accounted'
  <2>1. \A n \in 1..Len(stack) : ToDo(n)' = ToDo(n)
    BY DEF ToDo
  <2>2. \A o : OnWalk(o)' <=> OnWalk(o)
    BY <2>1 DEF OnWalk
  <2>3. \A o : (OnHead(o)' <=> OnHead(o)) /\ (Destroyed(o)' <=> Destroyed(o))
    BY DEF OnHead, Destroyed
  <2> QED
    BY <2>2, <2>3 DEF Accounted
<1> QED
  BY <1>1, <1>2, <1>3, <1>4

\* pthread calls the destructor of a key of the program, or it returns.
LEMMA UserDtor ==
  ASSUME IInv, KeysInv', CleanupInv', value'[1] = value[1],
         UNCHANGED <<lists, objects, ran>>,
         NEW k \in Nat,
         \/ stack = <<>> /\ stack' = <<Dtor(k)>>
         \/ Len(stack) = 1 /\ stack[1].kind = "dtor" /\ stack' = <<>>
  PROVE  IInv'
<1> USE DEF IInv, Shape, Order
<1>1. /\ Len(stack') \in 0..1 /\ stack' \in Seq(Frame)
      /\ \A n \in 1..Len(stack') : stack'[n].kind = "dtor"
  <2>1. Dtor(k) \in Frame /\ Dtor(k).kind = "dtor"
    BY DEF Dtor, Frame
  <2>2. CASE stack' = <<Dtor(k)>>
    <3> DEFINE d == Dtor(k)
    <3>1. d \in Frame /\ d.kind = "dtor" /\ stack' = <<d>>
      BY <2>1, <2>2
    <3> HIDE DEF d
    <3> QED
      BY <3>1
  <2>3. CASE stack' = <<>>
    BY <2>3
  <2> QED
    BY <2>2, <2>3
<1>2. \A n \in 1..Len(stack) : stack[n].kind # "walk" /\ stack[n].kind # "term"
  BY DEF StackInv
<1>3. HeapInv' /\ EntriesInv'
  BY DEF HeapInv, EntriesInv
<1>4. StackInv' /\ Owned' /\ Layered'
  BY <1>1 DEF StackInv, Owned, Layered
<1>5. RanOnce'
  BY DEF RanOnce
<1>6. Accounted'
  <2>1. \A o : ~OnWalk(o) /\ ~OnWalk(o)'
    BY <1>1, <1>2 DEF OnWalk
  <2>2. \A o : OnHead(o)' <=> OnHead(o)
    BY DEF OnHead
  <2> QED
    BY <2>1, <2>2 DEF Accounted, Destroyed
<1> QED
  BY <1>3, <1>4, <1>5, <1>6

\* The stack with a frame more and without its innermost frame.
LEMMA PushedPopped ==
  ASSUME NEW s \in Seq(Frame)
  PROVE  /\ \A f \in Frame :
              /\ Append(s, f) \in Seq(Frame) /\ Len(Append(s, f)) = Len(s) + 1
              /\ Append(s, f)[Len(s) + 1] = f
              /\ \A n \in 1..Len(s) : Append(s, f)[n] = s[n]
         /\ Len(s) >= 1 =>
              /\ Front(s) \in Seq(Frame) /\ Len(Front(s)) = Len(s) - 1
              /\ \A n \in 1..(Len(s) - 1) : Front(s)[n] = s[n]
<1>1. ASSUME NEW f \in Frame
      PROVE  /\ Append(s, f) \in Seq(Frame) /\ Len(Append(s, f)) = Len(s) + 1
             /\ Append(s, f)[Len(s) + 1] = f
             /\ \A n \in 1..Len(s) : Append(s, f)[n] = s[n]
  OBVIOUS
<1>2. ASSUME Len(s) >= 1
      PROVE  /\ Front(s) \in Seq(Frame) /\ Len(Front(s)) = Len(s) - 1
             /\ \A n \in 1..(Len(s) - 1) : Front(s)[n] = s[n]
  <2> DEFINE p == Len(s) - 1
             r == SubSeq(s, 1, p)
  <2>1. p \in Nat /\ \A n \in 1..p : s[n] \in Frame
    BY <1>2
  <2> HIDE DEF p
  <2>2. /\ r \in Seq(Frame)
        /\ Len(r) = IF 1 <= p THEN p - 1 + 1 ELSE 0
        /\ \A n \in 1..(p - 1 + 1) : r[n] = s[1 + n - 1]
    BY <2>1, SubSeqProperties
  <2>3. Front(s) = r
    BY DEF Front, p
  <2> HIDE DEF r
  <2>4. Len(r) = p /\ \A n \in 1..p : r[n] = s[n]
    BY <2>1, <2>2
  <2> QED
    BY <2>2, <2>3, <2>4 DEF p
<1> QED
  BY <1>1, <1>2

\* What the lists and frames are made of.
LEMMA Types ==
  ASSUME HeapInv, StackInv
  PROVE  /\ Len(lists) \in Nat /\ Len(stack) \in Nat /\ Len(ran) \in Nat /\ Len(objects) \in Nat
         /\ \A l \in 1..Len(lists) : /\ lists[l].entries \in Seq(Nat)
                                     /\ Len(lists[l].entries) \in Nat
                                     /\ lists[l].allocCount \in Nat
         /\ \A n \in 1..Len(stack) : /\ stack[n].kind \in {"walk", "term", "dtor"}
                                     /\ stack[n].at \in Nat /\ stack[n].left \in Nat
<1>1. lists \in Seq(List) /\ stack \in Seq(Frame) /\ ran \in Seq(Nat) /\ objects \in Seq(Object)
  BY DEF HeapInv, StackInv
<1>2. \A l \in 1..Len(lists) : lists[l] \in List
  BY <1>1
<1>3. \A n \in 1..Len(stack) : stack[n] \in Frame
  BY <1>1
<1>4. \A l \in 1..Len(lists) : lists[l].entries \in Seq(Nat) /\ lists[l].allocCount \in Nat
  BY <1>2 DEF List
<1>5. \A l \in 1..Len(lists) : Len(lists[l].entries) \in Nat
  BY <1>4
<1>6. \A n \in 1..Len(stack) : /\ stack[n].kind \in {"walk", "term", "dtor"}
                               /\ stack[n].at \in Nat /\ stack[n].left \in Nat
  BY <1>3 DEF Frame
<1> QED
  BY <1>1, <1>4, <1>5, <1>6

\* The list at the head becomes the innermost one that is walked; all of it is to be
\* destroyed.  s is the stack below it, from which a terminator may have returned.
LEMMA HeadTaken ==
  ASSUME IInv, KeysInv', CleanupInv', value'[1] = 0, value[1] # 0,
         UNCHANGED <<lists, objects, ran>>,
         NEW s \in Seq(Frame), Len(s) <= Len(stack),
         \A n \in 1..Len(s) : /\ stack[n].kind = "walk" /\ s[n].kind = "walk"
                              /\ s[n].at = stack[n].at /\ s[n].left = ToDo(n),
         \A n \in 1..Len(stack) : stack[n].kind = "walk" => n <= Len(s),
         stack' = Append(s, Walk(value[1], Len(lists[value[1]].entries)))
  PROVE  IInv'
<1> DEFINE h == value[1]
           w == Walk(h, Len(lists[h].entries))
<1>0. Len(s) \in Nat
  OBVIOUS
<1>1. /\ Len(lists) \in Nat /\ Len(stack) \in Nat /\ Len(s) \in Nat
      /\ \A l \in 1..Len(lists) : Len(lists[l].entries) \in Nat
      /\ \A n \in 1..Len(stack) : stack[n].left \in Nat
  <2>1. HeapInv /\ StackInv
    BY DEF IInv, Shape
  <2> QED
    BY <1>0, <2>1, Types
<1>2. h \in 1..Len(lists) /\ Len(lists[h].entries) \in Nat
  BY <1>1 DEF IInv, Shape, HeapInv
<1>3. /\ w \in Frame /\ w.kind = "walk" /\ w.at = h
      /\ w.left = Len(lists[h].entries)
  BY <1>2 DEF Walk, Frame
<1> HIDE DEF w
<1>4. /\ stack' \in Seq(Frame) /\ Len(stack') = Len(s) + 1 /\ stack'[Len(s) + 1] = w
      /\ \A n \in 1..Len(s) : stack'[n] = s[n]
  BY <1>3, PushedPopped DEF w, h
<1> HIDE DEF h
<1>5. \A n \in 1..Len(s) : /\ n \in 1..Len(stack)
                           /\ s[n].at \in 1..Len(lists)
                           /\ s[n].left <= Len(lists[s[n].at].entries)
  <2> SUFFICES ASSUME NEW n \in 1..Len(s)
               PROVE  /\ n \in 1..Len(stack)
                      /\ s[n].at \in 1..Len(lists)
                      /\ s[n].left <= Len(lists[s[n].at].entries)
    OBVIOUS
  <2>1. n \in 1..Len(stack)
    BY <1>1
  <2>2. stack[n].at \in 1..Len(lists) /\ stack[n].left <= Len(lists[stack[n].at].entries)
    BY <2>1 DEF IInv, Shape, StackInv
  <2>3. stack[n].left \in Nat /\ s[n].left = ToDo(n)
    BY <2>1, <1>1
  <2>4. ToDo(n) <= stack[n].left /\ ToDo(n) \in Int
    BY <2>3 DEF ToDo
  <2>5. s[n].left <= stack[n].left
    BY <2>3, <2>4
  <2>6. s[n].left \in Int /\ Len(lists[stack[n].at].entries) \in Nat
    BY <2>2, <2>3, <2>4, <1>1
  <2>7. s[n].left <= Len(lists[stack[n].at].entries)
    BY <2>2, <2>5, <2>6, <2>3
  <2>8. s[n].at = stack[n].at
    OBVIOUS
  <2> QED
    BY <2>1, <2>2, <2>7, <2>8
<1>6. \A n \in 1..Len(stack') : \/ n \in 1..Len(s) /\ stack'[n] = s[n]
                                \/ n = Len(s) + 1 /\ stack'[n] = w
  BY <1>1, <1>4
<1>7. HeapInv' /\ EntriesInv'
  BY DEF HeapInv, EntriesInv, IInv, Shape
<1>8. StackInv'
  BY <1>1, <1>2, <1>3, <1>4, <1>5, <1>6 DEF StackInv
<1>9. Owned'
  <2>1. /\ ~lists[h].freed
        /\ \A n \in 1..Len(s) : ~lists[s[n].at].freed /\ s[n].at # h
        /\ \A m, n \in 1..Len(s) : m # n => s[m].at # s[n].at
    BY <1>1, <1>5 DEF IInv, Owned, h
  <2>2. \A n \in 1..Len(stack') : ~lists[stack'[n].at].freed /\ stack'[n].at # 0
    BY <2>1, <1>1, <1>2, <1>3, <1>5, <1>6
  <2>3. \A m, n \in 1..Len(stack') : m # n => stack'[m].at # stack'[n].at
    BY <2>1, <1>3, <1>6
  <2> QED
    BY <2>2, <2>3 DEF Owned
<1>10. Layered'
  <2>1. \A n \in 1..Len(s) : Older(lists[s[n].at].entries, lists[h].entries)
    BY <1>5 DEF IInv, Order, Layered, h
  <2>2. \A m, n \in 1..Len(s) : n < m => Older(lists[s[n].at].entries, lists[s[m].at].entries)
    BY <1>5 DEF IInv, Order, Layered
  <2>3. \A m, n \in 1..Len(stack') : n < m =>
          Older(lists[stack'[n].at].entries, lists[stack'[m].at].entries)
    <3> SUFFICES ASSUME NEW m \in 1..Len(stack'), NEW n \in 1..Len(stack'), n < m
                 PROVE  Older(lists[stack'[n].at].entries, lists[stack'[m].at].entries)
      OBVIOUS
    <3>1. n \in 1..Len(s) /\ stack'[n] = s[n]
      BY <1>1, <1>4
    <3>2. CASE m \in 1..Len(s) /\ stack'[m] = s[m]
      BY <3>1, <3>2, <2>2
    <3>3. CASE stack'[m] = w
      BY <3>1, <3>3, <2>1, <1>3
    <3> QED
      BY <3>2, <3>3, <1>6
  <2> QED
    BY <2>3 DEF Layered
<1>11. RanOnce'
  BY DEF RanOnce, IInv, Order
<1>12. Accounted'
  <2>1. \A o : ~OnHead(o)'
    BY DEF OnHead
  <2>2. \A n \in 1..Len(stack') : ToDo(n)' = stack'[n].left
    BY <1>1, <1>3, <1>4 DEF ToDo
  <2>3. ASSUME NEW o, OnHead(o) PROVE OnWalk(o)'
    <3>1. Len(s) + 1 \in 1..Len(stack') /\ ToDo(Len(s) + 1)' = Len(lists[h].entries)
      BY <1>1, <1>3, <1>4, <2>2
    <3> QED
      BY <2>3, <3>1, <1>3, <1>4 DEF OnHead, OnWalk, h
  <2>4. ASSUME NEW o, OnWalk(o) PROVE OnWalk(o)'
    <3>1. PICK n \in 1..Len(stack) : /\ stack[n].kind = "walk"
                                     /\ \E i \in 1..ToDo(n) : lists[stack[n].at].entries[i] = o
      BY <2>4 DEF OnWalk
    <3>2. n \in 1..Len(s) /\ n \in 1..Len(stack') /\ stack'[n] = s[n]
      BY <3>1, <1>1, <1>4
    <3>3. ToDo(n)' = ToDo(n)
      BY <3>2, <2>2
    <3> QED
      BY <3>1, <3>2, <3>3 DEF OnWalk
  <2>5. ASSUME NEW o, OnWalk(o)' PROVE OnHead(o) \/ OnWalk(o)
    <3>1. PICK n \in 1..Len(stack') : \E i \in 1..ToDo(n)' : lists[stack'[n].at].entries[i] = o
      BY <2>5 DEF OnWalk
    <3>2. CASE n \in 1..Len(s) /\ stack'[n] = s[n]
      <4>1. /\ n \in 1..Len(stack) /\ stack[n].kind = "walk" /\ stack'[n].at = stack[n].at
            /\ ToDo(n)' = ToDo(n)
        BY <3>2, <1>5, <2>2
      <4>2. \E i \in 1..ToDo(n) : lists[stack[n].at].entries[i] = o
        BY <3>1, <4>1
      <4> QED
        BY <4>1, <4>2 DEF OnWalk
    <3>3. CASE stack'[n] = w
      <4>1. ToDo(n)' = Len(lists[h].entries) /\ stack'[n].at = h
        BY <3>3, <1>3, <2>2
      <4>2. \E i \in 1..Len(lists[h].entries) : lists[h].entries[i] = o
        BY <3>1, <4>1
      <4> QED
        BY <4>2 DEF OnHead, h
    <3> QED
      BY <3>2, <3>3, <1>6
  <2>6. \A o : OnWalk(o)' <=> OnHead(o) \/ OnWalk(o)
    BY <2>3, <2>4, <2>5
  <2> QED
    BY <2>1, <2>6 DEF Accounted, Destroyed, IInv, Order
<1> QED
  BY <1>7, <1>8, <1>9, <1>10, <1>11, <1>12 DEF IInv, Shape, Order

\* A terminator that registered nothing returns; s is the stack it returns to.
LEMMA TerminatorBack ==
  ASSUME IInv, KeysInv', CleanupInv', value'[1] = 0, value[1] = 0,
         UNCHANGED <<lists, objects, ran>>,
         stack' \in Seq(Frame), Len(stack') <= Len(stack),
         \A n \in 1..Len(stack') : /\ stack[n].kind = "walk" /\ stack'[n].kind = "walk"
                                   /\ stack'[n].at = stack[n].at /\ stack'[n].left = ToDo(n),
         \A n \in 1..Len(stack) : stack[n].kind = "walk" => n <= Len(stack')
  PROVE  IInv'
<1>1. /\ Len(lists) \in Nat /\ Len(stack) \in Nat /\ Len(stack') \in Nat
      /\ \A l \in 1..Len(lists) : Len(lists[l].entries) \in Nat
      /\ \A n \in 1..Len(stack) : stack[n].left \in Nat
  BY Types DEF IInv, Shape
<1>2. \A n \in 1..Len(stack') : /\ n \in 1..Len(stack)
                                /\ stack'[n].at \in 1..Len(lists)
                                /\ stack'[n].left <= Len(lists[stack'[n].at].entries)
  <2> SUFFICES ASSUME NEW n \in 1..Len(stack')
               PROVE  /\ n \in 1..Len(stack)
                      /\ stack'[n].at \in 1..Len(lists)
                      /\ stack'[n].left <= Len(lists[stack'[n].at].entries)
    OBVIOUS
  <2>1. n \in 1..Len(stack)
    BY <1>1
  <2>2. stack[n].at \in 1..Len(lists) /\ stack[n].left <= Len(lists[stack[n].at].entries)
    BY <2>1 DEF IInv, Shape, StackInv
  <2>3. stack[n].left \in Nat /\ stack'[n].left <= stack[n].left /\ stack'[n].left \in Int
    BY <2>1, <1>1 DEF ToDo
  <2>4. Len(lists[stack[n].at].entries) \in Nat
    BY <2>2, <1>1
  <2>6. stack'[n].left <= Len(lists[stack[n].at].entries)
    <3> DEFINE x == stack'[n].left
               y == stack[n].left
               z == Len(lists[stack[n].at].entries)
    <3>1. x \in Int /\ y \in Nat /\ z \in Nat /\ x <= y /\ y <= z
      BY <2>2, <2>3, <2>4
    <3> HIDE DEF x, y, z
    <3>2. x <= z
      BY <3>1
    <3> QED
      BY <3>2 DEF x, z
  <2> QED
    BY <2>1, <2>2, <2>6
<1>3. HeapInv' /\ EntriesInv'
  BY DEF HeapInv, EntriesInv, IInv, Shape
<1>4. StackInv'
  BY <1>1, <1>2 DEF StackInv
<1>5. Owned'
  BY <1>2 DEF IInv, Owned
<1>6. Layered'
  BY <1>2 DEF IInv, Order, Layered
<1>7. RanOnce'
  BY DEF RanOnce, IInv, Order
<1>8. \A n \in 1..Len(stack') : ToDo(n)' = ToDo(n)
  BY <1>1 DEF ToDo
<1>9. \A o : ~OnHead(o) /\ ~OnHead(o)'
  BY DEF OnHead
<1>10. \A o : OnWalk(o)' <=> OnWalk(o)
  <2>1. ASSUME NEW o, OnWalk(o) PROVE OnWalk(o)'
    <3>1. PICK n \in 1..Len(stack) : /\ stack[n].kind = "walk"
                                     /\ \E i \in 1..ToDo(n) : lists[stack[n].at].entries[i] = o
      BY <2>1 DEF OnWalk
    <3>2. n \in 1..Len(stack')
      BY <3>1, <1>1
    <3> QED
      BY <3>1, <3>2, <1>8 DEF OnWalk
  <2>2. ASSUME NEW o, OnWalk(o)' PROVE OnWalk(o)
    <3>1. PICK n \in 1..Len(stack') : \E i \in 1..ToDo(n)' : lists[stack'[n].at].entries[i] = o
      BY <2>2 DEF OnWalk
    <3> QED
      BY <3>1, <1>2, <1>8 DEF OnWalk
  <2> QED
    BY <2>1, <2>2
<1>11. Accounted'
  BY <1>9, <1>10 DEF Accounted, Destroyed, IInv, Order
<1> QED
  BY <1>3, <1>4, <1>5, <1>6, <1>7, <1>11 DEF IInv, Shape, Order

\* The innermost list was walked to its end and is freed.
LEMMA ListFreed ==
  ASSUME IInv, KeysInv', CleanupInv', value'[1] = value[1], FreeList
  PROVE  IInv'
<1> DEFINE top == Len(stack)
           a   == stack[top].at
<1>1. /\ Len(lists) \in Nat /\ top \in Nat /\ top >= 1 /\ stack \in Seq(Frame)
      /\ stack[top].kind = "walk" /\ stack[top].left = 0
      /\ lists \in Seq(List)
  BY Types DEF IInv, Shape, FreeList, Doing, Last, StackInv, HeapInv
<1>2. /\ stack' \in Seq(Frame) /\ Len(stack') = top - 1
      /\ \A n \in 1..(top - 1) : stack'[n] = stack[n]
  <2>1. stack' = Front(stack)
    BY DEF FreeList
  <2> QED
    BY <1>1, <2>1, PushedPopped
<1>3. \A n \in 1..top : stack[n].kind = "walk"
  <2>1. \A n \in 1..top : stack[n].kind \in {"walk", "term", "dtor"}
    BY Types DEF IInv, Shape
  <2>2. \A n \in 1..top : stack[n].kind = "term" => n = top
    BY DEF IInv, Shape, StackInv
  <2>3. \A n \in 1..top : stack[n].kind = "dtor" => top = 1
    BY DEF IInv, Shape, StackInv
  <2> QED
    BY <1>1, <2>1, <2>2, <2>3
<1>4. /\ value[1] = 0 /\ a \in 1..Len(lists)
      /\ \A n \in 1..top : stack[n].at \in 1..Len(lists)
                           /\ stack[n].left <= Len(lists[stack[n].at].entries)
  BY <1>1, <1>3 DEF IInv, Shape, StackInv
<1>5. lists' = [lists EXCEPT ![a].freed = TRUE]
  BY <1>1 DEF FreeList, Last
<1>6. /\ lists' \in Seq(List) /\ Len(lists') = Len(lists)
      /\ \A l \in 1..Len(lists) : /\ lists'[l].entries = lists[l].entries
                                  /\ l # a => lists'[l].freed = lists[l].freed
  <2> DEFINE f == [lists[a] EXCEPT !.freed = TRUE]
  <2>1. f \in List /\ f.entries = lists[a].entries
    <3>1. lists[a] \in List
      BY <1>1, <1>4
    <3> QED
      BY <3>1 DEF List
  <2>2. lists' = [lists EXCEPT ![a] = f]
    BY <1>5
  <2> HIDE DEF f, a
  <2> QED
    BY <1>1, <1>4, <2>1, <2>2
<1>7. UNCHANGED <<objects, ran>>
  BY DEF FreeList, history
<1> HIDE DEF top, a
<1>8. HeapInv' /\ EntriesInv'
  <2>1. HeapInv'
    BY <1>6, <1>7 DEF HeapInv, IInv, Shape
  <2>2. EntriesInv'
    BY <1>6, <1>7 DEF EntriesInv, IInv, Shape
  <2> QED
    BY <2>1, <2>2
<1>9. StackInv'
  <2>1. \A n \in 1..Len(stack') :
          /\ stack'[n].kind = "walk" /\ stack'[n].at \in 1..Len(lists')
          /\ stack'[n].left <= Len(lists'[stack'[n].at].entries)
    <3> SUFFICES ASSUME NEW n \in 1..Len(stack')
                 PROVE  /\ stack'[n].kind = "walk" /\ stack'[n].at \in 1..Len(lists')
                        /\ stack'[n].left <= Len(lists'[stack'[n].at].entries)
      OBVIOUS
    <3>1. n \in 1..top /\ stack'[n] = stack[n]
      BY <1>1, <1>2
    <3>2. lists'[stack[n].at].entries = lists[stack[n].at].entries
      BY <3>1, <1>4, <1>6
    <3> QED
      BY <3>1, <3>2, <1>3, <1>4, <1>6
  <2> QED
    BY <2>1, <1>2, <1>4 DEF StackInv
<1>10. \A n \in 1..(top - 1) : /\ n \in 1..top /\ stack[n].at # a /\ ~lists[stack[n].at].freed
                              /\ stack[n].at # value[1]
                              /\ \A m \in 1..(top - 1) : m # n => stack[m].at # stack[n].at
  BY <1>1, <1>3 DEF IInv, Owned, top, a
<1>11. Owned'
  <2>1. \A n \in 1..(top - 1) : ~lists'[stack[n].at].freed
    BY <1>4, <1>6, <1>10
  <2> QED
    BY <2>1, <1>2, <1>4, <1>10 DEF Owned
<1>12. Layered'
  <2>1. \A m, n \in 1..(top - 1) : n < m => Older(lists[stack[n].at].entries, lists[stack[m].at].entries)
    BY <1>3, <1>10 DEF IInv, Order, Layered, top
  <2>2. \A m, n \in 1..(top - 1) : n < m => Older(lists'[stack[n].at].entries, lists'[stack[m].at].entries)
    BY <2>1, <1>4, <1>6, <1>10
  <2> QED
    BY <2>2, <1>2, <1>4 DEF Layered
<1>13. RanOnce'
  BY <1>7 DEF RanOnce, IInv, Order
<1>14. Accounted'
  <2>1. \A o : ~OnHead(o) /\ ~OnHead(o)'
    BY <1>4 DEF OnHead
  <2>2. /\ \A n \in 1..(top - 1) : ToDo(n)' = ToDo(n)
        /\ ToDo(top) = 0
    BY <1>1, <1>2, <1>3, <1>10 DEF ToDo, top
  <2>3. ASSUME NEW o, OnWalk(o) PROVE OnWalk(o)'
    <3>1. PICK n \in 1..top : \E i \in 1..ToDo(n) : lists[stack[n].at].entries[i] = o
      BY <2>3 DEF OnWalk, top
    <3>2. n \in 1..(top - 1)
      BY <3>1, <2>2, <1>1
    <3>3. /\ n \in 1..Len(stack') /\ stack'[n].kind = "walk"
          /\ lists'[stack'[n].at].entries = lists[stack[n].at].entries
      BY <3>2, <1>2, <1>3, <1>4, <1>6, <1>10
    <3> QED
      BY <3>1, <3>2, <3>3, <2>2 DEF OnWalk
  <2>4. ASSUME NEW o, OnWalk(o)' PROVE OnWalk(o)
    <3>1. PICK n \in 1..(top - 1) : \E i \in 1..ToDo(n)' : lists'[stack'[n].at].entries[i] = o
      BY <2>4, <1>2 DEF OnWalk
    <3>2. /\ n \in 1..top /\ stack[n].kind = "walk"
          /\ lists'[stack'[n].at].entries = lists[stack[n].at].entries
      BY <1>2, <1>3, <1>4, <1>6, <1>10
    <3> QED
      BY <3>1, <3>2, <2>2 DEF OnWalk, top
  <2> QED
    BY <2>1, <2>3, <2>4, <1>7 DEF Accounted, Destroyed, IInv, Order
<1> QED
  BY <1>8, <1>9, <1>11, <1>12, <1>13, <1>14 DEF IInv, Shape, Order

\* A terminator is called: the object counts as destroyed from now on.
LEMMA ObjectDestroyed ==
  ASSUME IInv, KeysInv', CleanupInv', value'[1] = value[1], CallTerminator
  PROVE  /\ IInv'
         /\ \A o \in 1..Len(objects) : Destroyed(o) \/ o <= ran'[Len(ran')]
<1> DEFINE top == Len(stack)
           a   == stack[top].at
           k   == stack[top].left
           x   == lists[a].entries[k]
<1>1. /\ Len(lists) \in Nat /\ top \in Nat /\ top >= 1 /\ stack \in Seq(Frame)
      /\ stack[top].kind = "walk" /\ k > 0 /\ k \in Nat
      /\ ran \in Seq(Nat) /\ Len(ran) \in Nat
      /\ \A l \in 1..Len(lists) : Len(lists[l].entries) \in Nat
      /\ \A n \in 1..top : stack[n].left \in Nat
  BY Types DEF IInv, Shape, CallTerminator, Doing, Last, StackInv, HeapInv
<1>2. /\ stack' = Append(stack, Term) /\ ran' = Append(ran, x)
      /\ UNCHANGED <<lists, objects>>
  BY DEF CallTerminator, NextEntry, Last
<1>3. Term \in Frame /\ Term.kind = "term"
  BY DEF Term, Frame
<1>4. /\ stack' \in Seq(Frame) /\ Len(stack') = top + 1 /\ stack'[top + 1].kind = "term"
      /\ \A n \in 1..top : stack'[n] = stack[n]
  BY <1>1, <1>2, <1>3, PushedPopped
<1>5. \A n \in 1..top : stack[n].kind = "walk"
  <2>1. \A n \in 1..top : stack[n].kind \in {"walk", "term", "dtor"}
    BY Types DEF IInv, Shape
  <2>2. \A n \in 1..top : stack[n].kind = "term" => n = top
    BY DEF IInv, Shape, StackInv
  <2>3. \A n \in 1..top : stack[n].kind = "dtor" => top = 1
    BY DEF IInv, Shape, StackInv
  <2> QED
    BY <1>1, <2>1, <2>2, <2>3
<1>6. /\ value[1] = 0 /\ a \in 1..Len(lists) /\ k <= Len(lists[a].entries)
      /\ \A n \in 1..top : /\ stack[n].at \in 1..Len(lists)
                           /\ stack[n].left <= Len(lists[stack[n].at].entries)
  BY <1>1, <1>5 DEF IInv, Shape, StackInv
<1>7. k \in 1..Len(lists[a].entries) /\ x \in 1..Len(objects) /\ x \in Nat
  <2>1. k \in 1..Len(lists[a].entries)
    BY <1>1, <1>6
  <2>2. x \in 1..Len(objects)
    BY <2>1, <1>6 DEF IInv, Shape, EntriesInv
  <2>3. Len(objects) \in Nat
    BY Types DEF IInv, Shape
  <2> QED
    BY <2>1, <2>2, <2>3
<1>8. /\ ran' \in Seq(Nat) /\ Len(ran') = Len(ran) + 1 /\ ran'[Len(ran) + 1] = x
      /\ \A n \in 1..Len(ran) : ran'[n] = ran[n]
  <2> HIDE DEF x
  <2> QED
    BY <1>1, <1>2, <1>7
<1>9. \A o : Destroyed(o)' <=> Destroyed(o) \/ o = x
  <2> HIDE DEF x
  <2>1. \A o : Destroyed(o) => Destroyed(o)'
    BY <1>1, <1>8 DEF Destroyed
  <2>2. \A o : o = x => Destroyed(o)'
    <3>1. Len(ran) + 1 \in 1..Len(ran')
      BY <1>1, <1>8
    <3> QED
      BY <3>1, <1>8 DEF Destroyed
  <2>3. \A o : Destroyed(o)' => Destroyed(o) \/ o = x
    <3> SUFFICES ASSUME NEW o, NEW n \in 1..(Len(ran) + 1), ran'[n] = o
                 PROVE  Destroyed(o) \/ o = x
      BY <1>8 DEF Destroyed
    <3>1. n \in 1..Len(ran) \/ n = Len(ran) + 1
      BY <1>1
    <3> QED
      BY <3>1, <1>8 DEF Destroyed
  <2> QED
    BY <2>1, <2>2, <2>3
<1>10. \A n \in 1..top : ToDo(n) = stack[n].left
  BY <1>1, <1>5 DEF ToDo
<1>11. \A n \in 1..top : ToDo(n)' = IF n = top THEN stack[n].left - 1 ELSE stack[n].left
  BY <1>1, <1>4 DEF ToDo
<1>12. OnWalk(x)
  <2>1. k \in 1..ToDo(top) /\ top \in 1..Len(stack)
    BY <1>1, <1>10
  <2>2. \E i \in 1..ToDo(top) : lists[stack[top].at].entries[i] = x
    BY <2>1
  <2> QED
    BY <2>1, <2>2, <1>1 DEF OnWalk
<1>13. ~Destroyed(x)
  BY <1>7, <1>12 DEF IInv, Order, Accounted
\* What is on the lists is at most as old: on the innermost list before it, or on
\* an outer list.
<1>14. ASSUME NEW n \in 1..top, NEW i \in 1..ToDo(n)
       PROVE  /\ i \in 1..Len(lists[stack[n].at].entries)
              /\ lists[stack[n].at].entries[i] <= x
              /\ (n = top /\ i = k) \/ lists[stack[n].at].entries[i] < x
  <2>1. i \in 1..stack[n].left /\ stack[n].left \in Nat
    BY <1>1, <1>10
  <2>2. Len(lists[stack[n].at].entries) \in Nat
    BY <1>1, <1>6
  <2>3. i \in 1..Len(lists[stack[n].at].entries)
    BY <2>1, <2>2, <1>6
  <2>4. lists[stack[n].at].entries[i] \in 1..Len(objects)
    BY <2>3, <1>6 DEF IInv, Shape, EntriesInv
  <2>5. CASE n = top /\ i = k
    BY <2>3, <2>4, <2>5, <1>7
  <2>6. CASE n = top /\ i # k
    <3>1. i < k
      BY <2>1, <2>6
    <3>2. lists[a].entries[i] < x
      BY <3>1, <2>3, <2>6, <1>6, <1>7 DEF IInv, Shape, EntriesInv
    <3> QED
      BY <3>2, <2>3, <2>4, <2>6, <1>7
  <2>7. CASE n # top
    <3>1. n < top
      BY <2>7, <1>1
    <3>2. Older(lists[stack[n].at].entries, lists[a].entries)
      BY <3>1, <1>1, <1>5 DEF IInv, Order, Layered
    <3>3. lists[stack[n].at].entries[i] < x
      BY <3>2, <2>3, <1>7 DEF Older
    <3> QED
      BY <3>3, <2>3, <2>4, <2>7, <1>7
  <2> QED
    BY <2>5, <2>6, <2>7
<1>15. HeapInv' /\ EntriesInv'
  BY <1>2, <1>6, <1>8 DEF IInv, Shape, HeapInv, EntriesInv
<1>16. StackInv'
  <2>1. \A n \in 1..Len(stack') : (n \in 1..top /\ stack'[n] = stack[n]) \/ n = top + 1
    BY <1>1, <1>4
  <2> QED
    BY <2>1, <1>1, <1>2, <1>4, <1>5, <1>6 DEF StackInv
<1>17. Owned'
  <2>1. \A n \in 1..Len(stack') : stack'[n].kind = "walk" => n \in 1..top /\ stack'[n] = stack[n]
    BY <1>1, <1>4
  <2> QED
    BY <2>1, <1>2, <1>6 DEF IInv, Owned
<1>18. Layered'
  <2>1. \A n \in 1..Len(stack') : stack'[n].kind = "walk" => n \in 1..top /\ stack'[n] = stack[n]
    BY <1>1, <1>4
  <2>2. ASSUME NEW m \in 1..Len(stack'), NEW n \in 1..Len(stack'),
               stack'[m].kind = "walk", stack'[n].kind = "walk", n < m
        PROVE  Older(lists[stack'[n].at].entries, lists[stack'[m].at].entries)
    <3>1. /\ m \in 1..top /\ stack'[m] = stack[m] /\ stack[m].kind = "walk"
          /\ n \in 1..top /\ stack'[n] = stack[n] /\ stack[n].kind = "walk"
      BY <2>1, <2>2
    <3>2. Older(lists[stack[n].at].entries, lists[stack[m].at].entries)
      BY <3>1, <2>2 DEF IInv, Order, Layered
    <3> QED
      BY <3>1, <3>2
  <2>3. value'[1] = 0 /\ lists' = lists
    BY <1>2, <1>6
  <2> QED
    BY <2>2, <2>3 DEF Layered
<1>19. RanOnce'
  <2>1. \A n \in 1..Len(ran) : ran[n] # x
    BY <1>13 DEF Destroyed
  <2>2. \A n \in 1..Len(ran') : \/ n \in 1..Len(ran) /\ ran'[n] = ran[n]
                                \/ n = Len(ran) + 1 /\ ran'[n] = x
    <3> HIDE DEF x
    <3> QED
      BY <1>1, <1>8
  <2> HIDE DEF x
  <2> QED
    BY <2>1, <2>2, <1>2, <1>7 DEF IInv, Order, RanOnce
<1>20. \A o : OnWalk(o)' <=> OnWalk(o) /\ o # x
  <2>1. ASSUME NEW o, OnWalk(o), o # x PROVE OnWalk(o)'
    <3>1. PICK n \in 1..top : \E i \in 1..ToDo(n) : lists[stack[n].at].entries[i] = o
      BY <2>1 DEF OnWalk
    <3>2. PICK i \in 1..ToDo(n) : lists[stack[n].at].entries[i] = o
      BY <3>1
    <3>3. i \in 1..ToDo(n)'
      BY <3>2, <2>1, <1>1, <1>10, <1>11
    <3>4. n \in 1..Len(stack') /\ stack'[n] = stack[n] /\ stack[n].kind = "walk"
      BY <1>1, <1>4, <1>5
    <3> QED
      BY <3>2, <3>3, <3>4, <1>2 DEF OnWalk
  <2>2. ASSUME NEW o, OnWalk(o)' PROVE OnWalk(o) /\ o # x
    <3>1. PICK n \in 1..Len(stack') : stack'[n].kind = "walk" /\ \E i \in 1..ToDo(n)' : lists[stack'[n].at].entries[i] = o
      BY <2>2, <1>2 DEF OnWalk
    <3>2. n \in 1..top /\ stack'[n] = stack[n]
      BY <3>1, <1>1, <1>4
    <3>3. PICK i \in 1..ToDo(n)' : lists[stack[n].at].entries[i] = o
      BY <3>1, <3>2
    <3>4. i \in 1..ToDo(n) /\ ~(n = top /\ i = k)
      BY <3>2, <3>3, <1>1, <1>10, <1>11
    <3>5. o # x
      <4>1. lists[stack[n].at].entries[i] < x
        BY <3>2, <3>4, <1>14
      <4> QED
        BY <4>1, <3>3, <1>7
    <3> QED
      BY <3>2, <3>3, <3>4, <3>5, <1>5 DEF OnWalk
  <2> QED
    BY <2>1, <2>2
<1>21. \A o : ~OnHead(o) /\ ~OnHead(o)'
  BY <1>6 DEF OnHead
<1>22. Accounted'
  BY <1>2, <1>9, <1>13, <1>20, <1>21 DEF IInv, Order, Accounted
<1>23. ASSUME NEW o \in 1..Len(objects), ~Destroyed(o) PROVE o <= ran'[Len(ran')]
  <2>1. OnWalk(o)
    BY <1>21, <1>23 DEF IInv, Order, Accounted
  <2>2. PICK n \in 1..top : \E i \in 1..ToDo(n) : lists[stack[n].at].entries[i] = o
    BY <2>1 DEF OnWalk
  <2>3. o <= x
    BY <2>2, <1>14
  <2> HIDE DEF x
  <2> QED
    BY <2>3, <1>8
<1> QED
  BY <1>15, <1>16, <1>17, <1>18, <1>19, <1>22, <1>23 DEF IInv, Shape, Order

\* A list of objects, of which there are c, gains the newest one.
Gains(old, c, new) ==
    /\ \A i \in 1..Len(new) : new[i] \in 1..(c + 1)
    /\ \A i, j \in 1..Len(new) : i < j => new[i] < new[j]
    /\ \A w \in Seq(Nat) :
          Older(w, old) /\ (\A i \in 1..Len(w) : w[i] \in 1..c) => Older(w, new)
    /\ \A o \in 1..c : (\E i \in 1..Len(new) : new[i] = o) <=> (\E i \in 1..Len(old) : old[i] = o)
    /\ \E i \in 1..Len(new) : new[i] = c + 1

\* That is what appending it does to a list in the order of construction.
LEMMA Newest ==
  ASSUME NEW old \in Seq(Nat), NEW c \in Nat, NEW new, new = Append(old, c + 1),
         \A i \in 1..Len(old) : old[i] \in 1..c,
         \A i, j \in 1..Len(old) : i < j => old[i] < old[j]
  PROVE  Gains(old, c, new)
<1>1. /\ Len(old) \in Nat /\ Len(new) = Len(old) + 1 /\ new[Len(old) + 1] = c + 1
      /\ \A i \in 1..Len(old) : new[i] = old[i]
  OBVIOUS
<1>2. \A i \in 1..Len(new) : \/ i \in 1..Len(old) /\ new[i] = old[i] /\ new[i] \in 1..c
                             \/ i = Len(old) + 1 /\ new[i] = c + 1
  BY <1>1
<1>3. \A i \in 1..Len(new) : new[i] \in 1..(c + 1)
  BY <1>2
<1>4. \A i, j \in 1..Len(new) : i < j => new[i] < new[j]
  <2> SUFFICES ASSUME NEW i \in 1..Len(new), NEW j \in 1..Len(new), i < j
               PROVE  new[i] < new[j]
    OBVIOUS
  <2>1. i \in 1..Len(old) /\ new[i] = old[i] /\ new[i] \in 1..c
    BY <1>1, <1>2
  <2>2. CASE j \in 1..Len(old) /\ new[j] = old[j]
    <3>1. old[i] < old[j]
      BY <2>1, <2>2
    <3> QED
      BY <3>1, <2>1, <2>2
  <2>3. CASE new[j] = c + 1
    <3> DEFINE u == new[i]
               v == new[j]
    <3>1. u \in 1..c /\ v = c + 1
      BY <2>1, <2>3
    <3> HIDE DEF u, v
    <3>2. u < v
      BY <3>1
    <3> QED
      BY <3>2 DEF u, v
  <2> QED
    BY <2>2, <2>3, <1>2
<1>5. ASSUME NEW w \in Seq(Nat), Older(w, old), \A i \in 1..Len(w) : w[i] \in 1..c
      PROVE  Older(w, new)
  <2> SUFFICES ASSUME NEW i \in 1..Len(w), NEW j \in 1..Len(new)
               PROVE  w[i] < new[j]
    BY DEF Older
  <2>1. CASE j \in 1..Len(old) /\ new[j] = old[j]
    BY <2>1, <1>5 DEF Older
  <2>2. CASE new[j] = c + 1
    BY <2>2, <1>5
  <2> QED
    BY <2>1, <2>2, <1>2
<1>6. ASSUME NEW o \in 1..c
      PROVE  (\E i \in 1..Len(new) : new[i] = o) <=> (\E i \in 1..Len(old) : old[i] = o)
  <2>1. ASSUME NEW i \in 1..Len(new), new[i] = o PROVE \E j \in 1..Len(old) : old[j] = o
    <3>1. i \in 1..Len(old) /\ new[i] = old[i]
      BY <2>1, <1>2
    <3> QED
      BY <3>1, <2>1
  <2>2. ASSUME NEW i \in 1..Len(old), old[i] = o PROVE \E j \in 1..Len(new) : new[j] = o
    <3>1. i \in 1..Len(new) /\ new[i] = old[i]
      BY <1>1
    <3> QED
      BY <3>1, <2>2
  <2> QED
    BY <2>1, <2>2
<1>7. \E i \in 1..Len(new) : new[i] = c + 1
  <2>1. Len(old) + 1 \in 1..Len(new)
    BY <1>1
  <2> QED
    BY <2>1, <1>1
<1> QED
  BY <1>3, <1>4, <1>5, <1>6, <1>7 DEF Gains

\* The entries of the list at the head of the key.
HeadEntries == IF value[1] = 0 THEN <<>> ELSE lists[value[1]].entries

\* What _tlv_atexit() does: the object is the last one of list h, which is now at the
\* head and is new, a copy of the one that was full, or the same as before.
HeadGains(h) ==
    /\ lists' \in Seq(List) /\ h \in 1..Len(lists') /\ value'[1] = h
    /\ \/ h = value[1] /\ Len(lists') = Len(lists)
       \/ h = Len(lists) + 1 /\ Len(lists') = Len(lists) + 1
    /\ ~lists'[h].freed /\ lists'[h].entries = Append(HeadEntries, Len(objects) + 1)
    /\ \A l \in 1..Len(lists) : /\ l # h => lists'[l].entries = lists[l].entries
                                /\ l # value[1] => lists'[l] = lists[l]

\* An object is registered.
LEMMA EntryAdded ==
  ASSUME IInv, KeysInv', CleanupInv', UNCHANGED <<stack, ran>>,
         stack # <<>> => stack[Len(stack)].kind # "walk",
         NEW x \in Object, objects' = Append(objects, x),
         NEW h, HeadGains(h)
  PROVE  IInv'
<1> DEFINE c == Len(objects)
           old == HeadEntries
           new == lists'[h].entries
<1>1. /\ Len(lists) \in Nat /\ Len(stack) \in Nat /\ c \in Nat
      /\ \A l \in 1..Len(lists) : lists[l].entries \in Seq(Nat) /\ Len(lists[l].entries) \in Nat
      /\ value[1] \in 0..Len(lists)
  BY Types DEF IInv, Shape, HeapInv
<1>2. objects' \in Seq(Object) /\ Len(objects') = c + 1
  BY DEF IInv, Shape, HeapInv
<1>3. /\ old \in Seq(Nat)
      /\ \A i \in 1..Len(old) : old[i] \in 1..c
      /\ \A i, j \in 1..Len(old) : i < j => old[i] < old[j]
  <2>1. CASE value[1] = 0
    BY <2>1 DEF HeadEntries
  <2>2. CASE value[1] # 0
    <3>1. value[1] \in 1..Len(lists) /\ old = lists[value[1]].entries
      BY <2>2, <1>1 DEF HeadEntries
    <3> QED
      BY <3>1, <1>1 DEF IInv, Shape, EntriesInv
  <2> QED
    BY <2>1, <2>2
<1>4. new = Append(old, c + 1)
  BY DEF HeadGains
<1> HIDE DEF new, old, c
<1>5. Gains(old, c, new)
  BY <1>1, <1>3, <1>4, Newest
<1>6. /\ lists' \in Seq(List) /\ Len(lists') \in Nat /\ h \in 1..Len(lists') /\ value'[1] = h
      /\ \A l \in 1..Len(lists') : l # h => l \in 1..Len(lists)
      /\ Len(lists) <= Len(lists')
      /\ h = value[1] \/ h = Len(lists) + 1
  BY <1>1 DEF HeadGains
<1>7. /\ ~lists'[h].freed
      /\ \A l \in 1..Len(lists) : /\ l # h => lists'[l].entries = lists[l].entries
                                  /\ l # value[1] => lists'[l] = lists[l]
  BY DEF HeadGains
<1>8. HeapInv'
  BY <1>2, <1>6 DEF IInv, Shape, HeapInv
<1>9. EntriesInv'
  <2>1. ASSUME NEW l \in 1..Len(lists'), l # h, NEW i \in 1..Len(lists'[l].entries)
        PROVE  /\ lists'[l].entries[i] \in 1..(c + 1)
               /\ \A j \in 1..Len(lists'[l].entries) : i < j =>
                     lists'[l].entries[i] < lists'[l].entries[j]
    <3>1. l \in 1..Len(lists) /\ lists'[l].entries = lists[l].entries
      BY <2>1, <1>6, <1>7
    <3>2. /\ lists[l].entries[i] \in 1..c
          /\ \A j \in 1..Len(lists[l].entries) : i < j => lists[l].entries[i] < lists[l].entries[j]
      BY <3>1, <2>1 DEF IInv, Shape, EntriesInv, c
    <3>3. \A p \in 1..c : p \in 1..(c + 1)
      BY <1>1
    <3> QED
      BY <3>1, <3>2, <3>3
  <2>2. ASSUME NEW i \in 1..Len(new)
        PROVE  /\ new[i] \in 1..(c + 1)
               /\ \A j \in 1..Len(new) : i < j => new[i] < new[j]
    BY <1>5 DEF Gains
  <2> QED
    BY <2>1, <2>2, <1>2 DEF EntriesInv, new
\* The lists that are walked are others.
<1>10. ASSUME NEW n \in 1..Len(stack), stack[n].kind = "walk"
       PROVE  /\ stack[n].at \in 1..Len(lists) /\ stack[n].at \in 1..Len(lists')
              /\ stack[n].at # h /\ n # Len(stack)
              /\ lists'[stack[n].at] = lists[stack[n].at] /\ ~lists[stack[n].at].freed
  <2> DEFINE a == stack[n].at
  <2>1. a \in 1..Len(lists) /\ Len(stack) >= 1
    BY <1>1, <1>10 DEF IInv, Shape, StackInv
  <2>2. a # value[1] /\ ~lists[a].freed
    BY <1>10 DEF IInv, Owned
  <2>3. n # Len(stack)
    BY <2>1, <1>10 DEF IInv, Shape, StackInv
  <2> HIDE DEF a
  <2>4. a \in 1..Len(lists') /\ a # h
    BY <2>1, <2>2, <1>1, <1>6
  <2>5. lists'[a] = lists[a]
    BY <2>1, <2>2, <1>7
  <2> QED
    BY <2>1, <2>2, <2>3, <2>4, <2>5 DEF a
<1>11. StackInv'
  <2>1. /\ stack \in Seq(Frame)
        /\ \A n \in 1..Len(stack) :
             /\ stack[n].kind = "walk" => stack[n].left <= Len(lists[stack[n].at].entries)
             /\ stack[n].kind = "term" =>
                  n = Len(stack) /\ n > 1 /\ stack[n - 1].kind = "walk" /\ stack[n - 1].left > 0
             /\ stack[n].kind = "dtor" => Len(stack) = 1
    BY DEF IInv, Shape, StackInv
  <2>2. \A n \in 1..Len(stack) : stack[n].kind = "walk" =>
           /\ stack[n].at \in 1..Len(lists') /\ n # Len(stack)
           /\ stack[n].left <= Len(lists'[stack[n].at].entries)
    BY <2>1, <1>10
  <2> QED
    BY <2>1, <2>2 DEF StackInv
<1>12. Owned'
  BY <1>6, <1>7, <1>10 DEF IInv, Owned
<1>13. Layered'
  <2>1. ASSUME NEW n \in 1..Len(stack), stack[n].kind = "walk"
        PROVE  Older(lists'[stack[n].at].entries, new)
    <3> DEFINE w == lists[stack[n].at].entries
    <3>1. lists'[stack[n].at].entries = w /\ w \in Seq(Nat)
      BY <2>1, <1>1, <1>10
    <3>2. \A i \in 1..Len(w) : w[i] \in 1..c
      BY <2>1, <1>10 DEF IInv, Shape, EntriesInv, c
    <3>3. Older(w, old)
      <4>1. CASE value[1] = 0
        BY <4>1 DEF Older, old, HeadEntries
      <4>2. CASE value[1] # 0
        BY <4>2, <2>1 DEF IInv, Order, Layered, old, HeadEntries
      <4> QED
        BY <4>1, <4>2
    <3> HIDE DEF w
    <3> QED
      BY <3>1, <3>2, <3>3, <1>5 DEF Gains
  <2>2. \A m, n \in 1..Len(stack) : stack[m].kind = "walk" /\ stack[n].kind = "walk" /\ n < m =>
          Older(lists'[stack[n].at].entries, lists'[stack[m].at].entries)
    BY <1>10 DEF IInv, Order, Layered
  <2> QED
    BY <2>1, <2>2, <1>6 DEF Layered, new
<1>14. \A n \in 1..Len(ran) : ran[n] \in 1..c
  BY DEF IInv, Order, RanOnce, c
<1>15. RanOnce'
  <2>1. \A p \in 1..c : p \in 1..(c + 1)
    BY <1>1
  <2>2. \A n \in 1..Len(ran) : ran[n] \in 1..Len(objects')
    BY <2>1, <1>2, <1>14
  <2> QED
    BY <2>2 DEF IInv, Order, RanOnce
<1>16. \A o : Destroyed(o)' <=> Destroyed(o)
  BY DEF Destroyed
<1>17. ~Destroyed(c + 1)
  BY <1>1, <1>14 DEF Destroyed
<1>18. \A o : OnWalk(o)' <=> OnWalk(o)
  <2>1. \A n \in 1..Len(stack) : ToDo(n)' = ToDo(n)
    BY DEF ToDo
  <2>2. \A n \in 1..Len(stack) : stack[n].kind = "walk" =>
          lists'[stack[n].at].entries = lists[stack[n].at].entries
    BY <1>10
  <2>4. ASSUME NEW o, OnWalk(o) PROVE OnWalk(o)'
    BY <2>1, <2>2, <2>4 DEF OnWalk
  <2>5. ASSUME NEW o, OnWalk(o)' PROVE OnWalk(o)
    BY <2>1, <2>2, <2>5 DEF OnWalk
  <2> QED
    BY <2>4, <2>5
<1>19. \A o : OnHead(o)' <=> \E i \in 1..Len(new) : new[i] = o
  <2>1. value'[1] # 0
    BY <1>1, <1>6
  <2> QED
    BY <2>1, <1>6 DEF OnHead, new
<1>20. \A o : OnHead(o) <=> \E i \in 1..Len(old) : old[i] = o
  <2>1. CASE value[1] = 0
    BY <2>1 DEF OnHead, old, HeadEntries
  <2>2. CASE value[1] # 0
    BY <2>2 DEF OnHead, old, HeadEntries
  <2> QED
    BY <2>1, <2>2
<1>21. Accounted'
  <2>1. \A o \in 1..(c + 1) : o \in 1..c \/ o = c + 1
    BY <1>1
  <2>2. ASSUME NEW o \in 1..c PROVE Destroyed(o)' <=> ~(OnHead(o)' \/ OnWalk(o)')
    <3>1. OnHead(o)' <=> OnHead(o)
      BY <1>5, <1>19, <1>20 DEF Gains
    <3>2. Destroyed(o) <=> ~(OnHead(o) \/ OnWalk(o))
      BY DEF IInv, Order, Accounted, c
    <3> QED
      BY <3>1, <3>2, <1>16, <1>18
  <2>3. ASSUME NEW o, o = c + 1 PROVE Destroyed(o)' <=> ~(OnHead(o)' \/ OnWalk(o)')
    <3>1. OnHead(o)'
      BY <2>3, <1>5, <1>19 DEF Gains
    <3>2. ~Destroyed(o)'
      BY <2>3, <1>16, <1>17
    <3> QED
      BY <3>1, <3>2
  <2> QED
    BY <2>1, <2>2, <2>3, <1>2 DEF Accounted
<1> QED
  BY <1>8, <1>9, <1>11, <1>12, <1>13, <1>15, <1>21 DEF IInv, Shape, Order

-----------------------------------------------------------------------------
(* The steps of the specification. *)

\* The code of the program that runs is not below a walk.
LEMMA WhenUserRuns ==
  ASSUME IInv, UserRuns
  PROVE  /\ stack # <<>> => stack[Len(stack)].kind # "walk"
         /\ Now \in Moment
<1>1. stack # <<>> => stack[Len(stack)].kind # "walk"
  BY DEF UserRuns, Doing, Last
<1>2. /\ stack \in Seq(Frame) /\ round \in Nat
      /\ \A n \in 1..Len(stack) : stack[n].kind = "dtor" => Len(stack) = 1
      /\ \A n \in 1..Len(stack) : stack[n].at \in Nat
  BY Types DEF IInv, Shape, StackInv, CleanupInv
<1> DEFINE dtors == {n \in DOMAIN stack : stack[n].kind = "dtor"}
           by == IF dtors = {} THEN 0 ELSE stack[Max(dtors)].at
<1>3. dtors \subseteq {1} /\ \A n \in dtors : n \in 1..Len(stack)
  BY <1>2
<1>4. dtors = {} \/ dtors = {1}
  BY <1>3
<1>5. Max({1}) = 1
  BY DEF Max
<1>6. by \in Nat
  <2> HIDE DEF dtors
  <2>1. CASE dtors = {}
    BY <2>1
  <2>2. CASE dtors = {1}
    <3>1. 1 \in 1..Len(stack) /\ Max(dtors) = 1
      BY <2>2, <1>3, <1>5
    <3> QED
      BY <3>1, <2>2, <1>2
  <2> QED
    BY <2>1, <2>2, <1>4
<1>7. Now = [round |-> round, by |-> by]
  BY DEF Now
<1> HIDE DEF by
<1> QED
  BY <1>1, <1>2, <1>6, <1>7 DEF Moment

\* _tlv_atexit() adds the object to the list at the head.
LEMMA AtexitGains ==
  ASSUME IInv, NEW k \in DOMAIN keys, Atexit(k), TerminatorsKey = 1, 1 \in DOMAIN value
  PROVE  \E h \in Nat : HeadGains(h) /\ (value' = value \/ value' = [value EXCEPT ![1] = h])
<1> DEFINE l == value[1]
           o == Len(objects) + 1
           n == Len(lists) + 1
<1>1. /\ l \in 0..Len(lists) /\ lists \in Seq(List) /\ Len(lists) \in Nat /\ o \in Nat
      /\ value \in Seq(Nat)
  BY Types DEF IInv, Shape, HeapInv, KeysInv
<1>2. CASE l = 0 /\ NewList(o)
  <2> DEFINE new == [allocCount |-> 1, freed |-> FALSE, entries |-> <<o>>]
  <2>1. new \in List /\ ~new.freed /\ new.entries = <<o>>
    <3>1. <<o>> \in Seq(Nat)
      BY <1>1
    <3> QED
      BY <3>1 DEF List
  <2>2. lists' = Append(lists, new) /\ value' = [value EXCEPT ![1] = n]
    BY <1>2 DEF NewList
  <2> HIDE DEF new
  <2>3. /\ lists' \in Seq(List) /\ Len(lists') = n /\ lists'[n] = new /\ n \in Nat /\ n \in 1..n
        /\ \A j \in 1..Len(lists) : lists'[j] = lists[j]
    BY <1>1, <2>1, <2>2
  <2>4. value'[1] = n
    BY <2>2
  <2>5. <<o>> = Append(HeadEntries, o)
    BY <1>2 DEF HeadEntries
  <2>6. HeadGains(n)
    BY <2>1, <2>3, <2>4, <2>5 DEF HeadGains
  <2> QED
    BY <2>2, <2>3, <2>6
<1>3. ASSUME l # 0
      PROVE  /\ l \in 1..Len(lists) /\ lists[l] \in List /\ ~lists[l].freed
             /\ lists[l].entries \in Seq(Nat) /\ HeadEntries = lists[l].entries
             /\ lists[l].allocCount \in Nat
             /\ Append(lists[l].entries, o) \in Seq(Nat)
  <2>1. l \in 1..Len(lists)
    BY <1>1, <1>3
  <2>2. lists[l] \in List
    BY <1>1, <2>1
  <2>3. lists[l].entries \in Seq(Nat) /\ lists[l].allocCount \in Nat
    BY <2>2 DEF List
  <2>4. ~lists[l].freed
    BY <1>3 DEF IInv, Owned
  <2>5. HeadEntries = lists[l].entries
    BY <1>3 DEF HeadEntries
  <2>6. Append(lists[l].entries, o) \in Seq(Nat)
    BY <2>3, <1>1
  <2> QED
    BY <2>1, <2>2, <2>3, <2>4, <2>5, <2>6
<1>4. CASE l # 0 /\ GrowList(l, o)
  <2> DEFINE old == [lists[l] EXCEPT !.freed = TRUE]
             ls  == [lists EXCEPT ![l] = old]
             new == [allocCount |-> 2 * lists[l].allocCount, freed |-> FALSE,
                     entries |-> Append(lists[l].entries, o)]
  <2>1. old \in List /\ old.entries = lists[l].entries
    BY <1>3, <1>4 DEF List
  <2>2. new \in List /\ ~new.freed /\ new.entries = Append(lists[l].entries, o)
    <3>1. 2 * lists[l].allocCount \in Nat /\ Append(lists[l].entries, o) \in Seq(Nat)
      BY <1>3, <1>4
    <3> QED
      BY <3>1 DEF List
  <2>3. lists' = Append(ls, new) /\ value' = [value EXCEPT ![1] = n]
    BY <1>4 DEF GrowList
  <2> HIDE DEF old, new
  <2>4. /\ ls \in Seq(List) /\ Len(ls) = Len(lists)
        /\ \A j \in 1..Len(lists) : ls[j] = IF j = l THEN old ELSE lists[j]
    BY <1>1, <1>3, <1>4, <2>1
  <2> HIDE DEF ls
  <2>5. /\ lists' \in Seq(List) /\ Len(lists') = n /\ lists'[n] = new /\ n \in Nat /\ n \in 1..n
        /\ \A j \in 1..Len(lists) : lists'[j] = IF j = l THEN old ELSE lists[j]
    BY <1>1, <2>2, <2>3, <2>4
  <2>6. value'[1] = n
    BY <2>3
  <2>7. new.entries = Append(HeadEntries, o)
    BY <1>3, <1>4, <2>2
  <2>8. \A j \in 1..Len(lists) : /\ lists'[j].entries = lists[j].entries
                                 /\ j # l => lists'[j] = lists[j]
    BY <2>1, <2>5
  <2>9. HeadGains(n)
    BY <2>2, <2>5, <2>6, <2>7, <2>8 DEF HeadGains
  <2> QED
    BY <2>3, <2>5, <2>9
<1>5. CASE l # 0 /\ lists' = [lists EXCEPT ![l].entries = Append(@, o)] /\ UNCHANGED value
  <2> DEFINE new == [lists[l] EXCEPT !.entries = Append(lists[l].entries, o)]
  <2>1. new \in List /\ ~new.freed /\ new.entries = Append(lists[l].entries, o)
    BY <1>3, <1>5 DEF List
  <2>2. lists' = [lists EXCEPT ![l] = new]
    BY <1>5
  <2> HIDE DEF new
  <2>3. /\ lists' \in Seq(List) /\ Len(lists') = Len(lists) /\ lists'[l] = new
        /\ \A j \in 1..Len(lists) : j # l => lists'[j] = lists[j]
    <3>1. l \in 1..Len(lists)
      BY <1>3, <1>5
    <3> HIDE DEF l
    <3> QED
      BY <3>1, <1>1, <2>1, <2>2
  <2>4. l \in 1..Len(lists') /\ value'[1] = l /\ l \in Nat
    BY <1>3, <1>5, <2>3
  <2>5. new.entries = Append(HeadEntries, o)
    BY <1>3, <1>5, <2>1
  <2>6. HeadGains(l)
    BY <2>1, <2>3, <2>4, <2>5 DEF HeadGains
  <2> QED
    BY <1>5, <2>4, <2>6
<1> QED
  BY <1>2, <1>4, <1>5 DEF Atexit

\* A terminator returns to the walk it was called from, which counts it off, and what
\* it has registered is walked next.
TerminatorBackTo(s) ==
    /\ Len(s) = Len(stack) - 1
    /\ \A n \in 1..Len(s) : /\ stack[n].kind = "walk" /\ s[n].kind = "walk"
                            /\ s[n].at = stack[n].at /\ s[n].left = ToDo(n)
    /\ \A n \in 1..Len(stack) : stack[n].kind = "walk" => n <= Len(s)
    /\ value' = [value EXCEPT ![1] = 0]
    /\ stack' = IF value[1] = 0 THEN s
                ELSE Append(s, Walk(value[1], Len(lists[value[1]].entries)))

LEMMA TerminatorGoesBack ==
  ASSUME IInv, TerminatorReturns
  PROVE  \E s \in Seq(Frame) : TerminatorBackTo(s)
<1>a. KeysInv /\ stack \in Seq(Frame) /\ Len(stack) \in Nat
  BY Types DEF IInv, Shape, StackInv
<1>b. TerminatorsKey = 1
  BY <1>a, FirstKey
<1> DEFINE top == Len(stack)
           f == [stack[top - 1] EXCEPT !.left = stack[top - 1].left - 1]
           s == [Front(stack) EXCEPT ![top - 1] = f]
<1>1. /\ UNCHANGED <<keys, lists, objects, ran, round, pos, buffers>>
      /\ stack # <<>> /\ stack[top].kind = "term"
      /\ FinalizeNewList([Front(stack) EXCEPT ![Len(stack) - 1].left = @ - 1])
  BY DEF TerminatorReturns, Doing, Last, history
<1>2. /\ top \in Nat /\ top > 1 /\ stack[top - 1].kind = "walk" /\ stack[top - 1].left > 0
      /\ \A n \in 1..top : stack[n].kind = "term" => n = top
      /\ \A n \in 1..top : stack[n].kind = "dtor" => top = 1
  BY <1>1, <1>a DEF IInv, Shape, StackInv
<1>3. \A n \in 1..top : /\ stack[n].kind \in {"walk", "term", "dtor"}
                        /\ stack[n] \in Frame
  BY <1>a, Types DEF IInv, Shape
<1>4. /\ Front(stack) \in Seq(Frame) /\ Len(Front(stack)) = top - 1
      /\ \A n \in 1..(top - 1) : Front(stack)[n] = stack[n]
  BY <1>2, <1>a, PushedPopped
<1>5. f \in Frame /\ f.kind = "walk" /\ f.at = stack[top - 1].at /\ f.left = stack[top - 1].left - 1
  <2>1. top - 1 \in 1..top
    BY <1>2
  <2>2. stack[top - 1] \in Frame
    BY <1>3, <2>1
  <2> QED
    BY <2>2, <1>2 DEF Frame
<1>6. FinalizeNewList(s)
  <2>1. [Front(stack) EXCEPT ![Len(stack) - 1].left = @ - 1] = s
    <3>1. top - 1 \in 1..(top - 1)
      BY <1>2
    <3>2. Front(stack)[top - 1] = stack[top - 1]
      BY <1>4, <3>1
    <3> QED
      BY <3>2
  <2> QED
    BY <2>1, <1>1
<1> HIDE DEF f
<1>7. /\ s \in Seq(Frame) /\ Len(s) = top - 1 /\ s[top - 1] = f
      /\ \A n \in 1..(top - 2) : s[n] = stack[n]
  <2>1. top - 1 \in 1..(top - 1)
    BY <1>2
  <2> DEFINE fr == Front(stack)
  <2>2. fr \in Seq(Frame) /\ Len(fr) = top - 1 /\ \A n \in 1..(top - 1) : fr[n] = stack[n]
    BY <1>4
  <2>3. s = [fr EXCEPT ![top - 1] = f]
    OBVIOUS
  <2> HIDE DEF fr, s
  <2>4. /\ s \in Seq(Frame) /\ Len(s) = top - 1 /\ s[top - 1] = f
        /\ \A n \in 1..(top - 1) : n # top - 1 => s[n] = fr[n]
    BY <2>1, <2>2, <2>3, <1>5
  <2> QED
    BY <2>2, <2>4, <1>2
<1> HIDE DEF s
<1>8. \A n \in 1..(top - 1) : stack[n].kind = "walk"
  BY <1>2, <1>3
<1>9. \A n \in 1..Len(s) : /\ stack[n].kind = "walk" /\ s[n].kind = "walk"
                           /\ s[n].at = stack[n].at /\ s[n].left = ToDo(n)
  <2> SUFFICES ASSUME NEW n \in 1..(top - 1)
               PROVE  /\ stack[n].kind = "walk" /\ s[n].kind = "walk"
                      /\ s[n].at = stack[n].at /\ s[n].left = ToDo(n)
    BY <1>7
  <2>1. CASE n = top - 1
    BY <2>1, <1>1, <1>5, <1>7, <1>8 DEF ToDo
  <2>2. CASE n # top - 1
    <3>1. n \in 1..(top - 2)
      BY <2>2, <1>2
    <3> QED
      BY <3>1, <2>2, <1>7, <1>8 DEF ToDo
  <2> QED
    BY <2>1, <2>2
<1>10. \A n \in 1..Len(stack) : stack[n].kind = "walk" => n <= Len(s)
  BY <1>1, <1>2, <1>7
<1>11. value' = [value EXCEPT ![1] = 0]
  BY <1>6, <1>b DEF FinalizeNewList
<1>12. stack' = IF value[1] = 0 THEN s
                ELSE Append(s, Walk(value[1], Len(lists[value[1]].entries)))
  BY <1>6, <1>b DEF FinalizeNewList
<1> QED
  BY <1>7, <1>9, <1>10, <1>11, <1>12 DEF TerminatorBackTo

Newer == ran' # ran => \A o \in 1..Len(objects) : Destroyed(o) \/ o <= ran'[Len(ran')]

\* The invariant holds at the start, where tlv_initializer() has allocated the first
\* key; every step preserves it, and an object that a step destroys is the newest of
\* those not yet destroyed.
LEMMA Inductive ==
  /\ Init => IInv
  /\ IInv /\ [Next]_vars => IInv' /\ Newer
<1>0. Init => IInv
  <2> SUFFICES ASSUME Init PROVE IInv
    OBVIOUS
  <2>1. KeysInv
    BY DEF Init, KeysInv
  <2>2. CleanupInv /\ HeapInv /\ EntriesInv /\ StackInv
    BY DEF Init, CleanupInv, HeapInv, EntriesInv, StackInv
  <2>3. Owned /\ Layered
    BY DEF Init, Owned, Layered
  <2>4. Accounted /\ RanOnce
    BY DEF Init, Accounted, RanOnce
  <2> QED
    BY <2>1, <2>2, <2>3, <2>4 DEF IInv, Shape, Order
<1> SUFFICES ASSUME IInv, [Next]_vars
             PROVE  IInv' /\ Newer
  BY <1>0
<1> USE DEF Newer
<1>1. /\ KeysInv /\ CleanupInv /\ stack \in Seq(Frame) /\ Len(stack) \in Nat
      /\ value[1] \in 0..Len(lists) /\ Len(lists) \in Nat /\ lists \in Seq(List)
  BY Types DEF IInv, Shape, HeapInv, StackInv
<1>2. /\ TerminatorsKey = 1 /\ 1 \in DOMAIN value /\ 1 \in DOMAIN keys
      /\ DOMAIN keys = DOMAIN value
      /\ \A name \in Images \cup UserKeys : KeyCreate(name) => KeysInv' /\ value'[1] = value[1]
      /\ \A k \in DOMAIN value, v \in Nat : keys' = keys /\ value' = [value EXCEPT ![k] = v] =>
            /\ KeysInv'
            /\ k # 1 => value'[1] = value[1]
            /\ k = 1 => value'[1] = v
  BY <1>1, FirstKey
<1>3. UNCHANGED <<keys, value>> => KeysInv' /\ value'[1] = value[1]
  BY <1>1 DEF KeysInv
<1>4. UNCHANGED <<round, pos, buffers>> => CleanupInv'
  BY <1>1 DEF CleanupInv
<1>5. \A k \in DOMAIN keys : keys[k] \in Images \cup UserKeys => k # 1
  BY <1>1, TlvAssumption DEF KeysInv
<1>6. CASE UNCHANGED vars
  BY <1>3, <1>4, <1>6, Quiet DEF vars, history
<1>7. ASSUME NEW x \in Images, LoadImage(x)
      PROVE  IInv' /\ ran' = ran
  BY <1>2, <1>4, <1>7, Quiet DEF LoadImage, history
<1>8. ASSUME NEW u \in UserKeys, CreateUserKey(u)
      PROVE  IInv' /\ ran' = ran
  BY <1>2, <1>4, <1>8, Quiet DEF CreateUserKey, history
<1>9. ASSUME NEW k \in DOMAIN keys, SetUserValue(k)
      PROVE  IInv' /\ ran' = ran
  <2>1. k # 1 /\ KeysInv' /\ value'[1] = value[1]
    BY <1>2, <1>5, <1>9 DEF SetUserValue
  <2> QED
    BY <2>1, <1>4, <1>9, Quiet DEF SetUserValue, history
<1>10. ASSUME NEW k \in DOMAIN keys, AllocateForKey(k)
       PROVE  IInv' /\ ran' = ran
  <2>1. k # 1 /\ Len(buffers) + 1 \in Nat /\ buffers \in Seq(Buffer) /\ k \in Nat
    BY <1>1, <1>5, <1>10 DEF AllocateForKey, ImageKeys, CleanupInv, KeysInv
  <2>2. KeysInv' /\ value'[1] = value[1]
    BY <2>1, <1>2, <1>10 DEF AllocateForKey
  <2>3. Now \in Moment
    BY <1>10, WhenUserRuns DEF AllocateForKey
  <2>4. [key |-> k, freed |-> FALSE, made |-> Now] \in Buffer
    BY <2>1, <2>3 DEF Buffer
  <2>5. CleanupInv'
    BY <2>1, <2>4, <1>1, <1>10 DEF CleanupInv, AllocateForKey
  <2> QED
    BY <2>2, <2>5, <1>10, Quiet DEF AllocateForKey, history
<1>11. ASSUME NEW k \in DOMAIN keys, Atexit(k)
       PROVE  IInv' /\ ran' = ran
  <2>1. /\ UserRuns /\ k \in DOMAIN value
        /\ objects' = Append(objects, [buffer |-> value[k], made |-> Now])
        /\ UNCHANGED <<keys, buffers, ran, stack, round, pos>>
    BY <1>2, <1>11 DEF Atexit
  <2>2. [buffer |-> value[k], made |-> Now] \in Object
    BY <2>1, <1>1, WhenUserRuns DEF Object, KeysInv
  <2>3. PICK h \in Nat : HeadGains(h) /\ (value' = value \/ value' = [value EXCEPT ![1] = h])
    BY <1>2, <1>11, AtexitGains
  <2>4. KeysInv' /\ CleanupInv'
    BY <2>1, <2>3, <1>2, <1>3, <1>4
  <2>5. stack # <<>> => stack[Len(stack)].kind # "walk"
    BY <2>1, WhenUserRuns
  <2> QED
    BY <2>1, <2>2, <2>3, <2>4, <2>5, EntryAdded
<1>12. CASE DtorReturns
  <2>1. /\ UNCHANGED <<keys, value, lists, objects, ran, round, pos, buffers>>
        /\ stack # <<>> /\ stack[Len(stack)].kind = "dtor" /\ stack' = Front(stack)
    BY <1>12 DEF DtorReturns, Doing, Last, history
  <2>2. Len(stack) = 1
    BY <2>1, <1>1 DEF IInv, Shape, StackInv
  <2>3. stack' = <<>>
    <3>1. stack' \in Seq(Frame) /\ Len(stack') = 0
      BY <2>1, <2>2, <1>1, PushedPopped
    <3> QED
      BY <3>1
  <2> QED
    BY <2>1, <2>2, <2>3, <1>3, <1>4, UserDtor
<1>13. CASE CallTerminator
  BY <1>3, <1>4, <1>13, ObjectDestroyed DEF CallTerminator
<1>14. CASE TerminatorReturns
  <2>1. UNCHANGED <<keys, lists, objects, ran, round, pos, buffers>>
    BY <1>14 DEF TerminatorReturns, history
  <2>2. PICK s \in Seq(Frame) : TerminatorBackTo(s)
    BY <1>14, TerminatorGoesBack
  <2>3. /\ Len(s) <= Len(stack)
        /\ \A n \in 1..Len(s) : /\ stack[n].kind = "walk" /\ s[n].kind = "walk"
                                /\ s[n].at = stack[n].at /\ s[n].left = ToDo(n)
        /\ \A n \in 1..Len(stack) : stack[n].kind = "walk" => n <= Len(s)
    BY <2>2, <1>1 DEF TerminatorBackTo
  <2>4. KeysInv' /\ value'[1] = 0
    BY <2>1, <2>2, <1>2 DEF TerminatorBackTo
  <2>5. CleanupInv'
    BY <2>1, <1>4
  <2>6. CASE value[1] = 0
    <3>1. stack' = s
      BY <2>2, <2>6 DEF TerminatorBackTo
    <3> QED
      BY <3>1, <2>1, <2>3, <2>4, <2>5, <2>6, TerminatorBack
  <2>7. CASE value[1] # 0
    <3>1. stack' = Append(s, Walk(value[1], Len(lists[value[1]].entries)))
      BY <2>2, <2>7 DEF TerminatorBackTo
    <3> QED
      BY <3>1, <2>1, <2>3, <2>4, <2>5, <2>7, HeadTaken
  <2> QED
    BY <2>1, <2>6, <2>7
<1>15. CASE FreeList
  <2>1. IInv'
    BY <1>3, <1>4, <1>15, ListFreed DEF FreeList
  <2> QED
    BY <2>1, <1>15 DEF FreeList, history
\* pthread or exit() takes the list at the head to walk it.
<1>take. ASSUME stack = <<>>, value[1] # 0, UNCHANGED <<lists, objects, ran>>,
              KeysInv', CleanupInv', value'[1] = 0,
              stack' = <<Walk(value[1], Len(lists[value[1]].entries))>>
       PROVE  IInv'
  <2> DEFINE s == <<>>
             w == Walk(value[1], Len(lists[value[1]].entries))
  <2>1. s \in Seq(Frame) /\ Len(s) = 0 /\ Len(stack) = 0 /\ <<w>> = Append(s, w)
    BY <1>take
  <2>2. /\ Len(s) <= Len(stack)
        /\ \A n \in 1..Len(s) : /\ stack[n].kind = "walk" /\ s[n].kind = "walk"
                                /\ s[n].at = stack[n].at /\ s[n].left = ToDo(n)
        /\ \A n \in 1..Len(stack) : stack[n].kind = "walk" => n <= Len(s)
    BY <2>1
  <2>3. stack' = Append(s, Walk(value[1], Len(lists[value[1]].entries)))
    BY <2>1, <1>take
  <2> HIDE DEF s
  <2> QED
    BY <2>1, <2>2, <2>3, <1>take, HeadTaken
<1>16. CASE TlvExit
  <2>1. /\ UNCHANGED <<keys, lists, objects, ran, round, pos, buffers>>
        /\ stack = <<>> /\ value' = [value EXCEPT ![1] = 0]
        /\ stack' = IF value[1] = 0 THEN <<>>
                    ELSE <<Walk(value[1], Len(lists[value[1]].entries))>>
    BY <1>2, <1>16 DEF TlvExit, history
  <2>2. KeysInv' /\ CleanupInv' /\ value'[1] = 0
    BY <2>1, <1>2, <1>4
  <2>3. CASE value[1] = 0
    BY <2>1, <2>2, <2>3, Quiet
  <2>4. CASE value[1] # 0
    BY <2>1, <2>2, <2>4, <1>take
  <2> QED
    BY <2>1, <2>3, <2>4
<1>17. CASE Exited
  BY <1>3, <1>4, <1>17, Quiet DEF Exited, history
<1>18. CASE ThreadExit
  <2>1. CleanupInv'
    BY <1>1, <1>18 DEF ThreadExit, CleanupInv
  <2> QED
    BY <2>1, <1>3, <1>18, Quiet DEF ThreadExit, history
<1>19. CASE CleanupKey
  <2>1. /\ UNCHANGED <<keys, lists, objects, ran, round>> /\ stack = <<>>
        /\ \E k \in pos..Len(keys) : /\ value[k] # 0 /\ value' = [value EXCEPT ![k] = 0]
                                     /\ Destructor(k) /\ pos' = k + 1
    BY <1>19 DEF CleanupKey, history
  <2>2. PICK k \in pos..Len(keys) : /\ value[k] # 0 /\ value' = [value EXCEPT ![k] = 0]
                                    /\ Destructor(k) /\ pos' = k + 1
    BY <2>1
  <2>3. k \in Nat \ {0} /\ k \in DOMAIN keys /\ k \in DOMAIN value /\ pos' \in Nat \ {0}
    BY <2>2, <1>1 DEF CleanupInv, KeysInv
  <2>4. /\ KeysInv'
        /\ k # 1 => value'[1] = value[1]
        /\ k = 1 => value'[1] = 0
    BY <2>1, <2>2, <2>3, <1>2
  <2>5. CASE /\ k = TerminatorsKey /\ UNCHANGED buffers
             /\ stack' = <<Walk(value[k], Len(lists[value[k]].entries))>>
    <3>1. CleanupInv'
      BY <2>1, <2>3, <2>5, <1>1 DEF CleanupInv
    <3> QED
      BY <3>1, <2>1, <2>2, <2>4, <2>5, <1>2, <1>take
  <2>6. CASE /\ keys[k] \in Images /\ UNCHANGED stack
             /\ buffers' = [buffers EXCEPT ![value[k]].freed = TRUE]
    <3> DEFINE v == value[k]
               b == [buffers[v] EXCEPT !.freed = TRUE]
    <3>1. buffers \in Seq(Buffer)
      BY <1>1 DEF CleanupInv
    <3>2. buffers' = [buffers EXCEPT ![v] = b]
      BY <2>6
    <3>3. buffers' \in Seq(Buffer)
      <4>1. CASE v \in DOMAIN buffers
        <5>0. buffers[v] \in Buffer
          BY <4>1, <3>1
        <5>1. b \in Buffer
          BY <5>0 DEF Buffer
        <5> HIDE DEF b, v
        <5> QED
          BY <5>1, <4>1, <3>1, <3>2
      <4>2. CASE v \notin DOMAIN buffers
        <5> HIDE DEF b, v
        <5>1. buffers' = buffers
          BY <4>2, <3>1, <3>2
        <5> QED
          BY <5>1, <3>1
      <4> QED
        BY <4>1, <4>2
    <3>4. CleanupInv'
      BY <3>3, <2>1, <2>3, <1>1 DEF CleanupInv
    <3>5. k # 1
      BY <2>3, <2>6, <1>5
    <3> QED
      BY <3>4, <3>5, <2>1, <2>4, <2>6, Quiet
  <2>7. CASE keys[k] \in UserKeys /\ UNCHANGED buffers /\ stack' = <<Dtor(k)>>
    <3>1. CleanupInv'
      BY <2>1, <2>3, <2>7, <1>1 DEF CleanupInv
    <3>2. k # 1
      BY <2>3, <2>7, <1>5
    <3> QED
      BY <3>1, <3>2, <2>1, <2>3, <2>4, <2>7, UserDtor
  <2> QED
    BY <2>1, <2>2, <2>5, <2>6, <2>7 DEF Destructor
<1>20. CASE CleanupRound
  <2>1. CleanupInv'
    BY <1>1, <1>20 DEF CleanupRound, CleanupInv
  <2> QED
    BY <2>1, <1>3, <1>20, Quiet DEF CleanupRound, history
<1> QED
  BY <1>6, <1>7, <1>8, <1>9, <1>10, <1>11, <1>12, <1>13, <1>14, <1>15, <1>16, <1>17, <1>18,
     <1>19, <1>20 DEF Next

-----------------------------------------------------------------------------
(* Theorems. *)

\* The list that tlv_finalize_list() walks, the ones walked by the calls it is nested
\* in, and the one _tlv_atexit() would append to, are different lists that are not
\* freed, however many terminators register objects: no list is freed twice or used
\* after it was freed.
THEOREM ListsStayOwned == Spec => []ListsOwned
<1>1. IInv => ListsOwned
  <2> SUFFICES ASSUME IInv PROVE ListsOwned
    OBVIOUS
  <2>1. TerminatorsKey = 1
    BY FirstKey DEF IInv, Shape
  <2>2. DOMAIN stack = 1..Len(stack)
    BY DEF IInv, Shape, StackInv
  <2> QED
    BY <2>1, <2>2 DEF ListsOwned, IInv, Owned
<1>2. IInv /\ [Next]_vars => IInv'
  BY Inductive
<1> QED
  BY <1>1, <1>2, Inductive, PTL DEF Spec

\* Objects are destroyed in the reverse order of their construction, across all the
\* lists there are, also when terminators construct objects and those are destroyed
\* in turn (tlv_finalize_list).
THEOREM NewestDestroyedFirst == Spec => NewestFirst
<1>1. IInv /\ [Next]_vars => IInv'
  BY Inductive
<1>2. IInv /\ [Next]_vars =>
        [ran' # ran => \A o \in DOMAIN objects : o \in Range(ran) \/ o <= ran'[Len(ran')]]_vars
  <2> SUFFICES ASSUME IInv, [Next]_vars, ran' # ran, NEW o \in DOMAIN objects
               PROVE  o \in Range(ran) \/ o <= ran'[Len(ran')]
    OBVIOUS
  <2>1. o \in 1..Len(objects) /\ DOMAIN ran = 1..Len(ran)
    BY DEF IInv, Shape, HeapInv
  <2>2. Destroyed(o) \/ o <= ran'[Len(ran')]
    BY <2>1, Inductive DEF Newer
  <2>3. Destroyed(o) => o \in Range(ran)
    BY <2>1 DEF Destroyed, Range
  <2> QED
    BY <2>2, <2>3
<1> QED
  BY <1>1, <1>2, Inductive, PTL DEF Spec, NewestFirst

=============================================================================
