----------------------------- MODULE ProcessInfo -----------------------------
(****************************************************************************)
(* _dyld_process_info_create() (src/dyld_process_info.cpp): a process reads *)
(* the image list of another out of its memory.  Each withRemoteBuffer() is *)
(* a snapshot of the memory it asks for; between two of them the other      *)
(* process goes on.                                                         *)
(*                                                                          *)
(* Readers change nothing, so one call at a time shows all they can see.    *)
(****************************************************************************)
EXTENDS AllImageInfos

CONSTANTS
    Tries,    \* attempts a call makes (10)
    MaxCount  \* entries read at most (8192)

VARIABLES
    alive,  \* the process that is read has not exited
    call    \* the call in progress

ASSUME ReaderAssumption == Tries \in Nat \ {0} /\ MaxCount \in Nat

NoInfos == [array |-> 0, count |-> 0, time |-> 0]
NoResult == [time |-> 0, imgs |-> <<>>, stale |-> FALSE]
NoCall == [at |-> "none", by |-> None, stamp |-> 0, tries |-> 0, infos |-> NoInfos,
           todo |-> <<>>, imgs |-> <<>>, result |-> NoResult, kr |-> "SUCCESS",
           stale |-> FALSE]

\* _dyld_process_info_create(task, stamp, &kr)
Create(by, stamp) ==
    /\ call.at = "none"
    /\ call' = [NoCall EXCEPT !.at = "infos", !.by = by, !.stamp = stamp]

\* An attempt is over; the last result there was is kept.  `if (kr == KERN_SUCCESS)
\* { break; }' compares the pointer and never ends the loop early.
AttemptEnds(c, base, kr) ==
    call' = [c EXCEPT !.result = IF base = NoResult THEN @ ELSE base, !.kr = kr, !.tries = @ + 1,
                      !.at = IF c.tries + 1 = Tries THEN "done" ELSE "infos",
                      !.infos = NoInfos, !.todo = <<>>, !.imgs = <<>>]

\* dyld_all_image_infos is read; make() looks at it.
ReadInfos ==
    /\ call.at = "infos"
    /\ IF ~alive THEN AttemptEnds(call, NoResult, "FAILURE")
       ELSE IF infos.time = 0
            THEN call' = [call EXCEPT !.at = "suspended"]
       ELSE IF call.stamp # 0 /\ call.stamp = infos.time
            THEN AttemptEnds(call, NoResult, "SUCCESS")
       ELSE IF infos.array = 0
            THEN AttemptEnds(call, NoResult, "RESOURCE_SHORTAGE")
       ELSE call' = [call EXCEPT !.at = "array", !.infos = infos]

\* makeSuspended(): if the process is suspended, both before and after it is
\* searched for images, its main executable is all it has.
MakeSuspended ==
    /\ call.at \in {"suspended", "search"}
    /\ IF ~alive \/ ~suspended THEN AttemptEnds(call, NoResult, "RESOURCE_SHORTAGE")
       ELSE IF call.at = "suspended" THEN call' = [call EXCEPT !.at = "search"]
       ELSE AttemptEnds(call, [time |-> 0, imgs |-> <<Head(Initial)>>, stale |-> FALSE], "SUCCESS")

\* The array is read, at the address and with the length the first read gave.
\* If it has been freed the read may fail, or find any of it overwritten.
ReadArray ==
    /\ call.at = "array"
    /\ LET n    == IF call.infos.count < MaxCount THEN call.infos.count ELSE MaxCount
           a    == arrays[call.infos.array]
           free == call.infos.array # Len(arrays)
       IN  \/ /\ ~alive \/ free
              /\ AttemptEnds(call, NoResult, "FAILURE")
           \/ /\ alive
              /\ \E lost \in IF free THEN SUBSET (1..n) ELSE {{}} :
                    call' = [call EXCEPT !.at = "images", !.stale = free,
                                !.todo = [k \in 1..n |-> IF k \in lost THEN Junk ELSE a[k]]]

\* addImage(): the load commands of the next image are read, in the reader's own
\* memory if it is in the shared cache; an address that is junk may be readable.
ReadImage ==
    /\ call.at = "images" /\ call.todo # <<>>
    /\ LET i == Head(call.todo) IN
          \/ /\ i \in InCache \/ (alive /\ i \in mapped \cup {Junk})
             /\ call' = [call EXCEPT !.todo = Tail(@), !.imgs = Append(@, i)]
          \/ /\ i \notin InCache /\ (~alive \/ i \notin mapped)
             /\ AttemptEnds(call, NoResult, "FAILURE")

MakeInfo ==
    /\ call.at = "images" /\ call.todo = <<>>
    /\ AttemptEnds(call, [time |-> call.infos.time, imgs |-> call.imgs, stale |-> call.stale], "SUCCESS")

Reader == ReadInfos \/ MakeSuspended \/ ReadArray \/ ReadImage \/ MakeInfo

=============================================================================
