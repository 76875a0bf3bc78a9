-------------------------- MODULE ProcessInfoNotify --------------------------
(****************************************************************************)
(* Monitoring of a process by others: dyld_process_info_notify_base         *)
(* (src/dyld_process_info_notify.cpp) in the monitors, and                  *)
(* RemoteNotificationResponder and notifyMonitoringDyld() (src/dyld2.cpp)   *)
(* in the process they monitor, which sends each of them a message when it  *)
(* has loaded or unloaded images and waits for the answer.  The thread that *)
(* is about to call main() tells them so too, without the load lock: other  *)
(* threads may change the list and send notices meanwhile.                  *)
(*                                                                          *)
(* A monitor has a thread, which calls the functions of the interface, and  *)
(* a serial dispatch queue, on which the object handles messages and calls  *)
(* the monitor's blocks; these may call the interface too.  work[m][w] is   *)
(* what m still has to do on its thread or queue before it is free again.   *)
(* Mach ports, their kernel objects, and libdispatch are external.          *)
(****************************************************************************)
EXTENDS ProcessInfo, Integers

CONSTANTS
    Monitors,    \* processes that monitor
    PerMessage,  \* images that fit in a message
    MaxRetains,  \* bound: retain() calls not yet undone
    MaxCalls,    \* bound: calls of _dyld_process_info_create()
    MainFrom     \* bound: main() is next once there were so many changes of the list

VARIABLES
    names,      \* _names: the ports notices are being sent to
    msgs,       \* messages still to be sent, the first of them now
    pending,    \* ports the first message has still to be sent to
    mainPc,     \* the thread about to call main(): "no", "send", "wait" or "done"
    mainPending,\* ports it has still to send to
    mainIn,     \* monitors with its message in their port
    registered, \* ports registered with the kernel for the process
    port,       \* port[m]: the receive right, "none", "live" or "dead"
    inbox,      \* inbox[m]: messages in the port
    source,     \* source[m]: the dispatch source, "none", "active", "cancelled" or "gone"
    connected,  \* _connected
    retains,    \* _retainCount; -1: the last reference was released
    queue,      \* queue[m]: blocks on the dispatch queue
    work,       \* what each thread and queue is in the middle of
    got,        \* got[m]: the message being handled
    crashed,    \* monitors that have died
    calls,      \* calls of _dyld_process_info_create() so far
    known,      \* known[m]: the last timestamp m was told of or has read
    seen,       \* history: seen[m][i]: the last notice of m about image i
    snap,       \* history: snap[m]: the last list m has read since it is registered
    deleted,    \* the object has been deleted
    exits,      \* history: calls of the notifyExit block
    raced       \* history: two were in disconnect() at once

ASSUME MonitorsAssumption == PerMessage \in Nat /\ MaxRetains \in Nat

sendVars    == <<names, msgs, pending>>
mainVars    == <<mainPc, mainPending, mainIn>>
objectVars  == <<source, connected, retains, queue, deleted, exits, raced>>
monitorVars == <<registered, port, inbox, objectVars, work, got, crashed, calls, known, seen, snap>>
vars == <<targetVars, alive, call, sendVars, mainVars, monitorVars>>

Message(kind, imgs) == [kind |-> kind, imgs |-> imgs, time |-> infos.time]
NoMessage == [kind |-> None, imgs |-> <<>>, time |-> 0]
Workers   == {"thread", "queue"}
Disconnecting == {"clear", "cancel", "exit"}  \* inside disconnect()

Doing(m, w)    == IF work[m][w] = <<>> THEN "idle" ELSE Head(work[m][w])
Do(m, w, s)    == work' = [work EXCEPT ![m][w] = s \o Tail(@)]
Start(m, w, s) == work' = [work EXCEPT ![m][w] = s \o @]

\* How many messages m has that the process waits for: notices, and the one that
\* main() is next.
Unanswered(m)     == Len(inbox[m]) + (IF "reply" \in Range(work[m]["queue"]) THEN 1 ELSE 0)
UnansweredMain(m) == (IF m \in mainIn THEN 1 ELSE 0)
                     + (IF "replyMain" \in Range(work[m]["queue"]) THEN 1 ELSE 0)

-----------------------------------------------------------------------------
(* The monitored process *)

\* notifyMonitoringDyld(): the responder asks the kernel for the ports.
GetPorts(ms) ==
    /\ names' = registered /\ pending' = registered
    /\ msgs' = IF registered = {} THEN <<>> ELSE ms
    /\ pc' = IF registered = {} THEN AfterNotices ELSE "send"

NotifyMonitors ==
    /\ pc = "notify"
    /\ GetPorts(<<Message(IF change.unload THEN "unload" ELSE "load", change.imgs)>>)
    /\ UNCHANGED <<loaded, mapped, suspended, memory, change, changes, lists, alive, call,
                   mainVars, monitorVars>>

\* notifyMonitoringDyldMain(), called after the startup initializers
NotifyMain ==
    /\ alive /\ mainPc = "no" /\ (pc = "idle" \/ changes > 0) /\ changes >= MainFrom
    /\ mainPending' = registered
    /\ mainPc' = IF registered = {} THEN "done" ELSE "send"
    /\ UNCHANGED <<targetVars, alive, call, sendVars, mainIn, monitorVars>>

\* (faulty variant: the second half begins one too late)
SecondHalf_Late(s) == SubSeq(s, Len(s) \div 2 + 2, Len(s))
SecondHalf(s) == SubSeq(s, Len(s) \div 2 + 1, Len(s))

\* A list too long for the monitors' buffers is sent in two halves.
Split ==
    /\ pc = "send" /\ pending = names
    /\ LET m == Head(msgs) IN
          /\ Len(m.imgs) > PerMessage
          /\ msgs' = <<[m EXCEPT !.imgs = SubSeq(@, 1, Len(@) \div 2)],
                       [m EXCEPT !.imgs = SecondHalf(@)]>> \o Tail(msgs)
    /\ UNCHANGED <<targetVars, alive, call, names, pending, mainVars, monitorVars>>

\* sendMessage(): to the next port, and wait for the answer.  A port that cannot be
\* sent to is not used again.
Send(m) ==
    /\ pc = "send" /\ m \in pending /\ Len(Head(msgs).imgs) <= PerMessage
    /\ pending' = pending \ {m}
    /\ IF port[m] = "live"
       THEN /\ inbox' = [inbox EXCEPT ![m] = Append(@, Head(msgs))]
            /\ pc' = "wait"
            /\ UNCHANGED names
       ELSE /\ names' = names \ {m}
            /\ UNCHANGED <<inbox, pc>>
    /\ UNCHANGED <<loaded, mapped, suspended, memory, change, changes, lists, alive, call,
                   msgs, mainVars, registered, port, objectVars, work, got, crashed, calls,
                   known, seen, snap>>

NextMessage ==
    /\ pc = "send" /\ pending = {}
    /\ msgs' = Tail(msgs)
    /\ pending' = IF msgs' = <<>> THEN {} ELSE names
    /\ names' = IF msgs' = <<>> THEN {} ELSE names
    /\ pc' = IF msgs' = <<>> THEN AfterNotices ELSE "send"
    /\ UNCHANGED <<loaded, mapped, suspended, memory, change, changes, lists, alive, call,
                   mainVars, monitorVars>>

\* The thread that is about to call main() does the same with its one message.
SendMain(m) ==
    /\ mainPc = "send" /\ m \in mainPending
    /\ mainPending' = mainPending \ {m}
    /\ IF port[m] = "live"
       THEN mainIn' = mainIn \cup {m} /\ mainPc' = "wait"
       ELSE UNCHANGED <<mainIn, mainPc>>
    /\ UNCHANGED <<targetVars, alive, call, sendVars, monitorVars>>

MainNext ==
    /\ mainPc = "send" /\ mainPending = {}
    /\ mainPc' = "done"
    /\ UNCHANGED <<targetVars, alive, call, sendVars, mainPending, mainIn, monitorVars>>

\* The process exits; the kernel tells the ports that no sender is left.
Exit ==
    /\ alive
    /\ alive' = FALSE /\ TargetGone
    /\ inbox' = [m \in Monitors |-> IF m \in registered \cup names /\ port[m] = "live"
                                    THEN Append(inbox[m], [NoMessage EXCEPT !.kind = "no_senders"]) ELSE inbox[m]]
    /\ registered' = {} /\ names' = {} /\ pending' = {} /\ msgs' = <<>>
    /\ mainPc' = "done" /\ mainPending' = {}
    /\ UNCHANGED <<call, mainIn, port, objectVars, work, got, crashed, calls, known, seen, snap>>

-----------------------------------------------------------------------------
(* A monitor: the functions it calls *)

MayCall(m, w) == m \notin crashed /\ Doing(m, w) = (IF w = "thread" THEN "idle" ELSE "block")

\* _dyld_process_info_notify(): the constructor makes a port and registers it ...
Register(m) ==
    /\ MayCall(m, "thread") /\ port[m] = "none" /\ alive
    /\ port' = [port EXCEPT ![m] = "live"]
    /\ registered' = registered \cup {m}
    /\ Start(m, "thread", <<"connect">>)
    /\ UNCHANGED <<targetVars, alive, call, sendVars, mainVars, inbox, objectVars, got, crashed, calls, known, seen, snap>>

\* ... and has the queue handle its messages.
Connect(m) ==
    /\ Doing(m, "thread") = "connect"
    /\ source' = [source EXCEPT ![m] = "active"]
    /\ connected' = [connected EXCEPT ![m] = TRUE]
    /\ retains' = [retains EXCEPT ![m] = 0]
    /\ Do(m, "thread", <<>>)
    /\ UNCHANGED <<targetVars, alive, call, sendVars, mainVars, registered, port, inbox, queue, deleted, exits, raced,
                   got, crashed, calls, known, seen, snap>>

Retain(m, w) ==
    /\ MayCall(m, w) /\ retains[m] \in 0..(MaxRetains - 1)
    /\ retains' = [retains EXCEPT ![m] = @ + 1]
    /\ UNCHANGED <<targetVars, alive, call, sendVars, mainVars, registered, port, inbox, source, connected,
                   queue, deleted, exits, raced, work, got, crashed, calls, known, seen, snap>>

\* release(), on the thread or in a block: "When we subtracted the ref count was 0,
\* which means it was the last reference".
Release(m, w) ==
    /\ MayCall(m, w) /\ retains[m] >= 0
    /\ retains' = [retains EXCEPT ![m] = @ - 1]
    /\ IF retains[m] = 0 THEN Start(m, w, <<"disconnect", "delete">>) ELSE UNCHANGED work
    /\ UNCHANGED <<targetVars, alive, call, sendVars, mainVars, registered, port, inbox,
                   source, connected, queue, deleted, exits, raced, got, crashed, calls, known, seen, snap>>

\* (faulty variant: it does not)
WasConnected_Any(m) == TRUE
WasConnected(m) == connected[m]

\* disconnect() looks at _connected ...
Disconnect(m, w) ==
    /\ Doing(m, w) = "disconnect"
    /\ Do(m, w, IF WasConnected(m) THEN <<"clear">> ELSE <<>>)
    /\ raced' = [raced EXCEPT ![m] = @ \/ \E v \in Workers \ {w} : Doing(m, v) \in Disconnecting]
    /\ UNCHANGED <<targetVars, alive, call, sendVars, mainVars, registered, port, inbox, source, connected,
                   retains, queue, deleted, exits, got, crashed, calls, known, seen, snap>>

\* ... clears it ...
Clear(m, w) ==
    /\ Doing(m, w) = "clear"
    /\ connected' = [connected EXCEPT ![m] = FALSE]
    /\ Do(m, w, <<"cancel">>)
    /\ UNCHANGED <<targetVars, alive, call, sendVars, mainVars, registered, port, inbox, source,
                   retains, queue, deleted, exits, raced, got, crashed, calls, known, seen, snap>>

\* (faulty variant: the source is left alone)
Cancelled_Not(m) == source[m]
Cancelled(m) == IF source[m] = "active" THEN "cancelled" ELSE source[m]

\* ... cancels the source, whose cancel handler will be called ...
Cancel(m, w) ==
    /\ Doing(m, w) = "cancel"
    /\ source' = [source EXCEPT ![m] = Cancelled(m)]
    /\ Do(m, w, <<"exit">>)
    /\ UNCHANGED <<targetVars, alive, call, sendVars, mainVars, registered, port, inbox, connected,
                   retains, queue, deleted, exits, raced, got, crashed, calls, known, seen, snap>>

\* ... and has the notifyExit block called on the queue; release() then has the
\* object deleted there.
Enqueue(m, w, block) ==
    /\ Doing(m, w) = block
    /\ queue' = [queue EXCEPT ![m] = Append(@, block)]
    /\ Do(m, w, <<>>)
    /\ UNCHANGED <<targetVars, alive, call, sendVars, mainVars, registered, port, inbox, source, connected,
                   retains, deleted, exits, raced, got, crashed, calls, known, seen, snap>>
ExitLater(m, w)   == Enqueue(m, w, "exit")
DeleteLater(m, w) == Enqueue(m, w, "delete")

\* _dyld_process_info_create(), for the whole list or for what has changed since.
Inspect(m, w, stamp) ==
    /\ MayCall(m, w) /\ alive /\ calls < MaxCalls
    /\ stamp \in {0, known[m]}
    /\ Create(<<m, w, connected[m]>>, stamp)
    /\ calls' = calls + 1
    /\ Start(m, w, <<"create">>)
    /\ UNCHANGED <<targetVars, alive, sendVars, mainVars, registered, port, inbox, objectVars, got, crashed,
                   known, seen, snap>>

ReadOn == Reader /\ UNCHANGED <<targetVars, alive, sendVars, mainVars, monitorVars>>

Created(m, w) ==
    /\ Doing(m, w) = "create" /\ call.at = "done" /\ call.by[1] = m /\ call.by[2] = w
    /\ snap' = [snap EXCEPT ![m] = IF call.result # NoResult /\ call.by[3] THEN call.result ELSE @]
    /\ known' = [known EXCEPT ![m] = IF call.result # NoResult THEN call.result.time ELSE @]
    /\ call' = NoCall
    /\ Do(m, w, <<>>)
    /\ UNCHANGED <<targetVars, alive, sendVars, mainVars, registered, port, inbox, objectVars, got, crashed,
                   calls, seen>>

-----------------------------------------------------------------------------
(* A monitor: its queue *)

\* (faulty variant: the answer is sent first)
Handling_ReplyFirst(kind) == CASE kind = "no_senders" -> <<"disconnect">>
                               [] kind = "main"       -> <<"replyMain", "block">>
                               [] OTHER               -> <<"reply", "notify">>
\* What a kind of message makes handleEvent() do.
Handling(kind) == CASE kind = "no_senders" -> <<"disconnect">>
                    [] kind = "main"       -> <<"block", "replyMain">>
                    [] OTHER               -> <<"notify", "reply">>

\* handleEvent() is called for a message, unless the object is no longer connected.
Listens(m) == Doing(m, "queue") = "idle" /\ source[m] = "active" /\ connected[m]

\* A notice and the message of the other thread come in any order; that there are no
\* senders comes last.
HandleEvent(m) ==
    /\ Listens(m) /\ inbox[m] # <<>> /\ (Head(inbox[m]).kind = "no_senders" => m \notin mainIn)
    /\ got' = [got EXCEPT ![m] = IF Head(inbox[m]).imgs = <<>> THEN NoMessage ELSE Head(inbox[m])]
    /\ inbox' = [inbox EXCEPT ![m] = Tail(@)]
    /\ Start(m, "queue", Handling(Head(inbox[m]).kind))
    /\ UNCHANGED <<targetVars, alive, call, sendVars, mainVars, registered, port, objectVars, crashed,
                   calls, known, seen, snap>>

HandleMain(m) ==
    /\ Listens(m) /\ m \in mainIn
    /\ mainIn' = mainIn \ {m}
    /\ Start(m, "queue", Handling("main"))
    /\ UNCHANGED <<targetVars, alive, call, sendVars, mainPc, mainPending, registered, port, inbox,
                   objectVars, got, crashed, calls, known, seen, snap>>

\* The notify block is called for each image of the message.
CallNotify(m) ==
    /\ Doing(m, "queue") = "notify"
    /\ IF got[m].imgs = <<>>
       THEN /\ got' = [got EXCEPT ![m] = NoMessage]
            /\ Do(m, "queue", <<>>)
            /\ UNCHANGED <<known, seen>>
       ELSE /\ seen' = [seen EXCEPT ![m][Head(got[m].imgs)] = got[m].kind]
            /\ known' = [known EXCEPT ![m] = got[m].time]
            /\ got' = [got EXCEPT ![m].imgs = Tail(@)]
            /\ Start(m, "queue", <<"block">>)
    /\ UNCHANGED <<targetVars, alive, call, sendVars, mainVars, registered, port, inbox, objectVars, crashed,
                   calls, snap>>

BlockReturns(m) ==
    /\ Doing(m, "queue") = "block"
    /\ Do(m, "queue", <<>>)
    /\ UNCHANGED <<targetVars, alive, call, sendVars, mainVars, registered, port, inbox, objectVars, got,
                   crashed, calls, known, seen, snap>>

\* (faulty variant: an object released meanwhile does not answer)
Answers_Connected(m) == connected[m]
Answers(m) == TRUE

\* replyToMonitoredProcess(): "so it can continue"; if it is gone, disconnect().
Reply(m) ==
    /\ Doing(m, "queue") = "reply"
    /\ IF alive
       THEN pc' = (IF Answers(m) THEN "send" ELSE pc) /\ Do(m, "queue", <<>>)
       ELSE Do(m, "queue", <<"disconnect">>) /\ UNCHANGED pc
    /\ UNCHANGED <<loaded, mapped, suspended, memory, change, changes, lists, alive, call, sendVars, mainVars,
                   registered, port, inbox, objectVars, got, crashed, calls, known, seen, snap>>

ReplyMain(m) ==
    /\ Doing(m, "queue") = "replyMain"
    /\ IF alive
       THEN mainPc' = (IF Answers(m) THEN "send" ELSE mainPc) /\ Do(m, "queue", <<>>)
       ELSE Do(m, "queue", <<"disconnect">>) /\ UNCHANGED mainPc
    /\ UNCHANGED <<targetVars, alive, call, sendVars, mainPending, mainIn, registered, port, inbox,
                   objectVars, got, crashed, calls, known, seen, snap>>

\* The port goes; what is in it is destroyed, and with it the right to answer: the
\* threads that wait are told so.
PortGoes(m) ==
    /\ registered' = registered \ {m}
    /\ port' = [port EXCEPT ![m] = "dead"]
    /\ inbox' = [inbox EXCEPT ![m] = <<>>] /\ mainIn' = mainIn \ {m}
    /\ pc' = IF pc = "wait" /\ Unanswered(m) > 0 THEN "send" ELSE pc
    /\ mainPc' = IF mainPc = "wait" /\ UnansweredMain(m) > 0 THEN "send" ELSE mainPc

\* teardownMachPorts(), the cancel handler.  libdispatch calls it on the queue, at some
\* time after the source is cancelled: before or after the blocks put there since.
Teardown(m) ==
    /\ Doing(m, "queue") = "idle" /\ source[m] = "cancelled"
    /\ source' = [source EXCEPT ![m] = "gone"]
    /\ PortGoes(m)
    /\ UNCHANGED <<loaded, mapped, suspended, memory, change, changes, lists, alive, call, sendVars,
                   mainPending, connected, retains, queue, deleted, exits, raced, work, got, crashed,
                   calls, known, seen, snap>>

\* The notifyExit block is called ...
CallExit(m) ==
    /\ Doing(m, "queue") = "idle" /\ queue[m] # <<>> /\ Head(queue[m]) = "exit"
    /\ queue' = [queue EXCEPT ![m] = Tail(@)]
    /\ exits' = [exits EXCEPT ![m] = @ + 1]
    /\ Start(m, "queue", <<"block">>)
    /\ UNCHANGED <<targetVars, alive, call, sendVars, mainVars, registered, port, inbox, source, connected,
                   retains, deleted, raced, got, crashed, calls, known, seen, snap>>

\* ... and `delete this' done.
Delete(m) ==
    /\ Doing(m, "queue") = "idle" /\ queue[m] # <<>> /\ Head(queue[m]) = "delete"
    /\ queue' = [queue EXCEPT ![m] = Tail(@)]
    /\ deleted' = [deleted EXCEPT ![m] = TRUE]
    /\ UNCHANGED <<targetVars, alive, call, sendVars, mainVars, registered, port, inbox, source, connected,
                   retains, exits, raced, work, got, crashed, calls, known, seen, snap>>

\* The monitor dies; the kernel takes its ports.
Crash(m) ==
    /\ m \notin crashed
    /\ crashed' = crashed \cup {m}
    /\ IF port[m] = "live" THEN PortGoes(m) ELSE UNCHANGED <<registered, port, inbox, mainIn, pc, mainPc>>
    /\ source' = [source EXCEPT ![m] = "none"] /\ connected' = [connected EXCEPT ![m] = FALSE]
    /\ retains' = [retains EXCEPT ![m] = -1] /\ queue' = [queue EXCEPT ![m] = <<>>]
    /\ work' = [work EXCEPT ![m] = [w \in Workers |-> <<>>]]
    /\ got' = [got EXCEPT ![m] = NoMessage]
    /\ call' = IF call.at # "none" /\ call.by[1] = m THEN NoCall ELSE call
    /\ snap' = [snap EXCEPT ![m] = NoResult]
    /\ seen' = [seen EXCEPT ![m] = [i \in Images |-> None]]
    /\ known' = [known EXCEPT ![m] = 0] /\ deleted' = [deleted EXCEPT ![m] = FALSE]
    /\ exits' = [exits EXCEPT ![m] = 0] /\ raced' = [raced EXCEPT ![m] = FALSE]
    /\ UNCHANGED <<loaded, mapped, suspended, memory, change, changes, lists, alive, sendVars,
                   mainPending, calls>>

-----------------------------------------------------------------------------

Init ==
    /\ TargetInit /\ alive = TRUE /\ call = NoCall
    /\ names = {} /\ msgs = <<>> /\ pending = {}
    /\ mainPc = "no" /\ mainPending = {} /\ mainIn = {}
    /\ registered = {} /\ port = [m \in Monitors |-> "none"]
    /\ inbox = [m \in Monitors |-> <<>>] /\ source = [m \in Monitors |-> "none"]
    /\ connected = [m \in Monitors |-> FALSE] /\ retains = [m \in Monitors |-> -1]
    /\ queue = [m \in Monitors |-> <<>>]
    /\ work = [m \in Monitors |-> [w \in Workers |-> <<>>]]
    /\ got = [m \in Monitors |-> NoMessage] /\ crashed = {} /\ calls = 0
    /\ known = [m \in Monitors |-> 0]
    /\ seen = [m \in Monitors |-> [i \in Images |-> None]]
    /\ snap = [m \in Monitors |-> NoResult] /\ deleted = [m \in Monitors |-> FALSE]
    /\ exits = [m \in Monitors |-> 0] /\ raced = [m \in Monitors |-> FALSE]

\* A call that worker w of m has begun goes on.
CallRuns(m, w) ==
    Disconnect(m, w) \/ Clear(m, w) \/ Cancel(m, w) \/ ExitLater(m, w) \/ DeleteLater(m, w) \/ Created(m, w)

ThreadRuns(m) == Connect(m) \/ CallRuns(m, "thread")

\* What the queue of m does by itself; the blocks it calls return.
QueueRuns(m) ==
    \/ HandleEvent(m) \/ HandleMain(m) \/ CallNotify(m) \/ BlockReturns(m) \/ Reply(m) \/ ReplyMain(m)
    \/ Teardown(m) \/ CallExit(m) \/ Delete(m) \/ CallRuns(m, "queue")

Next ==
    \/ Target /\ alive /\ UNCHANGED <<alive, call, sendVars, mainVars, monitorVars>>
    \/ NotifyMonitors \/ Split \/ NextMessage \/ NotifyMain \/ MainNext \/ Exit \/ ReadOn
    \/ \E m \in Monitors :
          \/ Send(m) \/ SendMain(m) \/ Register(m) \/ Crash(m) \/ ThreadRuns(m) \/ QueueRuns(m)
          \/ \E w \in Workers : \/ Retain(m, w) \/ Release(m, w)
                                 \/ \E stamp \in 0..Len(lists) : Inspect(m, w, stamp)

Fairness == WF_vars(ReadOn) /\ \A m \in Monitors : WF_vars(ThreadRuns(m)) /\ WF_vars(QueueRuns(m))

Spec == Init /\ [][Next]_vars /\ Fairness

-----------------------------------------------------------------------------
(* Properties *)

\* Types; and each of the two threads of the process that send messages, the one that
\* changes the list and the one about to call main(), waits for an answer exactly
\* while one monitor has one message of its that is not answered.
TypeOK ==
    /\ loaded \in Seq(Images) /\ mapped \subseteq Images /\ arrays \in Seq(Seq(Images \cup {Junk}))
    /\ infos.array \in 0..Len(arrays) /\ infos.time \in 0..Len(lists)
    /\ names \subseteq Monitors /\ pending \subseteq names /\ registered \subseteq Monitors
    /\ retains \in [Monitors -> -1..MaxRetains]
    /\ \A m \in Monitors : queue[m] \in Seq({"exit", "delete"})
    /\ alive => IF pc = "wait"
                THEN \E m \in Monitors : /\ Unanswered(m) = 1
                                         /\ \A n \in Monitors \ {m} : Unanswered(n) = 0
                ELSE \A m \in Monitors : Unanswered(m) = 0
    /\ alive => IF mainPc = "wait"
                THEN \E m \in Monitors : /\ UnansweredMain(m) = 1
                                         /\ \A n \in Monitors \ {m} : UnansweredMain(n) = 0
                ELSE \A m \in Monitors : UnansweredMain(m) = 0

\* A monitor that registers first and reads the list then, and goes by the last
\* notice about an image where it had one, knows what is loaded whenever no change
\* is under way, however reading and registering fell into a change and though the
\* list it read may be of no single moment.  Exceptions are a read of an array that
\* was freed meanwhile and a list of MaxCount entries, which may have been cut off.
ViewExact ==
    \A m \in Monitors :
       (/\ alive /\ pc = "idle" /\ connected[m]
        /\ snap[m] # NoResult /\ ~snap[m].stale /\ Len(snap[m].imgs) < MaxCount) =>
          {i \in Images : seen[m][i] = "load" \/ (seen[m][i] = None /\ i \in Range(snap[m].imgs))}
             = Range(loaded)

\* A notify block, which is called with a notice, reads the list as it is, unless it is
\* longer than what is read: the thread that changes it waits.  (A block called because
\* main() is next or because the process is gone has no such promise: the list may
\* change under it.)
BlockReadsExact ==
    (/\ call.at = "done" /\ call.by[2] = "queue" /\ "notify" \in Range(work[call.by[1]]["queue"])
     /\ call.stamp = 0 /\ alive /\ Len(loaded) <= MaxCount) =>
       call.result # NoResult /\ call.result.imgs = loaded /\ call.kr = "SUCCESS"

\* Neither thread of the process is left waiting, whatever monitors do: release their
\* object in a block or on a thread, before or while a message is handled, or die.
TargetGoesOn == []<>(pc # "wait") /\ []<>(mainPc # "wait")

\* The notifyExit block of an object that was disconnected, by the last release or
\* because the process is gone, is called once, and before the object is deleted,
\* unless the thread and the queue were in disconnect() at once.
ExitToldOnce ==
    \A m \in Monitors :
       \/ raced[m]
       \/ /\ exits[m] <= 1
          /\ deleted[m] => exits[m] = 1
          /\ (/\ source[m] # "none" /\ ~connected[m] /\ queue[m] = <<>>
              /\ \A w \in Workers : Doing(m, w) \notin Disconnecting) => exits[m] = 1

=============================================================================
