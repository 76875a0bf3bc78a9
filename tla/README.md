# A TLA+ development for dyld

dyld loads the programs of macOS and iOS and, through libdyld, the libraries
they open while they run. This directory holds TLA+ models of the part of it
that keeps state while a program runs, TLC runs that check them on small
instances, and TLAPS proofs of what matters most. Paths below are relative to
the repository's root, which `PROJECT.json` calls `src/`.

## 1. Inventory

| Component | State | Operations | What is hard | What makes it correct |
|---|---|---|---|---|
| **Runtime image list** `dyld3/AllImages.cpp` | `_loadedImages` with a state per image, `_dlopenRefCounts`, `_gcCount`, the notifier arrays, `_sMutex`, `_globalLock` | `dlopen`, `dlclose`, registration of functions, initializers, `applyInitialImages`, fork hooks | user code called under recursive locks calls dyld again; locks dropped and taken again between two halves of an operation | nothing in use is unloaded, nothing else stays; initializers run once and before the handle is returned; functions are told of each image once |
| **Reaper** (same file) | pointers into `_loadedImages`, a mark per image | mark, terminators, remove-image functions, erase, unmap, repeat | the pointers outlive the lock; requests arrive during a collection | the pointers stay valid; marks reach everything reachable; no request is lost |
| **Immutable ranges** (same file) | `_lowestNonCached`, `_highestNonCached`, a linked list of buckets | `recomputeBounds`, `addImmutableRange`, lock-free `immutableMemory` | a reader sees a half-written slot, a bucket just linked, bounds just reset | a yes is right and stays right; what is registered is found |
| **Dlopen closure builder** `dyld3/ClosureBuilder.cpp` | the builder's `_loadedImages` (an `OverflowSafeArray`), never-unload marks | `recursiveLoadDependents`, `loadDanglingUpwardLinks`, `findImage`, `computeInitOrder` | cycles, upward and weak links, an array that moves while a reference into it is held | finds exactly what is needed; fails only if something required is missing; order is bottom-up |
| **Loader** `dyld3/Loading.cpp` | mappings | map, fix up, undo | one of several images fails | all or nothing |
| **libdyld APIs** `dyld3/APIs.cpp` | none of its own | `dlopen`, `dlclose`, `_dyld_register_func_for_*`, `_dyld_is_memory_immutable`, queries | the load lock | calls return |
| **Process inspection** `src/dyld_process_info.cpp`, mirror in `dyld3/AllImages.cpp:199` | `dyld_all_image_infos`, which one process writes and others read out of its memory | `mirrorToOldAllImageInfos`, `_dyld_process_info_create` | stores seen one by one; several reads make one list; arrays freed meanwhile; retries; a process that is suspended | what is published is whole; a reader that is also notified knows what is loaded |
| **Process notifications** `src/dyld_process_info_notify.cpp`, `src/dyld2.cpp:988` | ports, a dispatch source, a connected flag, a reference count, blocks on a queue | connect, message and answer, disconnect, retain, release | disconnect from a thread and from the queue; deletion with events queued; the monitored process waits for an answer; either side dies | nobody waits for ever; the exit block runs once, and before the deletion |
| **Thread-local variables** `src/threadLocalVariables.c` | a pthread key per image, a list of terminators per thread | lazy allocation, `_tlv_atexit`, finalization | terminators and destructors that create objects while lists are walked and freed; the order and the number of pthread's rounds | each object is destroyed once, newest first, before its memory is freed |
| **dyld2 loader** `src/dyld2.cpp`, `src/ImageLoader*.cpp`, `src/dyldAPIs.cpp` | `sAllImages`, a state, depth and count per image, dynamic references, the termination list, a global lock, a spin lock per image | `dlopen`, `dlclose`, link, initialize, collect | initializers run outside the global lock on several threads and open further images; a link fails half way; state read without a lock | initializers run once and bottom-up; counts match handles; nothing needed is unloaded, nothing else stays; calls return |
| Mach-O parsing, closure format, path search, shared cache at run time, cache builders, start-up glue | none that outlives a call, or offline | - | file formats, file system | out of scope, see section 7 |

How they interact. A `dlopen()` (APIs) enters the image list under `_sMutex`,
asks the closure builder for the images it needs, has the loader map them, adds
them to `_loadedImages`, registers immutable ranges, calls the add-image
functions under `_globalLock`, and runs initializers. A `dlclose()` counts down
and, at zero, starts the Reaper, which calls terminators and remove-image
functions, erases the images, recomputes the bounds and has the loader unmap
them. Initializers, terminators and functions are user code and call the same
APIs again, on the same thread, inside the same locks. Whenever the list has
changed it is mirrored to memory that other processes read, and a message is
sent to each process that has registered, which must answer before the change
goes on. dyld2 is the older loader: the same interface over its own image list
and locks, chosen at launch instead of dyld3; libdyld takes its global lock. An
image with thread-local variables gets a pthread key when it is loaded; the rest
of their life is between the thread, its terminators and pthread.

The hazards found in the code, each at its line, with the properties that would
catch it going wrong, are listed under `hazards` in `PROJECT.json`.

## 2. Modules

| Module | Models |
|---|---|
| `LinkGraph` | what an image needs (`Closure`), reachability within a set (`Reach`), and the never-unload marks that `findImage` can produce (`NeverChoices`), as definitions rather than algorithms |
| `AllImages` | the image list, the two locks, `dlopen`, `dlclose`, the Reaper, initializers and notification functions; extends `LinkGraph` |
| `AllImages_proofs`, `Collection_proofs` | its theorems: what stays loaded; what a collection removes, and how. The second extends the first |
| `MCAllImages` | link graphs and user code for TLC |
| `ClosureBuilder` | the recursive algorithms of the builder and the Reaper's marking loop, as operators |
| `DlopenClosures` | successive `dlopen()` closures over every small link graph; checks `ClosureBuilder` against `LinkGraph` |
| `ImmutableRanges` | readers and the writer of the immutable ranges, a word at a time |
| `ImmutableRanges_proofs`, `MCImmutableRanges` | its theorems; its instance |
| `ThreadLocalVariables` | one thread's variables, terminator lists and end, with pthread's rounds |
| `ThreadLocalVariables_proofs`, `ThreadEnd_proofs` | its theorems: the lists and their order; what is left when a thread ends. The second extends the first |
| `Dyld2`, `MCDyld2` | `dlopen()` and `dlclose()` of dyld2; its instance |
| `Dyld2_proofs` | its theorems |
| `Selection`, `Selection_proofs` | the entries of a list that are in a set, in order, as loops that skip entries see them, without recursion; lemmas about it that the proofs about `Dyld2` and `AllImageInfos` share |
| `AllImageInfos` | the image list as a process shows it to others, a store at a time |
| `ProcessInfo` | a process that reads that list; extends `AllImageInfos` |
| `ProcessInfoNotify`, `MCProcessInfoNotify` | monitors, their queues, the messages and the answers; extends `ProcessInfo`, and so composes writer, reader and messages; its instance |
| `ProcessInfoNotify_proofs` | the theorems about the three |

`AllImages` and `DlopenClosures` are two views of one thing. `AllImages` says by
`Closure`, `NeverChoices` and `Reach` what the builder and the Reaper compute;
`DlopenClosures` runs their loops over every link graph of three images and
checks that the result is what those definitions say. `AllImages` can be proved
about because it contains no recursion.

### AllImages and the code

- An image stands for its path, its `closure::Image` and its load address.
  `st[i]` is `LoadedImage::state()` or `unloaded`; the other members of
  `LoadedImage` are the sets `leave` and `hidden`. Loops over
  `_loadedImages` take images in any order.
- `stack[t]` is the sequence of dyld calls in progress on thread `t`. A frame
  says which call, where in it, its new or dead images (`set`), the calls to
  user code still to be made (`todo`) and the position in the initializer list
  (`k`). The four places `inAdd`, `inInit`, `inTerm`, `inRemove` are user code;
  `MayCall` says what that code may call, and such a call pushes a frame.
- Both locks are recursive and taken for the extent of a block, so who holds
  one can be read off the stacks: `_sMutex` is held by whoever has a `dlopen` or
  `dlclose` frame, `_globalLock` by whoever has a frame at one of `LockedPCs`.
  Where the code takes `_globalLock` without calling out, one step stands for
  the block and waits for the lock.
- `dlopen()` has three entries: `DlopenCached` (the early return for a loaded
  image of the shared cache), `DlopenLoaded`, and `DlopenNew`, followed by
  `LoadFails` or `AddImages`, the functions, and the initializers.
- `dlclose()`: `Dlclose`, `DecRefCount`, and, if it starts a collection, `Mark`,
  `CallTerminator`..., `RunRemoveCallbacks`..., `Erase`, `Unmap`, `Recheck`.
- Registration: `AddLoadNotifier`, calls, `AddLoadNotifierTold` (the lock is
  dropped), `AppendLoadNotifier` (taken again); `AddUnloadNotifier` is one step.
- `handles`, `told` and `farewell` are history variables: handles returned and
  not closed (callers close only what they opened), calls of a function about an
  image since it was loaded, and who was called about an image on its way out.
- Left out of the announcing and unmapping steps: the debugger's and ObjC's
  notifiers, the bulk and `load2` functions, kdebug records. The mirror in
  `dyld_all_image_infos` and the notices to other processes, which the same
  steps make, are in `AllImageInfos` and `ProcessInfoNotify`: they read the list
  and change nothing `AllImages` looks at.

### ImmutableRanges and the code

The load lock makes a single writer of all `dlopen()`s and `dlclose()`s. `Load`
and `Unload` change the images and start `recomputeBounds()`: `ResetLow`,
`ResetHigh`, then `WidenLow`, `WidenHigh` for each image, each one store. Then
`StoreEnd` and `StoreStart` fill a slot (in the order of the code: a slot is in
use when its start is not zero), or `NewBucket` links a bucket that is already
filled. A reader makes one load a step: `Ask`, `ReadLow`, `ReadHigh`,
`ReadUsed`, `ReadStart`, `ReadEnd`, `ReadNext`. Sums of addresses are taken
modulo `W`. Loads and stores of the slots and links happen in the order the code
writes them, as their acquire and release order says. The bounds are plain words
that readers race on; while they are recomputed a reader may see any mixture of
their values, so the passing properties suppose nothing about them between a
reset and the end of the loop (`calm`). `published`, `known` and `calm` are history variables: what has been
registered, which registered ranges hold the memory asked for when a query
begins (`Contains`: up to the very end, as the words of `dyld_priv.h` have it,
not with the code's comparison), and whether no bounds were recomputed during
it.

### ClosureBuilder and the code

One operator per function. `Moved` and `SetDependents` model a reference into
`_loadedImages` that `recursiveLoadDependents()` holds while `findImage()`
appends: `OverflowSafeArray` starts in `storage` entries on the stack and moves
to allocated memory when they are exhausted, and what is then stored through the
old reference is lost. (It is found again by `loadDanglingUpwardLinks()`, which
is why `FindsWhatIsNeeded` holds.) The code's 256 entries are `Storages`.

### ThreadLocalVariables and the code

All a thread works on is its own, but for the keys. `keys` is the order in which
pthread keys were allocated, the terminators' first, as `tlv_initializer()` sees
to; `value[k]` is the thread's value. `lists` and `buffers` are the heap: what is
freed stays there, marked. A frame of `stack` is a call of `tlv_finalize_list()`
(`walk`, with the entries it has left), a terminator, or a destructor of the
program's own; where the last two are on top, code of the program runs and may
take `AllocateForKey`, `Atexit`, `SetUserValue`. `FreeList` and `FinalizeNewList`
are the two ends of the loop of `tlv_finalize_list()`: what a terminator
registered is a new list, because the key was set to NULL before, and is walked
before the next entry. pthread is external: it sets the value to NULL, calls the
destructor, and goes over the keys `Iterations` times. `_tlv_exit()` walks the
list without pthread.

### Dyld2 and the code

- `all`, `state`, `count`, `depth`, `refs`, `cells`/`end`, `doingGC` and `redo`
  are `sAllImages`, `fState`, `fDlopenReferenceCount`, `fDepth`,
  `sDynamicReferences`, `sImageFilesNeedingTermination`, `sDoingGC` and `sRedo`.
  `glock` is the recursive global lock of libdyld, `ilock[i]` the image's
  `fInitializerRecursiveLock`, a spin lock its owner may take again.
- A call made while another thread holds the global lock waits for it (`Await`):
  `want[t]` is that call, and the thread, with whatever images it is initializing
  locked, does nothing else until it is its turn. Then the call is made, or finds
  nothing to do because the image is gone (`GiveUp`). A call made when the lock is
  free takes it in the same step. Waiting for an image is to be at `enter`.
- `dlopen()`: `Dlopen` (the lock, the reference, the loading of the libraries
  found), `LoadLibraries`, `StartDepths`, `UpdateDepth`, `DanglingUpwards`,
  `Bind`, then without the lock `ProcessInitializers`, `EnterImage`,
  `NextLibrary`, `CompareDepth`, `RecordTermination`, `PushBack`,
  `RunInitializers`, `InitializersReturn`, and `Opened`. A library that cannot be
  found leads to `LinkFailed` and `UndoOpen`.
- `dlclose()`: `Dlclose` and `Close`, with `MarkPhase`, `GcTerminate`,
  `TerminatorReturns`, `GcDelete`, `GcAgain`, `GcDone`.
- What is done under the global lock and read only under it is one step. What
  initializing threads read without it is written in steps of its own: each store
  to a depth, and the two halves of the `push_back()` on the termination list.
- `calm`, `skipped`, `early`, `reopened` and `torn` are history variables that name
  the races the code has, so that the properties can say exactly what holds besides
  them: a depth rewritten while another thread decides by it which libraries to
  initialize, an image initialized by a call nested in an initializer of a library
  it links, an image a terminator opens after the mark phase, and a termination list
  that two threads change at once. The properties do not catch these races: they
  exempt them.

### AllImageInfos, ProcessInfo, ProcessInfoNotify and the code

The monitored process has one thread at a time that changes its list (the load
lock), at `pc`: `Launch`, `Load` or `Unload`, then `MirrorBegin` (infoArray is NULL, a
larger array is allocated), `MirrorFill` for each entry that differs,
`MirrorTime`, `MirrorArray`, `MirrorUuids`, then one message at a time to each
registered port, for each of which it waits, then `Unmap`. A freed array stays
in `arrays`, where a reader that holds its address may find anything in it.

The thread that is about to call `main()` tells the monitors so, at `mainPc`:
`NotifyMain`, `SendMain`, `MainNext`. It does not hold the load lock
(`dyld3/libdyldEntryVector.cpp:129-135`), so another thread, started by an
initializer, may change the list and send notices at any moment of it: a monitor may
have a message of each in its port, and handles them in any order.

A call of `_dyld_process_info_create()` reads `dyld_all_image_infos`, then the
array at the address it found, then the load commands of each image: three
snapshots of memory at three moments, or more. `AttemptEnds` is the loop around
it. As written, the loop compares the *address* of the result code with
`KERN_SUCCESS` (`src/dyld_process_info.cpp:844`), so it never stops early: a call
makes all its attempts, keeps the last result there was, and may return a result
together with an error code of a later attempt.

A monitor has a thread and a serial queue. `work[m][w]` is what each still has to
do before it is free; blocks of the program (notify, notifyMain and notifyExit) run
on the queue and may call `release()`, `retain()` or read the list, as the thread
may. `disconnect()` takes a step for each store and call in it: `Disconnect` (the
test of `_connected`), `Clear`, `Cancel`, `ExitLater`; `release()` goes on with
`DeleteLater`. What these put on the queue are `CallExit` and `Delete`; the cancel
handler (`Teardown`) runs there at some time after the cancellation, before or after
either. A message is handled, its answer sent, and a port without senders tells the
monitor that the process is gone. Monitors may die at any moment, and so may the
process.

## 3. Runs

| Run | Module, configuration | Shows |
|---|---|---|
| `unload` | `MCAllImages`, `AllImagesUnload.cfg` | Two threads open and close images that share a dependent, with an upward link, and one in the cache; initializers and terminators call `dlclose()`. Nothing in use or linked with is unloaded (`InUseStaysLoaded`, `LinkedStaysLoaded`), nothing else is left (`NothingLeftBehind`), images in an initializer list stay (`InitListStaysLoaded`), the Reaper's pointers stay valid (`ReaperPointersValid`). |
| `init` | `AllImagesInit.cfg` | The graph of `testing/test-cases/dlopen-in-init3.dtest`, outside the cache: an initializer's `dlopen()` of a library not yet initialized initializes it (`DlopenRunsInitializers`), and every call returns (`CallsReturn`). |
| `callbacks` | `AllImagesCallbacks.cfg` | One thread, two functions that the program itself registers, nested `dlopen()` and `dlclose()` from everywhere and all flags: `ToldOnce`, `ToldBeforeInit` (proved for one thread and any graph), `LeavesInOrder` (proved for any number of threads). |
| `immutable_ranges` | `MCImmutableRanges`, `ImmutableRanges.cfg` | `YesIsImmutable`; `PublishedIsFound`, also for queries that end where a range does. |
| `dlopen_closures` | `DlopenClosures`, `DlopenClosures.cfg` | `FindsWhatIsNeeded`, `FailsOnlyIfMissing`, `MarksAreAllowed`, `InitsBottomUp` (every initializer once, what an image needs first), `ReaperMarksReachable`. |
| `tlv` | `ThreadLocalVariables`, `ThreadLocalVariables.cfg` | Terminators and destructors that use variables and register objects at every point: `DestroyedExactlyOnce`, `NewestFirst`, `DestroyedBeforeFreed`, `ListsOwned`, `NothingLeaked`. |
| `dyld2` | `MCDyld2`, `Dyld2.cfg` | Two threads open and close through dyld2; initializers and terminators open further images, one image fails to link: `InitOnce`, `BottomUp`, `ReadyOnReturn`, `InUseStaysLoaded`, `TerminatedOnce`, `NothingLeftBehind`, `CountsExact`, `CallsReturn`, besides the exceptions below. |
| `process_inspection` | `MCProcessInfoNotify`, `ProcessInfoNotify.cfg` | A process launches, loads and unloads on one thread and is about to call `main()` on another, while a second process reads its list, registers, is notified, retains, releases or dies: `PublishedIsWhole`, `ViewExact`, `BlockReadsExact`, `ExitToldOnce`, `TargetGoesOn`. |
| `register_race` | `AllImagesRegisterRace.cfg` | violation, see section 4 |
| `init_cached` | `AllImagesInitCached.cfg` | violation |
| `pinned` | `AllImagesPinned.cfg` | violation |
| `immutable_transient` | `ImmutableRangesTransient.cfg` | violation |

Every property has a mutant: the definition `X_Variant` before a definition `X`
is the code with a plausible mistake in it, with which TLC finds the property
violated.

### Bounds

- `MaxDepth` (calls on one thread's stack) is 3 where nesting matters: an outer
  call, one from its user code, and one from that one's. A `dlclose()` inside a
  collection inside a `dlclose()` needs 2, an initializer inside one inside a
  `dlopen()` 3.
- `MaxRefs` (references to an image) is 2: 0, 1 and more than 1 are what
  `dlclose()` tells apart.
- Two threads: every lock is either free, one's own or another's. `callbacks`
  has one, since with two `ToldOnce` fails (section 4).
- The graphs have two to four images: a shared dependent, a chain, a cycle or
  upward link, an image that cannot be unloaded. `dlopen_closures` takes all
  graphs of three images in which each links with the others at most once, in
  every order, with every choice of upward and weak links, at most `MaxPinned`
  = 1 that cannot be unloaded and `MaxMissing` = 1 that cannot be found; an
  upward link on a cycle, a dangling upward link that leads to another, and
  every point at which an array of 1, 2 or 3 entries can move, are among them.
- `FirstSize` = 1 and `NewSize` = 2 (2 and 15 in the code) make the four ranges
  of the instance take three buckets, one of them partly filled. `W` = 32
  addresses hold four images, a cache and the memory of one image used again for
  another. One reader is enough: readers write nothing.
- `tlv`: two images with variables and one key of the program make keys before,
  between and after each other. `MaxObjects` = 4 lets a list grow twice (1, 2, 4
  entries) and a terminator's objects have terminators that create objects.
  `Iterations` = 2 (4 in pthread) makes a last round and one before it;
  `MaxSets` = 2 lets the program's destructor run in both.
- `dyld2`: C links A, A links B, C links B upward, and A's initializers open C, so
  that two threads enter the pair from both ends, and may end up waiting for each
  other; P cannot be linked after it loaded B and L; L belongs to the main
  executable; a flat lookup makes A refer to C. Terminators open B. `MaxOpens` = 3:
  one open on each thread and a nested one, which the deadlock takes, or the
  reopening of what was closed.
- `process_inspection`: the list has one to three images, in arrays of two to four
  entries (`Slack` = 1 for the code's 16), so an unload and a load fit the array
  and a load of two does not. `MaxChanges` = 2 after the launch. `Tries` = 2 (10):
  an attempt that fails and one that does not. `PerMessage` = 1 makes two messages
  of a batch of two. One monitor, one reference besides the first (`MaxRetains` =
  1), one call of `_dyld_process_info_create()`. `MainFrom` = 2: `main()` is next
  once the second change has begun, so its message meets all the steps of one change.
  Two monitors make no difference to each other but for the order of the messages.
- `dlopen_closures`, `tlv`, `dyld2` and `process_inspection` are checked without
  deadlock: when everything is loaded, the thread has ended, the calls are used
  up, or both processes are gone, nothing is left to do. That no call hangs is what
  `CallsReturn` and `TargetGoesOn` say.

### Fairness

`FairSpec` (run `init`) asks for weak fairness of dyld's own steps on each
thread, that is, threads run; and strong fairness of the return of user code, at
each depth of the stack, that is, initializers and terminators make finitely
many calls and return. `_sMutex` needs no fairness: the run shows that whoever
holds it comes to an end. `CallsReturn` is checked without registrations: a
registering thread waits for `_globalLock`, which is not a fair lock, and could
be overtaken for ever.

`Dyld2` asks for weak fairness of what each thread does inside dyld and of the
return of initializers and terminators (`Work`), and that a thread that waits for
the global lock takes it when it is free. Its locks are not fair, and need
not be: `MaxOpens` bounds who can overtake a waiting thread, and `CallsReturn` is
about threads that wait for each other. `ProcessInfoNotify` asks for weak
fairness of a call that has begun, of what is under way on a monitor's thread, and
of its queue: libdispatch runs blocks that are on a queue, and blocks return. It
asks for nothing of the monitored process, nor that a monitor calls anything;
`TargetGoesOn` is that neither of its two threads waits from some moment on for ever.

### What the runs say about races

The properties of `dyld2` and `process_inspection` hold besides exceptions, which
they name. TLC reaches each of them:

- dyld2 decides by `fDepth`, read without a lock, which libraries to initialize
  first; a `dlopen()` on another thread that rewrites depths at that moment can
  make it pass one over (`BottomUp`, `ReadyOnReturn`).
- `dlopen()` does not look below an image that is initialized. If A's initializers
  open C, which links A, C is initialized before A is; another thread that opens C
  then gets its handle at once, while A's initializers are still running
  (`ReadyOnReturn`).
- Calls of `dlopen()` can deadlock (`CallsReturn`). One thread opens A and holds it
  while A's initializers open C; another opens C, holds it and waits for A, which C
  links, and the first waits for C (`src/ImageLoader.cpp:1585-1599`): TLC reaches
  this. The same can happen when two images' initializers open each other, when a
  terminator, which runs with the global lock held, opens an image whose
  initializers wait for that lock on another thread, and on a cycle of downward
  links that two threads enter at different images. `CallsReturn` says that there
  is no other way to wait for ever. No document of the repository promises that
  initializers may open images freely, so it is an exception and not a finding.
- `sImageFilesNeedingTermination` is a `std::vector` that initializing threads
  append to without the global lock (`TerminatedOnce`).
- An image that a terminator opens after the collection has marked is unloaded
  (`InUseStaysLoaded`).
- A list read from another process may be one it never had at any moment: the
  array is read after the structure that gives its length, and images after the
  array. With the notices it is made good (`ViewExact`), but for an array that was
  freed and overwritten between the reads.
- `disconnect()` on the thread and on the queue at once can put two exit blocks on
  the queue, or put one there behind the deletion: `release()` on the thread finds
  `_connected` false and queues the deletion while `disconnect()` on the queue has
  yet to queue the block (`ExitToldOnce`).
- A block called because `main()` is next may read a list that changes under it; only
  notify blocks are promised the list as it is (`BlockReadsExact`).

Of `immutable_ranges`: a query for a whole registered range, or up to its end, is
answered no at any time, because the code compares strictly
(`dyld3/AllImages.cpp:814`). `PublishedIsFound` has that as an exception.

## 4. Findings

1. **A function misses an image** (`register_race`). `addLoadNotifier`
   (`dyld3/AllImages.cpp:1321-1339`) calls the function about the images loaded
   so far under one hold of the lock and appends it under another. An image that
   another thread's `dlopen()` adds in between is never reported to it.
   `include/mach-o/dyld.h:61-63` promises a call for every existing image and
   for each new one.
2. **A handle to an uninitialized library** (`init_cached`). For a loaded
   library of the shared cache `dlopen()` returns at once
   (`dyld3/AllImages.cpp:1707`), without looking at its state; the comments of
   `dlopen-in-init2.dtest` and `dlopen-in-init3.dtest` want it initialized. For
   libraries outside the cache the run `init` shows that it is.
3. **Unloaded under an image that stays** (`pinned`). The Reaper marks only
   from images that can be unloaded, and never-unload is inherited only from the
   image a library is first found from. With A linking with P and then with N, N
   with P, and N not unloadable, `dlopen(A)` and `dlclose(A)` unload P under N (in
   TLC's behaviour P may be opened and closed by itself as well). The theorems of
   section 5 therefore suppose that images that cannot be unloaded link only with
   such images, and show that then it cannot happen.
4. **A passing no** (`immutable_transient`). `recomputeBounds()` resets the
   bounds before it computes them (`dyld3/AllImages.cpp:534`); until it is done
   `_dyld_is_memory_immutable()` says no to memory that it said yes to before.
   A yes is never wrong. `ImmutableIsYes` is the words of `dyld_priv.h` as they
   stand, so the strict comparison at line 814 breaks it too, at any time.

## 5. Proofs

All theorems hold for every value of the constants that satisfies the named
assumptions and the conditions stated with each. The assumptions say what the
constants are (`ImagesAssumption`, `CallsAssumption`, `RangesAssumption`,
`TlvAssumption`, `InfosAssumption`, `ReaderAssumption`, `MonitorsAssumption`,
`Dyld2Assumption`) and
two facts of the code the models take as given: an image's initializer list holds
only what the image needs (part of `ImagesAssumption`; the builder's lists, which
`dlopen_closures` checks, do), and read-only segments lie within their image
(`SegmentsAssumption`).

**AllImages** (`AllImages_proofs`)

- `TypeCorrect`: `Spec => []TypeOK`. The interesting conjunct is `gcCount \in
  Nat`: `Recheck` decrements it unconditionally, so this needs to know that
  whoever is in a collection has been counted.
- `StructHolds`: `Spec => []Struct`, where `Struct` says where each kind of call
  can be (`Shapes`), that only user code called from `dlopen()` or `dlclose()`
  has calls above it (`Nested`), that one thread at most is inside the load lock
  (`LockExclusive`) and that there is one collection at most, and it is counted
  (`OneGc`). `TypeOK /\ Struct` is inductive.
- `UsedImagesStay`, `LinkedImagesStay`, `ReaperPointersStay`: the properties
  `InUseStaysLoaded`, `LinkedStaysLoaded` and `ReaperPointersValid`, under
  `TerminatorsDoNotOpen` and `PinnedIsClosed`. None is inductive: a collection
  decides in `Mark` what is dead and acts on it in `Erase`, many steps of user
  code later, and a `dlopen()` maps images long before it adds them. The
  inductive invariant `IInv == TypeOK /\ Struct /\ Data` adds to the structure
  that what runs inside a collection is `dlclose()` (`ClosesInGc`), that loaded
  images are mapped, link with loaded images, and those with a reference are
  loaded (`Core`), and that what each frame remembers is still so (`Frames`): the new
  images of a `dlopen()` that has not added them are mapped, not loaded, and
  need nothing but each other and what is loaded; the dead images of a
  collection are loaded (until erased), can be unloaded, have no reference, and no image that stays links with
  one of them. The proof goes by the operation on the
  stack (`DataPush`, `DataSetTop`, `DataPop`), then by action.

**Collections** (`Collection_proofs`), under the same two conditions, from `IInv`
and the invariant `CInv`, which says how counts relate to calls in progress

- `InitListStays`: `InitListStaysLoaded`. It is not enough that the reference a
  `dlopen()` has taken is counted: a caller may close as many handles as it has.
  `References` says that `refs[i]` is at least the handles plus the calls that
  hold a reference no handle stands for yet, or no longer (`Owing`, a finite set
  of places on the stacks); so the reference of a call in progress cannot be
  closed away.
- `CollectionsAreComplete`: `NothingLeftBehind`. `Garbage` says that each loaded
  image that may go is needed, or a collection will see it: one that is yet to
  mark, or has it among the dead, or will go round again (`gcCount >= 2`).
  `Counted` says that a positive `_gcCount` means a collection is in progress, and
  `Mappings` that what is mapped and not loaded is on some call's way in or out.
- `ImagesLeaveInOrder`: the action property `LeavesInOrder`, for any number of
  threads. `Memories` says what a collection has left to do covers what has not
  been done: each dead image has its terminator ahead or behind it, and each
  function registered is still to be called about it or has been. The property is
  stated at the step in which `removeImages()` drops the notifiers lock: with
  several threads a function registered after that and before the images are
  erased is rightly not called about them.
- `EveryoneIsToldOnce`, `EveryoneIsToldBefore`: `ToldOnce` and the action property
  `ToldBeforeInit`, under the further condition `OneThread`: with two threads they
  are false (finding 1). The second needs `AddFunctionsDoNotOpen` too: a `dlopen()`
  in an add-image function initializes an image that the next function has yet to
  hear of. Initializers may open and close at will. `ToldInv` says that of the
  calls lying on each other no two have to tell of the same image and that a
  registration is the only call (`Apart`), and that a function was called once
  about each loaded image that no call has still to call it about, and never about
  another (`Heard`). For the second theorem `ClosesInAdd` says that between a
  `dlopen()` and the functions it is calling there is only `dlclose()`, so whoever
  runs initializers has nothing left to tell below it.

**ImmutableRanges** (`ImmutableRanges_proofs`)

- `YesIsRight`: `YesIsImmutable` for any number of readers, buckets and images,
  under `NoWrap` (no query wraps around the address space). The inductive
  invariant says that a slot with a start is a read-only segment of a loaded
  image that is never unloaded (`SlotsOK`), also the half-written one
  (`WriterOK`), and that a reader past the test of a start has seen it hold
  (`ReadersOK`).
- `TypeCorrect`: readers stay within the buckets and compare only slots in use.
- `PublishedFound`: `PublishedIsFound`, also under `NoWrap`: a no about memory in a
  registered range means that the query reaches the end of every range it lies in, or
  bounds were recomputed meanwhile. `FindInv` adds that
  buckets fill from the left (`Packed`, `SlotIsNext`), so that a reader that stops
  at an empty slot has seen all that was there; that outside of a recomputation
  the bounds hold every registered range (`BoundsOK`, `CalmOK`); that what is
  published is in a slot for ever; and that a reader which asked for it has not
  passed that slot (`Finding`).

**ThreadLocalVariables** (`ThreadLocalVariables_proofs`), from `TlvAssumption`
alone (the names of images, of the program's keys and of the terminators' key
differ)

- `ListsStayOwned`: `ListsOwned`. It rests on where things are: the terminators'
  key is the first one for ever (`KeysInv`), walks lie directly on walks with a
  terminator at most above them, and while a walk is innermost nothing is at the
  head of the key (`StackInv`); `Owned` then says that the head and the lists
  walked are different and not freed.
- `NewestDestroyedFirst`: the action property `NewestFirst`. The invariant `Order`
  adds that lists are in the order of construction (`EntriesInv`), that what lies
  on an inner list is younger than all that lies on an outer one, and the head
  younger still (`Layered`), and that an object was destroyed exactly if it is on
  none of them (`Accounted`), so the last entry of the innermost list is the
  newest that is left; `RanOnce`, proved with it, is that no terminator runs
  twice. Each thing a step can do to the lists and the stack has a lemma (`Quiet`,
  `UserDtor`, `HeadTaken`, `TerminatorBack`, `ListFreed`, `ObjectDestroyed`,
  `EntryAdded`); `Inductive` takes the actions one by one.

**The end of a thread** (`ThreadEnd_proofs`), from the above and `EndInv`

- `TypesKept`, `AllDestroyedOnce`, `BuffersOutliveObjects`, `ThreadLeavesNothing`:
  `TypeOK`, `DestroyedExactlyOnce`, `DestroyedBeforeFreed` and `NothingLeaked`.
  The clean-up goes over the keys, at `pos`, in rounds. `EndInv` says that behind
  `pos` there is only what a destructor of the program has made in this very round
  (`HeadInv`, `BuffersInv` with `Late`), that every list and buffer not freed is
  held by a key or a walk (`ListsHeld`, `BuffersHeld`), and that an object whose
  buffer went before it was made by a destructor between the two keys
  (`OrphansInv`). When the last round is over, what is left is what was made in it.

**A process and its monitors** (`ProcessInfoNotify_proofs`)

- `PublishedWhole`: `PublishedIsWhole`. `TargetInv` says how far the mirroring has
  come at each `pc` (`Mirrored`), that the array in use is large enough and, when
  infoArray is not NULL, right (`Published`), and that what is in the list is in
  memory (`InMemory`). That UUIDs need rewriting only when their number has changed
  is `Uuids`: if the number is right, so are they, because a change only adds
  images or only removes some. That rests on lemmas about `Selected`, the entries
  of a list that are in a set, in order: it distributes over concatenation
  (`SelectedOfConcat`) and selecting twice is selecting once, or drops entries
  (`SelectedOfSelected`). They are proved from the ranks of the places
  (`Ranked`, in `Selection_proofs`); that is why `Selected` is defined by them.
- `WaitsForOneAnswer`: `TypeOK`, whose last conjuncts are that each of the two
  threads that send, the one that changes the list and the one about to call
  `main()`, waits exactly while one monitor has one unanswered message of its.
  `MonitorInv` says what a thread or queue can be in the middle of (a queue that
  handles a message has the answer as the last thing to do, whatever blocks put
  before it), the life of a port and its object, and that a message is in one port or
  handled by one queue, never both, while its sender waits; messages of the two
  senders are counted apart, since a monitor may have one of each.
- `ExitIsToldOnce`: `ExitToldOnce`. While no race of two `disconnect()` has happened,
  one exit block at most is to be queued, is on the queue or has run, and a deletion is
  queued behind it.
- `BlocksReadTheList`: `BlockReadsExact`. A call made in a notify block belongs to a
  queue that still has the answer to that notice to send (`Calling`), so the thread
  that changes the list waits, so the list and its memory stand still, whatever the
  thread about to call `main()` does; `Reading` says what the call has read so far is
  a part of it, attempt after attempt. (It holds of lists that are not longer than
  the `MaxCount` = 8192 entries that are read, which the property says.)
- `ViewIsExact`: `ViewExact`, for a monitor that registers, then reads. A notice of
  an image is due, still to be sent, in the monitor's port or being handled
  (`Due`, `Posted`, `InPort`, together `Expects`). `Hears` says that all of these
  are right about the change under way, and that what was heard last of an image is
  right once none is to come. An image the monitor heard nothing of, and none is to
  come (`Open`), has not changed since it registered: the list that was read, and
  every stage of reading it, says of that image what is so (`Sees`). That holds
  though the array is rewritten in place while it is read, because an entry of an
  image that stays is only overwritten when those before it are right: at every
  moment the image is in the array at its place or behind it (`Shows`). The lists
  the property leaves out are those read from an array freed meanwhile, and those of
  `MaxCount` entries, which may have been cut off.

**dyld2** (`Dyld2_proofs`), from `Dyld2Assumption` (libraries are listed, what the
main executable links is finite and never unloaded with all it links, dynamic
references are between images) and `TermOpens = {}`: terminators do not
`dlopen()`. They may `dlclose()`, and initializers may do both. The condition is
needed: an image that a terminator opens after the mark phase is deleted with the
handle on it (`reopened` in the run). Waiting for the global lock changes nothing
the invariants speak of (`WantOnly`). Threads, images, links (cycles, upward and
weak links, a library linked twice) and `MaxOpens` are arbitrary.

- `TypesHold`, `InitializedOnce`, `ReferencesAreCounted`, `GarbageIsCollected`:
  `TypeOK`, `InitOnce`, `CountsExact`, `NothingLeftBehind`; and `UsedStaysLoaded`,
  the action property `InUseStaysLoaded`. None is inductive, and each needs most of
  the others, so there is one invariant, `Inv`:
  - `Types` and `Flags`; `Shape`, how the entries of a stack lie on each other:
    nothing is opened or initialized on top of what holds the global lock, an
    initializer lies on the entry of its image, and an image is visited only
    inside the `processInitializers()` of an image whose tree it is in;
  - `Locks`, the global lock is held as often as its owner's stack says; `OneGC`,
    there is one collection, exactly when `sDoingGC` says so;
  - `States`, what is bound, referred to or has a handle; `Linked`, what is bound
    has its libraries bound, and what is loaded but not bound belongs to the one
    `dlopen()` that is linking, whose list of what is left to load (`LoadAt`)
    covers every image that does not have its libraries yet;
  - `Marks`, what is marked in a collection is closed under links and references,
    holds what has a count, and unless a repeat was asked for is no more than what
    is in use; outside of one, all that is loaded is in use;
  - `Counts`, which is `CountsExact` with the set of calls finite; `Visiting`, an
    image being initialized is so on one place of one stack, whose thread has its
    spin lock once.

  A step proves its conjuncts from lemmas on what it does to a stack (`Replaced`,
  `Called`, `Returned`...) and on what has not moved (`Unmoved`: the entries of a
  kind are where they were). The hard steps are `Bind`, which makes a whole tree
  bound at once and may do so only because `LoadAt` has run dry; `GcDone`, which
  ends a collection and must show that all that is loaded is in use, which holds
  because a count that reached zero meanwhile has set `sRedo`; and `EnterImage`,
  where a thread that waited for another's spin lock finds the image initialized.
  That `InitOnce` holds though depths are read and written without a lock is
  visible in the proof: no conjunct of `Inv` speaks of depths but for their type.
- `TerminatedOnceEach`: the action property `TerminatedOnce`, from `Inv` and a second
  invariant, `TermInv`, about the list of images to terminate. Unless the list was
  torn by two threads that changed it at once, an image is in it exactly once from
  before its initializers are started until its terminators are called, and never
  else (`Listed`); a `push_back()` under way is the only one and knows where the
  list ends (`Pushing`); and an image in the list that the collection has not marked
  is one it has still to go through (`Dying`), also when it marks afresh to repeat
  itself. What `GcDelete` removes is not marked and there is nothing left to go
  through, so it is in the list no more; nor is it about to be initialized, because
  an image being visited is marked. Taking an entry out moves those behind it down
  (`Without`, `TakenOut`), and each of them is still there once.

**Only model-checked.** Liveness (`CallsReturn`, `TargetGoesOn`), which the prover
does not handle; everything in `ClosureBuilder`, whose operators are recursive, and
so that the loops compute what `LinkGraph` says. `DlopenRunsInitializers` holds
outside the cache (finding 2), over the graph of its run. `BottomUp` and
`ReadyOnReturn` of `Dyld2` are checked on a link graph without downward cycles:
on a cycle the depths put one image above the other, and which one is up to
the `dlopen()` that computed them last, so that another thread, which began with the
other image, passes over what its image links. For graphs without cycles they rest
on what depths hold between races, of which `Inv` says nothing.

## 6. Plan

Done: `LinkGraph`, `AllImages`, `ClosureBuilder`, `DlopenClosures`,
`ImmutableRanges`, `ThreadLocalVariables`, `Dyld2`, `AllImageInfos`,
`ProcessInfo`, `ProcessInfoNotify`, and the proofs above. To do, in this order:

1. An abstract specification of an image list (open and closed, without threads
   or stacks) that both `AllImages` and `Dyld2` are shown to implement.
2. `AllImages`, extended: start-up initializers, bulk, `load2` and ObjC notifiers,
   fork hooks, exit; the lock inversion in registration; a nested `dlopen()` of new
   images over uninitialized ones.
3. The dyld2 table of mapped ranges (`src/dyld2.cpp:414-505`), which is written
   under a lock and read without one, like the immutable ranges.

## 7. Not modelled

Most of the repository's lines are parsers and writers of file formats, builders
of caches, closures and kernel collections, tools, and tests. Mach-O parsing, the
closure format, path search, fixups and code signing are transformations of data
that keep no state, over inputs out of TLC's reach; the models keep what they
mean for the image lists (which images there are, what they link with, which
cannot be unloaded, that any of them may fail to load). The cache and
kernel-collection builders are offline tools. Start-up glue is sequential. The
share of lines the models stand for is therefore small, and is that of the code
that keeps state while programs run.

Within `AllImages`, user code that would be undefined is not taken up: a
function called during its own registration makes no calls, callers close only
what they opened, and, in the runs and the theorems that name the condition,
terminators and remove-image functions do not `dlopen()`. Functions are registered
by a thread that is in no call (`AddLoadNotifier`, `AddUnloadNotifier`):
registering from an initializer, a terminator or another function, which the code
allows (`dyld3/AllImages.cpp:1321-1339`), is left out. `fork()`, `exit()`,
start-up initializers, and the bulk, `load2` and ObjC notifiers are left out.

Within `ClosureBuilder`: of an `OverflowSafeArray` that grows, only the first move,
out of its storage on the stack, is modelled, and only that of `_loadedImages`. Later
moves deallocate the old buffer, so that the store through the old reference
(`dyld3/ClosureBuilder.cpp:866`) goes to freed memory; and the dependents' own array
may move too.

Within `Dyld2`: initializers that throw (the handler of `dlopen()` then collects
without the global lock), bindings that fail, add- and remove-image callbacks,
accelerator tables, `NSModule`, and the table of mapped ranges. `NeverUnload` is what
is so at launch: images opened later that are marked while they are loaded
(`src/ImageLoader.cpp:765-766`, `src/ImageLoaderMachO.cpp:1592-1598`) are left out.

Within `ThreadLocalVariables`: failures of `malloc()`, which abort; the test for
a terminator that is NULL; and what the program does after `_tlv_exit()` on its way
out.

Within the three modules on other processes, stores of the monitored process are seen
in the order of the program. A notice follows the mirroring at once, though
add-image functions run in between (mirror at `dyld3/AllImages.cpp:310`, notice at
443) and may call `dlopen()`, whose notices then come first; no property here
depends on the order of notices about different images. A notice and the message
that `main()` is next are taken to reach a port in any order. When the cancel handler
runs relative to the blocks on the queue is libdispatch's affair, and the model
leaves it open; if it runs after the deletion it reads `_port` of an object that is
gone, which the model takes to be unchanged. Left out are: malformed messages, a constructor of
the monitor's object that fails, failures to allocate memory, the port arrays of
old simulators, images that stay mapped after they were unloaded
(`RTLD_NODELETE`), a dispatch queue of the client's that runs blocks concurrently,
and the accessors of the result.
