# Verification of mjvmk

mjvmk is a small Java virtual machine with its own preemptive kernel.  This
directory holds TLA+ models of its parts, TLC configurations that check them on
small instances, and proofs that TLAPS checks for every instance.  Paths below
are relative to `src/`.

## The system

### Configurations

`lib/src/ps/x86` runs on the bare machine: `PREEMPTIVE_THREADS` and
`CONCURRENT_GC` are YES, `USE_TIME_SHARES`, `IDLE_GC` and `THREADED_GC` are NO.
`lib/src/ps/win32` runs as one process whose Java threads are switched by the
interpreter: `PREEMPTIVE_THREADS` is NO, `USE_TIME_SHARES` YES.  The models are
of the x86 configuration, which is the one with the concurrency, but for the
heap in the run Libraries, which is win32's; `TESTING` is NO, so assertions are
compiled out.  Of the machine's options the models take those that
`jvm/src` sets: quickening, stacks that grow (`GROW_STACK`), no stack maps for the
collector (`USING_GC_STACK_MAPS` is NO), classes prepared while they are loaded, no
`REALLOCATE_*`, and words of 32 bits.

### Components

| component | state | operations | correct when |
|---|---|---|---|
| linked lists (`types/linkedList.c`) | `pNext`, `pPrevious` of each entry, the list pointers | add to end, add sorted, remove, rotate, move one, move all | the pointers form the sequences the callers believe in |
| scheduler (`thread/schedule.c`, `contextSwitch.h`) | current thread; `runningThreads[64]`, the priority bit maps, `asleepList`; per thread its state, status, priority | start, end, sleep, join, yield, interrupt, set priority, switch | an active thread is on one list; the first of the highest running list runs |
| monitors (`thread/schedule.c`, `schedule.h`) | owner, depth, asleep and blocked list | enter, exit, wait, notify, notifyAll; timeout and interrupt of a waiter | one owner; depth restored after a wait; FIFO hand-over |
| semaphores | counter, queue sorted by priority | post, pend | counter and queue agree; highest priority first |
| timers (`thread/timer.c`, `ps/x86/psTime.c`) | tick counter, `timerExpiry`, sorted queue | set, remove, tick | callbacks neither early nor late, in order of time |
| boot and idle thread (`operate/operate.c`, `os/src/run/start.c`) | - | become idle thread, start tasks, yield for ever | something can always run |
| heap (`memory/memoryAlloc.c`) | block headers, free list | allocate, release | blocks tile the heap; the free list is exactly the free blocks |
| collector (`memory/garbageCollect.c`) | `garbageCollectionInProgress`, released list | collect, collect for memory, sweep | nothing reachable is released; whoever waits for memory is answered |
| concurrent marking (`jvm/src/object/allocate.c`) | two colour bits per block | mark roots, mark children, write barriers | a reachable object is black when the sweep starts |
| Java threads (`jvm/src/javaThread`) | list of active Java threads, saved priorities | add, remove, disable and re-enable all others | the others do not run while disabled and run at their priority after |
| class initialisation (`execute/handlers/specialHandlers.c`) | init status, initialising thread, stage in the frame | the clinit stages | initialised once, superclass first, waiters woken also on failure |
| class loading (`resolution/load`) | class table entries, load monitors | iterative load, prepare, link | each class loaded once, superclasses first |
| class files (`resolution/load/preload.c`, `load.c`, `construct.c`) | blocks of the data read so far, the jump for read errors, the class being laid out | read, verify, load, construct, prepare; error paths | no block lost or freed twice; tables and sizes right |
| resolution (`resolution/resolve`) | constant pool entries, quickened instructions | look up fields and methods, check access, quicken | a call reaches what the language says, also for classes loaded later |
| tables, type checks (`jvm/src/class`) | class table, native table | add, find, is assignable | no entry twice; agrees with the language's rules |
| string pools (`jvm/src/string`) | hash chains, keys | intern, look up by key, UTF8 to characters and back | a key leads to its string; names with equal keys are equal |
| interpreter and handlers (`jvm/src/execute`) | operand stack, locals, code | one per bytecode; quickening | each leaves what the instruction set promises |
| frames and exceptions (`jvm/src/frame`) | stack segments, frame registers | push, pop, grow, find handler | frames are found where they were left; the collector finds their references |
| natives (`jvm/src/natives`) | operand stack of the caller, program counter | one per native method | takes its arguments, leaves its result or throws |
| platform layer, logging, class file generator, Java library | - | input and output, offline tools | not modelled |

`PROJECT.json` lists every component with its sources and what is left out.

### How they interact

Application threads call the scheduler's API directly, or through the natives of
`java.lang.Object` and `java.lang.Thread` and the monitor bytecodes.  Each API
call is a critical region: interrupts are off, so on the one processor it is
atomic, and at its end it may switch to another thread.  The tick interrupt runs
between instructions of a thread that has interrupts on; it counts time, calls
back the timers that are due (callbacks move threads between lists) and may
switch.  Heap, collector, class loader, class initialisation, pools and the
interpreter itself are ordinary code that uses monitors or short critical regions, and can
be preempted at every instruction outside them.

An instruction that refers to a member resolves its constant (which may load classes and
puts them in the class table), quickens itself, and, for a static member, pushes
an internal frame that initialises the class.  Loading takes the load monitor that the
class table entry holds, initialisation the monitor of the class object; both
use the monitors of the scheduler.  Frames lie on the segments that the
collector scans.

### What is hard

Interleavings of calls, ticks, timeouts and interrupts over shared lists;
pointers that are read before a monitor is entered; a timeout racing a
notification or an interrupt; state left behind by an operation that another
relies on (`activeStatus`, `pWaitMonitor`, queued timers); hand-over of
monitors; waiting for an event that has passed; wrap-around of ticks;
collection concurrent with everything; code that is rewritten
while other threads execute it; a class loaded or initialised by two threads in
different orders, one of them failing; errors on the way, with the blocks and monitors that
are held then; tables computed in one function and used by index in others; stack
words that are written by halves.  `PROJECT.json` lists each hazard at its
line with the properties that cover it.

## Modules

| module | models | checked with |
|---|---|---|
| `LinkedList` | the functions of `linkedList.c` as operators on pointers | used by the others |
| `ListSequences` | what they promise, on sequences | `ImplementsSequences` |
| `ListMachine` | any legal sequence of calls; implements `ListSequences` | run Libraries |
| `Scheduler` | the scheduler, monitors, semaphores, timer callbacks and ticks, on the pointers of `LinkedList` | `MCScheduler`: four runs |
| `SchedulerSafety`, `SchedulerLiveness` | its properties; `SchedulerLiveness` also maps it to `Monitors` | `MCScheduler` |
| `Monitors` | abstract specification of monitors: an owner, a depth and two queues | `ImplementsMonitors`, run ClassInit |
| `PriorityMap` | the bit maps and table that find the highest priority | run Libraries |
| `Timers` | times, tick counter and timer queue | run Libraries |
| `Heap` | block headers and free list: allocate, release, sweep | `HeapSafety` |
| `HeapSafety` | its properties, and its mapping to `Allocator` | runs Libraries, HeapRace |
| `Allocator` | abstract specification of the heap: which blocks are allocated | `ImplementsAllocator` |
| `Marking` | the concurrent marking of `allocate.c`, the instructions that move references, the sweep | `MCMarking`: runs Marking, LostObject |
| `ClassInit` | the stages of `CLINIT_OPCODE`, on `Monitors` | `MCClassInit`: run ClassInit |
| `Loading` | `iterativeLoad.c` by several threads, on `Monitors` | `MCLoader`: run Loader |
| `ClassFile` | one class file from open to finished class: reads, blocks, error paths | run Loader |
| `Text` | types, UTF8 and interned strings, position by position | run Loader |
| `Pools` | string pools, keys and class table under threads | run Loader |
| `Classes` | what a class file becomes in memory: `load.c`, `construct.c`, `prepare.c` | run Loader |
| `Resolution` | lookups, access checks, what a quickened instruction reaches, type checks, on `Classes` | run Loader |
| `CallStack` | abstract specification of calls, returns and throws | `FramesAreExact` |
| `Frames` | frames on stack segments, word by word, beside a `CallStack` | `MCExecution`: run Execution |
| `Instructions` | the handlers that stay in a frame, beside the instruction set | run Execution |
| `Quickening` | threads that execute and rewrite one instruction | runs Execution, QuickOperands |
| `Arithmetic` | ints and two-word longs | run Execution |
| `Natives` | native methods, beside their Java declarations | run Execution |
| `LinkedList_proofs`, `Scheduler_proofs`, `Monitors_proofs`, `ClassInit_proofs`, `Marking_proofs`, `HeapSafety_proofs` | theorems about the module before the underscore | TLAPS |
| `TimersAndPriorities_proofs`, `ClassesAndCode_proofs` | theorems about `Timers` and `PriorityMap`, and about `ClassFile` and `Quickening` | TLAPS |

`Scheduler` takes the lists from `LinkedList` and treats the priority map as a
set, which `PriorityMap` shows the bit maps to be.  `Scheduler` lets any part of
the timer queue be due at a tick; `Timers` has the times and no threads.
`Scheduler` is shown and proved to implement `Monitors`, and `ClassInit` and `Loading` are built on
`Monitors`: they extend it and use its enter, exit, wait and notifyAll.

`MCLibraries`, `MCLoader` and `MCExecution` put several modules side by side in one
state machine.  Their variable `part` is chosen at the start, among the `Parts` of the run,
and never changes; the module it names takes the steps, the others stay in an initial state.  A property
of such a run speaks of one part, or is the conjunction of a module's properties.
`MCLibraries` extends `PriorityMap`, `Timers` and `HeapSafety`, `MCLoader` extends
`Loading` and `ClassFile`, `MCExecution` extends `Quickening`: what a theorem says is
the same definition as what the run checks.  The other parts are instances, and
their properties are collected in the MC module.

Operators with a suffix after an underscore (`AddParents_superClassOnly`,
for instance) are mutants: plausible mistakes in the
definition they stand before.  `PROJECT.json` pairs each with the property that
finds it; nothing else uses them.

### Scheduler: state and actions

The variables have the names of the C fields.  `lists` holds TL1 to TL6 of
`thread.h` as one memory of list pointers and `pNext`/`pPrevious` (each thread
has one `listStruct`, used for all six), and the priority map.  `timers` is the
memory of the `queueStruct` entries.  `tick` says whether a tick interrupt is
being handled.  `nesting` belongs to the programs: how often each has entered
each monitor and not left it.  There is one action per API function, three for
the tick (its start, each callback, its return), and one for a start.
A call that switches ends where the next thread resumes.

Two macros are modelled by what they do and not by what they are for:
`interruptThread` hands `threadListRemoveThread` a list where the address of a
list is expected, so the entry is unlinked and the list pointer is not moved
(`afterInterruptedWait`); and `addThreadToRunningThreads` may be applied to a
thread that is on another list, which then shares its pointers.

Callers are limited by `Operations` (which calls an instance makes) and by
`Disciplines`, restraint that a caller may show; each discipline excludes a
case that goes wrong (listed below), so that the passing runs check
everything else.  A thread leaves every monitor before it ends, and leaves a
monitor as often as it has entered it.

### Timers: state and actions

`tickCounter` and `timerExpiry` are kept modulo `TickRange` and the interval that
`getTickCount` is given modulo `MillisRange`, 2^32 both in the code.  Absolute
times are 64 bits wide and are not reduced.  `left` belongs to the model: the
ticks a timeout still takes, counted down by the ticks handled and negative when
they are over and the entry was not called back.

### Heap: state and actions

`block` is the memory: a header (size, kind, back, forward, `pPreviousFree`) at
the address of each block, `Garbage` elsewhere.  A unit of the heap stands for
any number of bytes; a header with `pPreviousFree` needs `MinimumBlock` of them.
`kind` is the flag bits of the key: free, allocated and not collectible, or
collectible and white or black (grey is white to the sweep).  A field that has
another use at present, such as the indices of a collectible block, holds `Other`;
data of an owner is not modelled.

`allocateBlock` is one step, as it is called inside the heap access monitor.
`memoryFree` is two, what it reads before it enters that monitor and the rest.  A
collection is a marking that leaves any set of collectible blocks black, then a
step for each block `sweep` looks at, then `addToFreeList`.  The pointers of the
released list and of the sweep are `sweep`'s fields.  The memory of a block that is
joined to another becomes `Garbage` at once, so that a pointer left to it is seen.

In win32 nothing interrupts these calls (`Uninterrupted`), and the steps of one
follow each other: so it is in Libraries.  In ps/x86 they interleave; `HeapRace` is that configuration
without collections, because while the sweep runs concurrently `allocateBlock` would have to
be taken apart too.

### Marking: state and actions

`black` and `grey` are the blocks whose BLACK_BIT and GREY_BIT are set, `gc` where
`javaMarkFunction` and `sweep` are: `pBlock`, the threads whose stack is not marked
yet, the thread that is `disabled` and what is left of its `roots`, and, while
`markChildren` is inside an object, the `path` of `pContainingObjectBlock` and
`currentIndex` back to the heap.  A step of the collector handles one root, block
or field.  A thread executes one instruction in a step, but getfield and aaload are two:
the interpreter has the object in a local variable (`loaded`) before it is grey.  All
static fields are one, and a frame is the set of objects it refers to.

The heap has `LastBlock` blocks of a fixed size; what a released block joins is the
business of `Heap`, and a released block is not allocated before the sweep is over.
`collect` is whoever collects, in the runs a thread that executes nothing else, as
when the operating system's thread does.

Two disciplines leave out what goes wrong, as the next section says: NoWhiteIntoBlack
(while the roots are marked no unmarked object is stored in a field of a black one)
and LoadsUninterrupted (nothing happens between the two steps of a load).

### Class initialisation: state and actions

`stack` holds, per thread, the internal frames whose one byte code is
`CLINIT_OPCODE`, with the stage each has reached; there is an action for every stage of
`specialHandlers.c`.  Programs (`UseClass`, `ClinitReturns`, `Catch`) use classes
inside `<clinit>` and outside it, throw and catch; they may also synchronize on a class object.
`thrown` is an exception on its way to a frame.  `MemoryFails` lets the
allocation of a frame, a monitor or an exception fail where the code allows for it.  A
waiter may be interrupted, and looks again.

### Loading: state and actions

`loadList` is `pClassList`, walked by `index`; `stage` is where a thread is in
`iterativeLoadClass`.  Looking a class up in the table, reading the monitor of its entry and
entering it are steps of their own.  When an entry's union no longer holds a
monitor, the thread that takes it for one is `BROKEN` and not followed further:
with `MonitorReadIsAtomic` it happens only to a class in error.  What the files
say is one of `Hierarchies`; a class of `Defective` turns out to be invalid or not.

`ClassFile` follows one thread through one file: `at` is the next thing it does,
`blocks` what it has allocated, `preloadData` and `loadData` what the two structures refer
to, `pErrorJump` the function to which a read error jumps.  Each read may find the end of
the file, each allocation may fail, each check of the contents may, so that the data
of the file need not be kept.  A method with an invalid name in angle brackets ends the reading
of methods without an error (`load.c:119`), and so it does in the model.

### Classes and resolution: state and actions

A step of `Classes` takes any class whose parents are loaded, and any of its `Files`, and
either refuses it (the checks of `load.c`) or puts a class definition in the table: its
methods in the order of `sortMethods`, its virtual table, its interfaces in the
order in which `loadInterfaces` collects them, the implementation tables of each, the indices of
its fields, and the size computed beforehand beside the size laid out.  The nested loops of
`loadInterfaces` share their index (`load.c:636`) and need not end: when a class lists three
interfaces and only the third has a superinterface, for instance.  Such a load (`loopsForEver`)
is a step that is never taken; no class of the run has one.  `Resolution` then
lets any class execute an instruction on a member of any other; what it quickens to is kept in
`quickened` while more classes are loaded, and the properties ask what the quick form
calls or reads on objects of each class.

The Java language's answers, with which they are compared (nearest declaring class, set of
all ancestors, assignability by the element types), are defined from the class files
and not from the tables.  `SizeIsExact` compares the two sizes of classes and of interfaces
without an initializer; with one they differ (`BlocksAreFilled`, below).

### Text and pools: state and actions

`Text` spells one string out of an alphabet, a character a step, and compares the walks of
`preload.c` and `javaString.c` over it with a grammar.  What lies behind the end of the string
in memory is chosen by `rest`.  Whether a `char` is signed is up to the compiler, and `signed`
is one of `Signedness`: signed in the only build the repository describes (`jvm.vcxproj`,
MSVC without `/J`), unsigned where the comments of `javaString.c` are true.  Verified strings are
shown to decode when it is unsigned or the string is ASCII (`VerifiedStringsDecode`); otherwise
they do not (`StringsDecode`, below).  Interned strings are given by
their verified bytes, decoded when they are made and when they are looked for, and found under both;
spellings of a character with more bytes than it needs are not among them.

`Pools` has threads that look names up and add them:
the search is one step, the addition another, as only that is in a critical region.
Hashes are given, so that names collide as wanted; indices and the bits of a
key are those of `keys.h`.  The key of a class has eleven bits for its package, which a chain of
the table of 256 outgrows at its eighth entry, and four for the depth of an array.  What the keys
promise holds while the package's chain and the depth fit (`PackageFits`, `DepthFits`).  The
instance reaches both limits: the package `p` is the seventh entry of its chain, or the
eighth when two threads add a string of the chain twice, and one class is an array of 17 dimensions.
`PackagesAreFound` and `DepthsAreApart` are the same claims without the limits, and violated.

### Frames: state and actions

`mem` is the stack segments as cells of four bytes, so that the halves of a stack entry and
the five or six words of a frame structure have places of their own; `calls` is the
`CallStack` beside it.  Every instruction of the program is one step of both.  A call
that does not fit takes the segment after it, a new one, or throws; a throw
unwinds frames, leaves monitors and frees segments on its way; a return copies the result.
The program has every kind of call, handler and result; branches are taken either way.

A handler catches in a range of instructions, without its end.  The code compares both ends with one
pc (`throw.c:25`), which in a frame that has called is already that of the next instruction and in the
frame that throws is its own, so two cases go wrong: a call directly before the range, and
a throw by the instruction at its end.  `strays` names the case a throw meets, and the program
contains both; `StrayHandlers` says which of them the instance lets happen.  In Execution it has none; what
happens with each is below.

### Instructions, arithmetic, natives: state and actions

`Instructions` starts from any typed operand stack of up to `MaxStart` words and executes
`MaxSteps` instructions that the verifier would allow, on the words as the handler's code
does and on typed values as the instruction set says.  Values are terms,
so that operands in the wrong order or from the wrong word show.  What is computed from
them is `Arithmetic`: on words of four bits all carries, borrows, signs and shift counts occur
that occur with 32.  `Natives` does the same for the native methods, each called with any arguments
and with failures of memory and of the object's state.

### Quickening: state and actions

`code` is the opcode and operand bytes of one instruction.  A slow handler reads all of it
in a critical region and checks that it is still the one dispatched on; a
quick handler reads operand by operand, between which other threads rewrite.  `class` is the
initialisation of the class a static form refers to.

## Runs

Instances of the scheduler have the idle thread at priority 1 and two or three
threads at 31, or at 31 and 32; one or two monitors or a semaphore.

| run | question | bound |
|---|---|---|
| Monitors | no thread asleep without what will wake it; does the scheduler implement `Monitors`? Depth after a wait, timeouts, notifications, interrupts | 3 threads, 1 monitor, depth 2, timed waits only, disciplines CarefulInterrupt and LetSleep (nobody sleeps outside a monitor here); symmetry |
| SleepAndJoin | sleep, join, death, interrupt: no joiner left, no switch missed | 3 threads of 2 priorities, disciplines JoinAlive, FreshTimer, CarefulInterrupt; symmetry |
| Semaphores | each thread where its state says; counter, sorted queue, priority changes, disabled rescheduler, sleepers | 3 threads, counter to 2, disciplines OtherPriority, PendFirst |
| Fairness | does a runnable thread of highest priority run again and again; is a blocked thread overtaken for ever? Untimed waits | 3 threads of 2 priorities, fair ticks |
| Libraries | do the pointers implement sequences; is the highest priority found; is the tick at which a timeout is over the only one that may pass without its callback, and none before; are headers, free list and neighbours exact, garbage and only garbage released, and does the heap implement `Allocator`? | 4 entries, 3 lists; priorities 0, 7, 8, 31, 32, 62, 63 with 2 threads each; 3 timers; the tick counter stops short of its range of 9, the casts of an interval do not; heap of 10 units, minimum block 2, requests of 1 and 3, no preemption |
| Marking | is what can be reached kept, what cannot collected, and do the roots stay marked, while two threads move references? | 2 blocks with two object fields each, 2 threads and a collector, both disciplines; symmetry |
| ClassInit | is each class initialised once, after its superclass, and does every use end? | 2 threads; a class, its superclass and another; initializers of the first two use each other; depth 2; memory may fail |
| Loader | one definition of each class, parents first, load monitors left, every load ends; layout, virtual and interface tables, calls, fields, type checks as the class files say; types, strings, keys exact; no block lost at any error | 2 threads and 4 classes in 4 hierarchies, 2 defective; 7 classes of up to 5 member sets; texts of 4 characters (interned strings 3), `char` signed and unsigned; 2 threads and 4 classes in a table of 3, chains of up to 8; a file of 3 constants and 2 methods |
| Execution | do frames, handlers, quick forms, arithmetic and natives keep their promises, and does the collector find references on the stack? | 5 segments of 14 to 30 words, 6 methods; 6 words of operand stack, 2 steps; 3 threads on one instruction of 6 kinds; 6 words of 4 bits; 2 objects, 6 arrays |
| LostObject, HeapRace, QuickOperands | three statements of the code's comments, see below | as Marking; 6 units, 2 threads, preemptive; 2 threads, one kind |

Why these bounds suffice: two blocked threads are needed for an order in a FIFO
list, three for a list in which an entry has two different neighbours; depth 2 is
the first that differs from a fresh entry; two priorities are needed for a
switch by priority; the highest
rows and bits, not how many there are, are where the bit maps can go wrong.
In `Timers` the intervals are zero, less than a tick, a whole
number of ticks, and more than `MillisRange`.  Ten units hold five smallest
blocks, enough for a block whose two neighbours on either side are of any kind;
the requests split a block, take it whole, and leave a rest too small to be one.
In `Marking` two threads are needed for an object to go from a stack not yet marked to one that
is; two objects that can hold each other in two fields make the shared object, the cycle, and the
chain that runs against the order of the heap, and let a walk be disturbed in the fields it has
passed and in those ahead.  Longer chains need more blocks than a run has time for; the theorems
hold for any number of blocks, fields and threads.

Two threads suffice for class initialisation and loading in that a third would only
wait for one of them; two circles are there, of initializers and of
superclasses.  The hierarchies of Loader have parents that are apart, one inherited in
two ways, two that classes inherit in different orders, and a circle.  Its classes give
each rule of overriding a file: another package, final, static, private, abstract, an
interface above an interface, fields of each size after each other.  Four letters spell an
array of arrays, an object type and a method type with one parameter; `rest` is behind
them.  A table of three slots wraps round and fills up, and does not hold the four classes.  Three constants and two methods let
an error come after some blocks of each kind and before others.  Segments are as small
as a frame allows, so that calls overflow at each depth, reuse segments and run out of them.
Three threads are needed for one to rewrite an instruction between another's
read of it and a third's.

The counters bounded are `MaxDepth`, `MaxCount`, `MaxDisabled`, `MaxThreads`, `MaxLate`,
`MaxSegments` (memory), `MaxHeld` (entries of a monitor left behind by overflows),
`MaxSteps`, `MaxStart`, `MaxWords` and `MaxLength`.

Runs marked symmetry treat threads of one priority (in Marking, the threads that do
not collect) as interchangeable; every property they check is a safety property, and
no definition tells such threads apart.  `GarbageIsCollected` is an action
property.

Deadlock is checked except where a system rightly stops: in ClassInit and Loader
threads may wait for each other in a circle, and the parts of Loader that read one file or
text end; in Execution a thread returns from its first method, and computations,
natives and instructions are carried out once.  In the scheduler's runs the idle thread can always run.

### Disagreements with the code's own statements

Three runs show a statement of the code's comments to be violated:

| run | statement | what happens |
|---|---|---|
| HeapRace | the key holds the size of the block (`heap.h:102`) | `memoryFree` joins its block to a neighbour that was split after it was read |
| LostObject | besides new, aaload, getfield and putstatic no instruction can cause objects to be missed (`allocate.c:32`) | an object stored by putfield in a block that was born black while the roots were marked is swept |
| QuickOperands | an instruction is read without interruption and checked for having been quickened (`frameRegisters.h:199`, `236`) | a quick handler reads operands that a native's quickening has overwritten since the dispatch |

More come with a change of an instance's constants:

* in Execution with `StrayHandlers <- {"start"}` or `{"end"}`, `HandlersCatchInTheirRange` is violated, and
  `FramesAreExact` with it.  `throw.c:22` says that the end of a handler's range is not inclusive and
  that the test allows for the pc having been incremented when the frame was pushed.  It does so
  at the end only: of a call directly before the range the incremented pc is the start, so that the
  handler catches what the call throws (in the program, a call at 13 and the handler of 14 to 15).
  And the frame that throws was not left by a call but passes its own pc
  (`objectHandlers.c:275`, `handlers.h:44`), so that the handler also catches what the instruction
  at its end throws (an athrow at 5, the handler of 0 to 5);
* in Semaphores without OtherPriority, a thread that
  sets its own priority goes to the end of the new list while it goes on running
  (`schedule.c:228`), against `schedule.c:78`; its next call that blocks takes
  another thread off the list (`ThreadsAreWhereTheyShow`);
* in Libraries with `Wraps <- TRUE`, `AtMostOneTickLate` is violated: after the tick
  counter overflows a timeout set before is compared with a time that never
  reaches it;
* in Marking without LoadsUninterrupted,
  `NothingReachableIsLost` is violated: a thread is preempted after getfield has read
  an object and before it greys it (`fieldHandlers.c:236`), the field is overwritten,
  and the whole collection passes before the thread runs again; it pushes an
  object that has been released.

The disciplines name more cases in which the scheduler relies on its
callers; an instance without the discipline shows each:

* without CarefulInterrupt, the first waiter of a monitor, interrupted, stays on the
  asleep list although it is active elsewhere (`schedule.c:486`, against
  `thread.h:101`: it must be on exactly one); and a thread that was notified keeps
  the status of a waiter (`schedule.c:337`), and an interrupt moves it although it
  is blocked (`schedule.c:466` says it has no effect on such threads);
* without LetSleep or FreshTimer, an interrupted sleeper's entry stays on the timer queue
  (`schedule.c:499`); when the thread sleeps again the entry is linked twice, and
  when it joins or ends first the callback moves a thread that is not asleep.  LetSleep
  leaves such interrupts out altogether, and the proofs need it; FreshTimer only has the
  thread wait until its entry is gone, and the run SleepAndJoin checks that this is enough;
* without PendFirst, a pended thread's priority changes and the semaphore's queue
  is not sorted again (`schedule.c:239`);
* without JoinAlive, a thread joins one that has died and never resumes
  (`schedule.c:413`).

Some statements are in the modules as definitions that no run lists, because the
code does not keep them.  Each is violated when it is added to the configuration of its part, Loader
or Execution, as an invariant (those of `MCLoader`) or in a definition of the MC module:

| definition | statement | what happens |
|---|---|---|
| `MCLoader`: `IncludesAllSuperInterfaces` | a class lists all its superinterfaces (`base.h:60`) | the inner loop of `loadInterfaces` reuses `i` (`load.c:639`): interfaces after the first that has superinterfaces may be left out.  In the instance a class that lists J and K, each with a superinterface, does not know that of K |
| `MCLoader`: `BlocksAreFilled` | `ASSERT(pNext == pFirst + size)` (`construct.c:613`) | of an interface's initializer neither the list of static methods it is put in (`construct.c:91`) nor its handlers (`construct.c:177`) are counted (`construct.c:441`): a block of 184 bytes is filled with 204 |
| `MCLoader`: `StringsDecode` | UTF8 strings are converted, characters of two and three bytes included (`javaString.c:8`, `27`, `41`) | a signed `char` shifted right is negative (`javaString.c:23`, `79`), and each byte becomes a character, as 195, 128 do |
| `MCLoader`: `PackagesAreFound` | only the low 11 bits of a key are used by the pool (`keys.h:60`) | the size of the table is added without a limit (`stringPool.c:84`): with 256 entries (`javaParameters.h:53`) the eighth of a chain has a key from 2048 on, which reads as the bit of a primitive array, and the package is not found |
| `MCLoader`: `DepthsAreApart` | the top four bits hold the depth of an array (`keys.h:70`), of which 255 is let through (`preload.c:208`) | depths from 16 on are shifted out (`stringPool.c:278`): arrays of int of 1 and of 17 dimensions have one key |
| `MCLoader`: `StringsArePooledOnce` | the string is added or the equivalent string in the pool is got (`stringPool.h:27`) | two threads search outside the critical region (`stringPool.c:79`) and both add |
| `Resolution!UnimplementedAreFound` | a call reaches the method it names | a method of an interface that an abstract class leaves unimplemented is looked up in `instanceMethods` and its index taken for one of the virtual table (`lookup.c:117`) |
| `Loading!DuplicatesAreRemoved` | `removeDuplicates` removes them all (`iterativeLoad.c:85`) | after a removal an entry is skipped |
| `Loading!MonitorIsReadFromReferenced` | the entry a monitor is read from has one (`base.h`) | the status is read before, the union has been overwritten since |
| `Frames!CollectorKnowsObjects` | the collector tells objects from primitives (`types.h:290`) | pushing an int leaves the old object half |
| `Frames!InvokeSizeIsEnough` | the space required by a method (`javaThread.h:58`) | three words for a frame of five, six when synchronized |
| `Quickening!UsersSeeInitialized` | - | a static quick form, written by the thread that runs the initializer, is executed by others before it ends |

Left out of Execution because they do not do what they promise, so that the properties hold
of all others: of the instructions lshl, lshr and lushr (shift count read at index
3), lmin and lmax (operands not popped), i2f (an entry too many) and putfield of a long
(the object is looked for at index 1); of the natives wait with a timeout (one argument
popped of three or four), `forName` (the argument is left), `isAssignableFrom` and
`isInstance` (operands swapped), `getResourceAsStream` and `writeBytes` (wrong counts), and
`Runtime.exit`, which does not return.  `Natives` leaves out the overflow of position
plus length in `arraycopy` and null elements in checked copies, which the code
rejects.  `Arithmetic` defines division, comparison and the multiplication of longs too, but
`Operations` leaves them out: the code computes them on unsigned words (`types.h:92`), and each gives
a counterexample when it is put in; `Sound` leaves out shifts of a long by zero and arithmetic
right shifts by 32 and more.  Narrowing to byte and short, which does not extend the sign,
is not defined.

Left out by name of properties that hold otherwise: of `CollectorMissesNothingElse`, references in
the frames of synchronized methods, and those behind the indicator of a long, in use or stale; of `VerifiedStringsDecode`, characters of several bytes when `char` is signed; of `KeysAreExact`,
packages and depths a key has no room for; of `FramesAreExact`, the two stray handlers; of
`SizeIsExact`, interfaces with an initializer; of `InterfaceCallsAreRight`, classes above which a file
lists two interfaces with superinterfaces; of `JoinedThreadIsAlive`, threads that were dead
when they were joined; of `ThreadsAreWhereTheyShow` and `HighestReleasedFirst`, changes of a thread's own
priority and of a pended thread's.

## Fairness

`FairSpec` of the scheduler assumes that scheduled ticks keep coming (the hardware
timer; strong fairness because the rescheduler may be disabled in between) and
that the handler returns.  It assumes nothing of the programs, which may compute
for ever.  `RoundRobin` follows from that alone.  `NeverOvertakenForEver` says that
a thread is blocked for ever only if the monitor stops changing hands.

`ClassSpec` and `LoaderSpec` assume weak fairness of each thread's steps inside
initialisation and loading: `RoundRobin` is what justifies it, for threads of the
highest runnable priority, and a thread of lower priority runs when those wait.  `ClassSpec`
assumes besides that a program leaves what it synchronizes on and returns from `<clinit>`
if it can again and again.  `EveryUseEnds` and `LoadingEnds` rest on them; both except threads
that wait for each other in a circle, which the machine neither prevents nor notices.  The other
specifications state no fairness, as only safety is asked of them.

## Proofs

TLAPS checks the following for every value of the constants that the named assumption of the
module allows; what is assumed besides is said with each.

| module | theorem | states |
|---|---|---|
| `Scheduler_proofs` | `SchedulerInvariance` | `IInv` always holds, for disciplined callers, as all of this module |
| | `WhereThreadsAre`, `SleepersAreFound` | `ThreadsAreWhereTheyShow`, `SleepersWillBeWoken` |
| | `JoinedWillDie`, `PendedAreTheDebt` | `JoinedThreadIsAlive`, `CounterCountsPended` |
| | `HighestGoesFirst`, `SwitchesAreMade` | `HighestReleasedFirst`, `NoSwitchIsMissed` |
| | `MonitorsAreImplemented` | `ImplementsMonitors` |
| | `RunnersOwnWhatTheyAreIn`, `LongestBlockedGetsIt` | what follows of it for the scheduler: `InsideMeansOwner`, `HandedToLongestBlocked` |
| `LinkedList_proofs` | lemmas only | what each function of `linkedList.c` does to the sequences that the pointers stand for |
| `Monitors_proofs` | `Invariance` | `IInv` always holds |
| | `InsideIsOwned`, `MonitorsExclude` | who is ready to run inside a monitor owns it; `MutualExclusion` |
| | `HandOverIsFair` | a monitor given up goes to the thread blocked longest |
| `TimersAndPriorities_proofs` | `MapIsExact`, `HighestPriorityIsFound` | the bits are the priorities in use; `HighestIsFound` |
| `ClassInit_proofs` | `ClassInvariance` | `ClassInv` always holds |
| | `ClassesAreInitialisedInOrder` | `InitialisationIsOrdered` |
| | `ClassMonitorsExclude`, `ClassStateIsGuarded` | `MutualExclusion` under class initialisation; a class changes only inside its monitor, its status once |
| `Marking_proofs` | `MarkingInvariance`, `GarbageGoes`, `RootsAreMarked` | `GarbageIsCollected`, `RootsStayMarked`, whatever the programs do |
| | `CollectionInvariance`, `WhatIsReachedIsKept` | `NothingReachableIsLost`, under both disciplines |
| `TimersAndPriorities_proofs` | `TimersInvariance`, `TimeoutsAreNotCutShort` | `NeverEarly`, also when the tick counter overflows |
| | `LatenessInvariance`, `CallbacksAreOnTime` | `AtMostOneTickLate`, while it does not |
| `HeapSafety_proofs` | `HeapInvariance` | `HeapInv` always holds, without preemption, as all of this module |
| | `HeapStaysInOrder` | `HeapIsInOrder`, from a theorem for each of its five parts |
| | `ReferencedStay`, `AllocatedBlocksAreApart` | what was marked stays; what was handed out is apart |
| | `HeapImplementsAllocator` | `ImplementsAllocator` |
| `ClassesAndCode_proofs` | `FileInvariance`, `EndOfFileIsCaught`, `NoBlockIsForgotten` | `ReadErrorsAreCaught`, `MemoryIsAccountedFor` |
| | `TypeCorrect`, `QuickMeansInitialisationBegun` | types; a quick form is met once initialisation has begun |
| | `QuickeningIsSafe` | `QuickFormsAreSafe`, of every kind but "math" |

Each module lists its lemmas before its theorems, as a rule one per action.  How the
invariants come about:

**Linked lists.**  `Represents(L, names, D)` says that the pointers `L` stand for the sequences
`D`: each head is the first entry or NULL, `next` and `prev` lead round the circle of the entries
and back, and no entry is twice on a list or on two.  A lemma for each function of `linkedList.c` gives the
sequences after it (`AddedToEnd`, `RemovedOne`, `MovedAll`, `AddedSorted`, ...); two facts carry them all,
what a splice does along one direction (`SplicedForwards`, `SplicedBackwards`).  `ContentsRead` says
the converse: whoever follows the pointers reads `D`.  The walks of the model are recursive functions,
on which the prover has no induction; `UpTo` and `StepByStep` take the least number at which a
statement fails, a set written out, instead.

**Scheduler.**  `IInv` speaks of the pointers through those sequences:

* `Types`, and that the pointers of the six kinds of list of `thread.h` and of the timer queue stand for
  sequences (`Sound`, `QueueSound`), with a bit in the map for each running list that is not empty;
* `Placed`: an active thread is on the one list its fields show, any other on none.  The property of the
  run says only that there is one; that it is the list the next operation will look for is what
  keeps the pointers sound, since `RemoveOne` from a list the thread is not on breaks both;
* `Clocked`: the threads on the timer queue are those asleep until a time, with the callback that
  fits their list; a callback moves a thread without looking where it is;
* `CurrentIsFirst` and `IdleIsReady`: every operation that blocks moves the front of the current
  thread's list, and there is always a thread to switch to;
* `BlockedAreOwned`, `JoinedAreAlive`, `PendedAreCounted`, `PendedByPriority`: what keeps the queues from
  being forgotten, and the order of a semaphore's queue.

Each operation is a change of the lists, a change of fields and one of three context switches.
Lemmas say what each kind of switch leaves (`Arrived`: the same threads on each list, the others' order
as before, the current thread in front), and each action combines two or three of these.  The theorems
assume `Disciplined`: of the callers that join, JoinAlive; that set priorities, OtherPriority and
PendFirst; that interrupt, CarefulInterrupt and LetSleep.  The instances of Monitors, Semaphores
and Fairness satisfy it; on the first two TLC checked `IInv` and `MonitorsInv` before they were proved.  That of SleepAndJoin does not, as it has interrupted sleepers: there `Clocked`
is false, `JoinedThreadIsAlive` and `NoSwitchIsMissed` hold all the same, and TLC alone says so.

**Scheduler implements Monitors.**  The mapping is in `SchedulerLiveness`: the two queues are the
blocked and waiting lists as sequences, the depth of a free monitor is zero (`shownDepth`: the code
leaves an old number there), and a thread's saved depth is zero unless it has a monitor to get back
(`savedDepth`).  `MonitorsInv` is `IInv`, the abstract `IInv` under that mapping, that whoever has a
monitor to get back has a depth to get it back at, and that a thread is inside nothing before it starts.
Every action that touches a monitor is one step of `Monitors`; sleeps, joins, posts, pends, priority
changes, yields, ticks and deaths leave the mapped state as it is, because they move threads
only between lists that are none of the monitors'.  The abstract invariant is not proved again: the lemma
`InvKept` of `Monitors_proofs` is used under the mapping.  `MaxDepth > 0` is assumed, because a
thread can be started inside a monitor.  With the refinement the theorems of `Monitors_proofs` about
who is inside and who is handed a monitor hold of the scheduler's own fields.

**Monitors.**  `MutualExclusion` is not inductive: that nobody is inside who does not own
says nothing about who is handed a monitor next.  `IInv` adds where everybody is (a
thread is on one queue, once, and an owner on none), that a monitor somebody is
blocked on is owned, that whoever is inside owns or is queued, and that a queued
thread's saved depth is the depth at which its program is inside.  With the last,
a hand-over gives the new owner exactly the depth it needs.

**Priority map.**  It rests on `RowAndBit` (a priority is its row and bit, and no
other is) and on the assumption `HighestBitMapAssumption` about the table of 256
numbers, which TLC evaluates in the run.

**Class initialisation.**  `ClassInv` is `IInv` of the monitors below, which the stages
keep because each uses the monitor as a program does, and four parts: the types; a relation along
each stack (`StacksInv`: above a frame that initialises its superclass is the superclass's frame, an
initializer runs only with the superclass initialised or further down, whom `pInitializingThread` names
has exactly one frame in charge, and `runs` is at most 1); that a frame at a stage inside the monitor has
entered it (`HoldingInv`); and that a class with waiters is still to be finished
(`WaitersWillBeNotified`).

**Marking.**  `MarkingInv` holds whatever the programs do: what has been found of the roots stays
marked (`RootsInv`), threads are disabled only while their stack is marked (`DisabledInv`), the objects on
the path of `pContainingObjectBlock` are black (`PathInv`), and there is a set apart from the garbage that holds
the roots, all that is marked and all its objects refer to, and no garbage is behind the sweep
(`GarbageInv`).  The set has to be said to exist: what is reachable shrinks while threads run, and
what was marked stays so.  That nothing reachable is lost needs the tricolour invariant in the form this
collector has (`TricolourInv`: a black object holds no unmarked one, but in a field `path` has
still to look at; colours left by the collection before count for nothing), the place of the walk (`PlaceInv`), and that
behind it nothing is grey and not black (`PassedInv`).  Both disciplines are necessary: without
NoWhiteIntoBlack the run LostObject is the counterexample, without LoadsUninterrupted the one in the
list above.

**Timers.**  Early (`EarlyInv`): with ticks of a timeout left, all but one of them do not reach its
absolute time; a counter that wraps to zero keeps that, as it only makes timeouts longer.  Late: the queue
is sorted and has an entry once, `timerExpiry` is at most the tick after the one the first entry
is due in, though it may have been computed for an entry removed long ago (`ExpiryInv`), and the ticks
left are enough (`LateInv`).  `~ Wraps` is necessary, as the list above says.

**Heap.**  That the heap is tiled is not inductive without the back pointers by which `memoryFree` finds
its neighbours, nor these without the absence of two adjacent free blocks, nor that without
the lists: a free block that is on no list cannot be unlinked when it is joined.  `HeapInv` is

* `Geometry`: the blocks tile the heap, `back` and `forward` are the contiguous neighbours where
  `heap.h` says so, no two free blocks are adjacent, in the middle of a sweep too (the run that it has
  collected so far is not yet a block);
* `FreeingIsExact`: what a `memoryFree` under way has read is still so;
* `SweepIsExact`: where the sweep's pointers are, that no white block is behind them, and which
  blocks make up the run;
* `ListsAreExact`: the free list and the list of released blocks are two disjoint sequences,
  linked both ways, that hold exactly the free blocks outside the run.

A list is given as its entries (`Linked(B, s, n, first)`), and lemmas say what
removing, replacing, putting in front and concatenating do to the sequence when only the named fields
are written.  Six lemmas about any memory (`MergeKeeps`, `SplitKeeps`, `SameKeeps`,
...) carry the geometry through all the actions.  TLC checked `HeapInv` on an instance of the run's kind
first.  `~ Preemptive` is needed for all of it: with preemption the run HeapRace
violates `HeapIsTiled`.  The refinement maps an allocation, a `memoryFree` and each step of the sweep that takes
a run to the abstract operation of that name, and everything else to a stutter.

**Class files.**  `FileInv` says, for each stage, which function's jump is set and which
blocks the clean-up of that stage knows of; of the parts of methods and the list of interfaces, which `load.c`
loses, it says that nothing else is lost.

**Quickening.**  The code holds the operands of the form its opcode names (`CodeHolds`), the bytes a
thread has still to read are those of the form it dispatched on, whoever has rewritten them (`FormInv`), and
past the slow form's check of the class, or without it, the initialisation has begun (`StartedInv`).
Kind "math" is left out of `QuickeningIsSafe` because there it is false: the run QuickOperands.

### Only model-checked

* liveness (`RoundRobin`, `NeverOvertakenForEver`, `EveryUseEnds`, `LoadingEnds`) and `ENABLED`, which
  the prover does not do;
* what modules with recursive operators (`Loading`, `Frames`, `Text`, and what extends them) or with
  bit operations (`Pools`, `Arithmetic`) say: the prover refuses the first and does not know the second;
* the scheduler with interrupted sleepers (SleepAndJoin), see above;
* `ImplementsSequences`, calls of the list functions in any order: what each call does is proved, for
  the lists that its callers have, but the machine that makes them is TLC's;
* `Classes`, `Resolution`, `Instructions` and `Natives`: their runs enumerate inputs, and what
  they compute is a fold over data, on which there is no induction.

Induction over data is possible only for a set that is written out, from the least number of which
something is false (`MinOfNaturals`, from the library's theorem on well-founded sets):
`HeapSafety_proofs` shows that way what a walk along the free list meets.

## Plan

1. Done: every module of the table above.
2. Proofs: done are the theorems of the table above, the scheduler's with them.  Next
   `ImplementsSequences` from the lemmas of `LinkedList_proofs`, and the scheduler with FreshTimer in
   place of LetSleep, for which `Clocked` needs the entries of interrupted sleepers.
3. `Collection`: collecting for memory over the abstract monitors; does whoever
   waits for memory get an answer?
4. The concurrent sweep in `Heap`, with the steps of `allocateBlock` in the order
   it gives them a reason for; the list of active Java threads and their saved
   priorities in `Marking`.
5. Array classes in `Loading`; floating point and switches in `Instructions`.

There are as many runs as distinct questions; what a new module adds goes into the
composite run of its part of the system.

## Not modelled

* the hand-over between the collecting thread and threads that wait for memory
  (`garbageCollect.c`, `memoryCallocMonitor`, `resizeTable`); a collection that never notifies is
  therefore not seen;
* `allocateBlock` step by step under a concurrent sweep;
* the list of active Java threads, `savedPriority` when threads are disabled twice, stack
  set-up of a thread;
* the native table, and the loading of array classes, which have no file; attributes of class
  files that are skipped;
* floating point values (the handlers of float and double that move words are those of int and
  long), tableswitch and lookupswitch, `INIT_OPCODE`;
* the win32 configuration's time shares;
* the local variables that `longjmp` may lose: `ClassFile` takes them to keep their values;
* drivers, assembly, logging, the class file generator and its output, the Java class library
  and test programs.
