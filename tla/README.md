# Nova-C in TLA+

Nova-C is the back end of the Nova compiler that produces C: a code generator
written in Java (`src/src/nova/c`) and the C runtime that the generated programs
are linked with (`src/include`, `src/nova`). This directory holds TLA+
specifications of both, the TLC configurations that check them on small
instances, and proofs for TLAPS.

The specifications are about behaviour, not about text. For the code generator
this means that a module models what the *generated C program does*: the
functions `generateX`/`XWriter` emit are run as code, and the Nova program they
were generated from is chosen freely. Paths below are relative to `src/`.

    tlc -config MCProgramStart.cfg MCProgramStart     check an instance
    tlapm StaticBlocksProofs.tla                      check the proofs

## 1. The system

### Code generator (Java, `src/nova/c`)

| Component | State | Operations | What makes it correct |
|---|---|---|---|
| Start-up code (`CCodeGeneratorEngine.insertMainMethod` and what it calls, `ClassDeclarationWriter`, `StaticBlockWriter`) | in the generated program: `vtable.classInstance` of every class, `Class.ALL`, the flags `C_static_inited` | `main`, `novaInitProgramData`, `novaCallStaticBlocks`, `C_static` | no pointer is followed before it is set, whatever the declaration order; every static block runs once, after what it depends on, also when dependencies are cyclic |
| Exceptions (`TryWriter`, `CatchWriter`, `FinallyWriter`, `ThrowWriter`, `ReturnWriter`, `BreakWriter`, `ContinueWriter`, `include/ExceptionHandler.h`) | the chain of contexts in `exceptionData`, the C stack | TRY, CATCH, FINALLY, THROW, return, break, continue | a throw reaches the innermost enclosing TRY that catches it, and never a TRY that is over |
| Objects (`ConstructorWriter`, `AssignmentMethodWriter`, `InitializationMethodWriter`, `InstanceFieldListWriter`, `DestructorWriter`) | the memory of an object, its vtable | construct, assign defaults, initialise, super call | code that runs during the construction finds what it uses assigned; a field keeps its value and its place |
| Default arguments (`DefaultArgumentWriter`, `MethodCallArgumentListWriter`, `ParameterWriter`, `DefaultParameterInitializationWriter`) | the parameters of a call | call with missing arguments | a default is taken exactly when its argument is missing |
| Closures (`ClosureWriter`, `ClosureVariableDeclarationWriter`, `VariableDeclarationListWriter`) | closure contexts on heap or stack | capture | a captured variable is seen by both sides |
| Virtual tables (`VTableWriter`, `TraitVTableWriter`, `ExtensionVTableWriter`, `VirtualMethodDeclarationWriter`) | one constant table per class | a call through a slot | the slot holds the most derived implementation |
| match/case (`MatchWriter`, `CaseWriter`, `DefaultWriter`, `FallthroughWriter`) | none | lowering to `if`/`switch` and labels | exactly the scopes of the source program run |
| File output (`writeFiles`, `generateVTableDeclarations`, `writeMakefile`) | the files of the output directory and their times, `forceRecompile` | write, skip, force, restore the time | make compiles what changed, and what it links belongs together |
| Driver of the C compiler (`CCompileEngine`) | options, the error flag of the output listener | `checkArgument`, `compile` | errors of the C compiler are reported once, completion is reported |
| Make rules (`makefile.nova`) | objects and their times | compile, link | nothing is linked that is out of date |
| Other node writers | none | print one syntax node | wording and layout only |

The engine calls the writers while it walks the tree; the writers have no state
of their own. The tree, the parser and the semantic passes are in another
repository: what they return is an input here.

### Runtime (C, `include` and `nova`)

| Component | State | Operations | Hard behaviour | What makes it correct |
|---|---|---|---|---|
| Hash map (`include/HashMap.c`) | size, count, slots with ACTIVE flag, key, data | create, insert, remove, get, contains, count, delete | insert and rehash are mutually recursive, removed slots stay in probe sequences, table sizes come from a random prime test | it behaves as a map; the counter is right; insertions return |
| Command (`nova/NativeSystem.c`, `getPipe`) | pipe, child process | fork, wait, read | two processes, a bounded pipe, calls that fail and are not left | all output is read, the call returns |
| Sockets (`nova/network`) | descriptors; buffer, offset, expected length | connect, start, accept, send, receive, close | failing calls, retries, a byte stream with short reads and joined frames, end of stream | a retry gets through; messages come out as they went in |
| Threads (`nova/thread/NativeThread.c`) | handles, one named semaphore | create, run, join, cancel, sleep, create/close semaphore | real concurrency, interrupted calls, a semaphore that survives crashes | mutual exclusion; a sleep lasts as long as asked; a join returns |
| Runtime helpers (`include/Nova.c`) | growing buffers, arrays | ufgets, arrayCopy, copy_string, nova_gen_array | off-by-one at growth steps, overlapping copies | contents are kept |
| File reading (`nova/io/NativeFile.c`) | growing buffer | nova_getstr, getline, read | growth, end of file and errors in the middle | the line, complete; the two assertions hold |
| HTTP download (`nova/io/NativeCurl.c`) | growing buffer | writefunc, curl_get_string | the buffer moves between callbacks | contents are kept |
| Windows GUI (`nova/star`) | scroll bar, critical section | window messages | callbacks, a lock initialised twice | mutual exclusion, scrolling by one's own wheel |
| Dates, database, GC, MD5, libraries, console, object natives | almost none | calls of libraries | a `static struct tm` shared by threads | |

Generated code calls the runtime; the runtime calls back into generated code at
two places: `create_thread` is given a method to run, and error callbacks
(`error_func`) report failures. `exceptionData` is declared outside this
repository. The generator's files and the runtime meet in make: `Nova.o` and
`NovaExceptionHandling.o` include a generated header and lie in the directory
of the compiler.

`PROJECT.json` lists all components with their status, and the hazards: the
places in this code where something can go wrong that a test would hardly
reach, each with the properties that would notice.

## 2. Modules

    Classes <- StaticBlocks <- StaticBlocksProofs <- - ProgramStartProofs
        ^          ^ refined by                              |
        +----- ProgramStart <--------------------------------+
    PrimeSizes <- HashMap <- HashMapProofs       HashMap refines Dictionary
    CompileDriver <- BuildPipeline <- BuildPipelineProofs
    TryCatch <- TryCatchProofs                   Objects <- ObjectsProofs
    SocketChannel <- Sockets <--+
    GetPipe <-------------------+-- InputOutputProofs
    GetStr <--------------------+
    Threads, ScrollBar <- ThreadsProofs

(`<-` is EXTENDS, `<- -` INSTANCE; `MCx` instantiates `x` for TLC.) An operator
`F_Variant` beside `F`, with a comment that begins "Mutant:", is a plausible slip
in the code of `F`; no specification uses it. Each shows that a property notices
such a slip.

### StaticBlocks: static initialisation of the generated program

`ClassDeclarationWriter.generateStaticBlocksSource` emits one function
`C_static` per class, guarded by `C_static_inited`; inside it
`StaticBlockWriter.generateSource` emits, per block, calls of `D_static` for
each dependency D and then the scope; `generateStaticBlockCalls` emits
`novaCallStaticBlocks`, which calls all of them.

| Variable | Code |
|---|---|
| `deps` | `Scope.getDependencies()` of each block: the program, chosen in `Init` |
| `inited` | the C variables `C_static_inited` |
| `stack` | the C call stack, one frame per active `C_static` with the block it is at and the dependencies it has still to call |
| `cursor` | the line of `novaCallStaticBlocks` |
| `runs` | history: how often each scope ran |

`CallClass`, `CallDependency` and `RunScope` are the three kinds of statement of
that code; `Enter` is the guard at the head of the function.

### ProgramStart: main until the user's main method

`insertMainMethod` emits `main` and `novaInitProgramData`: a loop that creates
the class objects, a second loop that links superclass and interfaces, the array
`Class.ALL`, then static initialisation and the main method through
`System.runMain` (standard library; taken to call its parameters in order). `i`
is the position in the loop that is unrolled in the C file; pointers that were
never assigned are 0. The module composes with StaticBlocks by `INSTANCE`, its
step `CallStaticBlocks` being a step of that module, and the property
`RunsStaticBlocks` says that the whole start-up implements StaticBlocks. The
other properties of StaticBlocks are then properties of the program.

### HashMap, PrimeSizes, Dictionary: the runtime's hash map

`HashMap` is `HashMap.c` in full. `table` maps slots to data, flag and key;
`Probe` is the double hash; `InsertSlot`, `Found` and `Removable` are the three
searches with their different conditions to stop (`hashmapInsert` stops at any
inactive slot, `hashmapGet` and `hashmapRemove` only at one that was never used).
`calls` is the C stack of the mutually recursive `hashmapInsert` and `rehash`:
`CheckFull` is the test at the head of the insertion, `PlaceElement` one pass of
its loop, `RehashLoop` one iteration of the loop over the old table.

`PrimeSizes` models `isPrime` as it is, nine rounds of Fermat's test with
bases from `rand()`: a number may be accepted if some base accepts it and
rejected if some base rejects it.

`Dictionary` is the abstract specification: the partial map of the comments in
`HashMap.h`, with what each call returns. An answer carries the call it answers.

There are two clients. `Next` is one that replaces the element of a key only
while no removed slot is left in the table; `NextAny` calls anything at any time.

### TryCatch: exceptions of the generated code

One thread. `heap` holds the contexts TRY allocated, `exceptionData` the current
one, `active` the C functions that have not returned, `stack` the TRY statements
control is in and the part (body, handler, finally) it is at. `EnterTry` is the
macro TRY with the `addCaught` calls of `TryWriter`; `EndBody`, `EndCatch` and
`EndFinally` are the ends of the emitted scopes; `Throw` is THROW with
`throwException`, which walks along the chain. `Land` is the second return of
`setjmp`: `exceptionData` goes back to the parent and the first CATCH that
matches runs.

A body that is left without an exception, at its end or by a `return`, `break` or
`continue` in it, leaves its context on the chain: no line of the macros takes it
off, and `ReturnWriter`, `BreakWriter` and `ContinueWriter` emit the plain C
statements. `Leave` is what these do to the TRY statements around them, `Break`
and `Return` the statements themselves; `completed` is history, the contexts of
bodies left in this way. `Throw` can therefore jump back to a TRY statement that is
over, or to one whose function has returned, which in C is undefined behaviour and
ends the model in state `"undefined"`.

### GetPipe: running a command

Two processes, and another child that the program may have. The parent's actions
are the statements of `getPipe` in order (`Pipe`, `Fork`, `Wait`,
`CloseWriteEnd`, `ReadPipe`); the child's are those of the branch `pid == 0` and of
the command. The pipe holds `Capacity` bytes, a write to a full one waits.

Each call may fail, and the function goes on. After a failed `pipe` the variable
`readEnd` is what was on the stack: no descriptor, or one of the program's own.
After a failed `fork`, `waitpid(-1)` waits for the other child (`WaitAny`; with a
pid it is `WaitChild`). A `read` that fails returns -1, which the loop takes for
data. `MayHang` names the places where the function may stay for ever.

### SocketChannel and Sockets: messages over a socket

`SocketChannel` is the connection. `wire` is the byte stream between one sender
and one receiver, each byte named by its message and place. `Send` is
`nova_socket_send` (one write of header and text, whose short result is not
looked at), `Receive`/`Read`/`ReadNothing` are `nova_socket_receive`, one action
per `read`; `MoreToRead` is the condition of its loop. `intact` records whether
every read so far returned a full buffer of one frame or the rest of it, which is
what the function relies on. A first read without a space ends the model in
`"undefined"`. A message may have any length whose digits and the space fit into
one buffer (`SocketChannelAssumption`); the code's buffer of 128 has room for every
int.

`Sockets` adds how the connection comes about. `fds` is the descriptor table of
either program, from which the system gives out the lowest free number; `handle`
is what the programs hold, 0 for none, as the functions of the code return it.
`nova_serversocket_start`, `nova_serversocket_accept` and
`nova_clientsocket_connect` are one action each with an alternative per system
call that fails. A failing call leaves its descriptor open. A program that was
started without standard input is given descriptor 0, which the caller takes for
a failure. Both sides try again.

### Threads: threads, sleeping and the semaphore

Several programs on one machine, with one thread each that makes the calls of the
library and others that it creates. `name` is the semaphore that
"nova_thread_semaphore" stands for in the system, `value` the semaphores there
ever were; `pointer` is the variable `nova_thread_semaphore` of a program.
`nova_create_semaphore` opens what the name stands for or makes a new one,
`nova_close_semaphore` removes the name, whoever uses it. `Restart` is a program
that dies and is started again: its semaphore stays. `create_thread` may fail
without saying so, and a join of such a handle is undefined. A sleep keeps what
was asked (`asked`), what `nanosleep` was last given (`req`) and what has passed
(`slept`); `Nanos` is the macro's multiplication in an int, `Interrupted` the
recursive call with `rem`, `Refused` the one with an uninitialised `rem` after a
negative time.

### GetStr: reading a line

`nova_getstr`, called by `nova_getline` and `nova_read` with their terminators.
`line` and `space` are the caller's buffer and its size, `pos` and `avail` the
locals `read_pos` and `nchars_avail`; they live on from call to call as the
caller's buffer does. One pass of the loop is one of `GetChar`, `GetEof`,
`GetError` and `ReallocFails`. The buffer is a function on its indices, so a
character stored outside is lost and the type invariant notices. `text` (what
`getc` returned) and `before` (the buffer at the call) are history.

### ScrollBar: the mouse wheel

Every window has a thread with a message loop (`nova_createWindow`).
`Create` is WM_CREATE, which initialises the critical section; a wheel message
goes through `EnterCriticalSection`, `Reset`, `Accumulate`,
`LeaveCriticalSection` and `Scroll`, the statements of `WheelScrollLines` and its
caller. `hwndCurrent` and `accumulator` are its static variables. `from` is
history: whose deltas are in an accumulator. The ticks of the clock are the free
choice `inactive`, the system's scroll speed the free choice `per`.

There are two programs. `ScrollBarNext` opens a window only while no other thread
is inside the critical section; `NextAny` opens windows at any time.

### CompileDriver: make and its messages

`CCompileEngine`: `checkArgument` sets options, `compile` looks for make and may
complete a dry run, `execute` starts the command, and the listener's methods are
actions. `hidden` is `hiddenCompilerMessages`; it is computed in `Init`, where the
constructor is, and never again. `listener` holds the fields of the anonymous
listener and, as history, what it has printed. Messages are kinds, by the
substrings the listener looks for; a message is named by its place in `received`.

### BuildPipeline: from the tree to the program

`CCodeGeneratorEngine` in single-file mode, `makefile.nova`, and the driver of
`CompileDriver` between them. Each program has a directory `dir`; `program` is the
text of every file its source calls for, `text` what the files hold, `built` from
which texts each object was compiled, and `newer` the pairs of an object and a
file that is newer than it, which is all that make sees of the times.

The objects that are linked are those of the runtime and the virtual tables
(`ExtraObj`) and those that the makefile lists (`NovaObj`): the program's own and
those of the native code that it imports. `Needs` is what the compiler's `.d` files
say. Native code that includes `Nova.h` needs the headers of the program and fares
as `Nova.o` does; `Native` is the other, which includes no generated file
(`NativeSocket.c`, `NativeCurl.c`, `NativeConsole.c`, `NativeMD5.c`,
`NativeDBConnector.c`). `Nova` and `Native` are `Shared` by all programs.

| Action | Code |
|---|---|
| `insertMainMethod` | `MainFunction.h` and `.c`, written if they differ |
| `generateVTableDeclarations` | `VTableDeclarations.c` and `.h`; sets `forceRecompile` if one of them changed or -force was given |
| `writeForced` | `InterfaceVTable.h` and the makefile, written if they differ or `forceRecompile` |
| `readPrevious`, `clearOutput`, `printOutput` | `NovaOutput.h` and `.c`: old text and time kept, files cleared, then printed |
| `checkModified` | the time set back if the text is the old one |
| `Compile`, `Link` | the rule for objects, with the dependencies that the compiler writes into `.d` files, and the rule `install` |

`Kill` stops the compiler between any two of these; `Edit` changes the source;
`Run` starts the compiler again for this program or another. Text is a version
number, 0 for no file and `Partial` for a cleared one.

### Objects: construction and default arguments

A chain of classes, each extending the one before. `mem` is the object by place
(`PublicLayout` and `PrivateLayout` are the structures the writers emit), `todo`
the calls that the constructor of `ConstructorWriter` has still to make:
the vtable, the assignment methods of all extended classes, their init methods
(the super calls), and then the class's own two. `AssignDefaults` and `AssignField`
are the two parts of an assignment method: the default values, which fields of
external types do not get (`Defaulted`, `AssignmentMethodWriter.java:106`), then
one step for each field the class declares (`Declared`), which stores it if it has
an initialiser. While user code runs (an initialiser or
the body of an init) any method of any class of the object may store a field:
`Write`. A method reaches a field by the place it has in the method's own class.

`EnterInit` is the call with arguments given or omitted, `DefaultParameter` the
comparison with the value that stands for "omitted". Integers keep the widths of
their C types (`Signed`). What the module assumes of the program is that a field is
declared once (`FieldsAssumption`), that a default is a value of its parameter's
type or an earlier parameter no wider than it, and that an address fits a pointer
(`ParamsAssumption`).

## 3. Runs

| Run | Instance | Shows |
|---|---|---|
| `program_start` | 3 classes, the first with two static blocks; every superclass and interface relation, every dependency graph | class objects are complete before user code, in any declaration order; no unset pointer is followed; each block runs exactly once and after those it depends on, except along a cycle; the main method is reached; implements StaticBlocks |
| `hash_map` | keys 30, 95, 160, 225, start sizes 1 and 16, a replaced element | the counter is exact at every step; the careful client sees a Dictionary; an insertion returns, also with the composite size 15 that the prime test accepts |
| `hash_map_get` | any client, keys 0, 15, 30 | **violated**: `HashMap.h:19` |
| `try_catch` | 3 TRY statements, calls of functions, return, break and continue, 2 exception classes | live TRYs are always found, handlers are not re-entered, an undefined jump goes to a TRY whose body was left without an exception |
| `get_pipe` | pipe of 4 bytes, reads of up to 3, outputs of 0 to 8, another child or none, each call failing once | returns with everything if the output fits, hangs if it does not, and otherwise only after a failed `fork` or `pipe` (`MayHang`) |
| `socket_channel` | 4 descriptors each, one failing call, buffer of 4, frames of 2, 4, 8 and 13 bytes, 2 messages | what a failure can cost for good and that retries get through otherwise; messages are exact while the reads are intact, the receiver never waits for a byte that is not coming |
| `get_str` | streams of up to 7 characters, first buffer of 2, failing allocations, broken streams, several calls on one buffer | the assertions of the code hold, no character is lost or moved, a returned line is complete and terminated |
| `scroll_bar` | 2 windows, clicks of 6 units, deltas -2 and 4, 0, 1 or 4 lines per click | one thread in the critical section, no window scrolls for another, none against its wheel |
| `scroll_bar_reinit` | any order of opening windows | **violated**: `NativeScrollBar.c:4` |
| `build` | 2 programs, 2 messages, 3 events (an option, a message, an edit, a failed write, a kill, a further run) | what is linked was compiled from the texts the source calls for; -force compiles every object that includes a generated file; nothing unchanged is compiled again; which errors are printed, that the verdict is make's, that a started command is completed |
| `threads` | 2 programs, 3 threads, one fault (a failed call, a cancelled thread, a crash), sleeps of 1 and 2 ms with ints of 3 bits | a permit is lost only with its holder; threads of a program exclude each other always, those of two programs until one removes the name; a sleep is long enough and a join returns |
| `objects` | 3 classes, 6 fields, two of them of external types, parameters of five types, 2 stores by user code, ints of 3 bits | fields keep their values; what is unassigned when user code runs; which arguments arrive |

### Findings

**A map that returns what was removed** (`hash_map_get`). The first inactive slot
of the probe sequence is where `hashmapInsert` puts an element, without looking
further for the key. If the key is stored *behind* a removed slot, it is stored
twice. After `insert(a)`, `insert(b)` (which collides with a), `remove(a)`,
`insert(b, new)`, `remove(b)`, and an insertion that takes the slot of the first
copy, `hashmapGet(b)` returns the old element ("Returns the element for the
key", `HashMap.h:19`). For the same reason `hashmapCount` counts b twice. The run
`hash_map` shows that this is the only way to go wrong: a client that never
replaces an element while a removed slot is in the table sees a map.

**A lock that is initialised while it is held** (`scroll_bar_reinit`).
`csWheelLock` is one lock of the program ("Lock protecting the static variables",
`NativeScrollBar.c:4`), and every WM_CREATE initialises it
(`NativeWindow.c:23`). A window that is opened while another thread handles its
wheel lets two threads in. `scroll_bar` shows that nothing else does.

### What the models show besides

  - `TryCatch`: a program in which a TRY body ends normally, or is left by a
    return or break, can jump into a function that has returned when a later
    exception is thrown. `OnlyLeftBodiesGoWrong` states which TRY it jumps into.
  - `GetPipe`: a command that writes more than the pipe holds never returns;
    `waitpid` comes before `read`. After a failed `fork` the function waits for
    another child of the program and reaps it; after a failed `pipe` it reads a
    descriptor that was never set, for ever if there is none of that number, since
    the loop ends only with 0.
  - `SocketChannel`: messages are exact only while no read is short and no frames
    are joined in one read. TCP promises neither.
  - `Sockets`: a client that starts before its server loses one descriptor per
    try, and a server whose `listen` failed keeps its own port bound
    (`ServerLost` and `Full` are what `GetsThrough` has to allow).
  - `Threads`: the semaphore of a program that crashed inside the critical section
    stays locked for all programs that are started later (`lost` in `PermitKept`).
    A program that closes the semaphore removes the name from under the others,
    and the next one to open it excludes nobody (`unlinked` in `OneInside`). From
    2148 ms on, a sleep may be of any length (`Overflows` in `SleepsLongEnough`).
  - `BuildPipeline`: a program may be linked with a `Nova.o` that was compiled
    against the headers of another program, and a run in which a file could not
    be written links the files of the run before and reports success: the two
    exceptions in `LinkedUpToDate`. Nothing else makes the restored times unsafe:
    a kill leaves a cleared file with a new time, and the run after it takes that,
    not the older one, for the time to restore. -force leaves native code that
    includes no generated header as an earlier compiler made it: it reaches the
    objects only through the headers it rewrites.
  - `Objects`: an initialiser or a super call may call a method of a class that is
    not assigned yet; only the constructed class's own fields are concerned in a
    super call, and what is stored in them is set back (`CodeSeesFields`). A field
    of an external type is as `malloc` left it until its initialiser has run, and
    for good if it has none. For an
    optional parameter of type byte the default is lost: the value that stands
    for "omitted" does not fit a char, and only char and bool are widened
    (`ParameterWriter.java:13`). A passed int equal to that value counts as
    omitted.
  - `ScrollBar`: the position that is set is the one that was read
    (`NativeScrollBar.c:123` passes `si.nPos`, not `nPos`); see `Scroll`.
  - `GetStr`: at the end of the file the result is -1 only for offset 0
    (`NativeFile.c:116` compares with the start of the buffer); see `GetEof`.
  - `CompileDriver`: the options that hide messages come after the list of hidden
    messages was made, so nothing is hidden. With an empty list a message that
    ends with a position indicator is not printed at all, which with clang is
    every error that has one; gcc and tcc are spared because their filters drop
    the indicators first. `ErrorsPrinted` says exactly that. A dry run is
    completed twice, and a warning of clang is a failure (`VerdictIsMakes`).

### Bounds, and why they are enough

  - Three classes are the least with a dependency cycle and a class outside it;
    the first has two blocks, so that the second can depend on a class that the
    first did not start. `MCInit` leaves either the class relations or the
    dependency graph free: novaInitProgramData reads only the one and
    novaCallStaticBlocks only the other.
  - The keys are chosen to collide at the sizes that occur: 0, 15 and 30 have the
    same first slot and the same step in tables of size 3 and 5, so every probe
    sequence meets removed and foreign slots and the table fills and is rehashed.
    Size 1 makes the unsigned `size - 2` wrap around. 30, 95, 160 and 225 visit
    only the slots 0, 5 and 10 of size 15. Sizes stay far below 46341, where
    `p*a` in `isPrime` would overflow an int. `OneReplaced` limits replacement to
    one key beside at most one other.
  - Three contexts are the least with a leftover between two live ones
    (`MaxContexts`); one call besides main (`MaxCalls`) is the least for a jump to
    a function that has returned. Neither bound is in the code: the bounds stop
    `EnterTry` and `Call`, nothing else.
  - In `getPipe` each of pipe, fork, waitpid and read fails at most once (`Fails`),
    and the program has at most one other child: a second failing read changes
    nothing, and the other calls are made once.
  - The code's buffers of 256 and more bytes are scaled to 3 and 4, with inputs
    below, at and above each multiple.
  - A first buffer of 2 makes lines of up to 7 grow it by a chunk, double it, and
    fit it exactly; `MaxStream` bounds the file, nothing in the code.
  - Two windows are the least that can share the accumulator; deltas of
    both signs leave remainders that are larger than the next delta, and turn round.
  - A server needs three descriptors with a free 0 (`Table`), and one fault
    (`MaxFaults`) may cost it a fourth; a second fault exhausts the table and adds
    no step.
  - Two semaphores under one name (`MaxSemaphores`) are the least for two programs
    to hold different ones; a run method has one wait and one post.
  - Three events (`MaxEvents`) are a further run, an edit and one fault, or a run
    of the other program between two of this one; two messages (`MaxMessages`)
    are an error and its indicator, and make's own message comes in addition.
  - Three classes (`Depth`) are one above and one below the class whose code runs;
    two stores (`MaxWrites`) are one that is overwritten and one that must stay.

### Fairness

  - Generated start-up code and the internal steps of the hash map are
    straight-line code of one thread: weak fairness of the step.
  - `GetPipe`: the system schedules both processes; one weak fairness each. A
    process that waits is not enabled, so nothing is assumed of it, and nothing of
    the program's other child.
  - `Sockets`: both programs' set-up calls are repeated until they succeed, and
    a `read` with bytes on the way returns. Nothing is assumed of the sender.
  - `Threads`: the system schedules every thread; a waiting one is not enabled,
    and nothing forces a sleep to be interrupted or a program to join. A thread
    that waits for the semaphore gets it because the others end: none waits twice.
  - `BuildPipeline`: the generator goes on until it has started make, make
    compiles, links or stops, and a command that was started has its callbacks.
    Nothing is assumed of messages, kills, edits and further runs.
  - `TryCatch`, `ScrollBar`, `GetStr` and `Objects` state no liveness: user code
    may run for ever, and users need not move the wheel.

### Refinement

`HashMap` implements `Dictionary` (`IsDictionary`): the map of the abstract
specification is `saved`, an answer is the result of the last call, and the nested
insertions and rehashes are stutters. `ProgramStart` implements `StaticBlocks`
(`RunsStaticBlocks`) with the same variables: before and after
`novaCallStaticBlocks` the program stutters. `BuildPipeline` and `Sockets` extend
the modules they compose with, `CompileDriver` and `SocketChannel`, and change the
state of these only by their actions.

## 4. Proofs

`StaticBlocksProofs`, for every number of classes, blocks per class and every
dependency graph, from `StaticBlocksAssumption` only: `TypeCorrect`,
`StaticNoReentry`, and the inductive invariant `IInv` behind them. `OnceOnly` is
not inductive: it needs to know that a class whose flag is set is either on the
stack, with the blocks before its frame's run once and the others not, or
complete; that is `RunsMatchStack`. `DependenciesFirst` needs that the frames of
the stack form a path of the dependency graph, so that a class found initialised
but incomplete lies below on the stack and reaches the running one. Reachability
is defined by closed sets, not by recursion, which makes it provable.

`ProgramStartProofs`, for every number of classes in any order and every relation
between them: a step of the program is a step of StaticBlocks or a stutter
(`StartRunsBlocks`, the safety part of `RunsStaticBlocks`), so the invariant of
the instance holds in the program, and
`StaticOnceOnly`, `StaticAllRun` and `StaticDependenciesFirst` follow.
`UserCodeSeesLinked` adds an invariant of its own: how far each of the loops is
determines what every class object holds.

`HashMapProofs`, for every set of keys, elements and start sizes, from
`HashMapAssumption`: `TypeCorrect`, `CountCorrect` for the careful client and
`CountCorrectAny` for every client. The invariant adds to the counter that a map
with slots is there whenever a call is active (`StackOK`, `SizeOK`), that the
entries a rehash still holds are well formed and that an active entry has data
(`TableOK`). The proof rests on lemmas about the cardinality of the set of active
slots when one slot changes, and on `FirstSlot` returning at most one slot.
`CountCorrectAny` also says that the first finding is not a wrong counter: the
element is really stored twice.

`ImplementsDictionary` is the refinement `IsDictionary`: for the careful client,
every step of the map maps to a step of `Dictionary` or a stutter. `GetCorrect`
follows from the same invariant. It (`DictInv`) says where the
elements are while insertions and rehashes are nested: an element is in the table,
in an old table that a rehash still reads, or in an entry that is being inserted,
and what is in one of these places is what the client saved (`HeldIsSaved`,
`SavedIsHeld`). `Reached` is what the finding breaks: a search for the key
of an active slot gets to it and meets neither a slot of that key nor one that was
never used before. It is kept because an insertion meets a removed slot only if it
is the client's own and its key is not in the table (`Fresh`).

`TryCatchProofs`, for every set of exception classes and every number of TRY
statements and calls, from `TryCatchAssumption`: `BodiesFound` (every live body is
on the chain) and `HandlersLeft` (a running handler is not). The invariant says of
a context which frames lay below it when it was entered (`HomeOK`) and relates the
stack to the chain (`OnChain`). A landing cuts the stack down to the home of the
context, so that the relation must be known for every context of the heap, not
only for the current one; the chain is a closed set of contexts, and parents are
older than their children. `UndefinedOnlyAfterCompletion` and `InnermostHandler`
need more: frames are nested in age and in calls, and a body still has below it
what its context saved (`NestedInv`), on the stack as on every saved one;
and a context on a chain that is not that of a live body is one whose body was left
without an exception (`CleanInv`). The youngest matching context of such a chain is the innermost
matching statement.

`ThreadsProofs`, for every number of programs, threads, semaphores and faults,
from `ThreadsAssumption`: `PermitsAreKept`, `Exclusion` and, for every width of an
int, `SleepsTakeTheirTime` (what was slept and what is still asked for make the
whole, `NapKept`). The invariant adds that
a thread holds a semaphore exactly while it is in the critical section and its
program points to that one (`HoldsPointer`), and that all pointers agree with the
name until a name is removed too early (`NameShared`).

`ThreadsProofs` also has the scroll bar, for every set of windows, deltas and
speeds, from `ScrollBarAssumption`: `LockProtects` (mutual exclusion),
`ScrollsByOwnDeltas` and `ScrollsWithTheWheel`. The invariant says that a thread is
inside exactly when the lock is its own, that a thread past `Reset` has made its
window the current one, and that the accumulators hold deltas of the current window
only; once `Reset` is done, what is accumulated points in the direction of the new
delta (`AccumulatorAlong`).

`InputOutputProofs` has what reads and writes.

  - `GetStr`, for every set of characters and terminators, every chunk size of at
    least 2 and every stream: `BufferTyped`, `AssertionsHold` (the assertions
    of the code and the room for the NUL), `GrowthKeepsText` and `LinesComplete`.
    The invariant (`GetStrInv`) adds that a buffer has at least two characters and
    where the loop is (`LoopOK`): `pos` is the offset plus the length of the
    text, the offset lies in the buffer, and no terminator is in the text yet.
  - `GetPipe`, for every size of pipe, buffer and output: `OnlyWhatFits` and
    `ReadToTheEnd`, whatever fails. The invariant (`PipeInv`) says that bytes are
    neither lost nor made while there is a pipe, that nothing is read before the
    wait is over, that a wait which was not interrupted leaves no child of getPipe
    but a reaped one, and that a child that ended has written all or nothing.
  - `Sockets` with `SocketChannel`, for any number of messages of any length,
    descriptors and failing calls: `MessagesArriveIntact` and `ReadsOnlyTheFrame`.
    `MessagesIntact` alone says nothing of the bytes on the way. The invariant
    (`ChannelInv`) adds that the stream consists of whole frames up to the last
    message sent (`Frames`), that what is read is the beginning of the frame that
    is due, with its whole header (`Reading`), and that the stream goes on
    where the reading stopped. It rests on lemmas about the header: it is never
    empty, it fits a buffer, and its digits are read back (`FrameNat`,
    `HeaderFound`).
  - `Sockets`: `HandlesMatchSockets`. Of each kind of descriptor a program has at
    most the one that its handle names, but for descriptor 0 (`SetupInv`).

`BuildPipelineProofs`, for any number of programs, messages, edits, faults and
further runs, from `BuildPipelineAssumption`: `LinkedObjectsUpToDate`,
`ForcedAreRebuilt` and `VerdictTrue`. The invariant says what the times stand for: an
object is newer than a file only if it was compiled from its text
(`NewerIsSame`), and so it is with the times that are kept to be restored
(`PreviousIsSame`), which is why restoring them is safe. It adds by which step
of `writeFiles` which file has its text (`FilesWritten`), and that -force makes
`VTableDeclarations.h` newer than every object that includes a generated file and
is not compiled again yet (`ForcedIsOlder`); the time of that header is never set back. For `VerdictTrue` the
listener's flag is related to the messages that came (`Noticed`), and for
`EveryErrorPrinted` what the listener has collected to the messages that are to be
printed, in order and without a gap (`PrintedInv`); both hold for any sequence of
messages.

`NothingNeedless` is the other direction: what make compiles again was out of date.
It needs an invariant from one run to the next (`NeedInv`): a run that went well
leaves no file newer than an object that needs it (`Settled`), also in the
directories of the other programs; within a run a file is newer only from the step
that writes it on, and after the step that checks it only if its text is not
the one the object was compiled from, or with one of the excuses (`Kept`). The
excuses are those of the property, and a directory in which nothing can be
compiled.

`ObjectsProofs`, for chains of any number of classes with any fields and
parameters, for every width of the integers: `FieldsKeep`, `UserCodeSeesFields` and
`ArgumentsReachTheBody`. The structures of the classes and the powers of two are
defined by recursion. The module first proves that such a function exists, and a
principle of induction over sets of numbers, from the well-foundedness of `<`;
from these follow what a structure consists of, that the structure of a
class begins with that of the class it extends (`LayoutStarts`), and that a
field has one place in the whole object (`Spot`), wherever it is seen from. The
invariant (`ObjectInv`) says which calls of the constructor are left (`LeftAt`),
that memory holds at each field's place what was last stored in it (`MemOK`), and
which classes have their defaults and their initial values (`ProgressAt`). Since
fields of external types get no default, it also says of the class whose
assignment method runs which initialisers have run (`Ran`): what is still as
`malloc` left it is then one of those fields (`StoredAt`). For the
arguments it says what each parameter is before and after it was compared
(`ParamsOK`); that a value of a type survives the conversion to it (`SignedFits`)
and that the value for "omitted" is one of the type, bytes excepted, is
arithmetic over powers of two.

Every safety invariant and action property that a run checks is a theorem, for
every value of the constants. Only model-checked is what the prover cannot state:
liveness (`ReachesMain`, `InsertReturns`, `ReturnsIfFits`, `AllArrive`,
`GetsThrough`, `JoinReturns`, `Completes`), and of `RunsStaticBlocks` the part that
is about fairness. The two properties that the code violates are refuted by
TLC.

## 5. What is left out

Assumptions of the modelled parts:

  - `calloc` and `malloc` return memory. Elements of the hash map are not null
    (a null element ends a probe as a slot never used does).
  - `exceptionData` is one variable per thread. `throwException`, `addCaught`,
    `runMain` and `Class` are in the standard library and modelled as the
    generated code uses them; they are marked external in the map. The `soft`
    flag of a throw is only passed on and is left out.
  - A class without static blocks does not occur in StaticBlocks: its function
    is called and not defined, so such a program does not link.
  - A child whose `execv` fails calls the error callback in its own copy of the
    program; the callback's effect on the parent is none. Interrupted system
    calls (`EINTR`) are left out in SocketChannel.
  - `getPipe` never closes `pipefd[0]`; the descriptors it uses up in this way are
    not counted, and closing a `pipefd[1]` that was never set closes nothing of the
    model's.
  - Threads, sockets and getPipe are the POSIX versions of the code. The Windows
    ones differ: there a server whose `socket` failed goes on, one whose `bind`
    failed ends the process, and the result of `listen` is not looked at
    (`NativeServerSocket.c:20-44`).
  - Sizes and positions of `GetStr` are numbers without a width: a line of more
    than 2^31 characters is out of its reach. The check of null arguments is
    left out.
  - Windows is external in ScrollBar: initialising a critical section makes it
    free, leaving one that another thread holds makes it useless. A window is
    named by its thread, which has one at a time. Drawing is left out, and so is
    the client area.
  - `Command` is external: it is taken to call the listener for one message at a
    time, then with the result, then at the end; make is taken to end with status
    0 only if it has linked, and to fail if a compiler or the linker reports an
    error. The arguments of make are text and left out. The rule for objects also
    names the `.d` file (`%.d` at `makefile.nova:125`), which is left out. The
    sources of the runtime and of native code do not change, and a program imports
    native code of both kinds.
  - `FileUtils` is external: `writeIfDifferent` writes if the text differs or is
    forced and says whether it differed, `checkModified` sets the time back if
    the text is the old one. The clock is fine enough to tell a file from an
    object that was made after it.
  - The insertion of the initialisers, of the super calls and of the default
    parameters into the tree is done by the front end. Argument expressions are
    values; classes with neither fields nor virtual methods, and closure
    variables in structures, do not occur in Objects.
  - What `printf` makes of a buffer without a final NUL (`NativeSystem.c:86`) is
    left out.

Not modelled:

  - Virtual tables and match: which method a slot holds, and where a scope needs a
    break, are computed by the front end (`getVirtualMethod`, `requiresBreak`,
    `containsFallthrough`); the writers print the answer.
  - Closures: the front end decides which variables a context holds and whether it
    is on the heap.
  - Destructors: `NOVA_FREE` is empty in the build with the garbage collector.
    In a build without it the fields are freed before the destructor's own code
    runs (`DestructorWriter.java:22-42`).
  - Multi-file output: commented out in `writeFiles`. The option that writes no C
    text (`NO_C_OUTPUT`) leaves an empty `NovaOutput`.
  - `arrayCopy` (`include/Nova.c:48-84`): no state between calls. Within one array it
    moves the tail by the wrong distance in one direction and ignores `len` in the
    other. `ufgets` and the download buffer of `NativeCurl.c` grow as that of
    `nova_getstr` does.
  - The node writers that print one syntax node as text, stack traces, the layers
    over libraries (dates, database, GC, MD5, libraries, console), vendored code,
    drawing.

## 6. Plan

  1. What remains true of the clients that do anything at any time (`SpecAny` of
     HashMap and of ScrollBar): whether a key that is in the map is always found, if
     perhaps with an old element, and what a second window cannot disturb.
  2. More properties of the modules there are: the remainder a wheel message
     leaves (ScrollBar), the end of a file read with an offset (GetStr).
  3. Destructors and closure contexts, once the front end's part in them can be
     stated as an assumption that its code supports.
