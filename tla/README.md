# A verification project for typed_python

typed_python is a library of typed containers and classes for Python, and a
compiler that turns Python functions that use them into native code. This
directory holds TLA+ models of the parts of it in which the order of events
matters, TLC configurations that check them on small instances, and proofs,
checked by TLAPS, of what holds for instances of every size. Paths below are
relative to `src/typed_python`. `PROJECT.json` lists the runs, the lines behind
every definition (`map`), the mutants that show that each property can fail,
the hazards of the code and the theorems.

    tlc -workers 2 -config MCGilState.cfg MCGilState.tla   # one run
    tlapm GilStateProofs.tla                               # one set of proofs

## 1. Inventory

| component | state it keeps | operations | what must be true | modelled |
|---|---|---|---|---|
| GIL release (`PyGilState.cpp`) | a mutex, `waitingPyThreadState`, a thread-local state object, scoped objects on each stack | constructors and destructors of `PyEnsureGilReleased` / `PyEnsureGilAcquired`, the release thread | Python runs with the GIL; the pointer never dangles; nested scopes undo themselves; nobody keeps the GIL for ever | yes |
| TypedQueue (`typed_queue.py`) | two lists, `_lock`, `_isEmptyLock` | put, putMany, get, getNonblocking, getMany, peek | FIFO; no deadlock of the two locks; no lost wake-up | yes |
| Hash table, Dict (`hash_table_layout.hpp`, `DictType.*`, `PyDictInstance.cpp`, `hash_table_implementation.py`) | an item table in insertion order, a hash table of indices, counters | insert, delete, look up, clear, copy, deepcopy, serialize, iterate | look-ups end and see the mapping; items are constructed and destroyed once; memory stays in proportion | partly |
| SortedDict (`lib/sorted_dict.py`) | a tree whose nodes count what is below them | set, delete, pop, first, last, get | a map in the order of its keys, whatever rotations come | partly |
| HeldClass (`HeldClassType.cpp`, `held_class_wrapper.py`), temporary references (`PyTemporaryReferenceTracer.cpp`) | initialization flags; per frame, references and their lines | construct, assign, copy, destroy; trace events | flags tell what is constructed; a reference ends with its statement | partly |
| Object serialization (`PythonSerializationContext_*.cpp`, `SerializationContext.py`, the types' own `serialize`) | a memo on either side, the stream | write, read | what is read has the shape of what was written | partly |
| deepcopy (`PythonObjectOfTypeType.cpp`, the types' own `deepcopyConcrete`) | a memo | copy | the copy has the shape of the original | partly |
| Converter (`compiler/python_to_native_converter.py` and the contexts) | dependency graph, dirty work list, names, targets, conversions in flight, definitions | compile, convert, install, link, and the clean-up after an exception | the work list ends; installed code agrees with what it calls; a failure leaves no trace | partly |
| Compiler cache (`compiler/compiler_cache.py`) | a directory for each module, marks, in-memory indices | load at start, load for a name, add, mark invalid | a crash leaves nothing half-visible; a library is opened after what it needs | partly |
| pmap (`lib/pmap.py`) | one work queue, an output and an exception queue for each call, raw memory | pmap, a job, an executor, nested calls | no deadlock, no write after the end, the result of a loop | yes |
| Type graph (`ForwardType.hpp`, `Type.cpp`) | for each type the undefined forwards it refers to and contains | make, define a forward | what is marked is what a walk would find | partly |
| TypeFunction (`type_function.py`) | a memo with types, forwards and errors | a call, with and without the lock | one type for each key, complete when others see it | yes |
| Class dispatch (`HeldClassType.hpp`, `class_wrapper.py`) | tables of function pointers | make a class, link a call site, call, compile on first call | a call runs the method of the object's class | partly |
| Runtime (`compiler/runtime.py`, `runtime_lock.py`) | the reentrant `runtimeLock` | compile on demand, also while compiling | one compilation at a time, and everybody returns | partly |
| Slabs, Memory | live count, free flag | allocate, free, drop | a slab is freed once, after its last allocation | no |
| Stream framing (`SerializationBuffer`, `DeserializationBuffer`) | blocks | write, flush, read | the same bytes, whatever the pieces | no |
| FunctionStackState (`compiler/function_stack_state.py`) | types of variables | assign, merge, loop | a join | no |
| Set, ConstDict, lists, tuples, strings, sorting, bindings, code generation, type wrappers, modules, arrays, lz4 | values | - | see `components` in PROJECT.json for why they are left out | no |

How they interact. The **Runtime** calls the **Converter** under `runtimeLock`,
which **TypeFunctions** take as well; the converter asks the **Compiler cache**
for names it knows, and gives new modules to it. What is linked gets slots in
the **dispatch tables** of classes, which compiled code reads without the GIL;
a slot that is empty leads back into the Runtime. Compiled code works on the
memory of **Dict**, **Class** and the other types directly, and calls into the
interpreter through the scoped objects of the **GIL release**; it is this that
lets threads of **pmap** run at once. pmap's jobs, outputs and exceptions travel
through **TypedQueue**s, and its results through raw pointers into lists of the
caller. The interpreter refers into containers of **Held** classes. Containers
of every type, with each other and Python's in them, are written, read and
copied as one graph. The hard behaviour is therefore in: the GIL and the thread
that releases it; the queue's two locks; executors that wait for executors;
tables that are rebuilt under iterators or read while they grow; the converter's
fixed point, and exceptions in the middle of it; types that are in a memo before
they are complete; processes that share a cache directory; references that
outlive what they refer to; objects that are referred to before they are built.

## 2. Modules

| module | stands for |
|---|---|
| `PyGil` | abstract: a lock whose owner may step outside and keep it for a while |
| `GilState`, `GilStateProofs` | `PyGilState.cpp`, refines `PyGil`; theorems on it |
| `FifoQueue` | abstract: a FIFO queue with requests of min..max values |
| `TypedQueue`, `TypedQueueProofs` | `typed_queue.py`, refines `FifoQueue`; theorems on it |
| `HashTable` | `hash_table_layout.hpp`, as operators on a record |
| `TypedDict`, `TypedDictProofs` | Dict's operations and iterators over one table, beside the Python dict it stands for; theorems on it |
| `SortedDict` | `lib/sorted_dict.py`, beside the map it stands for |
| `HeldClass` | the memory of one instance of a Held class |
| `HeldReferences`, `HeldProofs` | the tracer, over a list of a Held class; theorems on it |
| `ObjectGraph` | graphs of objects, the steps that every copier shares, and what a copy is |
| `Serialization`, `Deepcopy` | the two copiers |
| `Converter`, `ConverterProofs` | the converter's work list; theorems on it |
| `CompilerCache`, `CompilerCacheProofs` | processes that share a cache directory; theorems on it |
| `Pmap`, `PmapProofs` | `lib/pmap.py`, over the queues that `FifoQueue` describes; theorems on it |
| `ForwardTypes` | the type graph, as operators on a function from types to records |
| `TypeFunction` | the memo and the lock, over `ForwardTypes` |
| `ClassDispatch` | the tables |
| `Runtime`, `RuntimeProofs` | composes `TypeFunction` and `ClassDispatch`: threads that compile and call; theorems on both |
| `MC...` | bounded instances for TLC |

### GilState

Each thread has a stack of `scopes` (the C++ scoped objects with their
`m_should_...` flag), a state object `curPyThreadState` (`null`, or what its
`isReleased` says) and a `pc`. The mutex is a variable: taking it is one action,
the critical section another, so the release thread can come between them.
`int3`, a null state and `PyEval_SaveThread` without the GIL lead to `trap`.
CPython's own evaluation loop, which gives the GIL up now and then, is the
environment (`InterpreterSwitchOut`, `InterpreterSwitchIn`).

### TypedQueue

Between two lock operations a thread is alone with the lists, so that is one
action; `get`, `getNonblocking` and `getMany` are the same loop with different
minimum and maximum. `isEmptyLock = Queue` is the lock held for an empty queue.
`peek` and `__len__` only read, and have no action.

### HashTable and TypedDict

The table is a record: item table, populated flags, offsets with `EMPTY` and
`DELETED`, the counters, and whether each array is a null pointer, as it is when
`tp_malloc`, `tp_realloc` or a slab is asked for no bytes. The probe
sequence is the code's (perturbation by shifts, five bits at a time), a recursive function
of the number of tries, as a rebuild is one of the items that have been copied.
`TypedDict` adds operations as actions, each under the GIL and so atomic,
`dict` and `order`, what Python's dict would hold, and iterators, with what each
has seen. The compiled loop and the interpreter's iterator differ
in when they look for the next slot, and are modelled apart.

### SortedDict

The tree is a nested record, as in the code, and rebalancing is the code's
recursion: a change on the way down, a rotation on the way up if one outer
grandchild outweighs the other three by more than twice. `contents` is the map
that the tree stands for.

### HeldClass and HeldReferences

An instance has a flag, `flag`, and the truth, `built`. Each operation is an
operator from the instances it works with to what they become, and does to the
flag what the code does; two of them do it wrong (see below), and their results
are `spoilt`, of which nothing more is claimed. `HeldReferences` has threads
that run functions of three lines, of which the second continues the first, in
steps between trace events. A statement takes an item (an object that refers into the list),
works with it, calls, raises or ends; the tracer hears of lines, returns and
exceptions, and turns what is due into copies. Nobody changes the list's length
while a statement works with an item, and nobody changes the trace function
while there are references (both would be defects of the program under the
README's terms, and are in the list below). `HeldSpec` is the tracer alone: a behaviour of
the run takes a step of `NextHeld` or leaves `heldVars` as they are, and so is one of its.

### ObjectGraph, Serialization and Deepcopy

An object has a kind and refers to others. Kinds are those whose handlers
differ in when an object is known and what is hashed when: Python's list,
tuple, set, frozenset, dict and cell, an object with a name, one with nothing
but a `__dict__`, one that `__reduce__` takes apart, and typed_python's ListOf,
TupleOf, Dict, Class and Alternative. The stream is a sequence of pieces: the start of an
object with its number, its end, a name, a number seen before. The tuple
that `__reduce__` makes for the factory's arguments is at an address that is
free again as soon as nobody holds it; the writer's memo is by address. An
object that is hashed while it is incomplete ends the copy ("badhash": a null
slot of the tuple is read). deepcopy's recursion ends at `MaxFrames`.

### Converter

A function is abstracted to the types it returns and to its statements
`return outer(inner(...))`, where the type of the inner call may pick the outer
function, because an instance is identified by its input types. Conversion of a function
(`Convert`) asks for targets of what it calls, which defines names, loads the
cache, grows the graph and begins conversions, gathers return types, and marks
dirty what depends on it, with the code's priorities. What may raise (a
conversion, a parser, the linker, the user's interrupt) is a step of its own, a
bounded number of times (`MaxFaults`), with the clean-up the code does or does
not do. Priorities that are equal are taken in any order.

### Pmap

Threads have stacks of frames: `pmap` (`put`, `work`, `wait`) and `execute` of a
job. A program says what the function does with each item: it returns, raises, or
calls pmap and does what that does. An executor in a nested pmap runs whatever is on the work queue
until that is empty, and then waits for its outputs. `initialized` stands for
the results constructed through the raw pointer. The queues are those
`FifoQueue` describes, which `TypedQueue` is proved to implement.

### Runtime

`ForwardTypes` is the graph: each type keeps which undefined forwards it refers
to and contains, updated when one is made or defined. `TypeFunction` has calls
that look into the memo without the lock, take it, put a forward there, run the
function, which calls others, and define the forward, or memoize the error, or
are interrupted. `ClassDispatch` has one array for each class and ancestor, which is replaced
when it is full, and readers that load first the array and then the slot, twice,
without the GIL. `Runtime` has stacks on which compilations and type functions
nest, under the one lock, and plans of what each thread asks for. What a
compilation does in between is `Converter`, and not repeated here.

### CompilerCache

Processes that start, list the directory, load the names of each module that is
neither marked nor unfinished, and then define functions: a name leads to
a module, that to the ones it depends on; what is not found is compiled into a new
directory under a temporary name, and renamed. A process may die between any two
steps, and modules may not fit the source it runs. Which functions a process defines and
which module it takes when several hold a name are left open.

## 3. Runs

Runs take from seconds to three minutes with two workers. All but `cache`
check deadlock: there, processes may all have died.

| run | bounds | shows |
|---|---|---|
| `gil` | 2 threads, scopes nested 3 deep | Python code holds the GIL (`PythonHoldsGil`); the pointer the release thread uses is live (`OfferIsLive`); no fatal error (`NoTrap`); scopes nest (`ScopesAgree`); every step is one of `PyGil` (`ImplementsPyGil`); a GIL kept by native code is taken (`KeptIsTaken`); a thread returns once nobody takes the fast path for ever (`EveryoneReturns`) |
| `queue` | 1 writer, 2 readers, 2 values, batches of 0..2, no put into a queue of 2 | the queue is FIFO (`ImplementsFifo`), its locks agree with its lists (`EmptyLockAgrees`), do not wait for each other (`CloserNotStuck`), are never released unheld (`NoError`), and no wake-up is lost (`Woken`) |
| `dict`, a table | 3 colliding keys, minimum size 4, item tables up to 8, 1 iterator of either kind over up to 4 | counters and both tables agree and look-ups stop (`Consistent`), items are owned once (`ItemsAreOwned`), the table holds what a Python dict would (`ActsAsDict`) and stays in proportion (`ItemTableBounded`); iteration over unmoved items is complete and in order (`IterationIsComplete`) |
| `dict`, a SortedDict | 8 keys, from nothing and from two trees of 12 nodes about to be rotated | the tree holds what a map in key order does, and its counts are right (`SortedActsAsMap`) |
| `dict`, a list of a Held class | one thread with calls two deep, or two threads; 2 frames, 2 objects | a reference ends with its statement, neither sooner nor later, and leaves the trace function as it was (`ReferencesEnd`); flags tell what is constructed (`MembersAreOwned`) |
| `dict`, a graph | all graphs of 2 objects and a named one, four families of 3 | what is read is a copy of what was written (`ReadsBack`); deepcopy makes one (`CopiesDeeply`) |
| `dict_stale_iterator` | 2 keys, 1 iterator | *violation* of `YieldsLive`, see findings |
| `held_pop` | as in `dict` | *violation* of `PopGivesItem` |
| `converter` | 3 functions, 2 types, 4352 programs; and four programs with and without a cache, with 2 faults of any kind | the work list ends (`CompileEnds`) with code a second conversion would not change, after conversions and links that raised (`Settled`), and, whatever raised, with no larger types than the program and the cache ask for (`Tightest`); after a conversion that raised nothing is lost or half-defined (`NothingLost`); what is defined gets linked with all it calls (`LinkCloses`) |
| `converter_unparsable` | a parser that raises once | *violation* of `EveryNameIsDefined` |
| `pmap` | 2 callers, 2 executors, programs of 4 calls, up to 3 deep | executors block only on jobs that somebody has begun (`BlockedJobsAreTaken`); no job outlives its call (`EndedIsQuiet`); each call does what a loop would (`LikeALoop`) and ends (`EveryCallEnds`) |
| `cache` | 2 processes that die and start again at will, 2 versions of the source, up to 3 modules of 6 names | a process that starts never meets half a module (`StartsClean`); a library is opened only when what it calls is there (`LinksResolve`); what is in the cache is not compiled again (`Reuse`) |
| `runtime` | 3 threads, 3 keys, 3 classes, 5 programs, 1 interrupt | the forwards that a type keeps are those it leads to (`ForwardsAreKnown`); a key has one answer, whoever asks, complete if the lock was taken (`OneAnswer`); the lock is one thread's for all its nested calls (`LockProtects`); a call runs the right method (`CallsRight`); a signature has one slot in all implementors (`SlotsAgree`); and everybody ends his plan (`EveryoneReturns`) |
| `typefunction_unlocked` | the program `Cycle` | *violation* of `UnlockedIsResolved` |

The `dict` run has four kinds of container, one in each behaviour; they share
nothing but the run.

Why the bounds are enough. *gil*: a conflict is between a thread and
the release thread or between two threads; three scopes give released, acquired
and released again. *queue*: two readers are what it takes for the last
value to be taken while another has just been woken; two values in the queue make a
reversal visible. *table*: with three keys in four offsets the table grows,
fills with DELETED, is rebuilt, shrinks and compresses; the hash
functions make keys collide at first and part later. The minimum size in the
code is 8, at which one would need as many keys more. *SortedDict*: a rotation needs a side of more
than twice the rest, so a dozen nodes; the two starts are mirror images.
*Held*: the global of the tracer is shared by two threads, the lists of actions
by two frames of one. *graph*: a cycle, a shared object and
a temporary tuple between each pair of kinds need two objects and a leaf; a
second temporary at the address of the first needs two reduced objects in a third.
*converter*: three functions give self-recursion, mutual recursion, a cycle with
a tail and a diamond; two types give growth twice. *pmap*: two executors
can wait for each other, and three levels let one run a job of an outer call
inside an inner one. *cache*: a chain of modules needs three, and a race two
processes; a process that dies and starts again stands for any further one. *runtime*: each program is one that a two-thread, two-key one
does not contain: a cycle with a bystander, an infinite type, an error after
an inner type was made, a forward that becomes another forward; and a class that appears while
another thread's call is between its two loads. `MaxTop`, `IterTop`, `MaxLen`, `MaxBatch`, `MaxDepth`,
`HeldDepth`, `MaxFaults`, `MaxInterrupts`, `MaxFrames` and the directories of a
`cache` scenario are the only bounds in guards.

`Settled`, `NothingLost` and `LinkCloses` begin with the kinds of fault they admit. What
the others break is below; an interrupt breaks `Settled` like this: a conversion is
interrupted at a function that does not depend on what it calls, whose draft stays in `drafts`
though what it calls has no definition; a later compile of that other function gives it
another type, and installs the old draft with it. `CallsRight`, `OneAnswer` and
`ForwardsAreKnown` except the two defects of the Runtime that are named below,
and `ReadsBack` and `CopiesDeeply` the graphs that their comments name. (Of one
kind, where a factory's argument leads back to the object,
`SerializationContext.py:460` itself says that it may not be.)

### Fairness

`GilState`: the release thread is an endless loop; a thread inside the protocol
keeps running; the mutex is free while the release thread sleeps for 500us; the
interpreter gives the GIL up when somebody waits for it, and every waiter gets
it in turn (strong fairness). Native code may run for ever: nothing is assumed
of entering and leaving scopes. `TypedQueue`: the operating system does not
starve a thread on a lock that becomes free again and again; callers need
not call. `Converter`: the thread that has the lock runs on. `Pmap`: each
thread that can go on does (weak fairness); the mapped function returns or
raises in the end. `Runtime`: each thread runs on (weak fairness of its steps),
and its plan is finite. Weak fairness suffices where a thread waits for the
lock: the one that has it gives it back once, and plans are finite.

### Findings

* **An iterator yields destroyed memory** (`PyDictInstance.cpp:264`): it keeps
  the next slot from one call to the next and checks only the size, so a key deleted
  and another inserted in between go unnoticed. README.md:44 promises an exception.
* **pop of a list of a Held class** (`PyTupleOrListOfInstance.cpp:957`): what it
  returns refers to the item that it then destroys.
* **A function whose source cannot be had**
  (`compiler/python_to_native_converter.py:805`): its name stays defined and
  dirty, and the next compile, of anything, dies of a KeyError.
* **A type without its cycle** (`type_function.py:111`): a thread that does not
  take the lock gets a type that still refers to another's forward; the comment
  says "only return fully resolved TypeFunction values".

### Other defects met

Found while reading for the models. Those in *italics* are steps of a model
that its properties except; the others are outside of the models. None
contradicts a sentence of the repository closely enough to be a run.

* Held classes: *`copy_constructor` (`HeldClassType.cpp:228`) leaves the flag of
  a member that the source lacks as the memory had it; `assign` (:251) clears
  the flag of a member it has just copied*; the compiled `convert_assign`
  (`held_class_wrapper.py:117`) makes the expression that sets it and drops it;
  `deepcopyConcrete` does not clear flags; `deepBytecountConcrete` counts members
  that are not there.
* Tracer: *one prior trace function for all threads* (`PyTemporaryReferenceTracer.cpp:123`);
  a temporary made on a continuation line is resolved when the interpreter
  comes back to the first one; `sys.settrace` while references are outstanding loses them.
* Type graph: *when a forward is defined as another undefined forward
  (`Type.cpp:378`) its users are not told of that one* (`lost` in
  `TypeFunction`), and an infinite type may go undetected.
* Runtime: *`np_compileClassDispatch` returns in silence when compiling fails with
  an exception pending, and the null pointer is called* (`_runtime.cpp:82`; compiled handlers catch
  before they call anything, but destructors run with the exception pending, and :169 does the same for them);
  `runtimeLock` and import locks are taken in both orders
  (`SerializationContext.py:421`); `_resultTypeCache` is used unlocked.
* Cache: *a KeyError when the module that the index has for a function does not
  load but another held it* (`compiler_cache.py:272`); submodules loaded before
  one that fails are reported to nobody, and *a module made for an entry point alone names no
  submodules* (`python_to_native_converter.py:193`), so that it cannot be loaded.
* Converter: *building that raises, and an interrupt, lose definitions*; metadata of a
  function (`:562`) may change after callers have used it.
* Dict: destroying a key may run code that uses the dict (`DictType.cpp:294`);
  deleting an absent key compresses the item table under iterators
  (`hash_table_layout.hpp:128`); two Python keys that convert to one typed key
  (`PyDictInstance.cpp:537`); a failure while items are read
  (`DictType.hpp:244`) leaves slots marked that hold nothing.
* TypedQueue: two `getMany` with a minimum may each keep what the other waits
  for (`typed_queue.py:112`). pmap: a `BaseException` leaves a job without its
  output (`lib/pmap.py:69`); nested calls grow the stack with the queue (:186).
* Serialization: a subclass of list loses its items (`list.__reduce_ex__` gives
  an iterator, which is taken apart in turn); *a tuple or frozenset that leads back to a
  container that hashes it is hashed while incomplete*; a ListOf that fails half-way is freed and
  stays in the reader's memo; a list that another thread changes while it is
  written has a wrong count.
* deepcopy: *where a typed_python container leads back to itself it is copied
  twice, or the recursion never ends, for these enter the memo after their
  contents*; a Dict's copy keeps the hashes of keys that are hashed by address,
  so they are not found; subclasses of Python's containers become plain ones; failures of
  `PySet_Add` and `PyDict_SetItem` are ignored.
* Slabs: `getAllSlabs` takes references to slabs that have none left, and holds a mutex
  under which Python objects are made (the GIL and the mutex in both orders);
  live counts are read without their mutex. A compressed block of more than 4 GB overflows its length.

## 4. Proofs

For any sets of threads, values, classes, functions and programs, and any bounds. What the
constants are assumed to be is named in the modules, and TLC evaluates it on every run:

| assumption | of | says |
|---|---|---|
| `ThreadAssumption`, `QueueAssumption` | `GilState`, `TypedQueue` | threads, the release thread and the sentinels differ, bounds are numbers |
| `HashTableAssumption`, `DictAssumption` | `HashTable`, `TypedDict` | a hash has 31 bits (of -2^31, which the code's negation cannot make positive, nothing is said), `MIN_SIZE` is the code's 8, or 4; sizes are numbers without a width |
| `HeldAssumption` | `HeldReferences` | the threads of a program are threads, there is a frame for each of them, an object is not the absence of one |
| `ScenariosAssumption`, `SentinelAssumption`, `FaultsAssumption` | `Converter` | bodies have their form, the cache holds types for functions, the sentinels are none |
| `PmapAssumption`, `ProgramsAssumption` | `Pmap` | executors are not among the callers; a call has a number, lower than that of the call whose item makes it, and is made by one item or by one caller (a recursion that ends, unfolded) |
| `CallsAssumption`, `ScenariosAssumption` | `CompilerCache` | functions call functions, and are entered directly or through an entry point |
| `AncestorsAssumption` | `ClassDispatch` | a class is among its ancestors, and theirs are its |
| `BodyAssumption`, `ProgramsAssumption` | `TypeFunction`, `Runtime` | functions have a body, classes come with their ancestors, and plans ask for what is there |

None of the properties is inductive alone. Each module defines the invariant that
is, as a conjunction of named parts (TLC has checked on the runs too those it can evaluate), proves
of each action that it keeps them, one step per part that the action can
disturb, and draws the properties from them.

`GilStateProofs`: `Typing`, `HoldsGil`, `NoDanglingOffer`, `TrapFree`,
`ScopesNest`, `Refinement` (the protocol implements `PyGil`). `IInv` adds who
holds the mutex (`MutexInv`),
that there is no offer before the release thread is active (`ActiveInv`), what the `pc` says of the
state object (`StateInv`), and, for the scopes, that an object acts exactly if
it changed its thread's mode (`StackInv`): this is what a destructor
relies on when it undoes its constructor. `ProtocolNext` and `ScopesNext`
prove it of each action; stacks get lemmas of their own (`PushStack`,
`PopStack`). The refinement proof maps each action to one of `PyGil`
or to a stutter.

`TypedQueueProofs`: `Typing`, `EmptyLock`, `NoLockCycle`, `LocksAreHeld`,
`Refinement` (the queue implements `FifoQueue`). `IInv` says who holds each
lock: `_lock` those in a critical section, `_isEmptyLock` an awake reader, or the queue
if and only if it is empty and nobody is about to lock it on its behalf. The
refinement rests on what a put and a get do to
`Reverse(poppable) \o pushable` (`AppendContents`, `TakeContents`).

`TypedDictProofs`: `TablesAreConsistent`, `EveryItemHasOneOwner`, `DictActsAsDict`, `ItemTableStaysBounded` (for finitely many keys),
`EveryIterationIsComplete`, and of the algorithm `ProbesVisitEveryOffset` and `ResizingNeverRecurs`.
After seven steps a probe's hash is used up, and x -> 5x + 1 has the full period modulo a power of two;
this is shown by doubling (`PeriodDoubles`): no power of five short of the size is one modulo four times the size.
So a probe for one of some offsets stops at one (`StopFinds`), and the invariant is about
where: an offset that is filled is reached by its hash's probe with no `EMPTY` before it (`Reachable`), which
a deletion keeps because it leaves `DELETED`, and an `EMPTY` there is always, for the table grows first
(`Roomy`; a rebuild gives a table a quarter of which is filled, hence never one in a rebuild). Items are
those of the dict, each with one offset, under the hash of its key, and in slots
whose ranks are the order of insertion (`Shows`). The bound is `Bounded`: four times `top` is at most
`3 * reserved + 4 * count + 12`, and `reserved` at most `5n + 11` for n keys. Iterators: `Tracks` says
that what one has seen and what is ahead of its slot are the dict's order, unless
the table was compressed under it. Folds over the table had to become recursive functions for this, and
that each is what it says is again shown by least counterexample.

`RuntimeProofs`: `CallsAreRight`,
`TablesAgree`, `LockIsOnes`. A call enters the right method because what it reads
without the GIL can only be improved: `Keeps` says that a table
never loses an array, a slot or a pointer, and so a reader's array of old still
has null or the method (`WellMade`: old arrays are full, and never differ from the
current one but by a null). While a slot is added the tables of an interface are not
alike, and `Turns` says which have had their turn; it rests on the GIL, which the thread
that adds has, and on `Unheld` in between. A linked site has its slot
in every implementor, those that are made later included (`SitesLinked`), and a
reader who comes to the call found the slot filled or compiled it
(`ReadsWell`). The lock comes in where a thread compiles for a call: its
stack has that compilation below everything else, for the table and slot that it waits for
(`CompilesRight`); that nobody else has a stack then is `HoldsAlone`, and
`LockProtects` follows. `CallsRight` excepts calls after a compilation that failed, as the run does.

`RuntimeProofs` again, on types: `ForwardsKnown`, `OneAnswerForAll`, both from `TypesInvariant`. The
model chases a forward and walks the graph by functions that recur. That a chase ends, in
something that is not a defined forward, is an invariant (`Chasable`), since a forward is
defined as what does not lead back to it; that the bounded walk of `Closure` is reachability is
shown by comparing it with the least set that is closed under the edges (`Hull`, `WalkIsHull`): a
walk that grows for as many steps as there are types has them all. The marks are right
for every type that leads to none that was lost (`WellBooked`, the exception that `ForwardsAreKnown` itself
makes); a type that is being made gets them from its parts (`NewBooks`), and for a forward
that is defined, `HullRedirected` says how reachability changes where edges to it go
to its target instead, and `BooksRewritten` that its users are told just that. `UsersRefer` and
`Direct` are why it is enough to tell its users. For the keys, `MemoOK` says that a forward is undefined while its function runs, or after it ended
badly, and then has no type; otherwise it leads where the memo does. `AnswersOK` follows each
answer ever given: it is the key's forward or what the memo has still. That nobody who waited for
the lock is given what is being completed is `Settled`: some set of types is closed under references,
has everything that was answered under the lock, and holds no undefined forward but of functions that
will not end any more. When a thread gets the free lock, all types are such a set (`FreeIsSettled`),
because nobody else has a function running; steps about other keys keep it (`SettledOn`).

`PmapProofs`: `BlockingIsOk`, `NobodyWritesAfterTheEnd`, `DoesWhatALoopDoes`. A call that ends has
as many outputs as jobs; that nobody works for it then follows from each of its jobs being
in one place, on the queue, on a stack or among the outputs (`OnePlace`).
That jobs are put once needs that calls are made once,
and so that an item whose call has not been made is still ahead of whoever
has its job, on the queue or on a stack (`ItemsWait`, `PutInOrder`).
`Shapes` are the stacks: calls and jobs alternate, a job is within its call's, its
position within its own. `NoneLeft` is why an executor may block: it
goes to wait only from an empty queue, and the jobs that come later
are of other calls. Outputs are a set of job
numbers, whose size is compared with `JobCount` (`FiniteSetTheorems`).
What a loop would do, `Failing`, is a recursive function on calls. That it exists and is unique
(`FailingIs`) is shown without the library's induction theorems: calls number
downwards, and a least number at which it went wrong (`LeastOf`, from the
well-foundedness of `<`) leads to a contradiction. `LoopInv` then adds that only items that fail in
the loop are blamed or missing (`Blamed`), that a job which is out has done its items and a job at
work those before its position (`OutputsDone`, `JobsDone`), and that a call on top of an
execute is what its item calls (`CallsNamed`), so that it fails exactly if the item does. The jobs
between them have all the items (`JobsCover`).

`ConverterProofs`: `NothingIsLost`, `DefinitionsSettle`, `LinksClose`,
`TypesAreTight`. After faults of the kinds that clean up, `Orderly` holds: what is
dirty is on the work list and has a conversion or is cached (`Listed`); names
are defined, cached or in flight (`Named`); the module in the cache
was loaded at once, and before anything in it could be converted (`Stored`); callers of what is in
flight are in flight (`Followed`), so that a return type which grows finds
all who used it; a draft that is not dirty is what a second conversion would give
(`Drafted`), and that is what is installed when the list is empty (`Installed`).
`CallsAreLinked` and `DefinedIsBuilt` hold under faults of their own, which
is why each part of `ConverterInv` names the faults it admits. Types are tight
whatever raises: every assignment that is consistent bounds
all types from above at every step (`TightInv`), as gathering is monotone
(`GatheredGrows`).

`HeldProofs`: `ReferencesDoEnd` and `MembersStayOwned`, of `HeldSpec`. References and the
tracer's actions are the same set seen from two sides (`RefsRight`): an object that refers into
the list is in one frame's list, with the line that asked for it. Why an action
comes due when the statement ends: its line is one of the statement that its frame is at, a
frame is on one stack, and a thread with something to resolve is traced
(`FramesRight`); a frame that has left has nothing to resolve. A thread that
is alone gets its own trace function back, for until then `prior` keeps it
(`PriorRight`). Flags tell what is constructed, but for instances that are
`spoilt` by the two defects named above; memory that has no instance may have any flag,
but has no member (`Flagged`).

`CompilerCacheProofs`: `AlwaysStartsClean`, `LibrariesOpen`, `CacheIsReused`. The directory
only grows (`Grows`), and a module needs only complete ones with lower numbers, which
have what it calls (`DiskRight`): its writer calls what it knows, and knows a function only with
a module that is in its index (`FreshRight`, `IndexRight`, `WritesRight`). So whatever a process lists is
closed under needs (`ListedRight`), whoever died where. That what is cached is
found again (`Reusing`) needs that a module which is loaded made all its functions
known, unless it did not fit.
`Manifests` and `Loads` recur over what modules need, and over how many of these have been
read; the pair goes down. That such a function exists (`RecursionExists`) is proved once for
any recursion that goes down on pairs of numbers, by joining the solutions below
each argument, and what it computes (`ReadAll`, `LoadAll`) by least counterexample.

Only model-checked:

* liveness (`KeptIsTaken`, `EveryoneReturns`, `Woken`, `CompileEnds`,
  `EveryCallEnds`), which is out of the prover's reach together with fairness and ENABLED;
* `SortedActsAsMap`, `ReadsBack`, `CopiesDeeply`: walks of trees and graphs by recursive operators, what
  such a walk computes needs induction over trees and graphs. For the sorted dict a recursive function would
  first need that `Node.set` ends at all, which is not evident: `rebalance` calls it again on a side that is alone,
  on a tree as large as the one it was called on;
* `LinksResolve` with entry points. It does not hold of all scenarios: a module that has one alone
  names none that it needs (Other defects met); the run has it where everything fits.

## 5. What is not modelled

In the modelled parts: conversion from Python mappings, reference counts of tables,
keys whose comparison or destruction runs Python code, operations on two tables; a SortedDict's
comparators and its iterators over a tree that changes; bound methods of
temporary references, generators, events while the tracer itself runs; function
metadata, visitors and generated wrappers of the converter; values of linked
globals and the repetition of small functions in the cache; names, structural memos and
recursive groups of types; the choice of overloads and specializations; an exception of
pmap's function that is not an `Exception`, and the start of the executors; of
streams, the bytes, and types and functions, which are written as mutually recursive groups.

Slabs count references and live allocations under two mutexes and could be
modelled as the GIL release was; stream framing and FunctionStackState are functions over
sequences, for which TLC could compare definitions. The other parts are listed
with reasons in `PROJECT.json`: mostly they are translations of syntax (code
generation and the type wrappers are more than a third of the source),
values without shared state, or bindings without state.

## 6. Plan

Done: `PyGil`, `GilState`, `FifoQueue`, `TypedQueue`, with proofs; `HashTable`,
`TypedDict`; `SortedDict`; `HeldClass`, `HeldReferences`; `ObjectGraph`,
`Serialization`, `Deepcopy`; `Converter`; `Pmap`; `CompilerCache`;
`ForwardTypes`, `TypeFunction`, `ClassDispatch`, `Runtime`. Proofs of `TypedDict`, `HeldReferences`,
`Converter`, `Pmap`, `CompilerCache`, `ClassDispatch` and `Runtime`.

Left: `Slab`, its references and mutexes; `FunctionStackState`; mutually
recursive groups in streams; `ConstDict`.

Theorems to come: of `SortedDict`, that `Node.set` ends, and that it and rotations keep the tree's contents.
