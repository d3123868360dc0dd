# Verification of openlist-wasi-plugin-driver

This directory holds TLA+ models of the library a Go (TinyGo) driver for OpenList is
linked with when it is compiled to a WebAssembly component. TLC checks the models on small
instances, and TLAPS proves the most important results for every instance. Paths below are
relative to the repository.

## 1. Inventory

| part | source | state | operations | who else touches it |
|---|---|---|---|---|
| pooled allocator (build tag `mempool`) | `alloc_mempool.go` | one lock-free stack per size class, a header (magic, class) in front of every payload | `cabi_realloc`, `cabi_free` | the host's canonical ABI code allocates, any code that has received a list or a string frees |
| collector-only allocator | `alloc_nomempool.go` | none | the same two, `cabi_free` does nothing | as above |
| freeing helpers | `adapter/mempool.go`, `adapter/nomempool.go` | none | `freeWasiSlice`, `cloneStringAndFree`, ... | call `cabi_free` |
| cancellation | `adapter/context.go` | a Go context, a host pollable and a watcher goroutine per export call | `WarpCancellable`, `cancelDrop` | handler and watcher share the pollable; the host cancels |
| export handlers | `main.go`, `adapter/driver.go` | the registered driver | 13 operations with a context, `GetProperties`, `SetHandle`, `GetFormMeta` | called by the host one at a time |
| error mapping | `adapter/error.go` | none | `ErrorToDriverError` | every handler |
| output stream | `adapter/streams.go:12-88` | a host stream and its pollable | `Write`, `Close` | the host drains, closes or fails the stream |
| input stream, upload request | `adapter/streams.go:90-185` | host streams of an upload | `Read`, `Close`, `NextChunk`, `ChunkReset`, ... | the host owns the file |
| resource manager | `adapter/resource.go` | a map from handles to resources and a counter, under an RWMutex | `Set`, `Add`, `Get`, `Remove`, `Pop`, `Range` | any goroutines of the driver |
| configuration, handle | `manager.go` | the plugin's handle, set by `set-handle` | `LoadConfig`, `SaveConfig` | the host stores the configuration |
| extra attributes | `adapter/driver.go:111-160` | none | `ExtraGet`, `ExtraAppend`, ... | |
| logger | `logger.go` | none | `Debugf`, `Errorln`, ... | the host prints |
| driver bindings | `binding/openlist/`, `binding/wasi/io/` | none | one function per import and export of the interface | every call crosses the boundary here |
| http bindings | `binding/wasi/http/` | none | the imports of `wasi:http/types`, `abi.go` | drivers that make requests |
| interface definitions | `wit/` | none | | both sides were generated from them |

The hard parts, and what makes each of them correct:

* **The allocator's memory is shared.** A push and a pop interleave between their loads and
  their compare-and-swap, a block carries its link where its holder's data was, and a free
  competes with another free for the magic number. Correct means: a block has one owner, the
  stacks link exactly the free blocks, a block is as large and as aligned as requested, and
  data survives until its holder gives the block up.
* **Cancellation is delivered by a goroutine that outlives its call.** The component is
  scheduled cooperatively: the watcher wakes up to 200 ms later, perhaps inside the next
  call, and drops a pollable the handler has dropped already. Correct means: a late watcher
  disturbs no later call, nothing is cancelled unasked, no pollable leaks, a request arrives.
* **The stream's other end moves on its own.** A permit is good for one write, a write may
  take part of a chunk and fail, and a wait ends because of room or because of a failure.
  Correct means: bytes arrive in order, once, without a gap; a success is complete; a failure
  is final; every call returns.
* **The handle table is locked around foreign code.** Destructors and Range callbacks run
  inside the lock. Correct means: every resource has exactly one fate and handles are fresh.
* **An upload is read from a resource of the host.** Streams, peeks and chunks are handles in
  the host's table, a chunk can be reset, every call can fail, and answers lie in blocks that
  the adapter frees by itself. Correct means: no byte is lost or repeated, a failure does not
  look like the end, no handle leaks or has two owners, and nothing the driver still reaches
  is freed.
* **A value is stored by one side and loaded by the other.** The Go declarations repeat the
  interface by hand-sized shapes, aligns and slot numbers. Correct means: what is stored by
  one layout is what is loaded by the other, for every function, case and flag.
* **Two places describe what a driver can do.** The capabilities `GetProperties` detects must
  agree with what the handlers refuse.

`PROJECT.json` lists these hazards line by line, with the properties that watch each.

## 2. Modules

| module | extends | what it is |
|---|---|---|
| `SizeClass` | | sizes, classes and layouts; `uintptr` arithmetic wraps at `2^WordBits` |
| `MemPool` | `SizeClass` | the allocator, one action per access to shared memory |
| `Allocator` | | abstract: what `cabi_realloc` and `cabi_free` promise their callers |
| `MemPoolInv` | `MemPool`, instance of `Allocator` | its inductive invariant, the assumption on callers, and how it implements `Allocator` |
| `Cancellable` | | a sequence of export calls, their watchers and the host's pollables |
| `ByteSink` | | abstract: what an `io.Writer` onto a stream promises |
| `OutputStream` | instance of `ByteSink` | `Write` and `Close` against the host's stream |
| `HandleTable` | | abstract: a handle table on which every call takes effect in one step |
| `ResourceManager` | instance of `HandleTable` | the handle table, its lock and its callers |
| `Config` | | the plugin's handle, `LoadConfig` and `SaveConfig` over the conversion to JSON |
| `ContentReaders` | | abstract: readers that give their own range of the content |
| `Upload` | `Config`, instance of `ContentReaders` | `UploadRequest` and `InputStream` against the host's readable |
| `Handlers` | | dispatch, capability detection, error answers, context life time |
| `SimpleAlloc` | | the collector-only allocator: sizes, addresses, what is taken and copied |
| `LinearMemory` | `SimpleAlloc` | layouts of records and variants; a memory with blocks of that allocator |
| `CanonicalABI` | `LinearMemory` | types, their layouts, and how a value is stored, loaded and flattened |
| `DriverWit`, `HttpWit` | `CanonicalABI` | the functions of the interface files, as the host reads them |
| `DriverBindings`, `HttpBindings` | `CanonicalABI` | the same functions, as the Go declarations lay them out, and `abi.go` |
| `Crossings` | `CanonicalABI`, instance of `HttpBindings` | what a value becomes on its way through each import and export |
| `Calls` | `Handlers` | the handlers behind the bindings: every call carries a crossing |
| `MemPoolSteps`, `MemPoolProofs` | `MemPoolInv` | theorems on the pool's size arithmetic and on `MemPool` |
| `LinearMemoryProofs` | `LinearMemory` | theorems on layouts, the collector-only allocator and stored values |
| `HandlersProofs` | `Calls` | theorems on `Handlers`, with the crossings of `Calls` too |
| `CancellableProofs`, `OutputStreamProofs`, `UploadProofs`, `ResourceManagerProofs` | the module named | theorems |
| `MCMemPool`, `MCCancellable`, `MCOutputStream`, `MCResourceManager`, `MCUpload`, `MCHandlers`, `MCCalls` | the module named | values of constants for TLC |

Operators called "Mutant of X" in their comment stand next to X and are not part of the
model. Each is X with one plausible mistake; with it in place of X, TLC finds the property
that watches X violated.

### MemPool and `alloc_mempool.go`

`freeLists`, `magic` and `classIdx` are the code's; `word` is the first word of a payload,
which is `memoryBlock.next` while the block is free and data while it is held. `cap` is the
size and alignment the memory really has. `held`, `want` and `stored` belong to the callers.
`pc` and `frame` are the program counter and locals of each thread. `popBlock` is `PopLoad`,
`PopNext`, `PopCAS`, `PopClear`; `pushBlock` is `PushLoad`, `PushStore`, `PushCAS`;
`cabi_free` is `FreeLoad`, `FreeCAS` and the push; `poolAlloc` is `PoolAllocEntry`,
`FallbackAlloc`, `Grow` and `PopMagic`; `cabi_realloc` begins with `Malloc`, `Realloc` or
`Release` and goes on with `Inspect`, the allocation, `Copy` and the free of the old block.
Accesses to memory nobody else can reach are part of the neighbouring action: the copy, the
header of a new block, `hdr.classIdx`, which never changes. Left out: the request for zero
bytes with ordinary alignment, which returns the sentinel and changes nothing, and a free of
`nil` or of the sentinel. `Store`, `Collect` and `StaleFree` are the environment: holders
write, the collector takes unpooled blocks back, a faulty caller frees twice. `Requests` are the
sizes and alignments that are asked for. `Allocator` is the promise (`KeepsPromise`): its `heap` has
the blocks that are held, each with the size, the alignment and the data its holder may rely on; a
call gives up its block when it starts, and takes effect when it returns. The stacks, headers, classes and
program counters of `MemPool` do not show in it.

### Cancellable and `adapter/context.go`, `main.go`, `adapter/streams.go`

`Begin` is `WarpCancellable` at the head of a handler, `Return` the handler's deferred cancel,
`Watch` the watcher goroutine when it finds the pollable ready or the context cancelled.
`Park` and `Resume` are the moments at which TinyGo's scheduler lets other goroutines run;
`Block` and `RoomMade` are `pollable.Block` in `OutputStream.Write`, during which nothing
else runs. `table` and `nextID` are the host's handle table (external). `Reuse` says whether
the host gives dropped numbers out again, and `UnknownReady` what it answers about a number
it does not know. A handler returns only after the driver has closed its stream: that is the
driver's obligation (`LinkRange` receives an `io.WriteCloser`), and it is assumed here.

### OutputStream and `adapter/streams.go`

Bytes are numbered through the life of the stream, so the buffer `p` is the range
`from + 1 .. to`. `CheckWrite`, `Block` and `WriteChunk` are the three host calls of the
loop, each with the assignments that follow it; `FailWith` is the error return, with the
value of `writeSize` the code has at that place. `BlockingFlush`, `DropPollable` and
`DropStream` are `Close` and its deferred calls. `Drain` and `PeerCloses` are the other end.
A write that fails may have taken any part of its chunk. `ByteSink` is the promise:
`given`, `received` and a state; the refinement maps `given` to `to` and computes the state
from `broken` and `pc`.

### ResourceManager and `adapter/resource.go`

A call takes the lock (`Announce` and `Acquire` for `Lock`, `RLock`), does its work, which ends with
its result (`Answer`), and gives the lock back in a step of its own (`Unlock`, `RUnlock`), as the deferred
call does. `Remove` calls the destructor and `Delete` removes the entry, as two steps. `RangeStep`
is one call of the callback. The lock follows the documentation of `sync.RWMutex`: a waiting
writer keeps new readers out. Callbacks and destructors do not call the manager.

`HandleTable` is the promise (`Linearizable`): every operation is one step between its call and its
return, and answers with what the table holds in that step. The refinement shows an entry whose destructor is
running as still there and not yet destroyed, so that the two steps of `Remove` become one at the deletion;
the answer of a call is the entries its caller learns of (`frame.seen`). A manager without a destructor
goes through the same steps and calls nothing; `destroyed` then counts removals.

### Upload, Config and `adapter/streams.go`, `adapter/mempool.go`, `manager.go`

The content is numbered bytes `1 .. Total`; a stream has a range of them. `chunkSize`,
`nextAt`, `streamed`, `table` and `position` are the host's readable and handle table
(external); `readers` are the `InputStream`s the driver has been given, each with what it has read
(`got`) and how it ended, and `inner` has their handles. `ContentReaders` is what the driver sees of
all this: the same readers and where the next chunk begins, without handles, blocks, the host's place in a
stream, or the configuration. `Streams`, `Peek`, `Chunks`,
`NextChunk`, `ChunkReset` and `GetHash` are the methods of `UploadRequest`, `Read` and `Close`
those of `InputStream`; each is the whole method with its error paths, save `ChunkReset`'s answer to a
reader that is no `InputStream`, which is given before anything has changed. `Read` is one of
`ReadBytes` (any count the host may give, zero included), `ReadFailed` (the error resource is
made, its message read, and dropped) and `ReadEnd`. `content`, `freed` and `held` are the
blocks the host's answers lie in: `Answer` takes a block nobody holds, `freeWasiSlice` gives
one back, and `held` is what the driver can still reach with the content it had.
A driver closes a reader once,
and not after `ChunkReset` has handed its stream to the host: the component does not look
after that, and `PROJECT.json` lists it as a hazard.

`Config` is `manager.go`. `SetHandle`, `LoadConfig` and `SaveConfig` are its operations, `stored` the
text the host keeps per handle. Between struct and text stands `encoding/json` (external). A struct has
exported fields, some of them tagged `omitempty`, and fields that JSON leaves out. `Marshal` writes the
exported ones, save the omitted that are zero, and refuses a struct with an unsupported value.
`Unmarshal` reads into a struct that has values already: what the text does not carry stays, a
member of the wrong type is skipped, and the error comes at the end; a text that is not JSON
changes nothing. Before the first `SaveConfig` the host may have any text, a broken one too, and
a host that reports an error may have stored the text before it failed. `told`, `promised` and
`attempts` are what the two sides know: the handle the host gave last, whether `SaveConfig` ever
returned nil under each handle, and what it has been called with since. `RoundTrip` is about every load that is
possible in a state, into every struct: after a `SaveConfig` that returned nil it gives
back that struct or one tried since, as far as JSON carries it.

### Handlers and `main.go`, `adapter/error.go`

`AutoCapabilities` is the detection in `GetProperties`; `Needs` is the type assertion of each
handler. The two tables are translated from different lines, and `CapabilityOf` from
`wit/driver.wit`. A Go error is the set of the sentinels `errors.Is` finds in it, and
`ErrorToDriverError` is the switch, in its order. Handlers differ in when they subscribe:
all but `LinkRange` look for the interface first (`Refuse`); `LinkRange` has subscribed when it finds it
missing, and its deferred cancel runs (`RefuseLate`). A driver that returns no error is taken to return what was
asked for: `GetFile`, `GetRoot` and `LinkFile` (`main.go:155,168,201`) dereference the pointer and
would panic on a nil.

### Calls, Crossings, CanonicalABI, LinearMemory and `binding/`, `wit/`, `alloc_nomempool.go`

A type is a term; `Layout` gives it size, alignment and offsets (`RecordNode`, `VariantNode`). A
memory is a set of cells and the end of the Go heap; `Realloc` is the host's call of `cabi_realloc`, `GoNew` an
allocation of the Go program. The modules of the interface
files use the constructors of the canonical ABI (`Variant`, `Option`, `Result`, ...), the
modules of the bindings those of package `cm` (`GoVariant` with its tag, shape and align
type, `GoResult` with its shape, ...), so that the two layouts come from different lines and
may disagree. A value is the set of its leaves, each with its path, and `Values` tries every
case of every variant, every flag alone and all together, and every list empty and full,
one departure from the usual value at a time. `Store` writes a value into linear memory,
`Load` reads it, `Flat` and `Lift` are core parameters, `lower_*` is `abi.go`. The host's
`Store` allocates with `cabi_realloc` of `SimpleAlloc`, and grows a string as a host that
transcodes does. `Crossings` takes a value through all of that: one side stores it by its layout, the
other loads it by its own, and a crossing keeps what got lost and what was made up. Its constants
`Imports` and `Exports` are the tables of functions, joined in `MCCalls` from the Wit and the Bindings
modules. `Calls` repeats every action of `Handlers` together with a crossing: a call
brings arguments (`Arrives`), an answer takes a result of the same outcome (`Returns`), and a
driver at work calls any import (`CallHost`). What can cross are its constants `Imported`,
`Arguments` and `Answers`, so that it can be reasoned about whatever they are; the run gives them the
crossings of this interface.

## 3. What the runs show

| run | expects | question |
|---|---|---|
| `mempool_frees` | pass | One thread allocates and frees, another frees what it gets. Ownership, stacks, sizes, layouts and data; `Allocator` is implemented. Also checks the inductive invariant. |
| `mempool_double_free` | pass | A single thread that frees a block again while it waits on its stack: that free does nothing. |
| `mempool_two_poppers` | violation | Two allocating threads: ABA in `popBlock`. |
| `cancel_calls` | pass | Three calls, late watchers, streams; a host that does not reuse numbers. Safety, and delivery of cancellation. |
| `cancel_reuse` | violation | The same on a host that reuses numbers: a call is cancelled unasked. |
| `cancel_stalled` | violation | A reader that stops: the request never reaches the context. |
| `stream_write` | pass | All interleavings of Write and Close with the other end; `ByteSink` is implemented; calls return. |
| `stream_count` | violation | Bytes that were not taken are reported as written. |
| `resource_table` | pass | Two threads, six operations: one fate, consistent Range, fresh handles, calls return; `HandleTable` is implemented. |
| `handlers_answers` | pass | Capabilities against refusals, contexts, error answers, and every value of every import and export across the boundary. |
| `handlers_not_support` | violation | `ErrNotSupport` becomes the generic error. |
| `upload_chunks` | pass | A driver reads through streams, peeks and chunks, resets, closes and hashes, on a host that may refuse or fail each time and reuses handles and freed blocks; `ContentReaders` is implemented. What is saved under one of two handles loads again. |

**Findings.** The five violations are disagreements between the code and what a comment or an
interface definition says; `PROJECT.json` quotes both sides. `mempool_two_poppers` needs threads
that run in parallel inside the allocator. TinyGo's wasm target has none today, so it limits
what the words "lock-free" in the code promise. The same holds of a second free that overlaps
the first and a reallocation of the block: it frees the new holder's block, as the magic number
cannot tell the two frees apart. No run covers that; `mempool_double_free` has one thread.
`cancel_reuse` depends on the host. `stream_count`, `cancel_stalled` and
`handlers_not_support` need nothing special.

**Bounds.** `mempool_*`: two classes (16 and 32 bytes); four requests (`Requests`): the largest size of each
class, one above the largest class, and one whose alignment of 16 no pooled block has; three blocks, the smallest
number at which a stack has a middle and a move still finds a new block. `MemPool` refuses a
call that could exhaust the model's heap; Go would panic there. `WordBits = 16` with such sizes
never wraps; the wrap of sizes near 2^32 is outside the runs, and excluded by name
(`CorrectCallers`) in the proofs. `cancel_*`: three calls with two streams each are enough for
a watcher to meet the call after next. `stream_*`: five bytes through a buffer of two, with
writes of up to three, give chunks that are cut, waits in the middle of a Write, and a Write
after a failure. `resource_table`: handles of three bits and at most seven values of the
counter, so that neither `Add` nor `Set` reaches the wrap; two resources, the least for which one
displaces another. `handlers_answers`: drivers with none, all but one and all interfaces
distinguish every pair of flags; errors wrap up to two sentinels (`MaxChain`), enough for every
pair in the order of the switch. Values have lists of three elements, of which the first and the
last are kept: a wrong element size shows in the last. Addresses of 20 bits from `HeapStart = 1024`
never wrap, and `zeroPtr = 8` lies below the heap. The values and layouts of a function are those of
the real interface and have no bound but this. `upload_chunks`: three bytes in chunks of two (a
whole chunk and a shorter last one), a peek that begins inside the first chunk and ends in the
second, two readers in all (`MaxReaders`, which counts those given up too, so that a chunk can be
reset and read again), reads of up to two bytes into buffers of up to three, so that either can be the
smaller, and two blocks (the least for `GetHash`). The configuration has two handles, a struct with a field of each
kind, two values that differ in all of them and one that JSON refuses, and texts that are broken or fit in part.
The constraint `Apart` explores uploads in which nothing is saved, and saves before anything has been
read or hashed: the two parts share only the blocks, which the configuration leaves as soon as it is read. The proofs have
none of these bounds, and not this constraint.

**Deadlock** is checked in `mempool_*`, `resource_table`, `handlers_*` and `upload_chunks`. In
`cancel_*` and `stream_*` it is not: the bound on calls and bytes ends every behaviour, and `Close`
ends a stream.

**Fairness.** `cancel_calls` assumes that a driver that runs for ever yields again and again
(`Park` under strong fairness), that TinyGo's scheduler runs every goroutine in turn (`Watch`
under strong fairness, since it is enabled only while the handler is parked), and that the reader
of a stream goes on. `cancel_stalled` drops the last and nothing else. `stream_write` assumes
that the component runs and that an open stream is drained. `resource_table` assumes strong
fairness per thread: `sync.RWMutex` admits every waiting reader when a writer leaves, and
`sync.Mutex` hands itself to a starving waiter. `handlers_answers` and `upload_chunks` assume none:
nothing in that code waits, and how long a driver or the host works is their own affair.

## 4. What is proved

All proofs are checked by TLAPS down to the last leaf.

* **Sizes of the pool** (in `MemPoolSteps`). `classIndex` returns a class or -1, and the class holds
  the size if the sum with the header does not wrap. From `SizesAssumption`; the least class exists
  because the naturals are well-founded. `FallbackLayout`: wherever an unpooled block lies, its payload
  is aligned, has room for the header in front, and ends inside the memory taken.
* **LinearMemoryProofs.** Three layers, each for values of every size.
  Layouts: `RecordApart` and `VariantApart` say that fields and payloads lie at offsets of their own
  alignment, inside, and clear of each other and of the tag. `Fields` is a recursive function;
  `FieldsEquation` shows that it exists, and `CountUp` is the induction on its argument, in terms of a set of
  naturals (the least missing one), since the library's induction theorems cannot be instantiated here.
  `VariantApart` asks that the declared room and alignment hold every case, which is so by construction
  in the interface's own layout and is what `abi.go`'s shapes are there for in Go's.
  Allocator: `SimpleLayout`, `SimpleRealloc` and `ReallocKeeps`. A block is aligned and inside the
  words taken for it, and what lay in the old block lies at the same place of the new one, with the
  exception that `PROJECT.json` lists at `alloc_nomempool.go:74`: a block that shrinks to a stricter alignment.
  They assume that the size with its rounding does not reach `2^PtrBits`. That the end of the heap
  stays below it too is an assumption of `SimpleLayout` and `SimpleRealloc` only, whose alignments go beyond 8.
  Memory: `Stores(m, m2, a, n)` says that `m2` is `m` after a value was stored in the `n` bytes at `a`:
  no two cells share bytes, nothing outside these bytes has changed, and all else that is new
  lies behind the old end of the heap. `WriteStores` shows it of scalars, flags and tags, and
  `RecordCrosses`, `VariantCrosses` and `ListCrosses` of records, variants and lists whose parts are stored
  so, whatever these are; and that no part is lost meanwhile: a reader finds in the end every
  cell that was there when the part had been stored (`Shows`), the tag, the pointer and the length.
  `TextCrosses` follows a converted text through its three blocks, as `Filled` does for the host.
* **MemPoolProofs** (steps in `MemPoolSteps`). Types, `SingleOwner`, `StacksExact`, `Fits`, `FallbackInside` and
  `PayloadIntact` are invariants for any number of blocks, classes and freeing threads, and `PoolKeepsPromise`:
  every behaviour of `MemPool` is one of `Allocator`. Assumption
  `CorrectCallers`: nobody frees twice, one thread allocates, and the sizes requested leave room below
  `2^WordBits` for the header, the alignment and the rounding (`Padded`). This is
  the regime of the component; `mempool_two_poppers` shows that the second part is needed. None
  of the properties is inductive. `IInv` adds what a thread knows at each step (its block's header,
  that the top it has loaded is still listed with the same successor, that its pushed block links to
  the top it loaded), and that links never leave the class, meet, or lead to a top. `Chains` adds that
  each class has a sequence of its blocks from the top along the links to the end (`IsStack`), so that
  a push prolongs it and a pop shortens it at the top; `StacksExact` then is a statement on the length of a
  sequence without repetition, and needs no induction.
* **CancellableProofs.** Types, `PollableLive`, `CancelSound`, `NoLeak` for any number of calls
  and streams, on a host that does not reuse numbers. `IInv` adds that handles of different
  subscriptions differ, that only the current call has entries in the host's table, and that a
  watcher left behind finds its context cancelled.
* **OutputStreamProofs.** Types, `PermitKept`, `SuccessIsComplete` and `ChildFirst` for all sizes, and
  `Implements`: every behaviour of `OutputStream` is one of `ByteSink`. `IInv` says that the stream
  has taken the first bytes of all that were given, that `p` begins right after them until a Write
  fails, and that a Write fails only when the stream is closed for good. `Prolong` is the lemma on
  sequences behind it.
* **ResourceManagerProofs.** Types and `RangeConsistent` for any number of threads, resources and
  handles: `Locked` says who is inside the lock, and that a thread that walks or deletes is. `OneFate`
  and `AddFresh` hold as long as the counter has not wrapped (`NoWrap`, a temporal assumption): `Counted`
  keeps every handle in use below the counter, `Fate` follows each resource through the table. Under the same
  assumption `ManagerIsLinearizable`: every behaviour of the manager is one of `HandleTable`; the steps outside the lock,
  and the destructor, are stutters there. At the
  wrap all three fail, as the hazard at `resource.go:50` says.
* **HandlersProofs.** Types, `AdvertisedExactly`, `ContextReleased` and `CauseKept` for every set of
  drivers and for errors that wrap any number of sentinels, and what `ErrorToDriverError` answers.
  `CallsSafe`: they hold of `Calls` as well, which is what `handlers_answers` runs, because a crossing leaves the
  handlers' state alone.
* **UploadProofs.** Types, `NothingSkipped`, `WholeAtEOF`, `OwnedExactly`, `HeldIntact` and
  `RoundTrip` for any content, chunk sizes, peeks, buffers, readers, blocks, handles and
  configurations (`UploadAssumption`, `ConfigAssumption`). `IInv` adds that a live reader's handle is in use and
  inside its range, that the driver's blocks are not freed, and that what the host keeps
  under a handle was written from a struct tried since `SaveConfig` last returned nil. `MarshalLoads` and
  `MarshalRestores` are what `RoundTrip` needs of the conversion, for any fields, tags and values.
  `FreeHandle` is a pigeonhole argument: the table has one handle more than there can be readers, so
  the host always has one for an error resource. `UploadReadsAsPromised`: every behaviour of `Upload` is one of
  `ContentReaders`; `ReadBytesGives` is the step of it that matters.

Only model-checked: liveness (`CancelDelivered`, `CallsReturn`), which is out of the prover's reach;
the violations; and `CrossingExact`. The theorems of `LinearMemoryProofs` are the steps of an induction that would
show that one side reads what it has stored itself. The induction is over types, along
`Layout`, `Store` and `Load`, which are recursive operators, and the prover takes no theorem in a module
that reaches one. That the two sides agree, finally, is a fact about the declarations of this very interface:
layouts, flags, core parameters, and the code of `abi.go`. TLC evaluates it function by function.

## 5. Not modelled

* The `Extra` helpers (`adapter/driver.go:111-160`): pure functions on a list of pairs, without state
  or calls.
* The logger: it formats a text; its host call `log` is among the imports of `Calls`.
* Dropping a resource in the bindings: one number in, nothing out. Borrowed handles the component gets as
  parameters are never dropped; whether a host traps then is its own choice.
* `RootPath`, `freeWasiString`, `cloneStringAndFree`: a constant, and helpers without a caller.
* The packages of `wit/deps` that no binding uses.
* TinyGo's collector: the model takes for granted that pooled blocks are never collected.
* Destructors and Range callbacks that call the manager; they wait for their own lock.
* Sizes near 2^32 in the allocators, and handles after the counter of the resource manager has wrapped.
* Drivers that close a reader twice, use one after `ChunkReset`, leave the writer of `LinkRange` open, or return
  neither an object nor an error.
* A second free that overlaps the first and a reallocation; a block of the collector-only allocator that shrinks
  to a stricter alignment; a resource displaced by `Set`, for which the code promises no destructor.
* The value that `OutputStream.Close` returns: no caller in the component looks at it.

## 6. Plan

1. Done: allocators, cancellation, streams, upload, configuration, resource manager, handlers, the
   boundary, and the proofs above; the four abstract specifications (`ByteSink`, `Allocator`, `HandleTable`,
   `ContentReaders`), with the refinements proved.
2. `Calls` on top of `Allocator`, so that a freed block of the pool serves the next crossing.
3. The `Extra` helpers against a reference definition.
