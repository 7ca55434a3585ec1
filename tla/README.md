# qbind: specifications, model checking and proofs

qbind is a header-only C++20 library over the kx C API: wrappers that manage
kx objects, macros that export C++ functions to q, and a socket client for the
q protocol (`src/tools/connection`). This directory holds its TLA+ models, the
TLC runs that check them on small instances and the TLAPS proofs that establish
the main properties for every instance. `PROJECT.json` is the index: which
lines each definition models, which run checks what, and which plausible bug
each property would catch.

## Inventory

| component | state | operations | interacts with |
|---|---|---|---|
| `K` (`k.h`) | one pointer `m_k`; the counter `k0::r` in the object | constructors, assignments, `swap`, `make_non_owning`, `release`, `tuple_append`, `join_*`, `equal`, `inner_type`, `is<>` | kx (`r0`, `r1`, `jk`, `jv`), every wrapper holds one |
| `Atom`, `Vector`, `Tuple`, `NestedVector` | a `K` | construct from a `K` (checks the type) or from values, element access, assignment, iteration, `push_back` | `K`, each other (a tuple's elements are other wrappers' objects) |
| `Dictionary` | a `K`, and a cached `m_length` | construct from keys and values, `size`, lookup | shares its keys and values with the caller's wrappers |
| `Converter`, export macros (`converter.h`, `function.h`) | the arguments and the result of one call | `to_cpp`, the call, `catch` and `krr`, `to_q` | q on one side, user functions on the other |
| `MemoryManager` | mutex, count of managers, main thread id | constructor and destructor, once per thread | kx (`khp`, `setm`, `m9`), threads that intern symbols |
| `SymbolReference`, `SymbolPointer`, `intern` (`symbol.h`) | a pointer to an interned string | assign (interns), compare, pointer arithmetic | kx (`sn`), the symbol lock |
| `Iterator`, type tables, traits | a pointer; none at run time | pointer arithmetic, compile-time lookup | buffers of vectors |
| `Socket` (`connection/main.cpp`) | a descriptor, a flag for unix domain | construct (resolves, connects), move, destroy, `send`, `recv` | the kernel |
| `SocketConnection` | a socket, the protocol level | handshake, `send_async`, `send`, `recv`, compress, decompress | a q process over TCP or a unix socket |
| `Buffer`, `Serializer` | bytes and their byte order; the level | read and write a number at an index; serialize atoms and arrays | `SocketConnection` sends the buffers |

Hard behaviours, component by component, and what makes the component correct:

* **Reference counting.** Counters start at 0, so `r = 0` means one owner. The
  order of `r0` and `r1` in the assignments, the tests for self assignment, and
  who owns the references handed to `knk`, `xD` and `jk` decide whether an
  object is freed early, twice or never. Correct: the counter is one less than
  the number of owners, nothing that is held is freed, and an object that
  nobody holds is gone.
* **Exported calls.** q keeps owning its arguments; conversions may fail
  half-way, in an order the language leaves open; the result may be an
  argument. Correct: when the function answers, the counts have moved by
  exactly what the result carries.
* **MemoryManager.** Threads overlap arbitrarily and interning does not take
  the manager's mutex. Correct: the lock is on while two threads can intern.
* **Contents shared by wrappers.** A wrapper checks an object's type once; other
  wrappers of the object then write to it and append to it, in place or by a
  reallocation. Correct: the type checked still holds, a nested vector holds
  one type, a dictionary's cached length speaks of pairs that exist, comparison
  and iteration answer for the values.
* **Connection.** Messages are two writes and two reads, each of which may be
  cut short; answers come late, beside messages of the server's own; a peer
  closes at any time; sizes cross limits at 2000 bytes, 2 GB and 4 GB.
  Correct: frames stay aligned, an answer belongs to its request, a server
  gets only what its level knows, every call ends, every descriptor has one
  owner. (One leak is in the code, and modelled: a `Socket` constructor that
  throws after `socket()`, `main.cpp:321-384`, closes nothing.)
* **Compression.** The writer remembers where each xor of neighbours was seen;
  the reader rebuilds that memory from what it decoded. Correct: they agree at
  every token, and the writer stays in a buffer it seldom looks at.

`PROJECT.json` lists the hazards one by one at their lines.

## Modules

```
Ownership        abstract: objects exist exactly while they are owned
KxHeap           kx objects, counters, r0 r1 ka knk jk            (external)
  RefCount       qbind::K and the wrappers' operations; refines Ownership
    RefCountProofs
    ExportCall   a call from q to an exported function
      ExportCallProofs
MemoryManager    per-thread managers, the symbol lock, interning
    MemoryManagerProofs

TypeTable        types and the widths of their values
  KValues        kx objects by their contents
    TypeCheck    inner_type, is<>, is_with_info<>, equal
      Collections  an application that uses Atom, Vector, NestedVector, Dictionary
        CollectionsProofs
Elements         Iterator and SymbolReference            (used by Collections)

Frame            the sizes in a message: Serializer, send_impl, recv
Sockets          Socket objects and the process's descriptors
    SocketsProofs
MessageChannel   abstract: two queues of whole messages
  Connection     SocketConnection (Frame + Sockets) and a server; refines MessageChannel
    ConnectionProofs
Buffer           numbers in an announced byte order
Compress         SocketConnection::compress
  Uncompress     its reader, c.java's uncompress
    Message      the bytes send_impl writes (Uncompress + Frame + Buffer)
      MessageProofs
NumberFacts      least numbers, induction, recursion and digits, for the proofs
MC*.tla, MC*.cfg instances for TLC
```

**KxHeap.** `ptr` maps every *owner* of a reference to an object or `NULL`. An
owner is a `Handle` (a `qbind::K`, bare or inside a wrapper), a `Ref` (a
reference managed by hand: a `::K` in C code, a variable or argument of q) or a
`Slot` (element `i` of list `x`). `r`, `live` and `kind` are the counter, the
liveness and the type class of each object. Freeing a list leaves its slots
pending; `DropElement` releases them one at a time, so that every intermediate
state of the recursive `r0` is checked too. kx itself is external: these
definitions are its documented contracts. `jk` may move the list in memory.
Here it always appends in place, whoever else owns the list: `tuple_append`
(`k.h:230-241`) does not look whether the list is shared, and what other
wrappers see of a list that moves is modelled in Collections (`Extend`).

**RefCount.** One action per operation of `K` and per wrapper operation that
creates, shares or releases objects. An operation that throws does so before it
changes anything, so its checks are the action's guards. Copy and move
assignment are two steps (`ReleaseOld`, then `FinishCopy` or `FinishMove`),
because the release may run a cascade before the new pointer is stored;
`resume` records the assignment in between, with the old pointer that `m_k`
still holds. By-value parameters such as the `K k` of `tuple_append` are taken
and destroyed within the action. Element values and lengths are left out.

**Ownership.** `Share`, `Drop`, `Trade` and `Create` over `ptr` and `live`
alone; `live` is by definition what somebody holds. `RefCount!OwnershipSpec`
says that the counting implementation is one of these.

**ExportCall.** `phase` is the position in the function generated by
`QBIND_FN_EXPORT`: `convert` (to_cpp for each argument, in any order), `body`,
`return`, `get`, `release`, `destroy` (to_q's `value.get().release()` and the
end of `value`), `void`, `unwind` (an exception) and `answered`; `idle`, `push`
and `pop` are q's side. Every heap operation is an action of RefCount, so the
module only says when each happens. Parameters die at any point between the
body's return and the answer, which the language leaves to the compiler. The
converter admits `Atom`, `Vector` and `Tuple`; parameters are atoms and vectors
because `Tuple(K)` does not compile, results may be all three. `entry` records
the heap when q entered the function.

**MemoryManager.** `pc` follows each thread through `initialise()`, the
constructor, its life and the destructor; the critical sections are two steps
each so that other threads can be seen to wait and to intern meanwhile.
`BeginIntern` and `EndIntern` are kx's `sn`: it looks at the lock once.

**TypeTable, KValues, TypeCheck.** `heap` is the sequence of objects made, each
with its type `t` and its contents `e`; nothing is freed here, who owns what is
RefCount's business. `inner_type_impl` is translated as it stands, with the loop
variable `k` that it overwrites: `Children`, the loop as a function of where it
is, reads its bound and its next element from whatever `k` is by then. Of an atom the length field holds
the value, so the read is `LengthRead`; an element of what is not a list is a
wild pointer, after which every outcome is admitted. A list that contains
itself overflows the stack (`Crash`). `is` and `is_with_info` map these
outcomes to what a caller sees; `is` is `noexcept`, so a throw ends the program.

**Collections, Elements.** Each action is one operation of a wrapper; an
operation that throws is no step. `wrap` says what each of the application's
variables is, which object it holds and, for a dictionary, the length it noted.
`jv` and `jk` extend a list in place or move it (`Extend`), and then only the
appending wrapper sees the new one. The application appends through wrappers
only, does not use a wrapper it moved from, and passes no null objects. The
operators of `Elements` are the iterator's and the symbol's; their properties
are checked on every vector and symbol that Collections makes.

**Frame, Buffer, Message.** `Frame` has the sizes alone: what `serialize` makes
(0 stands for "throws"), what `send_impl` refuses, compresses, and writes in
the header, and what `recv` computes from it. The limits are parameters.
`Buffer` is the class of that name: values are the sequences of their bytes in
memory. `Message` puts the header together field by field, as `send_impl` does,
around the payload as `compress` left it, and reads it back by the protocol's
description.

**Compress, Uncompress.** One action per turn of `compress`'s loop and one for
opening a block. `Stale` is what the uninitialised `xor_offset_cache` may hold
at the start. `Uncompress` translates the reader of `c.java`, which
`decompress` names as its original.

**Sockets, Connection, MessageChannel.** `Sockets` has the descriptors of the
process (`domain`), the objects (`made`, `m_fd`, the unix-domain flag) and
`lost`, the descriptors that a constructor left open when it threw. A move
construction leaves the flag to either value. `Connection` adds the client
(`pc`, and the call it is in), the stream in both directions and the server.
Upwards, `up` holds messages with the size their header says and the bytes they
have, which differ when a timeout cuts a `send` short; downwards, `down` is the
bytes themselves and `avail` how many have arrived, so that a `recv` meets every
split. `unread` is a history variable: the messages the server wrote that `recv`
has not returned, until a call throws. No guard reads it; it is what the refinement maps to the
channel's queue. The call's exits (`HeaderThrows`, `HeaderOverwhelms`,
`PayloadThrows`, `SendTimesOut`, and a `Response` that is none) set `failed`,
another history variable: nothing in the code keeps the application from going
on, and the model's may. A header read amid a message announces what those
bytes happen to say (`Garbled`), or more than memory holds
(`HeaderOverwhelms`). The server is external: it answers in order, pushes
messages of its own, closes whenever it likes, hangs up on a broken frame. Its
answers are not compressed, and it has the machine's byte order: `recv` reads
the size of a message in that order (`main.cpp:875`) and applies the order the
header announces to the payload only, four lines later. `Frame!Received` has
both cases, and `SizeSurvives` says what becomes of the other.

`MessageChannel` is what remains of the wish that a connection be two queues of
messages; `ChannelSpec` says that until a call throws it is that. Reading is
whole, once and in order (`Take`). Sending is `Send`: a message is queued whole
(`Queue`), or is cut short, if the socket has a timeout (`Cut`), or lost, if
the server has closed (`Lose`). No call reports the last two: `Socket::send`
does not look at how much was sent (`main.cpp:421-429`), nor does `send_impl`
(`main.cpp:795-796`). A message that was cut is never served. A throw is
`Break`, after which the queues are not vouched for; giving the connection up is
`Reset`.

`connection/main.cpp` does not compile as it stands when these functions are
instantiated: `read_at` casts a byte pointer with `static_cast` (hence `read`,
`recv` and `decompress`), and `SocketConnection::send` adds two string literals
for its error text (`main.cpp:856-857`). The cast and the text are read as what
was meant, since nothing else can have been, and the rest of these functions is
modelled as written. `decompress` is left out all the same: with its further
faults (below) it cannot work, and all that it could be taken to mean is what
`c.java` does, which is modelled (Uncompress).

Operators such as `CopyConstruct_Shallow` or `Destroyed_AtZero` are plausible
bugs of the definition they precede. They are used by no specification: each
replaces its definition to show that a property notices.

## What the runs check

| run | instance | shows |
|---|---|---|
| `refcount_handles` | 3 handles, 3 objects, lists of 2 | `RefCountExact`, `NoDangling` and the types under every order of handle operations, shared elements, lists in lists, self-containing lists |
| `refcount_border` | 2 handles, 2 manual references, 2 objects | the same with references crossing between RAII and manual `r0`/`r1`; `OwnershipSpec` (refinement) and `CascadeEnds` (liveness) |
| `export_call` | 2 arguments, 1 q variable, 3 objects, 3 body operations | `CallBalanced`, `NoGarbage`, `BorrowsValid` over repeated calls, `CallReturns` (liveness; a null answer, which the body brings about by returning a wrapper that was moved from, is an answer); deadlock is checked, so no phase can get stuck |
| `memory_manager` | 3 threads | `SharedMeansLocked`, `LockExact`, `ManagersProgress` |
| `intern_overlap` | 2 threads | a violation, see below |
| `compress` | payloads of 25 to 39 and of 247 and 248 bytes of two bits, blocks of 3 tokens, runs to 5 | `WithinBuffer`, `Replays` (writer and reader agree), `CacheMeansSeen`, `MessageReadable`, all for a cache that starts with zeros |
| `compress_stale` | the same, the cache may hold an old index | a violation, see below |
| `connection` | 2 requests and 1 push per connection, any number of connections one after the other, calls after a throw included | `Framed`, `LevelRespected`, `AnswerIsMine`, `DescriptorsOwned`, `ChannelSpec` (refinement), `CallEnds` (liveness) |
| `unix_flag` | the same, with a host that may be this machine | a violation, see below |
| `collections` | 3 wrappers, 3 objects, lists of 2, longs and symbols | `Homogeneous`, `PairsExist`, `EqualIsRight`, `Iteration`, `SymbolOrder` |
| `nested` | 1 wrapper, lists and vectors made by q | a violation, see below |
| `equal` | 2 wrappers, 2 objects, GUIDs | a violation, see below |

**Bounds.** *Reference counting*: `MaxLen = 2` gives lists with a shared and a
distinct element, the two slots of a dictionary, and room to append; longer
lists add only more of the same slots. Three objects allow a cascade of depth
three and a list beside the object it is replaced by; addresses are reused
after a free, so a stale pointer meets a new object. Three handles are a
source, a target and a witness. In ExportCall one variable of q is enough, as
both arguments and the result may alias it; `HeapRoom` makes q keep one address
free for the answer, as an out-of-memory q is not modelled; `MaxBody = 3` lets a
body copy a parameter, overwrite one and build a tuple in any order. *Threads*:
three are the fewest for a constructor or a destructor to run beside two
running threads, which is the case the proof singles out. *Compress*: bytes of
two bits make xors collide often; words of one or two bytes repeat, one byte
differs here or there, so that literals, runs, runs that overlap themselves,
runs cut by `MaxRun` and by the end, and giving up all occur. `Slack = 7` is
for 3 tokens what 17 is for 8. The long payloads lie on both sides of `FourGB`,
with excess sizes and 8-byte original sizes. *Connection*: two requests are
what it takes for the answer to one to be taken for the other's, one push comes
before, between or after the answers; a message of the server is a header of
two bytes and one more, and arrives in any portions; bytes amid a message
announce an answer longer than any, or an empty asynchronous message
(`MCGarbled`); the client's sizes lie on either
side of each limit; levels 0, 4 (refused) and 6 differ in everything levels
differ in but the order of types. There is one host in `connection`, since what
differs between hosts is the flag, which a move leaves to either value anyway.
Of Sockets, `connection` has the constructor, the move and the destructor;
constructors that throw and move assignments, for which a second free socket is
needed, are covered by the theorem `SocketsOwnDescriptors` only. *Collections*: values 1 and 2 are the lengths that
`inner_type` may misread; two types are needed for a mismatch. In `collections`
q supplies atoms only, because with lists of q's the violation of `nested`
would hide everything behind it; lists made by wrappers may still hold lists.

`CHECK_DEADLOCK FALSE` is set where the system may stop: a program may leave
all its objects in a cyclic list, all threads may end, `compress` has returned, an
application may have no objects left to make, a process may be killed by
SIGPIPE. Symmetry is used only in runs without temporal properties.

**Fairness.** RefCount: weak fairness of the cascade and of finishing an
assignment, which are the inside of one function call. ExportCall: of the
generated function's steps, with the body assumed to end (`MaxBody`); q itself
need never call. MemoryManager: of constructor and destructor steps and of the
end of an `sn` call. Weak fairness is enough for the mutex because a thread
asks for it twice in its life, so the others cannot hold a waiter off forever.
Nothing says that a thread ever starts, interns or ends. Connection: of a call that was entered, of the
network's delivery and of a server that holds a whole message (it handles it or
gives up, or closes). Nothing says that an application calls or disconnects, or
that a server closes, pushes or accepts.

**The violations.** `setm(1)` is called by the second manager
(`memory_manager.h:60-62`) under a mutex that interning does not take. A thread
that entered `sn` while alone runs unlocked and meets the second thread's
locked `sn`. `SharedMeansLocked` holds, so the flag is right; it is only
switched too late for a call already under way (`InternExclusion` fails). The
model takes it that `setm` does not wait for a running `sn`.

`compress` reads `xor_offset_cache` before it wrote to it (`main.cpp:598`; the
comment above says "0 initialised"). With zeros `Replays` holds, which is the
run `compress`; with an old index in it a run is written that the reader cannot
follow (`compress_stale`).

`Socket`'s move constructor leaves `m_is_unix_domain_socket` without a value,
and a connection always takes its socket by a move: whether messages to the
same host are compressed is left to chance (`unix_flag`).

`inner_type_impl` loses the list it walks (`k.h:406`): a list of q's whose first
element is a shorter list passes with the types of the rest unseen (`nested`).

For two GUID atoms `K::equal` compares the addresses of their bytes instead of
the bytes (`k.h:344`, against the comment at 343), so that equal values are
different (`equal`). `EqualAnswers` would be violated by symbols as well, which
`k.h:347` means to compare and which fall through to the throw
(`k.h:322-326`); lists and dictionaries fall through, too, although
`k.h:352-360` is there to compare lists. `EqualIsRight`, in `collections`, has
what is left: objects of different types or lengths, and those of the types the
switch has a case for. `compress` gives its half-filled buffer up without
freeing it when it returns the payload as it is (`main.cpp:619-620`); the models
do not follow that memory.

**NoGarbage and cycles.** `NestedVector::push_back` of a vector to itself
closes a cycle that counting cannot free; `RefCountExact` still holds there and
`refcount_handles` visits such states. An exported function cannot take or
return a `NestedVector`, and the modelled bodies do not build one, so
`NoGarbage` says that the *call protocol* leaves nothing behind, not that user
code cannot.

**What a throw leaves behind.** When a call on a connection throws, a part of a
message, or the answer to a request that timed out, may be left in the stream.
The code offers nothing to find the boundary again, and nothing forbids the
next call, which takes what comes for a header, or the late answer for its own.
The models' application may do that; `CallEnds` and the properties of what is
sent (`Framed`, `LevelRespected`, `DescriptorsOwned`) hold all the way.
`AnswerIsMine` and `ChannelSpec` speak of the time until the first throw: up to
there a message is never split, read twice or mistaken for another, also
when an asynchronous message comes first. What they do not say is that a
message whose send returned arrives: a timeout may have cut it and a closed
peer may have lost it, without a throw.

## What is proved

TLAPS checks every step of the proof modules.

`RefCountProofs`, for any finite sets of handles, references and objects and any `MaxLen`
(`HeapAssumption`):

* `TypeCorrect`, `CountersExact`, `NothingDangles`:
  `Spec => []TypeOK`, `[]RefCountExact`, `[]NoDangling`.
* `ImplementsOwnership`: `Spec => OwnershipSpec`.

Neither property is inductive alone: `r0` frees at 0, which is safe only if the
counter is exact, and counters stay exact only if a freed address has no
owner left when it is reused. The invariant `IInv` joins them with types and
with `AssignInv`, what an interrupted assignment relies on: the target holds
nothing and is not the source (the test for self assignment in `k.h:68` and
`k.h:79`). Every action is reduced to one
of six heap primitives (`Primitive`), each of which preserves the heap
invariant; the counting argument is in `GainOwner` and `LoseOwner`, the
cardinality of the owner set before and after one owner changes. Refinement
uses the same reduction, with `live` equal to the held objects as a consequence
of the invariant (`LiveIsHeld`).

`MemoryManagerProofs`, for any finite set of threads:

* `TypeCorrect`, `LockedWhenShared`, `LockIsExact`.

The flag lags behind the count inside a critical section, so the invariant
speaks of `CountSeen`, the count the flag was last set for: one less than
`active` while a manager is being constructed, one more while one is being
destroyed. Two running threads and one under construction are three registered
ones, hence `CountSeen >= 2`.

`ExportCallProofs`, for any arguments, variables of q, objects and any number of
operations of the body:

* `CallKeepsCounters`: every step of a call is a step of RefCount or leaves the
  heap alone, so calls inherit its invariant; `CallsImplementOwnership`
  likewise.
* `ArgumentsStayValid`, `CallsBalance`, `NothingLeaks`:
  `CSpec => []BorrowsValid`, `[]CallBalanced`, `[]NoGarbage`.

Three facts make the call's own invariant inductive. `Borrowed`: until the
answer, what was alive at entry is alive, and q's references and the lists of
that time hold it as often as it was owned then. `Handover`: which
handles and references may hold anything at all in each phase, so that at the
answer only the result does. `Acyclic`: in every set of live objects there is
one that no list of the set holds; a body builds lists from finished objects,
so it cannot close a cycle, and between calls the root of any set must be a
variable.

`MessageProofs`, for any bytes, xor, payloads, block and run lengths with
`Slack >= 2 * Bits + 1` (17 for 8), and any stale cache:

* `WritesWithinBuffer`: `Spec => []WithinBuffer`. Room is looked at once in a
  block, so the invariant (`RoomLeft`) says what the rest of the block may
  still need: two bytes for each token to come.
* `PositionInPayload`, `CacheIsRight`: `Spec => []TypeOK`,
  `[]CacheMeansSeen`. The first bounds the position, not the read through a
  cache entry (`main.cpp:633`), which a leftover may send outside the payload. A position is entered one turn late, under an xor that was
  remembered with it, so the invariant says of the pair that waits what the
  cache must say of its entries, and a run's length is bounded by what is left
  of the payload. The proof showed where the cache is not right: the loop
  remembers the byte before the last without computing its xor
  (`main.cpp:628-639`), under the xor of the byte before it. No turn looks at
  the cache afterwards; `CacheMeansSeen` therefore speaks of the turns that
  have a byte to read.
* `CompressionReplays`: `Spec => []Replays`, for a cache that starts with zeros
  (the code's does not, which is the run `compress_stale`) and headers of one byte (`Bits <= 8`). The header of the open block is not
  written before the block is full, so the invariant (`ReplayInv`) speaks of
  every header it may still become (`Agrees`: the bits so far): on the wire with
  that header the reader comes to a state with the payload's bytes so far, the
  writer's place in the block and the writer's cache (`InStep`). Three things
  carry a step: a run that reaches into its own output is periodic with the
  distance it started at (`Periodic`), so copying it needs only what was there
  (`CopyIs`); the entry that the writer makes a turn late is the one the reader
  makes (`RememberNoted`); and a header that fills from its lowest bit keeps
  the bits below (`NextBit`). That the xor cancels, so that equal neighbours
  follow from an equal byte and an equal xor, is an assumption on `Xor`. What
  the reader's recursive function computes is got without induction: of the
  numbers of turns for which there are none, none is the least (`TurnsExist`).
* `MessagesReadable`: `Spec => [](Replays => MessageReadable)`, whatever the
  cache held: with any cache, a message that is sent as it is can be read, and
  a compressed one if its blocks replay. `ZeroedCacheReadable`: `Spec =>
  []MessageReadable`, under the assumptions of `CompressionReplays`. Both take
  three more: the payload and its header stay below
  the limit of the excess byte (`Limit`), a payload that compress is given is
  longer than the 8 bytes its buffer is larger by (`HeaderSize + 8 <=
  MinCompress`; the code: 16 against 17), and a byte can say 2. The bytes of a
  number are its digits, and the reader's sum of digits is the number again
  (`NumberRead`: dividing by one power and then by the base is dividing by the
  next, `DivTwice`); each field of a header is in its place, in the payload's
  byte order, whatever the machine's (`HeaderIs`, of one write at a time,
  `Written`); `compress` says `compressed` only with the whole payload behind it
  and its last header written (`Finished`), so `Replays` speaks of the message;
  and it shortens what it compresses (`WithinBuffer`), so the flag the reader
  sees tells it whether there is anything to undo. That the functions defined by
  recursion exist at all (`Power`, `Number`) is `Recursion` in `NumberFacts`,
  from the least number of a set.
* `ReadBack`, `WriteIsLocal`, for either order and any width: a value written to
  a `Buffer` is read back, and other values stay as they were.

`CollectionsProofs`, for any wrappers, types, values, views and bounds and
whatever q supplies (but for `ListsHomogeneous`):

* `WrappersKeepTypes`, `PairsStay`: `Spec => []TypeOK`, `[]PairsExist`. What a
  wrapper learnt of its object must survive what other wrappers do to the same
  object. The invariant `CollInv` says of each object that its contents are of
  its type and its elements are objects (`HeapOK`) and of each wrapper what it
  relies on (`Holds`); `Grown` says what every step may do to an object at most:
  leave its type, never shorten it, never touch a dictionary. `Holds` survives
  `Grown`, so each operation need only be shown to be one such step.
* `ObjectsOnlyGrow`: `Spec => [][Grown(heap, heap')]_colvars`, that fact as an
  action property.
* `ComparisonIsRight`: `Spec => []EqualIsRight`, for every type but symbols,
  lists, dictionaries and GUID atoms. `K::equal` compares bytes by widths of its
  own; `WidthsAgree` (they are those of the traits, for every
  type) makes that a comparison of values.
* `IteratorsVisit`, `SymbolsOrdered`: `Spec => []Iteration`, `[]SymbolOrder`.
  The iterator's arithmetic is a fact about any sequence (`VisitsForward`,
  `VisitsBackward`). Of two strings the first difference decides
  (`FirstDifference`, from the least number of a set, `NumberFacts`), and a
  string that ends early differs there by the zero behind it, which no string
  contains.
* `ListsHomogeneous`: `Spec => []Homogeneous` if `"list" \notin FromQ`, that is
  if q hands the application no list that was not made by a `NestedVector`; run
  `nested` shows what becomes of it otherwise. No inductive invariant speaks of
  wrappers alone, since any list may become another's element or be given to a
  wrapper of its own. So `LabelInv`: there are labels for the objects such that
  every object is of its label's type, holds (if a list) only objects of its own
  label and no dictionary, and agrees with the wrappers that point to it. A new
  object brings its label (`LabelAppend`), an append keeps that of the list
  (`LabelReplace`), and a wrapper taken from a K object must be shown to have the
  label's type, although `inner_type_impl` reads on in the last child when it
  should read on in the list (`k.h:406`): from labelled lists it reaches only
  objects of the same label, so it answers that type or 0 (`WalkFinds`), and
  `inner_type` refuses 0. For that the walk, a recursive function, must exist
  (`WalkIs`): going into a list shrinks the lists it is not yet inside of, going
  past a child the length left (`IntoLower`, `PastLower`), and a recursion to
  places of lower rank defines a function (`RankedRecursion`, `NumberFacts`).

`SocketsProofs`, for any sockets, descriptors and hosts:
`SocketsOwnDescriptors`, `SocketsSpec => []DescriptorsOwned`: every open
descriptor has one owner or is in `lost`, left by a constructor that threw. The
invariant adds that a socket that was not made holds nothing.

`ConnectionProofs`, for any limits, values, levels and bounds:

* `SizeSurvives`: the header announces the size of what follows it, for every
  payload, compressed or not; `recv` finds that size if the header is in the
  machine's byte order, and otherwise only if its size word is a palindrome.
* `FramesAligned`, `LevelsRespected`: `Spec => []Framed`, `[]LevelRespected`.
  Both are about messages in the stream, so the invariant `CInv` carries what
  makes a message `Sound` from `SendHeader`, where its size and level are
  computed, through `cur` into `up`, and that the level was compared before
  anything was sent and does not change afterwards (`Greeting`). The
  arithmetic is `SizeSurvives`.
* `ConnectionOwnsDescriptors`: `Spec => []DescriptorsOwned`. Every step of
  Connection on the descriptors is a step of Sockets or the throw that closes
  the socket the caller passed.
* `ConnectionTypeCorrect`, `AnswersAreMine`, `ConnectionIsChannel`:
  `Spec => []TypeOK`, `[]AnswerIsMine`, and `Spec => ChannelSpec`. The second
  invariant, `DInv`, holds of the bytes until a call throws: they are the
  messages of `unread`, one behind the other, the first less the header if
  `recv` is between its two reads (`Aligned`: there are places at which the
  messages end). It is kept by writing at the end (`PlacedAppend`), reading a
  header (`PlacedHeader`) and reading as many bytes as that header announced
  (`PlacedPayload`, with `SizeSurvives` for the announcement), in whatever
  portions bytes arrive. Of the request a call waits for there is one trace at
  most, the message in `up` or its answer in `unread`, and none while no call
  waits (`OneCall`): hence the `Response` that `send` takes is the answer to its
  own request. A late answer is why this ends with a throw: a call that timed
  out leaves its trace behind.

Assumptions beyond types: messages, also the server's, stay below the limit
that one byte of excess size sets (1 TB, `main.cpp:509`), and so do the sizes
that bytes amid a message announce, unless no memory can be had for them; the
server has the machine's byte order; messages that
compress may shrink are longer than two headers (2000 bytes against 8); `None`
is not a number, a message or a result; symbols and the strings they are compared
with contain no zero, which ends a string of kx's.

Only model-checked: what is temporal but no refinement (`CascadeEnds`,
`CallReturns`, `ManagersProgress`, `CallEnds` are liveness, outside
the prover's reach). The refinement theorems are about safety: `Ownership` and
`MessageChannel` state no fairness.

## Not modelled

* `decompress` (`main.cpp:672-751`): it reads the original size at index 8 of a
  payload that starts with it and takes the size field off twice, copies
  overlapping runs with `memcpy`, and does not compile as it stands. The reader
  of the models is its original in `c.java`.
* Templates that do not compile when instantiated, and so have no behaviour:
  `Vector::push_back(value)` and `join_atom` for it, `Vector::at`, ordering of
  vectors, iterator difference, `+`, `-` and ordering, `Tuple(K)` (and with it
  `to_cpp<Tuple>`), `Tuple::cat`, `is<Tuple>` and `tuple_type_match`,
  `Dictionary(K)` and `dictionary_type_match`, `keys()`, `values()`, `get`,
  `find`, `contains` and `count` of a dictionary, indexing of a `NestedVector`
  and `push_back` of a bare value.
* The bytes `Serializer` copies into a payload; the sizes it makes are in Frame.
* `Socket::peek`, which nothing calls, `throw_errno` and all texts of errors,
  printing, the split of a timeout into seconds.
* Exceptions that are not `std::exception`s, failing allocations. Memory pools
  (`khp`, `m9`): what an object that outlives its thread's pool may do is not
  stated by the repository. kx counters are not atomic, and objects are not
  shared between threads in the models.
* The playground and the tests, which demonstrate and exercise the rest.

## Plan

1. *Done*: Ownership, KxHeap, RefCount, ExportCall, MemoryManager, with their
   proofs.
2. *Done*: TypeTable, KValues, TypeCheck, Elements, Collections; Frame, Buffer,
   Message, Compress, Uncompress, Sockets, MessageChannel, Connection, with
   their proofs.
3. *Done*: ExportCall over RefCount's invariants, `compress`'s cache and its
   reader, and Connection as a channel.
4. *Done*: the proofs about Collections, with `Homogeneous` for applications
   that q hands no lists, and `MessageReadable`. Every safety property that a run
   checks on the models is a theorem.
5. Models: the payload that Serializer writes, byte by byte over Buffer;
   `decompress` and the dictionary's lookups once they compile.
