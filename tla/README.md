# adder-lang in TLA+

adder-lang is a small C-like language for embedding: a compiler (tokenizer, recursive-descent
parser, bidirectional type checker, code generator) produces bytecode, a stack VM with a mark
collector runs it, and a host program loads classes, injects functions and calls entry points.
This directory models the parts of it whose correctness depends on long sequences of steps,
checks the models with TLC and proves some of their properties with TLAPS. Paths below are
relative to `src/`.

## The system

| part | state | operations | with whom | what makes it correct |
| --- | --- | --- | --- | --- |
| array memory and collector, `adder/vm/vm_heap.c` | mark bits, heap cells | alloc, find small/large chunk, mark, collect, copy | called by array instructions, native functions, the host | what can be read is never reused or changed; memory is not refused without need; nothing leaves the heap |
| interpreter, `adder/vm/vm.c` | stack, frame index, pc, cycles | one per opcode | reads the program, calls host functions, shares memory with the heap | calls do not disturb their callers; returns find the caller; every run ends |
| runtime validation, `adder/vm/vm_validate.h` | last opcode | before and after each instruction | on the interpreter's stack | overflow and ill-typed operands are stopped before they do damage |
| native functions and host values, `adder/xutils/xu_lib.c` | none of their own | itos, stradd, print, string arguments, call strings | allocate on the VM's heap | as the heap's |
| class list and hot reload, `xu_lib.c`, `adder/vm/vm_env.c` | programs, environments, modification times | create, extract, inject, finalize, refresh, cleanup | files, compiler, VM | an extracted caller runs the function it was extracted for; a failed refresh keeps the old class and is retried |
| entry points and types, `adder/shared/sh_program.c`, `sh_ift.c`, `sh_ffi.c` | exports, imports, type tags | lookup by name and type | host, environment | a lookup succeeds exactly for equal types |
| code generator, `adder/compiler/co_compiler.c` | instruction list, local map | one per kind of node | emits what the VM runs | the code does what the source says; the stack's height agrees at joins |
| source maps, `co_srcmap.c` | table with open addressing | insert, lookup, grow, clear | code generator, tokenizer | a key is found as long as it is bound, and has one value |
| type checker, `co_bty.c` | a sorted table per scope | synthesize, check, insert, lookup, clone | parser's trees, arena | what is accepted has the types it says; a scope knows its own names and those around it |
| arena, `adder/shared/sh_arena.c` | chunks that are filled | alloc, realloc, print | all of the compiler | no two objects share memory |
| parser, `co_parser.c` | token position, open definition | one per construct | tokenizer, arena | a text is read as the program it was written for; no token is lost |
| tokenizer, utilities, logging, generated call macros, command line | | | | not modelled |

Nothing in the program runs concurrently; only the files of classes change under it. The hard
behaviours are sequences: a collection in the middle of an expression, a call at the end of the
stack, a host that prepares arguments between two calls, a refresh between extraction and call, a
table that moves while scopes are open; and arithmetic at page, stack, table and heap boundaries.
`PROJECT.json` lists these hazards at their lines.

## Modules

- **VmHeap** models `vm_heap.c` and everything that reaches it. `marks` is the set of set bits of
  `gc_marks`, `cells` the heap, `stack` the values 0..top, `args` the values a host holds before
  its call, `status` what `vm_execute` is doing. `Place` is `heap_array_alloc` up to the decision
  (search, collection, second search), `Allocate` the rest (marks, zeroing, contents). One action
  per instruction that moves references, one per native function that allocates, `HostString`
  and `Execute` for the host. The program is arbitrary: any instruction its operands allow may
  come next. Constants say what programs do (`Lengths`, `Nested`, `IterTemps`, `MaxHostArgs`) and
  whether asserts are compiled in (`Debug`). The word read past the end of `gc_marks` by
  `heap_find_large_chunk` is a nondeterministic `junk`.
- **ArrayStore** is what that memory promises: arrays are values. **VmHeapRefinement** reads
  every reference through the heap and states that VmHeap implements it.
- **VmHeapProofs**: the theorems.
- **VmExec** models `vm_execute` with validation: one action per opcode (arithmetic, comparisons
  and the like are one action each), on the memory the stack lives in with the heap's first cells
  right behind, so that an overflow lands where it does in the program. `PreValid`, `StackValid`
  and `Checked` are `validation_pre_exec`, `validation_check_stack` and the list of opcodes of
  `validation_post_exec`. `outcome` says why execution ended, with the codes the C code returns.
- **Activations** is what the stack promises: every call has variables and operands of its own; a
  call takes arguments from its caller and leaves it its last operand or nothing.
  **VmExecRefinement** cuts the stack at its frames into calls, which go by the cells of their
  frames, and states that VmExec implements it.
- **Discipline** says what bytecode has to keep to for that, since the interpreter itself looks at
  little of it: notes on the instructions as of a bytecode verifier (`Disciplined`), and the
  invariant of an execution that rests on them (`StackInv`). It models no code: the code generator
  keeps to it by construction, which `KeepsDiscipline` in CompiledExec checks.
  **TypedCode** says the same of types: a second note has, for every variable and operand of the running
  function, the types it may have (`Typed`; `LoopsTyped` for loops), and `TypingInv` is the invariant of an
  execution. Its properties are `StronglyTyped` and `LoopsKeepTheirStack`.
  **VmExecProofs**, **VmExecTypingProofs** and **VmExecRefinementProofs** have the theorems.
- **Values** are the values both machine and compiler handle, **Source** the trees the parser
  hands on, one constructor per kind of node.
- **SourceText** writes a tree down as tokens, with only the parentheses it needs; it models no code
  but C's order of operators, which the parser's table has. **Parser** reads tokens: `Parse` is the
  one recursion, its first argument says which `pa_*` function is meant, and the operators behind
  it (`TryIfChain`, `ParseExpression`, ...) are those functions; a result is a node, nothing (try
  the next alternative, the cursor where it was), an error, or an assert that fails. `Combine` and
  `ShouldReorder` are the repair of precedence. The loop over definitions is `Start` and
  `ParseDefinition`. The last token of a text stands for the memory behind the tokens, which
  `pa_peek_token` may read. **SmallSources** has the sources, **MCParser** the texts.
- **Typecheck** models `co_bty.c` for `int`, `bool` and `array<int>`: `TypeOf` is
  `bty_synthesize` on expressions, `Check` on statements with the analysis of which statements
  always, sometimes or never return, `Accepted` is `bty_typecheck`.
- **Codegen** models `co_compiler.c`: one operator per `codegen_*` function takes a node and the
  compiler's state and gives the state it leaves (slots of variables, addresses of functions, pool
  of constants, instructions), backpatching included; `Addresses` and `Write` turn the
  instructions into bytes. An assert that fails, or a reported error, clears `made`.
- **Meaning** is no part of the program but what its answer is compared with: the value of a
  source text by structural recursion, without stack, slots or jumps.
- **CompiledExec** composes Typecheck, Codegen and VmExec: an accepted source is compiled
  (`Compile`), its host functions linked (`vm_env_setup`), and the machine of VmExec runs it. `answer` is
  the type that `main` is declared to answer with, which the bytecode does not have; no action reads it.
  `NotesOf` and `TypesFor` find a program's notes by following its code until nothing changes.
  **MCCompiledExec** takes the sources of SmallSources and the bytecode of **SmallCode**: what the
  compiler makes of the sources quoted there (checked against `adrrun -d`), and some instructions
  it never emits. **MCVmExec** has the two programs of `VmExec_overflow`.
- **SrcMap** models `co_srcmap.c`, one slot at a time. `map` is the table, `new` the one it moves into,
  `request` the call in progress, `phase` where it is: `Grow` allocates, `SkipUnused` and `MoveKey` go
  through the old slots with `at`, `Adopt` swaps the tables; `Store`, `StoreGoesOn`, `Found`,
  `SearchGoesOn`, `NotFound` are the rounds of the probing loops with `probe`. `GrowFails` is a failed
  malloc, `phase` "nested" a growth that would call itself, "abort" a failed assert. The hash function
  is a constant. **SymbolMap** is what such a table promises, **SrcMapRefinement** the mapping,
  **SrcMapProofs** the theorems.
- **Arena** models `sh_arena.c` as operators on a sequence of chunks, in words of eight bytes: `Alloc` is
  `aalloc`, `Moved` what `arealloc` copies, which is more than the object it moves and may overlap its
  target (`Junk`). **TypeContext** models the contexts of `co_bty.c` that lie in it: `contexts` are the
  open scopes, `Enter` is `bty_ctx_clone`, `BeginInsert` to `Bind` are `bty_ctx_insert` (`Grow`: the table
  moves; `Halve`, `Hit`, `Miss`: `bty_ctx_binsearch`; `Bind`: room, name and entry), `BeginLookup` starts
  `bty_ctx_lookup`, `Other` is anything else the compiler allocates, and `Dies` an allocation that fails
  where the code does not look. `objects` remembers what was handed out. **Scopes** is what contexts
  promise, **TypeContextRefinement** the mapping; **TypeContextProofs**
  and **TypeContextScopesProofs** have the theorems.
- **ClassLifecycle** models the class list of `xu_lib.c` with the parts of `co_program.c`,
  `vm_env.c`, `sh_ffi.c` and `sh_program.c` it calls. `classes` holds for every index what the
  arrays of `xu_classlist_t` hold, `file` is the file on disk, `caller` a handle the host has
  extracted. `xu_class_read_and_create` and `xu_refresh_class` are cut wherever they look at the
  file (`ReadSource`, `ReadModtime`, `CreateFromFile`; `RefreshBegin`, `RefreshStat`,
  `RefreshRead`, `RefreshReplace`), because `WriteFile`, `RemoveFile` and `Tick` may come in
  between; `todo` says where the host is. The other operations are one action each. A program is
  its imports, its exports and the addresses its functions begin at. `caller.name`, `caller.told`
  and `finalized` remember what the host asked for and was told; the code keeps neither.
  **MCClassLifecycle** has two programs with different layouts and imports and a text that does
  not compile (a file caught half-written). **ClassLifecycleProofs**: the theorems.
- **EntryPoint** models how a host finds a function: types as the tags of `sh_ift.c`
  (`FuncType` writes them, `FlatSize`, `Arguments`, `ArglistEquals` read them), the lookup of
  `sh_program.c` (`Find`), and the two ways to it in `xu_lib.c`: `Extract` with a type, and
  `CallString`, which reads types and then values from a text like `f("a", 1)` in two passes.
  `exports` is the compiled program, `call` what the host asked, `found` what it was answered,
  `passed` the types of the values it passes. A text is the kinds of its segments.
  **MCEntryPoint** has names and types.

Where the models leave something out: numbers are integers (no `OP_DIV`, no epsilon in comparisons),
instructions are numbered rather than addressed by byte, arrays in VmExec are sequences of numbers (VmHeap
has the memory), Codegen and Typecheck have neither floats and chars nor arrays of anything but numbers,
what is called is a function, `heap_clear`, statistics and logging are absent. ClassLifecycle has no failing
allocations, no user ids, and no empty file that is read again and again; the host's functions do not
refresh classes while a program runs; `xu_quick_run` is left out (but for its lookup and arguments, in
EntryPoint). EntryPoint has no lookup without a type, no type longer than `IFTYPE_MAX_TAGS`, no `void` and
no functions among the arguments, and no text without a parenthesis. Parser has no messages and no
allocation that fails, and what lies behind the last token is one token, however far the code peeks.
SrcMap's keys are names, not places in a text. TypeContext's objects are whole words (the padding of a text
is counted with it), types are values rather than what they point to. A program that takes a number for an
iterator is followed up to that step. Before its first instruction `validation->last_opcode` is taken to be
none; it really is that of the VM's previous execution, which makes no difference since entry points start
with `OP_MAKE_FRAME`.

## Runs

| run | shows |
| --- | --- |
| VmHeap | `TypeOK`, `LiveMarked`, `OomOnlyWhenFull`, `NeverAborts`, `LiveKept`, and VmHeap implements ArrayStore, in flat use: arrays shorter than a mark word, no arrays of arrays, loops only over arrays a variable keeps, at most one string argument per call, with two different scalars so that a wrong cell is seen (209,390 states) |
| VmHeap_bounds | `ReferencesInHeap` for every kind of program |
| CompiledExec | of 5,070 bodies for `main` the 1,267 that are accepted, each on three inputs: they compile (`AcceptedCompiles`), answer what they mean (`ComputesMeaning`), with operands and answer of the right type (`StronglyTyped`), loops keep their stack (`LoopsKeepTheirStack`), the bytes at every address, in code of up to more than 256 bytes, are the instruction generated (`BytecodeAgrees`), and every path through the code, taken or not, keeps to the discipline and has the types that the theorems below ask for (`KeepsDiscipline`). For these and 39 pieces of bytecode the machine keeps `TypeOK`, `FrameIsTopmost`, `CallChain`, enters functions by calls (`EnteredByCall`), `Terminates` and implements Activations (335,586 states) |
| Parser | 10,038 sources, written down, are read back as they were (`RoundTrip`); of 6,322 texts with one token missing, doubled, replaced or added, what is accepted has every token in its place (`NothingLost`) (50,097 states) |
| SrcMap | `TypeOK`; `Findable`: every key is where a search gets to; `HasRoom`: a slot is always left; `GrowsOnce`: growth never calls itself; `Answered`: every call ends; SrcMap implements SymbolMap (582,421 states) |
| TypeContext | `TypeOK`; `Separate`: no two objects of the arena share a word, and every scope has its own table; `Ordered`: tables are sorted; `Returns`: every call ends; TypeContext implements Scopes (568,012 states) |
| ClassLifecycle | `TypeOK`; `EnvMatches`: an environment that is ready is the one of the program that is there now; `CallsRunWhatWasExtracted`: a caller of a ready class runs what it was extracted for until the host is told of a new program; `CatchesUp`: a newer source that compiles and links gets into the class (106,848 states) |
| EntryPoint | `Decodable`: tags give back the types that were written; `FoundByItsOwnType`: a function is found by its name and its parameters' types; `CountsAgree`: as many values are passed as the function takes, through both passes over a call string; `FlatArgumentsFit`: without lists on one side, the values have the declared types except that the first may be in lists (1,697,891 states) |

The other runs are expected to be violated: each shows something the code does against its own
comments, asserts or documentation.

| run | counterexample |
| --- | --- |
| VmHeap_large / `LiveKept` | Release: whole pages of an array not on page 0 stay unmarked and are overwritten |
| VmExec_overflow / `OverflowStops` | a stack of five values: `for (int x in a) {}` writes x over the heap's first cell, which is `a[0]`, and `f([1, 2])` returns `[2, 2]` (the built program does so too, with `-m=10`) |
| Parser_chains / `RoundTrip` | `n - n - n - n` is read as `(n - (n - n)) - n`; the built program answers 9 for `10 - 1 - 1 - 1` |
| EntryPoint_lists / `ArgumentsFit` | `f(int)` is found for an argument of type `array<array<int>>`, and in the same way the built program enters `f(array<int>)` for `f(5)` and `g(char, int)` for `g("a", 4)`: only the last tags are compared |

Others, met on the way, have no run of their own.

In the heap, with changes to the constants of `VmHeap`: with `IterTemps = TRUE`, `LiveMarked` fails:
`for (int x in [1, 2])` frees the array under its iterator once something is collected, since
iterators are no roots (`vm_heap.c:32`; the comment at line 56 says "mark all references from the
stack"). With `Nested = TRUE` it fails, too: an array whose first element is an array loses it, since
marking recurses from index 1 (`vm_heap.c:48`; the comment at line 29 says "mark all references").
With `MaxHostArgs = 2` it fails again: the second string argument's allocation collects the first,
which only the host holds. With the constants of `VmHeap_large` and `Debug = TRUE`, `NeverAborts` fails:
the large search tests the wrong page for the trailing values (`vm_heap.c:145`). The heap's last value
is never used (`vm_heap.c:182` has `>=` for `>`).

In the compiler: `void f(int n) { if (n < 1) { return; } }` gets no return at its end, because the last
instruction is one, and runs on into the next function (`co_compiler.c:463`; `EnteredByCall` and
`KeepsDiscipline` would fail). A call used as a statement leaves its answer where the loop around it looks
for its iterator (`co_compiler.c:489`): with `for (int x in a) { f(x); s = s + x; }` the built program
answers 1 for the sum of `[2, 1]`. A loop whose body always returns counts as always returning
(`co_bty.c:893`), so what follows it is not checked: `for (int x in a) { return x; } return n < 2;` is an
accepted body of an `int` function. `int y = y + 1;` is accepted by the type checker, which knows y before
it checks the value (`co_bty.c:927`), and trips an assert of the code generator. An insertion into a context
that finds no memory is reported as a name "already in use" (`co_bty.c:916`).

In the parser: a prefix operator moves to the innermost left operand of what follows it, into a group if
the expression begins with one, so that `-(1 + 2) * 3` is read as `(-1 + 2) * 3` (`co_parser.c:321`; the
comment at line 330 has "-(a + b)" as what must not happen to); `export` in front of something that is no
function fails an assert (`co_parser.c:925`); a comma behind the last argument is accepted. The sources
of `Parser` have no such operator.

The sources of `CompiledExec` avoid what would run into these: every function that may fall
off its end ends with another statement, calls used as statements answer nothing, no loop's body
always returns, and no variable is used in its declaration.

### Bounds

A mark word of three bits and a heap of six cells give full pages, a page that reaches past the heap
and every alignment of arrays of up to two values at the end of a page and of the heap; collections
happen after a handful of steps. `VmHeap_large` needs pages 0, 1 and a whole-page array on page 1.
`VmHeap_bounds` has lengths 0 (an array that takes no cell) and 3 (more than a page). The stack's size
bounds the number of values held. A stack of 24 values and 400 cycles in `CompiledExec` are more
than any source needs, so `ComputesMeaning` compares every answer; of the bytecode, some recurses
until the stack overflows, some runs out of cycles, some ends. `Byte` is the build's 256. `Behind` is
as many heap cells as a check that comes after the writing may let pass.

The bodies of `SmallSources` put branches, chains of two conditions with and without a last
block, and loops of depth one and two around assignments, declarations, returns and calls
(recursion, a loop that is left early, host functions), with names that are declared in one
block and used in another; those the type checker refuses are dropped by `Accepted` itself. The
inputs make conditions true and false and loops run twice and never. `Answers` has one number in this
run, which makes the reference a function.

The sources of `Parser` are those, all expressions of one and two operators (two between a pair of
parentheses: from three in a row on, `Parser_chains`), statements in statements in statements, and
definitions of every kind. The wrong texts come from one sample that has every construct; behind
the last token lies either of two kinds of token.

`SrcMap` has five names, of which two collide in every table, others in some, in tables that begin with
one slot and grow twice; a search passes the end of the table. `TypeContext` has three names, two of
the same length in either order and a longer one, three open scopes, and tables that begin with one
entry, so that tables grow in outer and inner scopes; a chunk of twelve words makes tables and names
go to new chunks, a table larger than a chunk, and a copy that overlaps its source. `MaxObjects` ends a
behaviour after nine allocations.

`ClassLifecycle` has one class, whose index is used again after a cleanup, and three
different seconds, so that a file can be newer than a class that is newer than another one. With two
classes and two seconds the invariants hold as well (3.3 million states); the theorems hold for
any number.

`CatchesUp` begins when the file is newer than the class, and has to: a write in the second of
the last refresh, or between the reading of a text and of its time when a class is created
(`co_program.c:331`), is never noticed, an import that the host injects after the refresh does not
repeat it, and a time read from a file that has just vanished may be in the future. Callers
extracted before a successful refresh keep the old address while `xu_class_caller_is_valid` accepts them:
`CallsRunWhatWasExtracted` ends with `XU_OK`, after which the host has to extract again.

`EntryPoint` has two names, `int`, `string` and `array<array<int>>`, two functions and up to three
parameters, arguments or segments, of which an entry point takes two (16 in the code): lists before,
behind and between scalars on both sides, wrong numbers of arguments, and too many. Return types
of one tag and of two shift the arguments.

### Fairness

In `CompiledExec` and `VmExec_overflow`, `WF_vars(Next)` is the `while` loop of `vm_execute`:
single-threaded, it executes its next instruction as long as the process runs. Termination then
rests on the cycle counter, not on fairness.

In `ClassLifecycle`, `WF` of the steps within creation and refresh says that calls return (no loop
in them waits for anything). `SF_vars(RefreshBegin(ref))` is an assumption about the host, which is not
in `src/`: it polls, calling `xu_refresh_class` for every class again and again. The interface leaves
it no other way to learn of a change (the function compares times and is called by nothing else), and
`adrrun -k` polls its file in the same manner (`xu_lib.c:311`). It is strong because the host is
busy with other operations in between. Nothing is assumed of the file.

In `SrcMap` and `TypeContext`, `WF_vars(Steps)` says that a call, once begun, goes on: its rounds wait for
nothing. That it ends is shown. Nothing is assumed of the calls themselves.

Deadlock is checked in `ClassLifecycle` and `SrcMap`. It is not in the others: executions of both
machines end (a return, a dead process, a full stack), parsing ends, `EntryPoint` ends with a call, and
`TypeContext` at its bounds or with the process.

## Proofs

All for every value of the constants that the `ASSUME`s allow (positive sizes, `Scalars` and
`Lengths` naturals).

- `VmHeapProofs`: **`TypeCorrect`** (`Spec => []TypeOK`) and **`MemorySafe`** (`Spec
  => []ReferencesInHeap`), for every kind of program, large and nested arrays and both builds included.
  Neither is inductive alone. The invariant `MemInv` says that every value on the stack, in the heap and
  with the host is well-formed and inside the heap, and that a running program's stack has its entry
  frame. A chunk leaves the heap in no case because `Usable` is checked after the last search, whatever
  the searches answer (`PlaceInHeap`); the marked bits exist because a chunk inside the heap has its bits
  in `gc_marks` (`CellsHaveBits`, `GcMarkUsedType`, `MarkChunkType`). `MemInvStep` goes action by action.
  - **`OutOfMemoryMeansFull`** (`[]OomOnlyWhenFull`), as general: the collector follows a part of what a
    program can read (`ReachedMonotone`), so a collection leaves only live cells marked, and the first run
    that fits ends no later than any other that fits (`SearchFinds`).
  - Under `FlatUse` (no arrays of arrays, no loop over a temporary, at most one string argument, arrays
    shorter than a mark word) **`FlatLiveMarked`** (`[]LiveMarked`) and **`FlatLiveKept`** (`LiveKept`).
    The invariant `LiveInv` adds to `MemInv` that the cells of every array on the stack or with the host
    are marked, that every iterator with something left is covered by an array below it on the stack, that
    cells hold no references, and that the host holds nothing while the program runs: then the collector's
    roots are all there is. The counterexamples above show that no condition of `FlatUse` can be dropped.
  - **`SmallNeverAborts`**: arrays shorter than a mark word never trip the asserts.
  - **`HeapImplementsArrayStore`** (`Spec => ImplementsArrayStore`), under `FlatUse`: the whole promise of
    the array memory. `StoreInv` adds to `LiveInv` that the arrays held consist of scalars. What is held
    is live (`HeldLive`), what is live no step changes (`LiveStep`), so what the store sees of a value
    stays as it is wherever the value goes (`HeldKept`), and a new array is seen as its contents
    (`NewArraySeen`), also when these are read out of two strings after its cells were zeroed
    (`PlaceAvoidsLive`). One lemma per action maps it to an operation of the store.

- `ClassLifecycleProofs`: **`ClassTypeCorrect`**, **`EnvironmentsMatch`** and
  **`CallersKeepTheirFunction`**, for every length of the class list, every set of sources and host
  functions. The invariant `Inv` adds `CallerFits` to the properties: the address in a caller that
  the host was told nothing about is where the function begins in the program that is there now, whether
  or not that is ready to run. `InjectKeepsEnv` is why an injection may leave the environment as it is.

- `SrcMapProofs`: **`SrcMapTypeCorrect`**, **`KeysAreFound`** (`[]Findable`), **`RoomIsLeft`**
  (`[]HasRoom`), **`GrowthIsEnough`** (`[]GrowsOnce`) and **`SrcMapImplementsSymbolMap`**
  (`Spec => ImplementsSymbolMap`), for every set of keys, hash function and initial capacity. The invariant
  `Inv` adds two things to the properties. `SearchInv`: what a probing loop has passed are other keys, so
  that a slot where it ends is where later searches for the key end (`PutKeeps`, the lemma about one
  insertion). `MoveInv`: while the map moves, the new table has twice the room the old one needed, and
  holds exactly the slots that were moved, so that its count is their number and the next insertion
  needs no growth (`RoomToMove`). For the refinement, only the steps that answer change what is bound, and
  `Adopt` changes the table but not what it binds.

- `TypeContextProofs`: **`TypeCorrect`** and **`ObjectsSeparate`**, for all sizes of
  chunks, tables, names and other objects, and without bounds on their numbers. `AllocType` is the
  lemma about the arena: an allocation begins behind everything in use in its chunk, or in a chunk of
  its own, and changes no word in use. `Inv` says that all objects lie in what is in use, pairwise
  apart, that the tables of scopes are among them, and what each phase of a call expects (`CallOK`: a
  search stays in its table, an insertion that is past its growth has room). A table that moves or is
  copied takes a fresh object (`ContextOn`); whatever is written stays in chunks of the same sizes
  (`WrittenSizes`, `MovedSizes`, `EntrySizes`), though `arealloc` copies more than the table.

- `TypeContextScopesProofs`: **`EntriesOrdered`** (`[]Ordered`), as general. Entries hold pointers, so
  that sorted names need more than sorted tables: `FullInv` adds to `Inv` that the name of every entry
  lies in an object that is no table (`Named`), and that what a search has passed is smaller, or larger,
  than its name (`Narrowed`), which makes the place where it ends the right one. Every step either keeps
  the words of all objects in use (`Keeps`: `WriteFresh`, `CopySame`, `KeptContext`) or is the
  insertion, which writes its own table and a new string only (`Inserted`, `EntriesMove`, `OrderKept`).
  **`ContextsImplementScopes`** (`Spec => ImplementsScopes`), the whole
  promise: sorted entries have different names (`OrderedDistinct`), so that a table says one type of
  each; only an insertion changes what is said, and only of its name in its scope (`KnownExtended`); and
  a search that ends without its name has passed all names (`MissedName`).

- `VmExecProofs`: **`DisciplinedTypeCorrect`** (`[]TypeOK`), **`DisciplinedFrameTopmost`**
  (`[]FrameIsTopmost`), **`DisciplinedCallChain`** (`[]CallChain`) and **`DisciplinedEntered`**
  (`[]EnteredByCall`), for every size of the stack, every number of cycles, every host function and
  every program that has notes: each theorem has the hypothesis `Disciplined(program, d)`, for any d.
  Without one they are false, since the interpreter executes whatever it finds: `OP_POP` may take the
  frame away, `OP_CALL` may lead anywhere. That what the compiler makes has notes is what
  `KeepsDiscipline` checks, for every program of the run; only instructions that can be reached need any.
  The invariant `StackInv` (**`StackKept`**) is the picture one has of the stack: the frames are those of
  calls that wait for one another (`Chain`), each for the one made on top of it, with as many operands
  left as the note behind its call promises (`Resumes`); the running function has its variables and
  what its note promises (`Inside`), or has been called and has the address to return to on top
  (`Entering`). It needs no more: how high the stack is, what values are and where the caller's caller
  goes on all follow. Frames are found again by scanning for their type, so no other value may have it
  (`FrameBelowFinds`, `NoFrames`). Since most instructions are checked only after they have written, and
  some not at all, a note also bounds how far the stack may reach over its end (`high`): `Behind`, the
  cells that are followed, has to cover a function's locals, which is the least a check behind
  `OP_MAKE_FRAME` lets pass. `OrdinaryStep` is the lemma for all instructions that stay in their
  function; `CallStep`, `MakeFrameStep` and `ReturnsStep` are the others.
- `VmExecTypingProofs`: **`TypedStronglyTyped`** (`[]StronglyTyped`) and **`TypedLoops`**
  (`[]LoopsKeepTheirStack`), for every size of the stack, every number of cycles, every host function and
  every program that has notes of both kinds: each theorem has the hypotheses `Disciplined(program, d)`,
  `Typed(program, d, t)` and `CountsFit(program)`, the second also `LoopsTyped(program, d, t)`, for any d
  and t. `KeepsDiscipline` checks all four for everything compiled in the run. Strong typing is worth a
  theorem because the interpreter depends on it: `validation_pre_exec` looks at the operands of some
  instructions, while `OP_ITER_NEXT`, `OP_ARRAY_LENGTH` and `OP_MAKE_ARRAY` take what they find for an
  iterator, an array, a number. For such programs `"invalid"` means that the stack overflowed, and nothing
  else. Neither property is inductive. An operand may have been put there by any instruction before, or by a
  function whose caller's variables lay out of sight meanwhile, so the invariant `TypingInv`
  (**`TypingKept`**) has three more parts beside `StackInv`. `InsideTyped`: every cell of the running call
  is as its note says, and there are no others, which fixes how high the stack is where `StackInv` has
  bounds. `EnteringTyped`: between `OP_CALL` and `OP_MAKE_FRAME` the arguments are those the function's
  first note expects, and what lies below them is what the caller will find. `CallersTyped`: the same of
  every call that waits, once the result, of a type that some return of the function called may leave
  (`LeftBy`), is put on top (`Holds`). `WorkStep` is the lemma for instructions that stay in their function,
  each of which then has to show only what it puts in the place of its operands; `CallTyped`,
  `MakeFrameTyped` (the arguments move up over the address) and `ReturnsTyped` are the others, and
  `OutermostTyped` is about the answer. `TypedLoops` follows from the invariant: the notes say that at an
  `OP_ITER_NEXT` only iterators lie over the variables.
- `VmExecRefinementProofs`: **`DisciplinedImplements`** (`Spec => ImplementsActivations`), the promise
  of the call stack, for disciplined programs whose frames' counts fit their bytes (`CountsFit`; without
  it a function loses some of its variables, `vm.c:370`). The steps fall in four: most write above the
  current frame and leave all below it (`BelowKept`, `WorkMaps`), so the other calls' cells are the same
  ones (`CallersKept`); `OP_MAKE_FRAME` shifts the arguments over the popped address and cuts them off the
  caller (`Framing`, `EnterMaps`); returns cut the stack at the frame and put at most one value on it
  (`Returning`, `LeaveMaps`); and a program that ends has no calls (`StopMaps`).

### Only model-checked

- `CatchesUp`, `Answered`, `Returns` and `Terminates`: liveness is out of this prover's reach.
- `AcceptedCompiles`, `ComputesMeaning`, `BytecodeAgrees`, `RoundTrip`, `NothingLost` and the invariants of
  EntryPoint: Parser, Codegen, Typecheck and Meaning follow trees with recursive operators, EntryPoint
  follows tags, and what a recursive definition computes for every input needs induction over data, which is
  out of the prover's reach as well.
- `KeepsDiscipline`, for the same reason. So the theorems about the interpreter hold for all bytecode with
  notes; that the compiler's has them is checked on the sources of the run, on every path through their
  code.
- The runs that expect a violation have nothing to prove.

## Plan

Done: the heap and its theorems; the interpreter; the compiler from tokens to bytecode, composed with
the interpreter; the class list and its theorems; entry points; source maps with their refinement
proved; the arena and the type checker's contexts with theirs; the interpreter's call stack, its
refinement and its strong typing, for bytecode with notes.

What could come next: types of elements in the notes, with arrays of more than numbers in VmExec; the
code generator's local invariants (slots and jump targets) as theorems about single nodes, whose children
are assumed to keep them.

## Not modelled

Of 53,199 lines of C, 42,654 are `xu_invoke.h` and `xu_invoke.c`, written by `generate-helpers.py`: the
same few calls for every combination of argument types; VmHeap has what they do to the heap. Some
10,300 lines are written by hand. Of these are left out: the tokenizer (a function of characters
without state between calls), messages and their places in the text (`co_trace.c`), printing of trees,
types and bytecode, logging, string utilities, the command line and the test runner. What the parser
and the type checker do with failing allocations is left out as well, except in TypeContext: most
results of `aalloc` are used unchecked, and the process ends.
