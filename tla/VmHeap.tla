------------------------------- MODULE VmHeap -------------------------------
(***************************************************************************)
(* The VM's array memory: the bitmap allocator and the collector of        *)
(* adder/vm/vm_heap.c, driven by everything that reaches it -- the array   *)
(* instructions of vm_execute (adder/vm/vm.c), the host functions that     *)
(* build strings and the host that prepares string arguments               *)
(* (adder/xutils/xu_lib.c).                                                *)
(*                                                                         *)
(* The program that runs is arbitrary: any instruction its operands allow  *)
(* may come next.  Four constants say what programs and hosts do:          *)
(*   Lengths      the lengths of the arrays they make                      *)
(*   Nested       whether arrays of arrays occur                           *)
(*   IterTemps    whether an array is iterated over that no variable keeps *)
(*   MaxHostArgs  how many string arguments a host passes to one call      *)
(* Memory is addressed from the start of the heap.  A string is an array   *)
(* of scalars; scalars are numbers, characters and booleans alike.         *)
(***************************************************************************)
EXTENDS Integers, Sequences, FiniteSets

CONSTANTS
  PageBits,     \* bits of one word of gc_marks (64 in the build)
  HeapSize,     \* vm->mem.heap.size: values the heap holds
  StackSize,    \* vm->mem.stack.size; bounds the stack
  Scalars,      \* the values that are no reference
  Lengths, Nested, IterTemps, MaxHostArgs,
  Debug         \* asserts are compiled in (a Debug build)

ASSUME SizesAssumption ==
  /\ PageBits \in Nat \ {0}
  /\ HeapSize \in Nat \ {0}
  /\ StackSize \in Nat \ {0}

ASSUME ProgramAssumption ==
  /\ Scalars \subseteq Nat
  /\ Lengths \subseteq Nat
  /\ Nested \in BOOLEAN
  /\ IterTemps \in BOOLEAN
  /\ MaxHostArgs \in Nat
  /\ Debug \in BOOLEAN

VARIABLES
  marks,    \* the set bits of gc_marks
  cells,    \* the heap's values
  stack,    \* stack values 0 .. top
  args,     \* arguments a host has prepared for its next call
  status    \* "idle", "run", "oom" (-1005 was returned), "aborted", "crashed"

vars == <<marks, cells, stack, args, status>>

-----------------------------------------------------------------------------
(* Values: what a val_t holds, as far as memory is concerned.              *)

Kinds == {"none", "frame", "scalar", "array", "iter"}

Value == [kind : Kinds, at : Nat, len : Nat]

None          == [kind |-> "none",   at |-> 0, len |-> 0]
Frame         == [kind |-> "frame",  at |-> 0, len |-> 0]
Scalar(x)     == [kind |-> "scalar", at |-> x, len |-> 0]
ArrayVal(a, n) == [kind |-> "array", at |-> a, len |-> n]
IterVal(a, n)  == [kind |-> "iter",  at |-> a, len |-> n]

Span(a, n) == a .. (a + n - 1)

Cells    == Span(0, HeapSize)
Pages    == 0 .. (HeapSize \div PageBits)
MarkBits == Span(0, (HeapSize \div PageBits + 1) * PageBits)
Page(p)  == Span(p * PageBits, PageBits)

Elements(s)  == {s[i] : i \in DOMAIN s}
Top          == stack[Len(stack)]
Lower(k)     == SubSeq(stack, 1, Len(stack) - k)
Upper(k)     == SubSeq(stack, Len(stack) - k + 1, Len(stack))

-----------------------------------------------------------------------------
(* The collector.  heap_gc_mark_used looks only at array values and, inside *)
(* an array, at the elements from index 1 on; what it visits is the least   *)
(* set closed under that step.  Reached also serves, with other parameters, *)
(* for what a program can still read.                                       *)

References(mem, roots, kinds) ==
  {v \in roots \union {mem[c] : c \in Cells} : v.kind \in kinds /\ v.len > 0}

Reached(mem, roots, kinds, skip) ==
  LET refs == References(mem, roots, kinds)
      Closed(S) == \A v \in S : \A c \in Span(v.at + skip, v.len - skip) :
                     mem[c] \in refs => mem[c] \in S
  IN  {v \in refs : \A S \in SUBSET refs :
                      (roots \intersect refs \subseteq S /\ Closed(S)) => v \in S}

Extent(refs) == UNION {Span(v.at, v.len) : v \in refs}

\* Mutant: the last cell of each array is not marked (j < length - 1).
GcMarkUsedShort(mem, roots) ==
  UNION {Span(v.at, v.len - 1) : v \in Reached(mem, roots, {"array"}, 1)}

GcMarkUsed(mem, roots) == Extent(Reached(mem, roots, {"array"}, 1))

-----------------------------------------------------------------------------
(* The search for a free run of bits.                                      *)

NoChunk == -1

FirstOf(S) == IF S = {} THEN NoChunk
              ELSE CHOOSE a \in S : \A b \in S : a <= b

\* Mutant: only the first bit of the run is tested.
SmallChunksFirstBit(used, n) ==
  {a \in MarkBits : a % PageBits < PageBits - n /\ a \notin used}

\* Runs of n free bits inside one page; the last alignment is never tried.
SmallChunks(used, n) ==
  {a \in MarkBits : /\ a % PageBits < PageBits - n
                    /\ Span(a, n) \intersect used = {}}

\* Starts of page runs for n >= PageBits.  When exactly the whole pages are
\* free the trailing bits are looked up one page too far, past the end of
\* gc_marks for the last page: junk is what is found there.
LargeChunks(used, n, junk) ==
  LET whole == n \div PageBits
      trail == n % PageBits
      Empty(p) == Page(p) \intersect used = {}
      TrailFits(p) == IF p \in Pages THEN Span(p * PageBits, trail) \intersect used = {}
                                     ELSE trail = 0 \/ junk
      Fits(p) == /\ p + whole \in Pages
                 /\ p = 0 \/ ~Empty(p - 1)
                 /\ \A q \in p .. (p + whole - 1) : Empty(q)
                 /\ Empty(p + whole) \/ TrailFits(p + whole + 1)
  IN  IF n > HeapSize THEN {}
      ELSE {p * PageBits : p \in {q \in Pages : Fits(q)}}

FindFreeChunk(used, n, junk) ==
  FirstOf(IF n < PageBits THEN SmallChunks(used, n) ELSE LargeChunks(used, n, junk))

\* Mutant: the end of the chunk is not compared with the heap's size.
UsableAnywhere(a, n) == a # NoChunk

Usable(a, n) == a # NoChunk /\ a + n < HeapSize

-----------------------------------------------------------------------------
(* heap_array_alloc.                                                       *)

\* Mutant: after a collection the old answer is kept, the search not redone.
PlaceOnce(n, junk) ==
  LET first == FindFreeChunk(marks, n, junk)
      used  == IF Usable(first, n) THEN marks ELSE GcMarkUsed(cells, Elements(stack))
  IN  [used |-> used, at |-> IF Usable(first, n) THEN first ELSE NoChunk]

\* Where an array of n values goes, and the marks after a collection, if any.
Place(n, junk) ==
  LET first  == FindFreeChunk(marks, n, junk)
      used   == IF Usable(first, n) THEN marks ELSE GcMarkUsed(cells, Elements(stack))
      second == IF Usable(first, n) THEN first ELSE FindFreeChunk(used, n, junk)
  IN  [used |-> used, at |-> IF Usable(second, n) THEN second ELSE NoChunk]

\* The whole pages the loop marks: it counts from the chunk's page up to the
\* number of whole pages, so it is complete only for a chunk on page 0.
WholePages(a, n)   == (a \div PageBits) .. (n \div PageBits - 1)
TrailingBits(a, n) == Span(a + (n \div PageBits) * PageBits, n % PageBits)

\* Mutant: the mask of the trailing bits is a bit short.
MarkChunkShort(used, a, n) ==
  used \union (UNION {Page(p) : p \in WholePages(a, n)})
       \union Span(a + (n \div PageBits) * PageBits, (n % PageBits) - 1)

MarkChunk(used, a, n) ==
  used \union (UNION {Page(p) : p \in WholePages(a, n)}) \union TrailingBits(a, n)

AssertsHold(used, a, n) ==
  /\ \A p \in WholePages(a, n) : Page(p) \intersect used = {}
  /\ TrailingBits(a, n) \intersect used = {}

Zeroed(a, n) == [c \in Cells |-> IF c \in Span(a, n) THEN None ELSE cells[c]]

\* The array is placed and holds contents; the marks say so.
Allocate(p, n, contents) ==
  /\ p.at # NoChunk
  /\ Debug => AssertsHold(p.used, p.at, n)
  /\ marks' = MarkChunk(p.used, p.at, n)
  /\ cells' = [c \in Cells |-> IF c \in Span(p.at, n) THEN contents[c - p.at + 1]
                                                      ELSE cells[c]]

\* An assert of heap_array_alloc fails and ends the process.
AssertFails(p, n) ==
  /\ p.at # NoChunk
  /\ Debug /\ ~AssertsHold(p.used, p.at, n)
  /\ marks' = p.used
  /\ status' = "aborted"
  /\ UNCHANGED <<cells, stack, args>>

\* No memory for a native string: array_get_ptr answers NULL, which is written to.
NullWrite(p) ==
  /\ p.at = NoChunk
  /\ marks' = p.used
  /\ status' = "crashed"
  /\ UNCHANGED <<cells, stack, args>>
-----------------------------------------------------------------------------
(* The running program.                                                    *)

Running  == status = "run"
HasRoom  == Len(stack) < StackSize
Operands(k) == Len(stack) > k          \* k operands above the entry frame

Push(v) == stack' = Append(stack, v)

\* OP_PUSH_VALUE
PushValue ==
  /\ Running /\ HasRoom
  /\ \E x \in Scalars : Push(Scalar(x))
  /\ UNCHANGED <<marks, cells, args, status>>

\* OP_LOAD_LOCAL, OP_DUP_1
LoadLocal ==
  /\ Running /\ HasRoom
  /\ \E i \in 2 .. Len(stack) : stack[i].kind # "iter" /\ Push(stack[i])
  /\ UNCHANGED <<marks, cells, args, status>>

\* OP_STORE_LOCAL; an array variable is not reassigned inside a loop unless IterTemps
StoreLocal ==
  /\ Running /\ Operands(2)
  /\ Top.kind # "iter"
  /\ \E i \in 2 .. (Len(stack) - 1) :
       /\ stack[i].kind # "iter"
       /\ \/ IterTemps
          \/ stack[i].kind # "array"
          \/ \A j \in i .. Len(stack) : stack[j].kind # "iter"
       /\ stack' = [Lower(1) EXCEPT ![i] = Top]
  /\ UNCHANGED <<marks, cells, args, status>>

\* OP_POP_1, OP_POP_2, OP_RETURN_NOTHING of an inner call
PopValues ==
  /\ Running /\ Operands(1)
  /\ \E k \in 1 .. (Len(stack) - 1) : stack' = Lower(k)
  /\ UNCHANGED <<marks, cells, args, status>>

\* OP_RETURN_VALUE of an inner call: what lies below the value goes with its frame
ReturnValue ==
  /\ Running /\ Operands(2)
  /\ Top.kind # "iter"
  /\ \E k \in 2 .. (Len(stack) - 1) : stack' = Append(Lower(k), Top)
  /\ UNCHANGED <<marks, cells, args, status>>

\* OP_ARRAY_LENGTH: some number takes the array's place
ArrayLength ==
  /\ Running /\ Operands(1)
  /\ Top.kind = "array"
  /\ \E x \in Scalars : stack' = Append(Lower(1), Scalar(x))
  /\ UNCHANGED <<marks, cells, args, status>>

\* OP_MAKE_ARRAY with the push of its count: the elements stay on the stack,
\* as roots, until the array is filled
MakeArray(n) ==
  /\ Running /\ HasRoom /\ Operands(n)
  /\ \/ \A v \in Elements(Upper(n)) : v.kind = "scalar"
     \/ Nested /\ \A v \in Elements(Upper(n)) : v.kind = "array"
  /\ \E junk \in BOOLEAN :
       LET p == Place(n, junk) IN
       \/ /\ Allocate(p, n, Upper(n))
          /\ stack' = Append(Lower(n), ArrayVal(p.at, n))
          /\ UNCHANGED <<args, status>>
       \/ AssertFails(p, n)
       \/ /\ p.at = NoChunk
          /\ marks' = p.used
          /\ status' = "oom"
          /\ UNCHANGED <<cells, stack, args>>

\* OP_MAKE_ITER: the iterator takes the array's place on the stack
MakeIter ==
  /\ Running /\ Operands(1)
  /\ Top.kind = "array"
  /\ IterTemps \/ \E i \in 2 .. (Len(stack) - 1) : stack[i] = Top
  /\ stack' = Append(Lower(1), IterVal(Top.at, Top.len))
  /\ UNCHANGED <<marks, cells, args, status>>

\* Mutant: an exhausted iterator is not recognised.
IterNextPastEnd ==
  /\ Running /\ Operands(1) /\ HasRoom
  /\ Top.kind = "iter" /\ Top.at \in Cells
  /\ stack' = Lower(1) \o <<IterVal(Top.at + 1, Top.len - 1), cells[Top.at]>>
  /\ UNCHANGED <<marks, cells, args, status>>

\* OP_ITER_NEXT
IterNext ==
  /\ Running /\ Operands(1)
  /\ Top.kind = "iter"
  /\ \/ /\ Top.len = 0
        /\ stack' = Lower(1)
     \/ /\ Top.len > 0 /\ HasRoom
        /\ stack' = Lower(1) \o <<IterVal(Top.at + 1, Top.len - 1), cells[Top.at]>>
  /\ UNCHANGED <<marks, cells, args, status>>

\* OP_CALL_NATIVE of a function like itos: a scalar becomes a string of n scalars
NativeToString(n) ==
  /\ Running /\ Operands(1)
  /\ Top.kind = "scalar"
  /\ \E junk \in BOOLEAN, x \in Scalars :
       LET p == Place(n, junk) IN
       \/ /\ Allocate(p, n, [i \in 1 .. n |-> Scalar(x)])
          /\ stack' = Append(Lower(1), ArrayVal(p.at, n))
          /\ UNCHANGED <<args, status>>
       \/ AssertFails(p, n)
       \/ NullWrite(p)

\* Mutant: the two strings change places.
JoinedSwapped(from, a, b) ==
  [i \in 1 .. a.len + b.len |-> IF i <= b.len THEN from[b.at + i - 1]
                                             ELSE from[a.at + i - b.len - 1]]

\* The cells of two strings, one after the other
Joined(from, a, b) ==
  [i \in 1 .. a.len + b.len |-> IF i <= a.len THEN from[a.at + i - 1]
                                             ELSE from[b.at + i - a.len - 1]]

\* OP_CALL_NATIVE of stradd: both strings are read after the new one is zeroed
NativeAddStrings ==
  /\ Running /\ Operands(2)
  /\ LET a == stack[Len(stack) - 1]
         b == Top
         n == a.len + b.len
     IN  /\ a.kind = "array" /\ b.kind = "array"
         /\ n \in Lengths
         /\ \E junk \in BOOLEAN :
              LET p == Place(n, junk) IN
              \/ /\ Allocate(p, n, Joined(Zeroed(p.at, n), a, b))
                 /\ stack' = Append(Lower(2), ArrayVal(p.at, n))
                 /\ UNCHANGED <<args, status>>
              \/ AssertFails(p, n)
              \/ NullWrite(p)

\* OP_RETURN_* of the entry point: the stack pointer is reset to the entry frame
Finish ==
  /\ Running
  /\ stack' = SubSeq(stack, 1, 1)
  /\ status' = "idle"
  /\ UNCHANGED <<marks, cells, args>>

\* The cycle limit, OP_HALT or a failed validation: the stack stays as it is
GiveUp ==
  /\ Running
  /\ status' = "idle"
  /\ UNCHANGED <<marks, cells, stack, args>>

-----------------------------------------------------------------------------
(* The host.                                                               *)

Idle == status \in {"idle", "oom"}

\* xu_string_to_val, xu_alloc_user_string: a string argument is built on the
\* heap before the call; until then only the host holds it
HostString(n) ==
  /\ Idle
  /\ Len(args) < MaxHostArgs
  /\ \E junk \in BOOLEAN, x \in Scalars :
       LET p == Place(n, junk) IN
       \/ /\ Allocate(p, n, [i \in 1 .. n |-> Scalar(x)])
          /\ args' = Append(args, ArrayVal(p.at, n))
          /\ UNCHANGED <<stack, status>>
       \/ AssertFails(p, n)
       \/ NullWrite(p)

\* vm_execute up to its loop: the stack is cleared, the arguments and the entry
\* frame are put on it, the heap and its marks stay
Execute ==
  /\ Idle
  /\ Len(args) < StackSize
  /\ stack' = <<Frame>> \o args
  /\ args' = <<>>
  /\ status' = "run"
  /\ UNCHANGED <<marks, cells>>

\* vm_create
Init ==
  /\ marks = {}
  /\ cells = [c \in Cells |-> None]
  /\ stack = <<>>
  /\ args = <<>>
  /\ status = "idle"

Next ==
  \/ PushValue \/ LoadLocal \/ StoreLocal \/ PopValues \/ ReturnValue
  \/ ArrayLength \/ MakeIter \/ IterNext
  \/ \E n \in Lengths : MakeArray(n)
  \/ \E n \in Lengths : NativeToString(n)
  \/ NativeAddStrings
  \/ Finish \/ GiveUp
  \/ \E n \in Lengths : HostString(n)
  \/ Execute

Spec == Init /\ [][Next]_vars

-----------------------------------------------------------------------------
(* Properties.                                                             *)

Held == Elements(stack) \union Elements(args)

\* Type invariant of the allocator, the stack and the host's arguments.
TypeOK ==
  /\ marks \subseteq MarkBits
  /\ cells \in [Cells -> Value]
  /\ stack \in Seq(Value) /\ Len(stack) <= StackSize
  /\ args \in Seq(Value) /\ Len(args) <= MaxHostArgs
  /\ status \in {"idle", "run", "oom", "aborted", "crashed"}

\* Every array and iterator, held or stored, lies inside the heap, whatever
\* heap_find_small_chunk and heap_find_large_chunk answer: gc_marks has bits
\* past the heap, and the large search reads a word past gc_marks.
ReferencesInHeap ==
  \A v \in Held \union Elements(cells) :
    v.kind \in {"array", "iter"} => v.at + v.len < HeapSize

Dead == status \in {"aborted", "crashed"}

\* The cells a program or its host can still read: those of the arrays and of
\* the rest of the iterators they hold, and of all arrays found in these.
LiveCells == Extent(Reached(cells, Held, {"array", "iter"}, 0))

\* No cell that can still be read is free for heap_find_free_chunk to hand out
\* (what heap_gc_mark_used's "mark all references" has to establish).
LiveMarked == ~Dead => LiveCells \subseteq marks

\* The language has no operation that changes an array once it is made, so no
\* step of the VM, of a native function or of a collection may change a cell
\* that can still be read (heap_array_alloc zeroes and fills what it returns).
LiveKept == [][\A c \in LiveCells : cells'[c] = cells[c]]_vars

\* A run of n + 1 cells inside one page, below the heap's last cell, all dead.
DeadRun(n) ==
  \E a \in Cells : /\ (a % PageBits) + n < PageBits
                   /\ a + n < HeapSize
                   /\ Span(a, n) \intersect LiveCells = {}

\* OP_MAKE_ARRAY answers -1005 only if no page has room among the dead cells:
\* a collection reclaims everything dead and the search finds what there is.
OomOnlyWhenFull ==
  Running => \A n \in Lengths, junk \in BOOLEAN :
               n < PageBits /\ Place(n, junk).at = NoChunk => ~DeadRun(n)

\* The asserts of heap_array_alloc, "we are not overwriting previous data", hold.
NeverAborts == status # "aborted"
=============================================================================
