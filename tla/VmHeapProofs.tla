---------------------------- MODULE VmHeapProofs ----------------------------
(***************************************************************************)
(* Theorems about VmHeap, for every value of its constants unless a        *)
(* theorem says otherwise.                                                 *)
(***************************************************************************)
EXTENDS VmHeapRefinement, TLAPS, WellFoundedInduction

-----------------------------------------------------------------------------
(* Arithmetic and order.                                                   *)

LEMMA DivMod ==
  ASSUME NEW b \in Nat \ {0}, NEW n \in Nat
  PROVE  /\ n \div b \in Nat
         /\ n % b \in 0 .. (b - 1)
         /\ n = (b * (n \div b)) + (n % b)
  OBVIOUS

LEMMA DivModSmall ==
  ASSUME NEW b \in Nat \ {0}, NEW n \in Nat, n < b
  PROVE  n \div b = 0 /\ n % b = n
  OBVIOUS

\* A product is monotonic: page numbers below a bound address bits below it.
LEMMA TimesMonotonic ==
  ASSUME NEW b \in Nat, NEW p \in Nat, NEW q \in Nat, p <= q
  PROVE  p * b \in Nat /\ q * b \in Nat /\ p * b <= q * b
  OBVIOUS

LEMMA DivMonotonic ==
  ASSUME NEW b \in Nat \ {0}, NEW m \in Nat, NEW n \in Nat, m <= n
  PROVE  m \div b <= n \div b
  OBVIOUS

LEMMA SpanWithin ==
  ASSUME NEW a \in Nat, NEW n \in Nat, NEW limit \in Nat, a + n <= limit
  PROVE  Span(a, n) \subseteq Span(0, limit)
  BY DEF Span

Descent == {pair \in Nat \X Nat : pair[1] < pair[2]}

\* FirstOf chooses among smallest elements, which exist.
LEMMA LeastElement ==
  \A S \in SUBSET Nat : S # {} => \E a \in S : \A b \in S : a <= b
<1> SUFFICES ASSUME NEW S \in SUBSET Nat, S # {}
             PROVE  \E a \in S : \A b \in S : a <= b
  OBVIOUS
<1>1. IsWellFoundedOn(Descent, Nat)
  BY Zenon, NatLessThanWellFounded DEF OpToRel, Descent
<1>2. PICK a \in S : \A b \in S : <<b, a>> \notin Descent
  BY <1>1, WFMin, Zenon
<1>3. ASSUME NEW b \in S PROVE a <= b
  <2>1. a \in Nat /\ b \in Nat
    OBVIOUS
  <2>2. b < a => <<b, a>> \in Descent
    BY <2>1 DEF Descent
  <2> QED BY <2>1, <2>2, <1>2
<1> QED BY <1>3

\* FirstOf answers a member of the set, unless there is none.
LEMMA FirstOfMember ==
  ASSUME NEW S \in SUBSET Nat
  PROVE  FirstOf(S) = NoChunk \/ FirstOf(S) \in S
<1>1. CASE S = {}
  BY <1>1 DEF FirstOf
<1>2. CASE S # {}
  <2>1. \E a \in S : \A b \in S : a <= b
    BY <1>2, LeastElement
  <2> QED BY <2>1, <1>2 DEF FirstOf
<1> QED BY <1>1, <1>2

-----------------------------------------------------------------------------
(* Memory safety: every value is typed and refers to cells of the heap.    *)

InHeap == {v \in Value : v.kind \in {"array", "iter"} => v.at + v.len < HeapSize}

\* The inductive invariant of the first part.  TypeOK alone is not inductive:
\* OP_ITER_NEXT and stradd read the cells that their operands refer to, and
\* a running program has its entry frame.
MemInv ==
  /\ marks \subseteq MarkBits
  /\ cells \in [Cells -> InHeap]
  /\ stack \in Seq(InHeap) /\ Len(stack) <= StackSize
  /\ status = "run" => Len(stack) > 0
  /\ args \in Seq(InHeap) /\ Len(args) <= MaxHostArgs
  /\ status \in {"idle", "run", "oom", "aborted", "crashed"}

\* The bits of gc_marks reach past the heap.
LEMMA CellsHaveBits == Cells \subseteq MarkBits
<1>1. HeapSize = (PageBits * (HeapSize \div PageBits)) + (HeapSize % PageBits)
      /\ HeapSize \div PageBits \in Nat /\ HeapSize % PageBits \in 0 .. (PageBits - 1)
  BY DivMod, SizesAssumption
<1>2. PageBits \in Nat /\ HeapSize \in Nat
  BY SizesAssumption
<1>3. (HeapSize \div PageBits + 1) * PageBits = (PageBits * (HeapSize \div PageBits)) + PageBits
  BY <1>1, <1>2
<1> QED BY <1>1, <1>2, <1>3 DEF Cells, MarkBits, Span

\* Whatever the search answers is an address.
LEMMA FindFreeChunkType ==
  ASSUME NEW used, NEW n \in Nat, NEW junk \in BOOLEAN
  PROVE  FindFreeChunk(used, n, junk) = NoChunk \/ FindFreeChunk(used, n, junk) \in Nat
<1>1. MarkBits \subseteq Nat /\ Pages \subseteq Nat /\ PageBits \in Nat
  BY SizesAssumption DEF MarkBits, Span, Pages
<1>2. SmallChunks(used, n) \in SUBSET Nat
  BY <1>1 DEF SmallChunks
<1>3. \A p \in Pages : p * PageBits \in Nat
  BY <1>1
<1>4. LargeChunks(used, n, junk) \in SUBSET Nat
  BY <1>3 DEF LargeChunks
<1> QED BY <1>2, <1>4, FirstOfMember DEF FindFreeChunk

\* A collection marks cells only.
LEMMA GcMarkUsedType ==
  ASSUME MemInv
  PROVE  GcMarkUsed(cells, Elements(stack)) \subseteq MarkBits
<1> DEFINE refs == References(cells, Elements(stack), {"array"})
<1>1. \A v \in refs : v \in InHeap /\ v.kind = "array"
  BY DEF MemInv, References, Elements
<1>2. \A v \in refs : Span(v.at, v.len) \subseteq Cells
  BY <1>1, SizesAssumption DEF InHeap, Value, Span, Cells
<1>3. Reached(cells, Elements(stack), {"array"}, 1) \subseteq refs
  BY DEF Reached
<1> QED BY <1>2, <1>3, CellsHaveBits DEF GcMarkUsed, Extent

\* What heap_array_alloc decides on ends below the heap's size.
LEMMA PlaceInHeap ==
  ASSUME MemInv, NEW n \in Nat, NEW junk \in BOOLEAN
  PROVE  /\ Place(n, junk).used \subseteq MarkBits
         /\ \/ Place(n, junk).at = NoChunk
            \/ Place(n, junk).at \in Nat /\ Place(n, junk).at + n < HeapSize
<1>1. \A used : FindFreeChunk(used, n, junk) = NoChunk \/ FindFreeChunk(used, n, junk) \in Nat
  BY FindFreeChunkType
<1>2. marks \subseteq MarkBits /\ GcMarkUsed(cells, Elements(stack)) \subseteq MarkBits
  BY GcMarkUsedType DEF MemInv
<1>3. Place(n, junk).used \subseteq MarkBits
  BY <1>2 DEF Place
<1>4. \/ Place(n, junk).at = NoChunk
      \/ \E used : Place(n, junk).at = FindFreeChunk(used, n, junk) /\ Usable(Place(n, junk).at, n)
  BY DEF Place
<1> QED BY <1>1, <1>3, <1>4 DEF Usable

\* The bits marked for a chunk of the heap are bits of gc_marks.
LEMMA MarkChunkType ==
  ASSUME NEW used \in SUBSET MarkBits, NEW a \in Nat, NEW n \in Nat, a + n < HeapSize
  PROVE  MarkChunk(used, a, n) \subseteq MarkBits
<1> DEFINE whole == n \div PageBits
           last  == HeapSize \div PageBits
<1>1. PageBits \in Nat \ {0} /\ HeapSize \in Nat
  BY SizesAssumption
<1>2. /\ whole \in Nat /\ n % PageBits \in 0 .. (PageBits - 1)
      /\ n = (PageBits * whole) + (n % PageBits)
  BY <1>1, DivMod
<1>3. /\ last \in Nat /\ HeapSize % PageBits \in 0 .. (PageBits - 1)
      /\ HeapSize = (PageBits * last) + (HeapSize % PageBits)
  BY <1>1, DivMod
<1>4. whole <= last
  BY <1>1, DivMonotonic
<1>5. TrailingBits(a, n) \subseteq MarkBits
  <2>1. TrailingBits(a, n) \subseteq Cells
    <3> DEFINE from == a + (whole * PageBits)
    <3>1. from \in Nat /\ from + (n % PageBits) = a + n
      BY <1>1, <1>2
    <3> HIDE DEF from
    <3>2. Span(from, n % PageBits) \subseteq Span(0, HeapSize)
      BY <1>1, <1>2, <3>1, SpanWithin
    <3> USE DEF from
    <3> QED BY <3>2 DEF TrailingBits, Cells
  <2> QED BY <2>1, CellsHaveBits
<1>6. ASSUME NEW p \in WholePages(a, n) PROVE Page(p) \subseteq MarkBits
  <2>1. p \in Nat /\ p + 1 <= whole
    <3>1. a \div PageBits \in Nat
      BY <1>1, DivMod
    <3> QED BY <1>2, <3>1 DEF WholePages
  <2>2. p * PageBits \in Nat /\ (p * PageBits) + PageBits = (p + 1) * PageBits
    BY <1>1, <2>1
  <2>3. (p + 1) * PageBits <= (last + 1) * PageBits /\ (last + 1) * PageBits \in Nat
    BY <1>1, <1>2, <1>3, <1>4, <2>1, TimesMonotonic
  <2> QED BY <1>1, <2>2, <2>3 DEF Page, Span, MarkBits
<1> QED BY <1>5, <1>6 DEF MarkChunk

\* The values a step makes from nothing refer to nothing.
LEMMA PlainInHeap ==
  None \in InHeap /\ Frame \in InHeap /\ \A x \in Scalars : Scalar(x) \in InHeap
BY ProgramAssumption DEF InHeap, Value, Kinds, None, Frame, Scalar

\* heap_array_alloc, with contents from the heap, keeps the invariant's first half.
LEMMA AllocateInHeap ==
  ASSUME MemInv, NEW n \in Nat, NEW junk \in BOOLEAN, NEW contents \in [1 .. n -> InHeap],
         Allocate(Place(n, junk), n, contents)
  PROVE  /\ marks' \subseteq MarkBits
         /\ cells' \in [Cells -> InHeap]
         /\ ArrayVal(Place(n, junk).at, n) \in InHeap
<1> DEFINE a == Place(n, junk).at
<1>1. a \in Nat /\ a + n < HeapSize /\ Place(n, junk).used \subseteq MarkBits
  BY PlaceInHeap DEF Allocate
<1>2. marks' \subseteq MarkBits
  BY <1>1, MarkChunkType DEF Allocate
<1>3. \A c \in Cells : c \in Span(a, n) => contents[c - a + 1] \in InHeap
  BY <1>1, SizesAssumption DEF Span, Cells
<1>4. cells' \in [Cells -> InHeap]
  BY <1>3 DEF Allocate, MemInv
<1>5. ArrayVal(a, n) \in InHeap
  BY <1>1 DEF InHeap, Value, Kinds, ArrayVal
<1> QED BY <1>2, <1>4, <1>5

\* An allocation that fails leaves the marks of the collection behind.
LEMMA FailureInHeap ==
  ASSUME MemInv, NEW n \in Nat, NEW junk \in BOOLEAN
  PROVE  /\ AssertFails(Place(n, junk), n) => MemInv'
         /\ NullWrite(Place(n, junk)) => MemInv'
<1>1. Place(n, junk).used \subseteq MarkBits
  BY PlaceInHeap
<1> QED BY <1>1 DEF AssertFails, NullWrite, MemInv

\* Parts of the stack.
LEMMA StackParts ==
  ASSUME MemInv, NEW k \in Nat, k <= Len(stack)
  PROVE  /\ Lower(k) \in Seq(InHeap) /\ Len(Lower(k)) = Len(stack) - k
         /\ \A i \in 1 .. Len(Lower(k)) : Lower(k)[i] = stack[i]
         /\ Upper(k) \in [1 .. k -> InHeap]
         /\ \A i \in 1 .. k : Upper(k)[i] = stack[Len(stack) - k + i]
<1>1. stack \in Seq(InHeap) /\ Len(stack) \in Nat
  BY DEF MemInv
<1>2. /\ Lower(k) \in Seq(InHeap) /\ Len(Lower(k)) = Len(stack) - k
      /\ \A i \in 1 .. Len(Lower(k)) : Lower(k)[i] = stack[i]
  BY <1>1 DEF Lower
<1>3. /\ Upper(k) \in Seq(InHeap) /\ Len(Upper(k)) = k
      /\ \A i \in 1 .. k : Upper(k)[i] = stack[Len(stack) - k + i]
  BY <1>1 DEF Upper
<1>4. Upper(k) \in [1 .. k -> InHeap]
  BY <1>3
<1> QED BY <1>2, <1>3, <1>4

LEMMA TopInHeap ==
  ASSUME MemInv, Len(stack) > 0
  PROVE  Top \in InHeap
BY DEF MemInv, Top

\* Every step keeps every reference inside the heap.
LEMMA MemInvStep == MemInv /\ [Next]_vars => MemInv'
<1> SUFFICES ASSUME MemInv, [Next]_vars PROVE MemInv'
  OBVIOUS
<1>1. CASE PushValue
  BY <1>1, PlainInHeap, SizesAssumption DEF PushValue, Push, HasRoom, MemInv
<1>2. CASE LoadLocal
  BY <1>2, SizesAssumption DEF LoadLocal, Push, HasRoom, MemInv
<1>3. CASE StoreLocal
  <2>1. PICK i \in 2 .. (Len(stack) - 1) : stack' = [Lower(1) EXCEPT ![i] = Top]
    BY <1>3 DEF StoreLocal
  <2>2. Lower(1) \in Seq(InHeap) /\ Len(Lower(1)) = Len(stack) - 1 /\ Top \in InHeap
    <3>1. Len(stack) > 2
      BY <1>3 DEF StoreLocal, Operands
    <3> QED BY <3>1, StackParts, TopInHeap DEF MemInv
  <2>3. stack' \in Seq(InHeap) /\ Len(stack') = Len(stack) - 1
    BY <2>1, <2>2
  <2> QED BY <1>3, <2>3, SizesAssumption DEF StoreLocal, MemInv
<1>4. CASE PopValues
  <2>1. PICK k \in 1 .. (Len(stack) - 1) : stack' = Lower(k)
    BY <1>4 DEF PopValues
  <2> QED BY <1>4, <2>1, StackParts, SizesAssumption DEF PopValues, MemInv
<1>5. CASE ReturnValue
  <2>1. PICK k \in 2 .. (Len(stack) - 1) : stack' = Append(Lower(k), Top)
    BY <1>5 DEF ReturnValue
  <2>2. Lower(k) \in Seq(InHeap) /\ Len(Lower(k)) = Len(stack) - k /\ Top \in InHeap
    <3>1. k \in Nat /\ k <= Len(stack) /\ Len(stack) > 0
      BY <2>1 DEF MemInv
    <3> QED BY <3>1, StackParts, TopInHeap
  <2> QED BY <1>5, <2>1, <2>2, SizesAssumption DEF ReturnValue, MemInv
<1>6. CASE ArrayLength
  <2>1. PICK x \in Scalars : stack' = Append(Lower(1), Scalar(x))
    BY <1>6 DEF ArrayLength
  <2>2. Lower(1) \in Seq(InHeap) /\ Len(Lower(1)) = Len(stack) - 1
    BY <1>6, StackParts, SizesAssumption DEF ArrayLength, Operands, MemInv
  <2> QED BY <1>6, <2>1, <2>2, PlainInHeap, SizesAssumption DEF ArrayLength, MemInv
<1>7. CASE MakeIter
  <2>1. Lower(1) \in Seq(InHeap) /\ Len(Lower(1)) = Len(stack) - 1 /\ Top \in InHeap
    <3>1. Len(stack) > 1
      BY <1>7 DEF MakeIter, Operands
    <3> QED BY <3>1, StackParts, TopInHeap DEF MemInv
  <2>2. IterVal(Top.at, Top.len) \in InHeap
    BY <1>7, <2>1 DEF MakeIter, InHeap, Value, Kinds, IterVal
  <2> QED BY <1>7, <2>1, <2>2, SizesAssumption DEF MakeIter, MemInv
<1>8. CASE IterNext
  <2>1. Lower(1) \in Seq(InHeap) /\ Len(Lower(1)) = Len(stack) - 1 /\ Top \in InHeap
    <3>1. Len(stack) > 1
      BY <1>8 DEF IterNext, Operands
    <3> QED BY <3>1, StackParts, TopInHeap DEF MemInv
  <2>2. CASE Top.len = 0 /\ stack' = Lower(1)
    <3>1. Len(stack') > 0 /\ Len(stack') <= StackSize
      BY <1>8, <2>1, <2>2, SizesAssumption DEF IterNext, Operands, MemInv
    <3> QED BY <1>8, <2>1, <2>2, <3>1 DEF IterNext, MemInv
  <2>3. CASE /\ Top.len > 0 /\ HasRoom
             /\ stack' = Lower(1) \o <<IterVal(Top.at + 1, Top.len - 1), cells[Top.at]>>
    <3>1. Top.at \in Cells
      BY <1>8, <2>1, <2>3, SizesAssumption DEF IterNext, InHeap, Value, Cells, Span
    <3>2. cells[Top.at] \in InHeap
      BY <3>1, SizesAssumption DEF MemInv
    <3>3. IterVal(Top.at + 1, Top.len - 1) \in InHeap
      BY <1>8, <2>1, <2>3 DEF IterNext, InHeap, Value, Kinds, IterVal
    <3> QED BY <1>8, <2>1, <2>3, <3>2, <3>3, SizesAssumption DEF IterNext, HasRoom, MemInv
  <2> QED BY <1>8, <2>2, <2>3 DEF IterNext
<1>9. ASSUME NEW n \in Lengths, MakeArray(n) PROVE MemInv'
  <2>1. n \in Nat
    BY ProgramAssumption
  <2>2. PICK junk \in BOOLEAN :
          \/ /\ Allocate(Place(n, junk), n, Upper(n))
             /\ stack' = Append(Lower(n), ArrayVal(Place(n, junk).at, n))
             /\ UNCHANGED <<args, status>>
          \/ AssertFails(Place(n, junk), n)
          \/ /\ Place(n, junk).at = NoChunk
             /\ marks' = Place(n, junk).used
             /\ status' = "oom"
             /\ UNCHANGED <<cells, stack, args>>
    BY <1>9 DEF MakeArray
  <2>3. /\ Lower(n) \in Seq(InHeap) /\ Len(Lower(n)) = Len(stack) - n
        /\ Upper(n) \in [1 .. n -> InHeap]
    <3>1. n <= Len(stack)
      BY <1>9, <2>1 DEF MakeArray, Operands, MemInv
    <3> QED BY <2>1, <3>1, StackParts
  <2>4. CASE /\ Allocate(Place(n, junk), n, Upper(n))
             /\ stack' = Append(Lower(n), ArrayVal(Place(n, junk).at, n))
             /\ UNCHANGED <<args, status>>
    <3>1. marks' \subseteq MarkBits /\ cells' \in [Cells -> InHeap]
          /\ ArrayVal(Place(n, junk).at, n) \in InHeap
      BY <2>1, <2>3, <2>4, AllocateInHeap
    <3> QED BY <1>9, <2>1, <2>3, <2>4, <3>1, SizesAssumption DEF MakeArray, HasRoom, MemInv
  <2>5. CASE AssertFails(Place(n, junk), n)
    BY <2>1, <2>5, FailureInHeap
  <2>6. CASE /\ Place(n, junk).at = NoChunk
             /\ marks' = Place(n, junk).used
             /\ status' = "oom"
             /\ UNCHANGED <<cells, stack, args>>
    BY <2>1, <2>6, PlaceInHeap, SizesAssumption DEF MemInv
  <2> QED BY <2>2, <2>4, <2>5, <2>6
<1>10. ASSUME NEW n \in Lengths, NativeToString(n) PROVE MemInv'
  <2>1. n \in Nat
    BY ProgramAssumption
  <2>2. PICK junk \in BOOLEAN, x \in Scalars :
          \/ /\ Allocate(Place(n, junk), n, [i \in 1 .. n |-> Scalar(x)])
             /\ stack' = Append(Lower(1), ArrayVal(Place(n, junk).at, n))
             /\ UNCHANGED <<args, status>>
          \/ AssertFails(Place(n, junk), n)
          \/ NullWrite(Place(n, junk))
    BY <1>10 DEF NativeToString
  <2>3. CASE /\ Allocate(Place(n, junk), n, [i \in 1 .. n |-> Scalar(x)])
             /\ stack' = Append(Lower(1), ArrayVal(Place(n, junk).at, n))
             /\ UNCHANGED <<args, status>>
    <3>1. Lower(1) \in Seq(InHeap) /\ Len(Lower(1)) = Len(stack) - 1
      BY <1>10, StackParts, SizesAssumption DEF NativeToString, Operands, MemInv
    <3>2. [i \in 1 .. n |-> Scalar(x)] \in [1 .. n -> InHeap]
      BY PlainInHeap
    <3>3. marks' \subseteq MarkBits /\ cells' \in [Cells -> InHeap]
          /\ ArrayVal(Place(n, junk).at, n) \in InHeap
      BY <2>1, <2>3, <3>2, AllocateInHeap
    <3> QED BY <2>3, <3>1, <3>3, SizesAssumption DEF MemInv
  <2> QED BY <2>1, <2>2, <2>3, FailureInHeap
<1>11. CASE NativeAddStrings
  <2> DEFINE a == stack[Len(stack) - 1]
             b == Top
             n == a.len + b.len
  <2>1. /\ a \in InHeap /\ a.kind = "array" /\ a.at \in Nat /\ a.len \in Nat
        /\ b \in InHeap /\ b.kind = "array" /\ b.at \in Nat /\ b.len \in Nat
        /\ n \in Nat
    <3>1. /\ Len(stack) > 2 /\ a.kind = "array" /\ b.kind = "array"
      BY <1>11 DEF NativeAddStrings, Operands
    <3>2. stack \in Seq(InHeap)
      BY DEF MemInv
    <3>3. Len(stack) \in DOMAIN stack /\ Len(stack) - 1 \in DOMAIN stack
      BY <3>1, <3>2
    <3>4. a \in InHeap /\ b \in InHeap
      BY <3>2, <3>3 DEF Top
    <3>5. a.at \in Nat /\ a.len \in Nat /\ b.at \in Nat /\ b.len \in Nat
      BY <3>4 DEF InHeap, Value
    <3> QED BY <3>1, <3>4, <3>5
  <2>2. PICK junk \in BOOLEAN :
          \/ /\ Allocate(Place(n, junk), n, Joined(Zeroed(Place(n, junk).at, n), a, b))
             /\ stack' = Append(Lower(2), ArrayVal(Place(n, junk).at, n))
             /\ UNCHANGED <<args, status>>
          \/ AssertFails(Place(n, junk), n)
          \/ NullWrite(Place(n, junk))
    BY <1>11 DEF NativeAddStrings
  <2>3. CASE /\ Allocate(Place(n, junk), n, Joined(Zeroed(Place(n, junk).at, n), a, b))
             /\ stack' = Append(Lower(2), ArrayVal(Place(n, junk).at, n))
             /\ UNCHANGED <<args, status>>
    <3> DEFINE from == Zeroed(Place(n, junk).at, n)
    <3>1. Lower(2) \in Seq(InHeap) /\ Len(Lower(2)) = Len(stack) - 2
      BY <1>11, StackParts, SizesAssumption DEF NativeAddStrings, Operands, MemInv
    <3>2. from \in [Cells -> InHeap]
      BY PlainInHeap, SizesAssumption DEF Zeroed, MemInv
    <3> HIDE DEF from
    <3>3. ASSUME NEW v \in InHeap, v.kind = "array", NEW k \in 1 .. v.len
          PROVE  v.at + k - 1 \in Cells
      BY <3>3, SizesAssumption DEF InHeap, Value, Cells, Span
    <3>4. \A i \in 1 .. n : i <= a.len => from[a.at + i - 1] \in InHeap
      BY <2>1, <3>2, <3>3
    <3>5. \A i \in 1 .. n : ~(i <= a.len) => from[b.at + i - a.len - 1] \in InHeap
      <4>1. ASSUME NEW i \in 1 .. n, ~(i <= a.len) PROVE from[b.at + i - a.len - 1] \in InHeap
        <5>1. i - a.len \in 1 .. b.len /\ b.at + (i - a.len) - 1 = b.at + i - a.len - 1
          BY <2>1, <4>1
        <5> QED BY <2>1, <3>2, <3>3, <5>1
      <4> QED BY <4>1
    <3>6. Joined(from, a, b) \in [1 .. n -> InHeap]
      BY <3>4, <3>5 DEF Joined
    <3>7. marks' \subseteq MarkBits /\ cells' \in [Cells -> InHeap]
          /\ ArrayVal(Place(n, junk).at, n) \in InHeap
      BY <2>1, <2>3, <3>6, AllocateInHeap DEF from
    <3> QED BY <2>3, <3>1, <3>7, SizesAssumption DEF MemInv
  <2> QED BY <2>1, <2>2, <2>3, FailureInHeap
<1>12. CASE Finish
  <2>1. SubSeq(stack, 1, 1) \in Seq(InHeap) /\ Len(SubSeq(stack, 1, 1)) = 1
    BY <1>12 DEF Finish, Running, MemInv
  <2> QED BY <1>12, <2>1, SizesAssumption DEF Finish, MemInv
<1>13. CASE GiveUp
  BY <1>13, SizesAssumption DEF GiveUp, MemInv
<1>14. ASSUME NEW n \in Lengths, HostString(n) PROVE MemInv'
  <2>1. n \in Nat
    BY ProgramAssumption
  <2>2. PICK junk \in BOOLEAN, x \in Scalars :
          \/ /\ Allocate(Place(n, junk), n, [i \in 1 .. n |-> Scalar(x)])
             /\ args' = Append(args, ArrayVal(Place(n, junk).at, n))
             /\ UNCHANGED <<stack, status>>
          \/ AssertFails(Place(n, junk), n)
          \/ NullWrite(Place(n, junk))
    BY <1>14 DEF HostString
  <2>3. CASE /\ Allocate(Place(n, junk), n, [i \in 1 .. n |-> Scalar(x)])
             /\ args' = Append(args, ArrayVal(Place(n, junk).at, n))
             /\ UNCHANGED <<stack, status>>
    <3>1. [i \in 1 .. n |-> Scalar(x)] \in [1 .. n -> InHeap]
      BY PlainInHeap
    <3>2. marks' \subseteq MarkBits /\ cells' \in [Cells -> InHeap]
          /\ ArrayVal(Place(n, junk).at, n) \in InHeap
      BY <2>1, <2>3, <3>1, AllocateInHeap
    <3> QED BY <1>14, <2>3, <3>2, ProgramAssumption, SizesAssumption DEF HostString, MemInv
  <2> QED BY <2>1, <2>2, <2>3, FailureInHeap
<1>15. CASE Execute
  BY <1>15, PlainInHeap, ProgramAssumption, SizesAssumption DEF Execute, MemInv
<1>16. CASE UNCHANGED vars
  BY <1>16, SizesAssumption DEF vars, MemInv
<1> QED BY <1>1, <1>2, <1>3, <1>4, <1>5, <1>6, <1>7, <1>8, <1>9, <1>10, <1>11, <1>12,
           <1>13, <1>14, <1>15, <1>16 DEF Next

LEMMA MemInvInit == Init => MemInv
BY PlainInHeap, ProgramAssumption, SizesAssumption DEF Init, MemInv

LEMMA MemInvAlways == Spec => []MemInv
BY MemInvInit, MemInvStep, PTL DEF Spec

\* The allocator, the stack and the arguments keep their types, whatever runs.
THEOREM TypeCorrect == Spec => []TypeOK
<1>1. MemInv => TypeOK
  BY DEF MemInv, TypeOK, InHeap
<1> QED BY <1>1, MemInvAlways, PTL

\* No array or iterator ever reaches past the heap, whatever the sizes, the
\* lengths and the programs, large arrays and arrays of arrays included.
THEOREM MemorySafe == Spec => []ReferencesInHeap
<1>1. MemInv => ReferencesInHeap
  BY DEF MemInv, ReferencesInHeap, InHeap, Held, Elements
<1> QED BY <1>1, MemInvAlways, PTL

-----------------------------------------------------------------------------
(* A collection frees all that is dead, and the search finds it.           *)

LEMMA FirstOfLeast ==
  ASSUME NEW S \in SUBSET Nat, NEW b \in S
  PROVE  FirstOf(S) \in S /\ FirstOf(S) <= b
<1>1. \E a \in S : \A c \in S : a <= c
  BY LeastElement
<1> QED BY <1>1 DEF FirstOf

\* The collector follows less than a program can read: arrays only, and of an
\* array not the first element.
LEMMA ReachedMonotone ==
  ASSUME MemInv
  PROVE  Reached(cells, Elements(stack), {"array"}, 1)
           \subseteq Reached(cells, Held, {"array", "iter"}, 0)
<1>1. PICK refs : refs = References(cells, Elements(stack), {"array"})
  OBVIOUS
<1>2. PICK live : live = References(cells, Held, {"array", "iter"})
  OBVIOUS
<1>3. Elements(stack) \subseteq Held
  BY DEF Held
<1>4. refs \subseteq live
  BY <1>1, <1>2, <1>3 DEF References
<1>5. ASSUME NEW v \in refs PROVE v.at \in Nat /\ v.len \in Nat
  <2>1. v \in InHeap
    BY <1>1, <1>5 DEF References, Elements, MemInv
  <2> QED BY <2>1 DEF InHeap, Value
<1>6. ASSUME NEW v \in Reached(cells, Elements(stack), {"array"}, 1), NEW S \in SUBSET live,
             Held \intersect live \subseteq S,
             \A w \in S : \A c \in Span(w.at + 0, w.len - 0) : cells[c] \in live => cells[c] \in S
      PROVE  v \in S
  <2>1. PICK T : T = S \intersect refs
    OBVIOUS
  <2>2. Elements(stack) \intersect refs \subseteq T
    BY <1>3, <1>4, <1>6, <2>1
  <2>3. ASSUME NEW w \in T, NEW c \in Span(w.at + 1, w.len - 1), cells[c] \in refs
        PROVE  cells[c] \in T
    <3>1. w.at \in Nat /\ w.len \in Nat /\ w \in S
      BY <1>5, <2>1
    <3>2. c \in Span(w.at + 0, w.len - 0)
      BY <2>3, <3>1 DEF Span
    <3>3. cells[c] \in S
      BY <1>4, <1>6, <2>3, <3>1, <3>2
    <3> QED BY <2>1, <2>3, <3>3
  <2>4. v \in T
    BY <1>1, <1>6, <2>1, <2>2, <2>3 DEF Reached
  <2> QED BY <2>1, <2>4
<1>7. Reached(cells, Elements(stack), {"array"}, 1) \subseteq refs
  BY <1>1 DEF Reached
<1> QED BY <1>2, <1>4, <1>6, <1>7 DEF Reached

\* After a collection only cells that can be read are marked.
LEMMA MarkedAreLive ==
  ASSUME MemInv
  PROVE  GcMarkUsed(cells, Elements(stack)) \subseteq LiveCells
BY ReachedMonotone DEF GcMarkUsed, LiveCells, Extent

\* The first fit is usable when any fit is.
LEMMA SearchFinds ==
  ASSUME NEW used, NEW n \in Nat, n < PageBits, NEW junk \in BOOLEAN, NEW a \in Cells,
         (a % PageBits) + n < PageBits, a + n < HeapSize, Span(a, n) \intersect used = {}
  PROVE  Usable(FindFreeChunk(used, n, junk), n)
<1>1. PICK S : S = SmallChunks(used, n)
  OBVIOUS
<1>2. MarkBits \subseteq Nat /\ PageBits \in Nat \ {0} /\ HeapSize \in Nat
  BY SizesAssumption DEF MarkBits, Span
<1>3. a \in Nat
  BY CellsHaveBits, <1>2
<1>4. S \in SUBSET Nat
  BY <1>1, <1>2 DEF SmallChunks
<1>5. a \in S
  <2>1. a % PageBits \in Nat
    BY <1>2, <1>3, DivMod
  <2>2. a % PageBits < PageBits - n
    BY <1>2, <2>1
  <2> QED BY <1>1, <2>2, CellsHaveBits DEF SmallChunks
<1>6. FirstOf(S) \in S /\ FirstOf(S) <= a
  BY <1>4, <1>5, FirstOfLeast
<1>7. PICK b : b = FirstOf(S)
  OBVIOUS
<1>8. b \in Nat /\ b <= a
  BY <1>4, <1>6, <1>7
<1>9. b + n < HeapSize /\ b # NoChunk
  BY <1>2, <1>3, <1>8 DEF NoChunk
<1>10. FindFreeChunk(used, n, junk) = b
  BY <1>1, <1>7 DEF FindFreeChunk
<1> QED BY <1>9, <1>10 DEF Usable

\* OP_MAKE_ARRAY answers -1005 only if no page has a dead run with room for the
\* array, for every kind of program and host: heap_array_alloc tries again after
\* a collection that keeps nothing dead.
THEOREM OutOfMemoryMeansFull == Spec => []OomOnlyWhenFull
<1>1. ASSUME MemInv, NEW n \in Lengths, NEW junk \in BOOLEAN, n < PageBits,
             Place(n, junk).at = NoChunk, DeadRun(n)
      PROVE  FALSE
  <2>1. n \in Nat
    BY ProgramAssumption
  <2>2. PICK used : used = GcMarkUsed(cells, Elements(stack))
    OBVIOUS
  <2>3. ~Usable(FindFreeChunk(used, n, junk), n)
    BY <1>1, <2>2 DEF Place, Usable
  <2>4. PICK a \in Cells : /\ (a % PageBits) + n < PageBits
                           /\ a + n < HeapSize
                           /\ Span(a, n) \intersect LiveCells = {}
    BY <1>1 DEF DeadRun
  <2>5. Span(a, n) \intersect used = {}
    BY <1>1, <2>2, <2>4, MarkedAreLive
  <2> QED BY <1>1, <2>1, <2>3, <2>4, <2>5, SearchFinds
<1>2. MemInv => OomOnlyWhenFull
  BY <1>1 DEF OomOnlyWhenFull
<1> QED BY <1>2, MemInvAlways, PTL

-----------------------------------------------------------------------------
(***************************************************************************)
(* The collector and the allocator together keep what a program holds --   *)
(* for programs and hosts that stay clear of the four gaps the violation   *)
(* runs show: arrays of arrays, loops over temporaries, several string     *)
(* arguments to one call, and arrays of a page or more.                    *)
(***************************************************************************)
FlatUse ==
  /\ ~Nested
  /\ ~IterTemps
  /\ MaxHostArgs <= 1
  /\ \A n \in Lengths : n < PageBits

-----------------------------------------------------------------------------
(* The inductive invariant.                                                *)

Plain == {v \in InHeap : v.kind \notin {"array", "iter"}}

ExtentOf(v) == Span(v.at, v.len)

ArraysWithin(s, M) ==
  \A i \in 1 .. Len(s) : s[i].kind = "array" => ExtentOf(s[i]) \subseteq M

\* Below every iterator that has something to give lies an array it runs over:
\* the collector knows the iterator's cells only through that array.
CoveredBelow(s, j) ==
  \E i \in 1 .. (j - 1) : s[i].kind = "array" /\ ExtentOf(s[j]) \subseteq ExtentOf(s[i])

ItersCovered(s) ==
  \A j \in 1 .. Len(s) : s[j].kind = "iter" /\ s[j].len > 0 => CoveredBelow(s, j)

LiveInv ==
  /\ MemInv
  /\ \A c \in Cells : cells[c] \in Plain
  /\ ItersCovered(stack)
  /\ \A i \in 1 .. Len(args) : args[i].kind = "array"
  /\ Running => args = <<>>
  /\ ~Dead => ArraysWithin(stack, marks) /\ ArraysWithin(args, marks)

-----------------------------------------------------------------------------
(* Stacks.                                                                 *)

LEMMA PrefixKeeps ==
  ASSUME NEW s \in Seq(InHeap), NEW k \in 0 .. Len(s), NEW M,
         ItersCovered(s), ArraysWithin(s, M)
  PROVE  ItersCovered(SubSeq(s, 1, k)) /\ ArraysWithin(SubSeq(s, 1, k), M)
<1> DEFINE t == SubSeq(s, 1, k)
<1>1. t \in Seq(InHeap) /\ Len(t) = k /\ \A i \in 1 .. k : t[i] = s[i]
  OBVIOUS
<1> HIDE DEF t
<1>2. k \in Nat /\ Len(s) \in Nat /\ k <= Len(s)
  OBVIOUS
<1>3. ArraysWithin(t, M)
  BY <1>1, <1>2 DEF ArraysWithin
<1>4. ASSUME NEW j \in 1 .. k, t[j].kind = "iter", t[j].len > 0
      PROVE  CoveredBelow(t, j)
  <2>1. s[j].kind = "iter" /\ s[j].len > 0 /\ j \in 1 .. Len(s)
    BY <1>1, <1>2, <1>4
  <2>2. PICK i \in 1 .. (j - 1) : s[i].kind = "array" /\ ExtentOf(s[j]) \subseteq ExtentOf(s[i])
    BY <2>1 DEF ItersCovered, CoveredBelow
  <2>3. t[i] = s[i] /\ t[j] = s[j]
    BY <1>1, <1>2
  <2> QED BY <2>2, <2>3 DEF CoveredBelow
<1>5. ItersCovered(t)
  BY <1>1, <1>4 DEF ItersCovered
<1> QED BY <1>3, <1>5 DEF t

LEMMA AppendKeeps ==
  ASSUME NEW s \in Seq(InHeap), NEW v \in InHeap, NEW M,
         ItersCovered(s), ArraysWithin(s, M),
         v.kind = "array" => ExtentOf(v) \subseteq M,
         v.kind = "iter" /\ v.len > 0 =>
           \E i \in 1 .. Len(s) : s[i].kind = "array" /\ ExtentOf(v) \subseteq ExtentOf(s[i])
  PROVE  ItersCovered(Append(s, v)) /\ ArraysWithin(Append(s, v), M)
<1> DEFINE t == Append(s, v)
           m == Len(s)
<1>1. /\ t \in Seq(InHeap) /\ m \in Nat /\ Len(t) = m + 1 /\ t[m + 1] = v
      /\ \A i \in 1 .. m : t[i] = s[i]
  OBVIOUS
<1>2. ArraysWithin(t, M)
  <2>1. \A i \in 1 .. Len(t) : i \in 1 .. m \/ i = m + 1
    BY <1>1
  <2> HIDE DEF t
  <2> QED BY <1>1, <2>1 DEF ArraysWithin
<1>3. ASSUME NEW j \in 1 .. Len(t), t[j].kind = "iter", t[j].len > 0
      PROVE  CoveredBelow(t, j)
  <2> HIDE DEF t
  <2>1. CASE j \in 1 .. m
    <3>1. PICK i \in 1 .. (j - 1) : s[i].kind = "array" /\ ExtentOf(s[j]) \subseteq ExtentOf(s[i])
      BY <1>1, <1>3, <2>1 DEF ItersCovered, CoveredBelow
    <3>2. t[i] = s[i] /\ t[j] = s[j]
      BY <1>1, <2>1
    <3> QED BY <3>1, <3>2 DEF CoveredBelow
  <2>2. CASE j = m + 1
    <3>1. PICK i \in 1 .. m : s[i].kind = "array" /\ ExtentOf(v) \subseteq ExtentOf(s[i])
      BY <1>1, <1>3, <2>2
    <3>2. t[i] = s[i] /\ t[j] = v /\ i \in 1 .. (j - 1)
      BY <1>1, <2>2
    <3> QED BY <3>1, <3>2 DEF CoveredBelow
  <2> QED BY <1>1, <2>1, <2>2
<1>4. ItersCovered(t)
  BY <1>3 DEF ItersCovered
<1> QED BY <1>2, <1>4

\* Lower(k) in these terms.
LEMMA LowerKeeps ==
  ASSUME LiveInv, NEW k \in Nat, k <= Len(stack), NEW M, ArraysWithin(stack, M)
  PROVE  ItersCovered(Lower(k)) /\ ArraysWithin(Lower(k), M)
<1>1. stack \in Seq(InHeap) /\ Len(stack) - k \in 0 .. Len(stack)
  BY DEF LiveInv, MemInv
<1> QED BY <1>1, PrefixKeeps DEF Lower, LiveInv

-----------------------------------------------------------------------------
(* Allocation.                                                             *)

\* What is held stays marked when a place is sought, collection or not.
LEMMA PlaceKeepsMarked ==
  ASSUME MemInv, ArraysWithin(stack, marks), NEW n \in Nat, NEW junk \in BOOLEAN
  PROVE  ArraysWithin(stack, Place(n, junk).used)
<1> DEFINE roots == Elements(stack)
           refs  == References(cells, roots, {"array"})
<1>1. Place(n, junk).used \in {marks, GcMarkUsed(cells, roots)}
  BY DEF Place
<1>2. ASSUME NEW i \in 1 .. Len(stack), stack[i].kind = "array"
      PROVE  ExtentOf(stack[i]) \subseteq GcMarkUsed(cells, roots)
  <2>1. stack[i] \in roots /\ stack[i] \in InHeap /\ stack[i].len \in Nat /\ stack[i].at \in Nat
    BY DEF Elements, MemInv, InHeap, Value
  <2>2. CASE stack[i].len = 0
    BY <2>1, <2>2 DEF ExtentOf, Span
  <2>3. CASE stack[i].len > 0
    <3>1. stack[i] \in refs /\ stack[i] \in roots \intersect refs
      BY <1>2, <2>1, <2>3 DEF References
    <3>2. stack[i] \in Reached(cells, roots, {"array"}, 1)
      BY <3>1 DEF Reached
    <3> QED BY <3>2 DEF GcMarkUsed, Extent, ExtentOf
  <2> QED BY <2>1, <2>2, <2>3
<1>3. ArraysWithin(stack, GcMarkUsed(cells, roots))
  BY <1>2 DEF ArraysWithin
<1> QED BY <1>1, <1>3

\* A chunk smaller than a page is free, and it is marked exactly.
LEMMA SmallChunkFree ==
  ASSUME MemInv, NEW n \in Nat, n < PageBits, NEW junk \in BOOLEAN, Place(n, junk).at # NoChunk
  PROVE  /\ Span(Place(n, junk).at, n) \intersect Place(n, junk).used = {}
         /\ MarkChunk(Place(n, junk).used, Place(n, junk).at, n)
              = Place(n, junk).used \union Span(Place(n, junk).at, n)
<1> DEFINE p == Place(n, junk)
<1>1. p.at = FindFreeChunk(p.used, n, junk) /\ p.at \in Nat
  BY PlaceInHeap DEF Place
<1>2. SmallChunks(p.used, n) \in SUBSET Nat
  BY SizesAssumption DEF SmallChunks, MarkBits, Span
<1>3. p.at \in SmallChunks(p.used, n)
  <2>1. p.at = FirstOf(SmallChunks(p.used, n))
    BY <1>1 DEF FindFreeChunk
  <2> QED BY <1>2, <2>1, FirstOfMember
<1>4. Span(p.at, n) \intersect p.used = {}
  BY <1>3 DEF SmallChunks
<1>5. n \div PageBits = 0 /\ n % PageBits = n
  BY DivModSmall, SizesAssumption
<1>6. p.at \div PageBits \in Nat
  BY <1>1, DivMod, SizesAssumption
<1>7. WholePages(p.at, n) = {}
  BY <1>5, <1>6 DEF WholePages
<1>8. TrailingBits(p.at, n) = Span(p.at, n)
  <2>1. p.at + (0 * PageBits) = p.at
    BY <1>1, SizesAssumption
  <2> QED BY <1>5, <2>1 DEF TrailingBits
<1> QED BY <1>4, <1>7, <1>8 DEF MarkChunk

\* The cells that can be read are those of the arrays held.
LEMMA LiveCellsWithin ==
  ASSUME LiveInv, NEW M, ArraysWithin(stack, M), ArraysWithin(args, M)
  PROVE  LiveCells \subseteq M /\ LiveCells \subseteq Cells
<1> DEFINE live == Reached(cells, Held, {"array", "iter"}, 0)
<1>1. \A v \in live : v.kind \in {"array", "iter"} /\ v.len > 0 /\ v \in Held \union {cells[c] : c \in Cells}
  BY DEF Reached, References
<1>2. ASSUME NEW v \in live PROVE ExtentOf(v) \subseteq M /\ ExtentOf(v) \subseteq Cells
  <2>1. v \in Held /\ v.kind \in {"array", "iter"} /\ v.len > 0
    BY <1>1 DEF LiveInv, Plain
  <2>2. v \in InHeap
    BY <2>1 DEF LiveInv, MemInv, Held, Elements
  <2>3. ExtentOf(v) \subseteq Cells
    BY <2>1, <2>2, SizesAssumption DEF InHeap, Value, ExtentOf, Span, Cells
  <2>4. CASE v \in Elements(stack)
    <3>1. PICK j \in 1 .. Len(stack) : v = stack[j]
      BY <2>4 DEF Elements, LiveInv, MemInv
    <3>2. CASE v.kind = "array"
      BY <2>3, <3>1, <3>2 DEF ArraysWithin
    <3>3. CASE v.kind = "iter"
      <4>1. CoveredBelow(stack, j)
        BY <2>1, <3>1, <3>3 DEF LiveInv, ItersCovered
      <4>2. PICK i \in 1 .. (j - 1) : stack[i].kind = "array" /\ ExtentOf(v) \subseteq ExtentOf(stack[i])
        BY <3>1, <4>1 DEF CoveredBelow
      <4>3. i \in 1 .. Len(stack)
        BY <3>1, <4>2 DEF LiveInv, MemInv
      <4> QED BY <2>3, <4>2, <4>3 DEF ArraysWithin
    <3> QED BY <2>1, <3>2, <3>3
  <2>5. CASE v \in Elements(args)
    BY <2>3, <2>5 DEF Elements, LiveInv, MemInv, ArraysWithin
  <2> QED BY <2>1, <2>3, <2>4, <2>5 DEF Held
<1> QED BY <1>2 DEF LiveCells, Extent, ExtentOf

\* A successful allocation: what was held stays marked and unchanged, the new
\* array is marked, and cells stay plain.
LEMMA AllocateLive ==
  ASSUME LiveInv, ~Dead, args = <<>>,
         NEW n \in Nat, n < PageBits, NEW junk \in BOOLEAN, NEW contents \in [1 .. n -> Plain],
         Allocate(Place(n, junk), n, contents)
  PROVE  /\ ArraysWithin(stack, marks')
         /\ ExtentOf(ArrayVal(Place(n, junk).at, n)) \subseteq marks'
         /\ \A c \in Cells : cells'[c] \in Plain
         /\ \A c \in LiveCells : cells'[c] = cells[c]
         /\ ArrayVal(Place(n, junk).at, n) \in InHeap
<1> DEFINE p == Place(n, junk)
           new == Span(p.at, n)
<1>1. MemInv /\ ArraysWithin(stack, marks) /\ ArraysWithin(args, p.used)
  BY DEF LiveInv, ArraysWithin
<1>2. ArraysWithin(stack, p.used)
  BY <1>1, PlaceKeepsMarked
<1>3. p.at # NoChunk /\ marks' = MarkChunk(p.used, p.at, n)
  BY DEF Allocate
<1>4. new \intersect p.used = {} /\ marks' = p.used \union new
  BY <1>1, <1>3, SmallChunkFree
<1>5. LiveCells \subseteq p.used /\ LiveCells \subseteq Cells
  BY <1>1, <1>2, LiveCellsWithin
<1>6. p.at \in Nat
  BY <1>1, <1>3, PlaceInHeap
<1>7. cells' = [c \in Cells |-> IF c \in new THEN contents[c - p.at + 1] ELSE cells[c]]
  BY DEF Allocate
<1>8. \A c \in Cells : cells'[c] \in Plain
  <2>1. \A c \in Cells : c \in new => c - p.at + 1 \in 1 .. n
    BY <1>6, SizesAssumption DEF Span, Cells
  <2> QED BY <1>7, <2>1 DEF LiveInv
<1>9. \A c \in LiveCells : cells'[c] = cells[c]
  BY <1>4, <1>5, <1>7
<1>10. ArraysWithin(stack, marks')
  BY <1>2, <1>4 DEF ArraysWithin
<1>11. ExtentOf(ArrayVal(p.at, n)) \subseteq marks'
  BY <1>4 DEF ExtentOf, ArrayVal
<1>12. contents \in [1 .. n -> InHeap]
  BY DEF Plain
<1>13. ArrayVal(p.at, n) \in InHeap
  BY <1>1, <1>12, AllocateInHeap
<1> QED BY <1>8, <1>9, <1>10, <1>11, <1>13

\* A new array on what is left of the stack.
LEMMA PushArrayLive ==
  ASSUME FlatUse, LiveInv, MemInv', Running, NEW k \in Nat, k <= Len(stack),
         NEW n \in Nat, n < PageBits, NEW junk \in BOOLEAN, NEW contents \in [1 .. n -> Plain],
         Allocate(Place(n, junk), n, contents),
         stack' = Append(Lower(k), ArrayVal(Place(n, junk).at, n)),
         UNCHANGED <<args, status>>
  PROVE  LiveInv' /\ \A c \in LiveCells : cells'[c] = cells[c]
<1> DEFINE v == ArrayVal(Place(n, junk).at, n)
<1>1. ~Dead /\ args = <<>> /\ MemInv
  BY DEF LiveInv, Dead, Running
<1>2. /\ ArraysWithin(stack, marks') /\ ExtentOf(v) \subseteq marks' /\ v \in InHeap
      /\ \A c \in Cells : cells'[c] \in Plain
      /\ \A c \in LiveCells : cells'[c] = cells[c]
  BY <1>1, AllocateLive
<1>3. ItersCovered(Lower(k)) /\ ArraysWithin(Lower(k), marks') /\ Lower(k) \in Seq(InHeap)
  BY <1>1, <1>2, LowerKeeps, StackParts
<1>4. v.kind = "array"
  BY DEF ArrayVal
<1> HIDE DEF v
<1>5. ItersCovered(Append(Lower(k), v)) /\ ArraysWithin(Append(Lower(k), v), marks')
  BY <1>2, <1>3, <1>4, AppendKeeps
<1>6. ItersCovered(stack') /\ ArraysWithin(stack', marks')
  BY <1>5 DEF v
<1> QED BY <1>1, <1>2, <1>6 DEF LiveInv, ArraysWithin, Running, Dead

\* A step that only moves values on the stack.
LEMMA StackMoveLive ==
  ASSUME LiveInv, MemInv', Running,
         ItersCovered(stack'), ArraysWithin(stack', marks),
         UNCHANGED <<marks, cells, args, status>>
  PROVE  LiveInv' /\ \A c \in LiveCells : cells'[c] = cells[c]
BY DEF LiveInv, Running, Dead

\* An allocation that fails: the marks of the collection, if any, stay.
LEMMA FailureLive ==
  ASSUME LiveInv, ~Dead, args = <<>>, MemInv', NEW n \in Nat, NEW junk \in BOOLEAN,
         marks' = Place(n, junk).used,
         status' \in {"oom", "aborted", "crashed"},
         UNCHANGED <<cells, stack, args>>
  PROVE  LiveInv' /\ \A c \in LiveCells : cells'[c] = cells[c]
<1>1. ArraysWithin(stack, marks')
  BY PlaceKeepsMarked DEF LiveInv
<1> QED BY <1>1 DEF LiveInv, ArraysWithin, Running, Dead

\* What a running program pops, and what is left.
LEMMA RestAndTop ==
  ASSUME LiveInv, Running, NEW k \in Nat, 1 <= k, k <= Len(stack)
  PROVE  /\ Lower(k) \in Seq(InHeap) /\ Len(Lower(k)) = Len(stack) - k
         /\ \A i \in 1 .. Len(Lower(k)) : Lower(k)[i] = stack[i]
         /\ ItersCovered(Lower(k)) /\ ArraysWithin(Lower(k), marks)
         /\ Top \in InHeap
         /\ Top.kind = "array" => ExtentOf(Top) \subseteq marks
<1>1. MemInv /\ ArraysWithin(stack, marks) /\ Len(stack) \in Nat /\ Len(stack) > 0
  BY DEF LiveInv, MemInv, Running, Dead
<1>2. /\ Lower(k) \in Seq(InHeap) /\ Len(Lower(k)) = Len(stack) - k
      /\ \A i \in 1 .. Len(Lower(k)) : Lower(k)[i] = stack[i]
  BY <1>1, StackParts
<1>3. ItersCovered(Lower(k)) /\ ArraysWithin(Lower(k), marks)
  BY <1>1, LowerKeeps
<1>4. Top \in InHeap
  BY <1>1, TopInHeap
<1>5. Top.kind = "array" => ExtentOf(Top) \subseteq marks
  BY <1>1 DEF Top, ArraysWithin
<1> QED BY <1>2, <1>3, <1>4, <1>5

\* A step keeps the invariant and every cell that can still be read.
LEMMA LiveStep ==
  ASSUME FlatUse
  PROVE  LiveInv /\ [Next]_vars => LiveInv' /\ \A c \in LiveCells : cells'[c] = cells[c]
<1> SUFFICES ASSUME LiveInv, [Next]_vars
             PROVE  LiveInv' /\ \A c \in LiveCells : cells'[c] = cells[c]
  OBVIOUS
<1> USE FlatUse
<1>a. /\ MemInv /\ MemInv' /\ stack \in Seq(InHeap) /\ Len(stack) \in Nat
      /\ ItersCovered(stack) /\ (Running => ArraysWithin(stack, marks))
  BY MemInvStep DEF LiveInv, MemInv, Running, Dead
<1>b. \A n \in Lengths : n \in Nat /\ n < PageBits
  BY ProgramAssumption DEF FlatUse
<1>c. \A x \in Scalars : Scalar(x) \in Plain /\ Scalar(x).kind = "scalar"
  BY PlainInHeap DEF Plain, Scalar
<1>1. CASE PushValue
  <2>1. PICK x \in Scalars : stack' = Append(stack, Scalar(x))
    BY <1>1 DEF PushValue, Push
  <2>2. ItersCovered(stack') /\ ArraysWithin(stack', marks)
    BY <1>a, <1>c, <1>1, <2>1, AppendKeeps DEF PushValue, Plain
  <2> QED BY <1>a, <1>1, <2>2, StackMoveLive DEF PushValue
<1>2. CASE LoadLocal
  <2>1. PICK i \in 2 .. Len(stack) : stack[i].kind # "iter" /\ stack' = Append(stack, stack[i])
    BY <1>2 DEF LoadLocal, Push
  <2>2. i \in 1 .. Len(stack) /\ stack[i] \in InHeap
    BY <1>a, <2>1
  <2>3. stack[i].kind = "array" => ExtentOf(stack[i]) \subseteq marks
    BY <1>a, <1>2, <2>2 DEF LoadLocal, ArraysWithin
  <2>4. ItersCovered(stack') /\ ArraysWithin(stack', marks)
    BY <1>a, <1>2, <2>1, <2>2, <2>3, AppendKeeps DEF LoadLocal
  <2> QED BY <1>a, <1>2, <2>4, StackMoveLive DEF LoadLocal
<1>4. CASE PopValues
  <2>1. PICK k \in 1 .. (Len(stack) - 1) : stack' = Lower(k)
    BY <1>4 DEF PopValues
  <2>2. ItersCovered(stack') /\ ArraysWithin(stack', marks)
    BY <1>a, <1>4, <2>1, LowerKeeps DEF PopValues
  <2> QED BY <1>a, <1>4, <2>2, StackMoveLive DEF PopValues
<1>5. CASE ReturnValue
  <2>1. PICK k \in 2 .. (Len(stack) - 1) : stack' = Append(Lower(k), Top)
    BY <1>5 DEF ReturnValue
  <2>2. k \in Nat /\ 1 <= k /\ k <= Len(stack)
    BY <1>a, <2>1
  <2>3. /\ ItersCovered(Lower(k)) /\ ArraysWithin(Lower(k), marks)
        /\ Lower(k) \in Seq(InHeap) /\ Top \in InHeap
        /\ Top.kind = "array" => ExtentOf(Top) \subseteq marks
    BY <1>5, <2>2, RestAndTop DEF ReturnValue
  <2>4. ItersCovered(stack') /\ ArraysWithin(stack', marks)
    BY <1>5, <2>1, <2>3, AppendKeeps DEF ReturnValue
  <2> QED BY <1>a, <1>5, <2>4, StackMoveLive DEF ReturnValue
<1>6. CASE ArrayLength
  <2>1. PICK x \in Scalars : stack' = Append(Lower(1), Scalar(x))
    BY <1>6 DEF ArrayLength
  <2>2. 1 <= Len(stack)
    BY <1>a, <1>6 DEF ArrayLength, Operands
  <2>3. ItersCovered(Lower(1)) /\ ArraysWithin(Lower(1), marks) /\ Lower(1) \in Seq(InHeap)
    BY <1>6, <2>2, RestAndTop DEF ArrayLength
  <2>4. ItersCovered(stack') /\ ArraysWithin(stack', marks)
    BY <1>c, <2>1, <2>3, AppendKeeps DEF Plain
  <2> QED BY <1>a, <1>6, <2>4, StackMoveLive DEF ArrayLength
<1>7. CASE MakeIter
  <2> DEFINE v == IterVal(Top.at, Top.len)
  <2>1. PICK i \in 2 .. (Len(stack) - 1) : stack[i] = Top
    BY <1>7 DEF MakeIter, FlatUse
  <2>2. 1 <= Len(stack) /\ Len(stack) > 1
    BY <1>a, <1>7 DEF MakeIter, Operands
  <2>3. /\ ItersCovered(Lower(1)) /\ ArraysWithin(Lower(1), marks) /\ Lower(1) \in Seq(InHeap)
        /\ Len(Lower(1)) = Len(stack) - 1 /\ Top \in InHeap
        /\ \A j \in 1 .. Len(Lower(1)) : Lower(1)[j] = stack[j]
    BY <1>7, <2>2, RestAndTop DEF MakeIter
  <2>4. v \in InHeap /\ v.kind = "iter" /\ ExtentOf(v) = ExtentOf(Top)
    BY <1>7, <2>3 DEF MakeIter, InHeap, Value, Kinds, IterVal, ExtentOf
  <2>5. i \in 1 .. Len(Lower(1)) /\ Lower(1)[i] = Top /\ Top.kind = "array"
    BY <1>a, <1>7, <2>1, <2>3 DEF MakeIter
  <2> HIDE DEF v
  <2>6. ItersCovered(Append(Lower(1), v)) /\ ArraysWithin(Append(Lower(1), v), marks)
    BY <2>3, <2>4, <2>5, AppendKeeps
  <2>7. stack' = Append(Lower(1), v)
    BY <1>7 DEF MakeIter, v
  <2> QED BY <1>a, <1>7, <2>6, <2>7, StackMoveLive DEF MakeIter
<1>8. CASE IterNext
  <2>1. 1 <= Len(stack) /\ Len(stack) > 1
    BY <1>a, <1>8 DEF IterNext, Operands
  <2>2. /\ ItersCovered(Lower(1)) /\ ArraysWithin(Lower(1), marks) /\ Lower(1) \in Seq(InHeap)
        /\ Len(Lower(1)) = Len(stack) - 1 /\ Top \in InHeap /\ Top.kind = "iter"
        /\ \A j \in 1 .. Len(Lower(1)) : Lower(1)[j] = stack[j]
    BY <1>8, <2>1, RestAndTop DEF IterNext
  <2>3. CASE stack' = Lower(1)
    BY <1>a, <1>8, <2>2, <2>3, StackMoveLive DEF IterNext
  <2>4. CASE /\ Top.len > 0
             /\ stack' = Lower(1) \o <<IterVal(Top.at + 1, Top.len - 1), cells[Top.at]>>
    <3> DEFINE v == IterVal(Top.at + 1, Top.len - 1)
               x == cells[Top.at]
    <3>1. /\ v \in InHeap /\ v.kind = "iter" /\ ExtentOf(v) \subseteq ExtentOf(Top)
      <4>1. /\ Top.at \in Nat /\ Top.len \in Nat /\ Top.at + Top.len < HeapSize /\ Top.len > 0
            /\ v.at = Top.at + 1 /\ v.len = Top.len - 1 /\ v.kind = "iter"
        BY <2>2, <2>4 DEF InHeap, Value, IterVal
      <4>2. v \in InHeap
        BY <4>1, SizesAssumption DEF InHeap, Value, Kinds, IterVal
      <4>3. ExtentOf(v) \subseteq ExtentOf(Top)
        BY <4>1 DEF ExtentOf, Span
      <4> QED BY <4>1, <4>2, <4>3
    <3>2. x \in Plain
      <4>1. Top.at \in Cells
        BY <2>2, <2>4, SizesAssumption DEF InHeap, Value, Cells, Span
      <4> QED BY <4>1 DEF LiveInv
    <3>3. PICK i \in 1 .. (Len(stack) - 1) :
            stack[i].kind = "array" /\ ExtentOf(Top) \subseteq ExtentOf(stack[i])
      <4>1. CoveredBelow(stack, Len(stack))
        BY <1>a, <2>1, <2>2, <2>4 DEF ItersCovered, Top
      <4> QED BY <4>1 DEF CoveredBelow, Top
    <3>4. /\ i \in 1 .. Len(Lower(1)) /\ Lower(1)[i].kind = "array"
          /\ ExtentOf(v) \subseteq ExtentOf(Lower(1)[i])
      BY <1>a, <2>2, <3>1, <3>3
    <3> HIDE DEF v, x
    <3>5. ItersCovered(Append(Lower(1), v)) /\ ArraysWithin(Append(Lower(1), v), marks)
      BY <2>2, <3>1, <3>4, AppendKeeps
    <3>6. Append(Lower(1), v) \in Seq(InHeap) /\ x \in InHeap /\ x.kind # "array" /\ x.kind # "iter"
      BY <2>2, <3>1, <3>2 DEF Plain
    <3>7. /\ ItersCovered(Append(Append(Lower(1), v), x))
          /\ ArraysWithin(Append(Append(Lower(1), v), x), marks)
      BY <3>5, <3>6, AppendKeeps
    <3>8. stack' = Append(Append(Lower(1), v), x)
      <4>1. Lower(1) \o <<v, x>> = Append(Append(Lower(1), v), x)
        BY <2>2, <3>1, <3>6
      <4> QED BY <2>4, <4>1 DEF v, x
    <3> QED BY <1>a, <1>8, <3>7, <3>8, StackMoveLive DEF IterNext
  <2> QED BY <1>8, <2>3, <2>4 DEF IterNext
<1>3. CASE StoreLocal
  <2> DEFINE s == Lower(1)
  <2>1. PICK i \in 2 .. (Len(stack) - 1) :
          /\ stack[i].kind # "iter"
          /\ \/ stack[i].kind # "array"
             \/ \A j \in i .. Len(stack) : stack[j].kind # "iter"
          /\ stack' = [s EXCEPT ![i] = Top]
    BY <1>3 DEF StoreLocal, FlatUse
  <2>2. 1 <= Len(stack) /\ Len(stack) > 2 /\ Top.kind # "iter"
    BY <1>a, <1>3 DEF StoreLocal, Operands
  <2>3. /\ ItersCovered(s) /\ ArraysWithin(s, marks) /\ s \in Seq(InHeap)
        /\ Len(s) = Len(stack) - 1 /\ Top \in InHeap
        /\ Top.kind = "array" => ExtentOf(Top) \subseteq marks
        /\ \A j \in 1 .. Len(s) : s[j] = stack[j]
    BY <1>3, <2>2, RestAndTop DEF StoreLocal
  <2> HIDE DEF s
  <2>4. /\ Len(stack') = Len(s) /\ i \in 1 .. Len(s) /\ stack'[i] = Top
        /\ \A j \in 1 .. Len(s) : j # i => stack'[j] = s[j]
    BY <1>a, <2>1, <2>3
  <2>5. ArraysWithin(stack', marks)
    BY <2>3, <2>4 DEF ArraysWithin
  <2>6. ASSUME NEW j \in 1 .. Len(s), stack'[j].kind = "iter", stack'[j].len > 0
        PROVE  CoveredBelow(stack', j)
    <3>1. j # i /\ s[j].kind = "iter" /\ stack'[j] = s[j] /\ s[j].len > 0
      BY <2>2, <2>4, <2>6
    <3>2. PICK k \in 1 .. (j - 1) : s[k].kind = "array" /\ ExtentOf(s[j]) \subseteq ExtentOf(s[k])
      BY <2>3, <3>1 DEF ItersCovered, CoveredBelow
    <3>3. k \in 1 .. Len(s)
      BY <2>3, <3>2
    <3>4. k # i
      BY <1>a, <2>1, <2>3, <3>1, <3>2, <3>3
    <3>5. stack'[k] = s[k]
      BY <2>4, <3>3, <3>4
    <3> QED BY <3>1, <3>2, <3>5 DEF CoveredBelow
  <2>7. ItersCovered(stack')
    BY <2>4, <2>6 DEF ItersCovered
  <2> QED BY <1>a, <1>3, <2>5, <2>7, StackMoveLive DEF StoreLocal
<1>9. ASSUME NEW n \in Lengths, MakeArray(n)
      PROVE  LiveInv' /\ \A c \in LiveCells : cells'[c] = cells[c]
  <2>1. n \in Nat /\ n < PageBits /\ n <= Len(stack) /\ Running /\ ~Dead /\ args = <<>>
    BY <1>a, <1>b, <1>9 DEF MakeArray, Operands, LiveInv, Running, Dead
  <2>2. PICK junk \in BOOLEAN :
          \/ /\ Allocate(Place(n, junk), n, Upper(n))
             /\ stack' = Append(Lower(n), ArrayVal(Place(n, junk).at, n))
             /\ UNCHANGED <<args, status>>
          \/ AssertFails(Place(n, junk), n)
          \/ /\ Place(n, junk).at = NoChunk
             /\ marks' = Place(n, junk).used
             /\ status' = "oom"
             /\ UNCHANGED <<cells, stack, args>>
    BY <1>9 DEF MakeArray
  <2>3. Upper(n) \in [1 .. n -> Plain]
    <3>1. Upper(n) \in [1 .. n -> InHeap]
      BY <1>a, <2>1, StackParts
    <3>2. \A v \in Elements(Upper(n)) : v.kind = "scalar"
      BY <1>9 DEF MakeArray, FlatUse
    <3> QED BY <3>1, <3>2 DEF Elements, Plain
  <2>4. CASE /\ Allocate(Place(n, junk), n, Upper(n))
             /\ stack' = Append(Lower(n), ArrayVal(Place(n, junk).at, n))
             /\ UNCHANGED <<args, status>>
    BY <1>a, <2>1, <2>3, <2>4, PushArrayLive
  <2>5. CASE AssertFails(Place(n, junk), n)
    BY <1>a, <2>1, <2>5, FailureLive DEF AssertFails
  <2>6. CASE /\ Place(n, junk).at = NoChunk
             /\ marks' = Place(n, junk).used
             /\ status' = "oom"
             /\ UNCHANGED <<cells, stack, args>>
    BY <1>a, <2>1, <2>6, FailureLive
  <2> QED BY <2>2, <2>4, <2>5, <2>6
<1>10. ASSUME NEW n \in Lengths, NativeToString(n)
       PROVE  LiveInv' /\ \A c \in LiveCells : cells'[c] = cells[c]
  <2>1. n \in Nat /\ n < PageBits /\ 1 <= Len(stack) /\ Running /\ ~Dead /\ args = <<>>
    BY <1>a, <1>b, <1>10 DEF NativeToString, Operands, LiveInv, Running, Dead
  <2>2. PICK junk \in BOOLEAN, x \in Scalars :
          \/ /\ Allocate(Place(n, junk), n, [i \in 1 .. n |-> Scalar(x)])
             /\ stack' = Append(Lower(1), ArrayVal(Place(n, junk).at, n))
             /\ UNCHANGED <<args, status>>
          \/ AssertFails(Place(n, junk), n)
          \/ NullWrite(Place(n, junk))
    BY <1>10 DEF NativeToString
  <2>3. [i \in 1 .. n |-> Scalar(x)] \in [1 .. n -> Plain]
    BY <1>c
  <2>4. CASE /\ Allocate(Place(n, junk), n, [i \in 1 .. n |-> Scalar(x)])
             /\ stack' = Append(Lower(1), ArrayVal(Place(n, junk).at, n))
             /\ UNCHANGED <<args, status>>
    BY <1>a, <2>1, <2>3, <2>4, PushArrayLive
  <2>5. CASE AssertFails(Place(n, junk), n)
    BY <1>a, <2>1, <2>5, FailureLive DEF AssertFails
  <2>6. CASE NullWrite(Place(n, junk))
    BY <1>a, <2>1, <2>6, FailureLive DEF NullWrite
  <2> QED BY <2>2, <2>4, <2>5, <2>6
<1>11. CASE NativeAddStrings
  <2> DEFINE a == stack[Len(stack) - 1]
             b == Top
             n == a.len + b.len
  <2>1. /\ a \in InHeap /\ a.kind = "array" /\ a.at \in Nat /\ a.len \in Nat
        /\ b \in InHeap /\ b.kind = "array" /\ b.at \in Nat /\ b.len \in Nat
        /\ 2 <= Len(stack) /\ Running /\ ~Dead /\ args = <<>>
    BY <1>a, <1>11 DEF NativeAddStrings, Operands, Top, InHeap, Value, LiveInv, Running, Dead
  <2>2. n \in Nat /\ n < PageBits
    BY <1>b, <1>11 DEF NativeAddStrings
  <2>3. PICK junk \in BOOLEAN :
          \/ /\ Allocate(Place(n, junk), n, Joined(Zeroed(Place(n, junk).at, n), a, b))
             /\ stack' = Append(Lower(2), ArrayVal(Place(n, junk).at, n))
             /\ UNCHANGED <<args, status>>
          \/ AssertFails(Place(n, junk), n)
          \/ NullWrite(Place(n, junk))
    BY <1>11 DEF NativeAddStrings
  <2>4. Joined(Zeroed(Place(n, junk).at, n), a, b) \in [1 .. n -> Plain]
    <3> DEFINE from == Zeroed(Place(n, junk).at, n)
    <3>1. from \in [Cells -> Plain]
      BY PlainInHeap DEF Zeroed, LiveInv, Plain, None
    <3> HIDE DEF from
    <3>2. ASSUME NEW v \in InHeap, v.kind = "array", NEW k \in 1 .. v.len
          PROVE  v.at + k - 1 \in Cells
      BY <3>2, SizesAssumption DEF InHeap, Value, Cells, Span
    <3>3. \A i \in 1 .. n : i <= a.len => from[a.at + i - 1] \in Plain
      BY <2>1, <3>1, <3>2
    <3>4. ASSUME NEW i \in 1 .. n, ~(i <= a.len) PROVE from[b.at + i - a.len - 1] \in Plain
      <4>1. i - a.len \in 1 .. b.len /\ b.at + (i - a.len) - 1 = b.at + i - a.len - 1
        BY <2>1, <3>4
      <4> QED BY <2>1, <3>1, <3>2, <4>1
    <3>5. Joined(from, a, b) \in [1 .. n -> Plain]
      BY <3>3, <3>4 DEF Joined
    <3> QED BY <3>5 DEF from
  <2>5. CASE /\ Allocate(Place(n, junk), n, Joined(Zeroed(Place(n, junk).at, n), a, b))
             /\ stack' = Append(Lower(2), ArrayVal(Place(n, junk).at, n))
             /\ UNCHANGED <<args, status>>
    BY <1>a, <2>1, <2>2, <2>4, <2>5, PushArrayLive
  <2>6. CASE AssertFails(Place(n, junk), n)
    BY <1>a, <2>1, <2>2, <2>6, FailureLive DEF AssertFails
  <2>7. CASE NullWrite(Place(n, junk))
    BY <1>a, <2>1, <2>2, <2>7, FailureLive DEF NullWrite
  <2> QED BY <2>3, <2>5, <2>6, <2>7
<1>12. CASE Finish
  <2>1. 1 \in 0 .. Len(stack) /\ ArraysWithin(stack, marks)
    BY <1>a, <1>12 DEF Finish, MemInv, Running
  <2>2. ItersCovered(stack') /\ ArraysWithin(stack', marks)
    BY <1>a, <1>12, <2>1, PrefixKeeps DEF Finish
  <2> QED BY <1>a, <1>12, <2>2 DEF Finish, LiveInv, Running, Dead
<1>13. CASE GiveUp
  BY <1>a, <1>13 DEF GiveUp, LiveInv, Running, Dead
<1>14. ASSUME NEW n \in Lengths, HostString(n)
       PROVE  LiveInv' /\ \A c \in LiveCells : cells'[c] = cells[c]
  <2>1. n \in Nat /\ n < PageBits /\ ~Running /\ ~Dead
    BY <1>b, <1>14 DEF HostString, Idle, Running, Dead
  <2>2. args = <<>>
    BY <1>a, <1>14, ProgramAssumption DEF HostString, FlatUse, MemInv
  <2>3. PICK junk \in BOOLEAN, x \in Scalars :
          \/ /\ Allocate(Place(n, junk), n, [i \in 1 .. n |-> Scalar(x)])
             /\ args' = Append(args, ArrayVal(Place(n, junk).at, n))
             /\ UNCHANGED <<stack, status>>
          \/ AssertFails(Place(n, junk), n)
          \/ NullWrite(Place(n, junk))
    BY <1>14 DEF HostString
  <2>4. CASE /\ Allocate(Place(n, junk), n, [i \in 1 .. n |-> Scalar(x)])
             /\ args' = Append(args, ArrayVal(Place(n, junk).at, n))
             /\ UNCHANGED <<stack, status>>
    <3> DEFINE v == ArrayVal(Place(n, junk).at, n)
    <3>1. [i \in 1 .. n |-> Scalar(x)] \in [1 .. n -> Plain]
      BY <1>c
    <3>2. /\ ArraysWithin(stack, marks') /\ ExtentOf(v) \subseteq marks'
          /\ \A c \in Cells : cells'[c] \in Plain
          /\ \A c \in LiveCells : cells'[c] = cells[c]
      BY <2>1, <2>2, <2>4, <3>1, AllocateLive
    <3>3. v.kind = "array"
      BY DEF ArrayVal
    <3> HIDE DEF v
    <3>4. args' = <<v>>
      BY <2>2, <2>4 DEF v
    <3>5. ArraysWithin(args', marks') /\ \A i \in 1 .. Len(args') : args'[i].kind = "array"
      BY <3>2, <3>3, <3>4 DEF ArraysWithin
    <3> QED BY <1>a, <2>1, <2>4, <3>2, <3>5 DEF LiveInv, Running
  <2>5. CASE AssertFails(Place(n, junk), n)
    BY <1>a, <2>1, <2>2, <2>5, FailureLive DEF AssertFails
  <2>6. CASE NullWrite(Place(n, junk))
    BY <1>a, <2>1, <2>2, <2>6, FailureLive DEF NullWrite
  <2> QED BY <2>3, <2>4, <2>5, <2>6
<1>15. CASE Execute
  <2>1. /\ args \in Seq(InHeap) /\ Len(args) \in Nat /\ ArraysWithin(args, marks)
        /\ \A i \in 1 .. Len(args) : args[i].kind = "array"
    BY <1>a, <1>15 DEF Execute, Idle, LiveInv, MemInv, Dead
  <2>2. /\ Len(stack') = Len(args) + 1 /\ stack'[1] = Frame
        /\ \A i \in 2 .. Len(stack') : i - 1 \in 1 .. Len(args) /\ stack'[i] = args[i - 1]
    BY <1>15, <2>1, PlainInHeap DEF Execute
  <2>3. \A i \in 1 .. Len(stack') : i = 1 \/ i \in 2 .. Len(stack')
    BY <2>1, <2>2
  <2>4. ArraysWithin(stack', marks)
    BY <2>1, <2>2, <2>3 DEF ArraysWithin, Frame
  <2>5. ItersCovered(stack')
    BY <2>1, <2>2, <2>3 DEF ItersCovered, Frame
  <2> QED BY <1>a, <1>15, <2>4, <2>5 DEF Execute, LiveInv, ArraysWithin, Running, Dead
<1>16. CASE UNCHANGED vars
  BY <1>a, <1>16 DEF vars, LiveInv, Running, Dead
<1> QED BY <1>1, <1>2, <1>3, <1>4, <1>5, <1>6, <1>7, <1>8, <1>9, <1>10, <1>11, <1>12,
           <1>13, <1>14, <1>15, <1>16 DEF Next

LEMMA LiveInvInit == Init => LiveInv
<1> SUFFICES ASSUME Init PROVE LiveInv
  OBVIOUS
<1>1. MemInv
  BY MemInvInit
<1>2. None \in Plain
  BY PlainInHeap DEF Plain, None
<1> QED BY <1>1, <1>2 DEF Init, LiveInv, ItersCovered, ArraysWithin, Running

LEMMA LiveInvAlways ==
  ASSUME FlatUse
  PROVE  Spec => []LiveInv
<1>1. LiveInv /\ [Next]_vars => LiveInv'
  BY LiveStep
<1> QED BY LiveInvInit, <1>1, PTL DEF Spec

\* Whatever a flat program and its host can still read is marked, so that no
\* allocation hands it out.
THEOREM FlatLiveMarked ==
  ASSUME FlatUse
  PROVE  Spec => []LiveMarked
<1>1. LiveInv => LiveMarked
  BY LiveCellsWithin DEF LiveMarked, LiveInv
<1> QED BY <1>1, LiveInvAlways, PTL

\* No step changes a cell that a flat program or its host can still read.
THEOREM FlatLiveKept ==
  ASSUME FlatUse
  PROVE  Spec => LiveKept
<1>1. LiveInv /\ [Next]_vars => [\A c \in LiveCells : cells'[c] = cells[c]]_vars
  BY LiveStep
<1> QED BY <1>1, LiveInvAlways, PTL DEF Spec, LiveKept

\* The asserts of heap_array_alloc hold for chunks smaller than a page.
LEMMA SmallAssertsHold ==
  ASSUME MemInv, NEW n \in Nat, n < PageBits, NEW junk \in BOOLEAN
  PROVE  ~AssertFails(Place(n, junk), n)
<1> SUFFICES ASSUME AssertFails(Place(n, junk), n) PROVE FALSE
  OBVIOUS
<1> DEFINE p == Place(n, junk)
<1>1. p.at # NoChunk /\ p.at \in Nat
  BY PlaceInHeap DEF AssertFails
<1>2. Span(p.at, n) \intersect p.used = {}
  BY <1>1, SmallChunkFree
<1>3. n \div PageBits = 0 /\ n % PageBits = n /\ p.at \div PageBits \in Nat
  BY <1>1, DivModSmall, DivMod, SizesAssumption
<1>4. WholePages(p.at, n) = {}
  BY <1>3 DEF WholePages
<1>5. TrailingBits(p.at, n) = Span(p.at, n)
  <2>1. p.at + (0 * PageBits) = p.at
    BY <1>1, SizesAssumption
  <2> QED BY <1>3, <2>1 DEF TrailingBits
<1> QED BY <1>2, <1>4, <1>5 DEF AssertFails, AssertsHold

\* "We are not overwriting previous data": with arrays of less than a page the
\* asserts of heap_array_alloc never end a Debug build, whatever else runs.
THEOREM SmallNeverAborts ==
  ASSUME \A n \in Lengths : n < PageBits
  PROVE  Spec => []NeverAborts
<1>1. Init => NeverAborts
  BY DEF Init, NeverAborts
<1>2. MemInv /\ NeverAborts /\ [Next]_vars => NeverAborts'
  <2> SUFFICES ASSUME MemInv, NeverAborts, [Next]_vars PROVE NeverAborts'
    OBVIOUS
  <2>1. \A n \in Lengths, junk \in BOOLEAN : ~AssertFails(Place(n, junk), n)
    BY SmallAssertsHold, ProgramAssumption
  <2>2. CASE PushValue \/ LoadLocal \/ StoreLocal \/ PopValues \/ ReturnValue
    BY <2>2 DEF NeverAborts, PushValue, LoadLocal, StoreLocal, PopValues, ReturnValue
  <2>3. CASE ArrayLength \/ MakeIter \/ IterNext
    BY <2>3 DEF NeverAborts, ArrayLength, MakeIter, IterNext
  <2>4. ASSUME NEW n \in Lengths, MakeArray(n) PROVE NeverAborts'
    BY <2>1, <2>4 DEF NeverAborts, MakeArray
  <2>5. ASSUME NEW n \in Lengths, NativeToString(n) PROVE NeverAborts'
    BY <2>1, <2>5 DEF NeverAborts, NativeToString, NullWrite
  <2>6. CASE NativeAddStrings
    BY <2>1, <2>6 DEF NeverAborts, NativeAddStrings, NullWrite
  <2>7. CASE Finish \/ GiveUp \/ Execute
    BY <2>7 DEF NeverAborts, Finish, GiveUp, Execute
  <2>8. ASSUME NEW n \in Lengths, HostString(n) PROVE NeverAborts'
    BY <2>1, <2>8 DEF NeverAborts, HostString, NullWrite
  <2>9. CASE UNCHANGED vars
    BY <2>9 DEF NeverAborts, vars
  <2> QED BY <2>2, <2>3, <2>4, <2>5, <2>6, <2>7, <2>8, <2>9 DEF Next
<1> QED BY <1>1, <1>2, MemInvAlways, PTL DEF Spec
-----------------------------------------------------------------------------
(* In flat use the array memory implements ArrayStore: arrays are values,  *)
(* and neither addresses nor collections show.                             *)

ScalarCells == {c \in Cells : cells[c].kind = "scalar"}

\* What is live is known from LiveInv; that it holds scalars is what makes an
\* element that OP_ITER_NEXT gives out a scalar of the store.
StoreInv ==
  /\ LiveInv
  /\ ArraysWithin(stack, ScalarCells)
  /\ ArraysWithin(args, ScalarCells)

-----------------------------------------------------------------------------
(* Deref, with the memory as a parameter.                                  *)

Seen(mem, v) ==
  [kind |-> v.kind,
   items |-> CASE v.kind \in {"array", "iter"} -> [i \in 1 .. v.len |-> mem[v.at + i - 1].at]
               [] v.kind = "scalar" -> <<v.at>>
               [] OTHER -> <<>>]

SeenAll(mem, s) == [i \in 1 .. Len(s) |-> Seen(mem, s[i])]

LEMMA DerefIsSeen ==
  /\ DerefAll(stack) = SeenAll(cells, stack) /\ DerefAll(stack)' = SeenAll(cells', stack')
  /\ DerefAll(args) = SeenAll(cells, args) /\ DerefAll(args)' = SeenAll(cells', args')
BY DEF DerefAll, Deref, SeenAll, Seen

LEMMA SeenKinds ==
  ASSUME NEW mem, NEW v
  PROVE  /\ Seen(mem, v).kind = v.kind
         /\ v.kind \in {"array", "iter"} =>
              Seen(mem, v) = Abstract!Item(v.kind, [i \in 1 .. v.len |-> mem[v.at + i - 1].at])
         /\ v.kind = "scalar" => Seen(mem, v) = Abstract!ScalarItem(v.at)
         /\ v.kind = "frame" => Seen(mem, v) = Abstract!FrameItem
BY DEF Seen, Abstract!Item, Abstract!ScalarItem, Abstract!FrameItem

LEMMA SeenAllSeq ==
  ASSUME NEW mem, NEW s \in Seq(InHeap)
  PROVE  /\ SeenAll(mem, s) \in Seq({Seen(mem, v) : v \in InHeap})
         /\ Len(SeenAll(mem, s)) = Len(s)
         /\ \A i \in 1 .. Len(s) : SeenAll(mem, s)[i] = Seen(mem, s[i])
<1>1. PICK T : T = {Seen(mem, v) : v \in InHeap}
  OBVIOUS
<1>2. \A i \in 1 .. Len(s) : Seen(mem, s[i]) \in T
  BY <1>1
<1>3. PICK t : t = SeenAll(mem, s)
  OBVIOUS
<1>4. Len(s) \in Nat /\ t \in [1 .. Len(s) -> T] /\ \A i \in 1 .. Len(s) : t[i] = Seen(mem, s[i])
  BY <1>2, <1>3 DEF SeenAll
<1>5. t \in Seq(T) /\ Len(t) = Len(s)
  BY <1>4
<1> QED BY <1>1, <1>3, <1>4, <1>5

LEMMA SeenPrefix ==
  ASSUME NEW mem, NEW s \in Seq(InHeap), NEW k \in 0 .. Len(s)
  PROVE  SubSeq(SeenAll(mem, s), 1, k) = SeenAll(mem, SubSeq(s, 1, k))
<1>1. PICK r : r = SubSeq(s, 1, k)
  OBVIOUS
<1>2. r \in Seq(InHeap) /\ Len(r) = k /\ \A i \in 1 .. k : r[i] = s[i]
  BY <1>1
<1>3. PICK t : t = SeenAll(mem, s)
  OBVIOUS
<1>4. PICK u : u = SeenAll(mem, r)
  OBVIOUS
<1>5. PICK T : T = {Seen(mem, v) : v \in InHeap}
  OBVIOUS
<1>6. t \in Seq(T) /\ Len(t) = Len(s) /\ \A i \in 1 .. Len(s) : t[i] = Seen(mem, s[i])
  BY <1>3, <1>5, SeenAllSeq
<1>7. u \in Seq(T) /\ Len(u) = k /\ \A i \in 1 .. k : u[i] = Seen(mem, r[i])
  BY <1>2, <1>4, <1>5, SeenAllSeq
<1>8. \A i \in 1 .. k : u[i] = t[i]
  BY <1>2, <1>6, <1>7
<1>9. SubSeq(t, 1, k) = u
  BY <1>6, <1>7, <1>8
<1> QED BY <1>1, <1>3, <1>4, <1>9

LEMMA SeenAppend ==
  ASSUME NEW mem, NEW s \in Seq(InHeap), NEW v \in InHeap
  PROVE  SeenAll(mem, Append(s, v)) = Append(SeenAll(mem, s), Seen(mem, v))
<1>1. PICK r : r = Append(s, v)
  OBVIOUS
<1>2. /\ r \in Seq(InHeap) /\ Len(r) = Len(s) + 1 /\ r[Len(s) + 1] = v
      /\ \A i \in 1 .. Len(s) : r[i] = s[i]
  BY <1>1
<1>3. PICK t : t = SeenAll(mem, s)
  OBVIOUS
<1>4. PICK u : u = SeenAll(mem, r)
  OBVIOUS
<1>5. PICK T : T = {Seen(mem, w) : w \in InHeap}
  OBVIOUS
<1>6. PICK x : x = Seen(mem, v)
  OBVIOUS
<1>7. t \in Seq(T) /\ Len(t) = Len(s) /\ \A i \in 1 .. Len(s) : t[i] = Seen(mem, s[i])
  BY <1>3, <1>5, SeenAllSeq
<1>8. u \in Seq(T) /\ Len(u) = Len(r) /\ \A i \in 1 .. Len(r) : u[i] = Seen(mem, r[i])
  BY <1>2, <1>4, <1>5, SeenAllSeq
<1>9. x \in T /\ Len(s) \in Nat
  BY <1>5, <1>6
<1>10. u[Len(s) + 1] = x /\ \A i \in 1 .. Len(s) : u[i] = t[i]
  BY <1>2, <1>6, <1>7, <1>8, <1>9
<1>11. u = Append(t, x)
  BY <1>2, <1>7, <1>8, <1>9, <1>10
<1> QED BY <1>1, <1>3, <1>4, <1>6, <1>11

LEMMA SeenExcept ==
  ASSUME NEW mem, NEW s \in Seq(InHeap), NEW v \in InHeap, NEW i \in 1 .. Len(s)
  PROVE  SeenAll(mem, [s EXCEPT ![i] = v]) = [SeenAll(mem, s) EXCEPT ![i] = Seen(mem, v)]
<1>1. PICK r : r = [s EXCEPT ![i] = v]
  OBVIOUS
<1>2. Len(r) = Len(s) /\ r[i] = v /\ \A j \in 1 .. Len(s) : j # i => r[j] = s[j]
  BY <1>1
<1>3. PICK x : x = Seen(mem, v)
  OBVIOUS
<1>4. SeenAll(mem, r) = [j \in 1 .. Len(s) |-> IF j = i THEN x ELSE Seen(mem, s[j])]
  BY <1>2, <1>3 DEF SeenAll
<1>5. [SeenAll(mem, s) EXCEPT ![i] = x] = [j \in 1 .. Len(s) |-> IF j = i THEN x ELSE Seen(mem, s[j])]
  BY DEF SeenAll
<1> QED BY <1>1, <1>3, <1>4, <1>5

LEMMA SeenKept ==
  ASSUME NEW mem, NEW new, NEW v \in InHeap,
         v.kind \in {"array", "iter"} => \A c \in ExtentOf(v) : new[c] = mem[c]
  PROVE  Seen(new, v) = Seen(mem, v)
<1>1. v.at \in Nat /\ v.len \in Nat
  BY DEF InHeap, Value
<1>2. \A i \in 1 .. v.len : v.at + i - 1 \in ExtentOf(v)
  BY <1>1 DEF ExtentOf, Span
<1> QED BY <1>2 DEF Seen

-----------------------------------------------------------------------------
(* What is held is live, holds scalars and stays.                          *)

LEMMA HeldLive ==
  ASSUME MemInv, NEW v \in Held, v.kind \in {"array", "iter"}
  PROVE  v \in InHeap /\ ExtentOf(v) \subseteq LiveCells
<1>1. v \in InHeap /\ v.at \in Nat /\ v.len \in Nat
  BY DEF Held, Elements, MemInv, InHeap, Value
<1>2. CASE v.len = 0
  BY <1>1, <1>2 DEF ExtentOf, Span
<1>3. CASE v.len > 0
  <2>1. v \in References(cells, Held, {"array", "iter"})
    BY <1>3 DEF References
  <2>2. v \in Reached(cells, Held, {"array", "iter"}, 0)
    BY <2>1 DEF Reached
  <2> QED BY <1>1, <2>2 DEF LiveCells, Extent, ExtentOf
<1> QED BY <1>1, <1>2, <1>3

LEMMA LiveAreScalars ==
  ASSUME StoreInv
  PROVE  LiveCells \subseteq ScalarCells
BY LiveCellsWithin DEF StoreInv

LEMMA HeldKept ==
  ASSUME MemInv, NEW s \in Seq(InHeap), \A i \in 1 .. Len(s) : s[i] \in Held,
         \A c \in LiveCells : cells'[c] = cells[c]
  PROVE  SeenAll(cells', s) = SeenAll(cells, s)
<1>1. ASSUME NEW i \in 1 .. Len(s) PROVE Seen(cells', s[i]) = Seen(cells, s[i])
  <2>1. s[i] \in InHeap /\ s[i] \in Held
    OBVIOUS
  <2>2. s[i].kind \in {"array", "iter"} => \A c \in ExtentOf(s[i]) : cells'[c] = cells[c]
    BY <2>1, HeldLive
  <2> QED BY <2>1, <2>2, SeenKept
<1> QED BY <1>1 DEF SeenAll

LEMMA ScalarsKept ==
  ASSUME StoreInv, \A c \in LiveCells : cells'[c] = cells[c]
  PROVE  ArraysWithin(stack, ScalarCells') /\ ArraysWithin(args, ScalarCells')
<1>1. LiveCells \subseteq ScalarCells'
  BY LiveAreScalars DEF ScalarCells
<1>2. \A v \in Held : v.kind = "array" => ExtentOf(v) \subseteq ScalarCells'
  BY <1>1, HeldLive DEF StoreInv, LiveInv
<1>3. stack \in Seq(InHeap) /\ args \in Seq(InHeap)
  BY DEF StoreInv, LiveInv, MemInv
<1>4. /\ \A i \in 1 .. Len(stack) : stack[i] \in Held
      /\ \A i \in 1 .. Len(args) : args[i] \in Held
  BY <1>3 DEF Held, Elements
<1> QED BY <1>2, <1>4 DEF ArraysWithin

\* The new array gets cells that are not live.
LEMMA PlaceAvoidsLive ==
  ASSUME LiveInv, ~Dead, args = <<>>,
         NEW n \in Nat, n < PageBits, NEW junk \in BOOLEAN, Place(n, junk).at # NoChunk
  PROVE  Span(Place(n, junk).at, n) \intersect LiveCells = {}
<1>1. MemInv /\ ArraysWithin(stack, marks) /\ ArraysWithin(args, Place(n, junk).used)
  BY DEF LiveInv, ArraysWithin
<1>2. ArraysWithin(stack, Place(n, junk).used)
  BY <1>1, PlaceKeepsMarked
<1>3. LiveCells \subseteq Place(n, junk).used
  BY <1>1, <1>2, LiveCellsWithin
<1>4. Span(Place(n, junk).at, n) \intersect Place(n, junk).used = {}
  BY <1>1, SmallChunkFree
<1> QED BY <1>3, <1>4

\* A new array of scalars is seen as its contents.
LEMMA NewArraySeen ==
  ASSUME MemInv, NEW n \in Nat, NEW junk \in BOOLEAN, NEW contents \in [1 .. n -> InHeap],
         \A i \in 1 .. n : contents[i].kind = "scalar",
         Allocate(Place(n, junk), n, contents),
         NEW v, v = ArrayVal(Place(n, junk).at, n)
  PROVE  /\ v \in InHeap /\ v.kind = "array" /\ ExtentOf(v) \subseteq ScalarCells'
         /\ Seen(cells', v) = Abstract!Item("array", [i \in 1 .. n |-> contents[i].at])
<1>1. PICK a : a = Place(n, junk).at
  OBVIOUS
<1>2. a \in Nat /\ a + n < HeapSize
  BY <1>1, PlaceInHeap DEF Allocate
<1>3. v.kind = "array" /\ v.at = a /\ v.len = n /\ v \in InHeap
  BY <1>1, AllocateInHeap DEF ArrayVal
<1>4. \A c \in Cells : c \in Span(a, n) => cells'[c] = contents[c - a + 1]
  BY <1>1 DEF Allocate
<1>5. \A c \in Span(a, n) : c \in Cells /\ c - a + 1 \in 1 .. n
  BY <1>2, SizesAssumption DEF Span, Cells
<1>6. \A i \in 1 .. n : a + i - 1 \in Span(a, n) /\ (a + i - 1) - a + 1 = i
  BY <1>2 DEF Span
<1>7. \A i \in 1 .. n : cells'[a + i - 1] = contents[i]
  BY <1>4, <1>5, <1>6
<1>8. ExtentOf(v) \subseteq ScalarCells'
  BY <1>3, <1>4, <1>5 DEF ExtentOf, ScalarCells
<1>9. Seen(cells', v) = Abstract!Item(v.kind, [i \in 1 .. v.len |-> cells'[v.at + i - 1].at])
  BY <1>3, SeenKinds
<1>10. [i \in 1 .. v.len |-> cells'[v.at + i - 1].at] = [i \in 1 .. n |-> contents[i].at]
  BY <1>3, <1>7
<1> QED BY <1>3, <1>8, <1>9, <1>10

-----------------------------------------------------------------------------
(* The store's view of the stack.                                          *)

\* What is left and what is on top, seen by the store.
LEMMA StoreStack ==
  ASSUME MemInv, NEW k \in Nat, k <= Len(stack)
  PROVE  /\ Len(DerefAll(stack)) = Len(stack)
         /\ \A i \in 1 .. Len(stack) : DerefAll(stack)[i] = Seen(cells, stack[i])
         /\ Abstract!Under(k) = SeenAll(cells, Lower(k))
         /\ k >= 1 => Abstract!Last(k) = Seen(cells, stack[Len(stack) - k + 1])
<1>1. stack \in Seq(InHeap) /\ Len(stack) \in Nat
  BY DEF MemInv
<1>2. PICK h : h = SeenAll(cells, stack)
  OBVIOUS
<1>3. Len(h) = Len(stack) /\ \A i \in 1 .. Len(stack) : h[i] = Seen(cells, stack[i])
  BY <1>1, <1>2, SeenAllSeq
<1>4. DerefAll(stack) = h
  BY <1>2, DerefIsSeen
<1>5. Len(stack) - k \in 0 .. Len(stack)
  BY <1>1
<1>6. SubSeq(h, 1, Len(stack) - k) = SeenAll(cells, SubSeq(stack, 1, Len(stack) - k))
  BY <1>1, <1>2, <1>5, SeenPrefix
<1>7. Abstract!Under(k) = SeenAll(cells, Lower(k))
  BY <1>3, <1>4, <1>6 DEF Abstract!Under, Lower
<1>8. k >= 1 => Abstract!Last(k) = Seen(cells, stack[Len(stack) - k + 1])
  <2>1. k >= 1 => Len(stack) - k + 1 \in 1 .. Len(stack)
    BY <1>1
  <2> QED BY <1>3, <1>4, <2>1 DEF Abstract!Last
<1> QED BY <1>3, <1>4, <1>7, <1>8

\* A step of the running program is a step of the store when the stack it
\* leaves is what the store's operation says.
LEMMA BecomesStep ==
  ASSUME StoreInv, MemInv', Running, UNCHANGED <<args, status>>,
         NEW s, SeenAll(cells', stack') = s
  PROVE  Abstract!Becomes(s)
<1>1. args = <<>> /\ args' = <<>> /\ status = "run" /\ status' = "run"
  BY DEF StoreInv, LiveInv, Running
<1>2. DerefAll(args) = <<>> /\ DerefAll(args)' = <<>>
  BY <1>1, DerefIsSeen DEF SeenAll
<1>3. stack' \in Seq(InHeap) /\ Len(stack') <= StackSize
  BY DEF MemInv
<1>4. Len(s) <= StackSize
  BY <1>3, SeenAllSeq
<1>5. DerefAll(stack)' = s
  BY DerefIsSeen
<1> QED BY <1>1, <1>2, <1>4, <1>5 DEF Abstract!Becomes

\* A step that only moves values on the stack.
LEMMA MoveStore ==
  ASSUME StoreInv, LiveInv', UNCHANGED <<cells, args>>, ArraysWithin(stack', ScalarCells)
  PROVE  StoreInv'
BY DEF StoreInv, ScalarCells, ArraysWithin

LEMMA RunningFacts ==
  ASSUME StoreInv, Running
  PROVE  /\ MemInv /\ LiveInv /\ args = <<>> /\ ~Dead
         /\ stack \in Seq(InHeap) /\ Len(stack) \in Nat /\ Len(stack) > 0
         /\ ItersCovered(stack) /\ ArraysWithin(stack, ScalarCells)
BY DEF StoreInv, LiveInv, MemInv, Running, Dead

LEMMA LowerScalars ==
  ASSUME StoreInv, Running, NEW k \in Nat, k <= Len(stack)
  PROVE  /\ Lower(k) \in Seq(InHeap) /\ Len(Lower(k)) = Len(stack) - k
         /\ \A i \in 1 .. Len(Lower(k)) : Lower(k)[i] = stack[i]
         /\ ItersCovered(Lower(k)) /\ ArraysWithin(Lower(k), ScalarCells)
BY RunningFacts, StackParts, LowerKeeps

LEMMA TopScalars ==
  ASSUME StoreInv, Running
  PROVE  /\ Top \in InHeap
         /\ Top.kind = "array" => ExtentOf(Top) \subseteq ScalarCells
         /\ Abstract!Last(1) = Seen(cells, Top)
<1>1. MemInv /\ Len(stack) \in Nat /\ Len(stack) > 0 /\ ArraysWithin(stack, ScalarCells)
  BY RunningFacts
<1>2. Top \in InHeap
  BY <1>1, TopInHeap
<1>3. Top.kind = "array" => ExtentOf(Top) \subseteq ScalarCells
  BY <1>1 DEF Top, ArraysWithin
<1>4. Abstract!Last(1) = Seen(cells, stack[Len(stack) - 1 + 1])
  BY <1>1, StoreStack
<1>5. stack[Len(stack) - 1 + 1] = Top
  BY <1>1 DEF Top
<1> QED BY <1>2, <1>3, <1>4, <1>5

LEMMA ArraysAppend ==
  ASSUME NEW s \in Seq(InHeap), NEW v \in InHeap, NEW M, ArraysWithin(s, M),
         v.kind = "array" => ExtentOf(v) \subseteq M
  PROVE  ArraysWithin(Append(s, v), M)
<1>1. PICK t : t = Append(s, v)
  OBVIOUS
<1>2. /\ Len(s) \in Nat /\ Len(t) = Len(s) + 1 /\ t[Len(s) + 1] = v
      /\ \A i \in 1 .. Len(s) : t[i] = s[i]
  BY <1>1
<1>3. \A i \in 1 .. Len(t) : i \in 1 .. Len(s) \/ i = Len(s) + 1
  BY <1>2
<1>4. ArraysWithin(t, M)
  BY <1>2, <1>3 DEF ArraysWithin
<1> QED BY <1>1, <1>4

\* A value that the store knows takes the place of k values.
LEMMA AppendStore ==
  ASSUME StoreInv, LiveInv', Running, UNCHANGED <<cells, args, status>>,
         NEW k \in Nat, k <= Len(stack), NEW v \in InHeap,
         v.kind = "array" => ExtentOf(v) \subseteq ScalarCells,
         stack' = Append(Lower(k), v)
  PROVE  StoreInv' /\ Abstract!Becomes(Append(Abstract!Under(k), Seen(cells, v)))
<1>1. /\ Lower(k) \in Seq(InHeap) /\ ItersCovered(Lower(k))
      /\ ArraysWithin(Lower(k), ScalarCells)
  BY LowerScalars
<1>2. ArraysWithin(stack', ScalarCells)
  BY <1>1, ArraysAppend
<1>3. StoreInv' /\ MemInv'
  BY <1>2, MoveStore DEF LiveInv
<1>4. SeenAll(cells', stack') = Append(SeenAll(cells, Lower(k)), Seen(cells, v))
  BY <1>1, SeenAppend
<1>5. SeenAll(cells', stack') = Append(Abstract!Under(k), Seen(cells, v))
  BY <1>4, RunningFacts, StoreStack
<1> QED BY <1>3, <1>5, BecomesStep

LEMMA LowerZero == ASSUME MemInv PROVE Lower(0) = stack /\ Abstract!Under(0) = DerefAll(stack)
<1>1. stack \in Seq(InHeap) /\ Len(stack) \in Nat
  BY DEF MemInv
<1>2. Lower(0) = stack
  BY <1>1 DEF Lower
<1> QED BY <1>1, <1>2, StoreStack, DerefIsSeen

LEMMA PushValueStore ==
  ASSUME StoreInv, LiveInv', PushValue PROVE StoreInv' /\ Abstract!PushScalar
<1>1. PICK x \in Scalars : stack' = Append(stack, Scalar(x))
  BY DEF PushValue, Push
<1>2. Running /\ UNCHANGED <<cells, args, status>>
  BY DEF PushValue
<1>3. Scalar(x) \in InHeap /\ Scalar(x).kind = "scalar" /\ Scalar(x).at = x
  BY PlainInHeap DEF Scalar
<1>4. PICK v : v = Scalar(x)
  OBVIOUS
<1>5. Lower(0) = stack /\ Abstract!Under(0) = DerefAll(stack)
  BY <1>2, RunningFacts, LowerZero
<1>6. StoreInv' /\ Abstract!Becomes(Append(Abstract!Under(0), Seen(cells, v)))
  BY <1>1, <1>2, <1>3, <1>4, <1>5, RunningFacts, AppendStore
<1>7. Seen(cells, v) = Abstract!ScalarItem(x)
  BY <1>3, <1>4, SeenKinds
<1> QED BY <1>5, <1>6, <1>7 DEF Abstract!PushScalar

LEMMA LoadLocalStore ==
  ASSUME StoreInv, LiveInv', LoadLocal PROVE StoreInv' /\ Abstract!Copy
<1>1. PICK i \in 2 .. Len(stack) : stack[i].kind # "iter" /\ stack' = Append(stack, stack[i])
  BY DEF LoadLocal, Push
<1>2. Running /\ UNCHANGED <<cells, args, status>>
  BY DEF LoadLocal
<1>3. stack[i] \in InHeap /\ (stack[i].kind = "array" => ExtentOf(stack[i]) \subseteq ScalarCells)
      /\ i \in 1 .. Len(stack)
  BY <1>1, <1>2, RunningFacts DEF ArraysWithin
<1>4. PICK v : v = stack[i]
  OBVIOUS
<1>5. /\ Lower(0) = stack /\ Abstract!Under(0) = DerefAll(stack)
      /\ 0 \in Nat /\ 0 <= Len(stack)
  BY <1>2, RunningFacts, LowerZero
<1>9. /\ v \in InHeap /\ v.kind # "iter" /\ stack' = Append(Lower(0), v)
      /\ v.kind = "array" => ExtentOf(v) \subseteq ScalarCells
  BY <1>1, <1>3, <1>4, <1>5
<1>6. StoreInv' /\ Abstract!Becomes(Append(Abstract!Under(0), Seen(cells, v)))
  BY <1>2, <1>5, <1>9, AppendStore
<1>7. Len(DerefAll(stack)) = Len(stack) /\ DerefAll(stack)[i] = Seen(cells, v)
  BY <1>2, <1>3, <1>4, RunningFacts, StoreStack
<1>8. Abstract!Becomes(Append(DerefAll(stack), DerefAll(stack)[i]))
  BY <1>5, <1>6, <1>7
<1> QED BY <1>6, <1>7, <1>8 DEF Abstract!Copy

LEMMA StoreLocalStore ==
  ASSUME StoreInv, LiveInv', StoreLocal PROVE StoreInv' /\ Abstract!Store
<1>1. PICK i \in 2 .. (Len(stack) - 1) : stack' = [Lower(1) EXCEPT ![i] = Top]
  BY DEF StoreLocal
<1>2. Running /\ UNCHANGED <<cells, args, status>> /\ Len(stack) > 2
  BY DEF StoreLocal, Operands
<1>3. /\ Lower(1) \in Seq(InHeap) /\ Len(Lower(1)) = Len(stack) - 1
      /\ ArraysWithin(Lower(1), ScalarCells)
      /\ Top \in InHeap /\ (Top.kind = "array" => ExtentOf(Top) \subseteq ScalarCells)
      /\ Len(stack) \in Nat
  BY <1>2, LowerScalars, TopScalars, RunningFacts
<1>4. PICK r : r = Lower(1)
  OBVIOUS
<1>5. r \in Seq(InHeap) /\ i \in 1 .. Len(r) /\ stack' = [r EXCEPT ![i] = Top]
  BY <1>1, <1>3, <1>4
<1>6. ArraysWithin(stack', ScalarCells)
  BY <1>3, <1>4, <1>5 DEF ArraysWithin
<1>7. StoreInv' /\ MemInv'
  BY <1>2, <1>6, MoveStore DEF LiveInv
<1>8. SeenAll(cells, [r EXCEPT ![i] = Top]) = [SeenAll(cells, r) EXCEPT ![i] = Seen(cells, Top)]
  <2>1. PICK v : v = Top
    OBVIOUS
  <2>2. v \in InHeap /\ r \in Seq(InHeap) /\ i \in 1 .. Len(r)
    BY <1>3, <1>5, <2>1
  <2>3. SeenAll(cells, [r EXCEPT ![i] = v]) = [SeenAll(cells, r) EXCEPT ![i] = Seen(cells, v)]
    BY ONLY <2>2, SeenExcept, Zenon
  <2> QED BY <2>1, <2>3
<1>9. Abstract!Under(1) = SeenAll(cells, r) /\ Abstract!Last(1) = Seen(cells, Top)
      /\ Len(DerefAll(stack)) = Len(stack)
  BY <1>2, <1>3, <1>4, RunningFacts, StoreStack, TopScalars
<1>10. SeenAll(cells', stack') = [Abstract!Under(1) EXCEPT ![i] = Abstract!Last(1)]
  BY <1>2, <1>5, <1>8, <1>9
<1>11. Abstract!Becomes([Abstract!Under(1) EXCEPT ![i] = Abstract!Last(1)])
  BY <1>2, <1>7, <1>10, BecomesStep
<1> QED BY <1>1, <1>2, <1>7, <1>9, <1>11 DEF Abstract!Store

\* Values are popped.
LEMMA LowerStore ==
  ASSUME StoreInv, LiveInv', Running, UNCHANGED <<cells, args, status>>,
         NEW k \in Nat, k <= Len(stack), stack' = Lower(k)
  PROVE  StoreInv' /\ Abstract!Becomes(Abstract!Under(k))
<1>1. StoreInv' /\ MemInv'
  BY LowerScalars, MoveStore DEF LiveInv
<1>2. SeenAll(cells', stack') = Abstract!Under(k)
  BY RunningFacts, StoreStack
<1> QED BY <1>1, <1>2, BecomesStep

LEMMA PopStore ==
  ASSUME StoreInv, LiveInv', PopValues PROVE StoreInv' /\ Abstract!Drop
<1>1. PICK k \in 1 .. (Len(stack) - 1) : stack' = Lower(k)
  BY DEF PopValues
<1>2. Running /\ UNCHANGED <<cells, args, status>>
  BY DEF PopValues
<1>3. k \in Nat /\ k <= Len(stack) /\ Len(DerefAll(stack)) = Len(stack)
  BY <1>1, <1>2, RunningFacts, StoreStack
<1>4. StoreInv' /\ Abstract!Becomes(Abstract!Under(k))
  BY <1>1, <1>2, <1>3, LowerStore
<1> QED BY <1>3, <1>4 DEF Abstract!Drop

LEMMA ReturnStore ==
  ASSUME StoreInv, LiveInv', ReturnValue PROVE StoreInv' /\ Abstract!Return
<1>1. PICK k \in 2 .. (Len(stack) - 1) : stack' = Append(Lower(k), Top)
  BY DEF ReturnValue
<1>2. Running /\ UNCHANGED <<cells, args, status>> /\ Top.kind # "iter"
  BY DEF ReturnValue
<1>3. k \in Nat /\ k <= Len(stack) /\ Len(DerefAll(stack)) = Len(stack)
  BY <1>1, <1>2, RunningFacts, StoreStack
<1>4. PICK v : v = Top
  OBVIOUS
<1>5. v \in InHeap /\ (v.kind = "array" => ExtentOf(v) \subseteq ScalarCells)
      /\ Abstract!Last(1) = Seen(cells, v)
  BY <1>2, <1>4, TopScalars
<1>6. StoreInv' /\ Abstract!Becomes(Append(Abstract!Under(k), Seen(cells, v)))
  BY <1>1, <1>2, <1>3, <1>4, <1>5, AppendStore
<1> QED BY <1>1, <1>3, <1>5, <1>6 DEF Abstract!Return

LEMMA LengthStore ==
  ASSUME StoreInv, LiveInv', ArrayLength PROVE StoreInv' /\ Abstract!Length
<1>1. PICK x \in Scalars : stack' = Append(Lower(1), Scalar(x))
  BY DEF ArrayLength
<1>2. Running /\ UNCHANGED <<cells, args, status>> /\ Len(stack) > 1 /\ Top.kind = "array"
  BY DEF ArrayLength, Operands
<1>3. 1 \in Nat /\ 1 <= Len(stack) /\ Len(DerefAll(stack)) = Len(stack)
  BY <1>2, RunningFacts, StoreStack
<1>4. Scalar(x) \in InHeap /\ Scalar(x).kind = "scalar" /\ Scalar(x).at = x
  BY PlainInHeap DEF Scalar
<1>5. PICK v : v = Scalar(x)
  OBVIOUS
<1>6. StoreInv' /\ Abstract!Becomes(Append(Abstract!Under(1), Seen(cells, v)))
  BY <1>1, <1>2, <1>3, <1>4, <1>5, AppendStore
<1>7. Seen(cells, v) = Abstract!ScalarItem(x)
  BY <1>4, <1>5, SeenKinds
<1>8. Abstract!Last(1).kind = "array"
  BY <1>2, TopScalars, SeenKinds
<1> QED BY <1>2, <1>3, <1>6, <1>7, <1>8 DEF Abstract!Length

LEMMA MakeIterStore ==
  ASSUME StoreInv, LiveInv', MakeIter PROVE StoreInv' /\ Abstract!Iterate
<1>1. Running /\ UNCHANGED <<cells, args, status>> /\ Len(stack) > 1 /\ Top.kind = "array"
      /\ stack' = Append(Lower(1), IterVal(Top.at, Top.len))
  BY DEF MakeIter, Operands
<1>2. PICK v : v = IterVal(Top.at, Top.len)
  OBVIOUS
<1>3. Top \in InHeap /\ Abstract!Last(1) = Seen(cells, Top)
  BY <1>1, TopScalars
<1>4. v \in InHeap /\ v.kind = "iter" /\ v.at = Top.at /\ v.len = Top.len
  BY <1>1, <1>2, <1>3 DEF InHeap, Value, Kinds, IterVal
<1>5. 1 \in Nat /\ 1 <= Len(stack) /\ Len(DerefAll(stack)) = Len(stack)
  BY <1>1, RunningFacts, StoreStack
<1>6. StoreInv' /\ Abstract!Becomes(Append(Abstract!Under(1), Seen(cells, v)))
  BY <1>1, <1>2, <1>4, <1>5, AppendStore
<1>7. PICK items : items = [i \in 1 .. Top.len |-> cells[Top.at + i - 1].at]
  OBVIOUS
<1>8. Seen(cells, v) = Abstract!Item("iter", items)
  BY <1>4, <1>7, SeenKinds
<1>9. Abstract!Last(1) = Abstract!Item("array", items)
  BY <1>1, <1>3, <1>7, SeenKinds
<1>10. Abstract!Last(1).kind = "array" /\ Abstract!Last(1).items = items
  BY <1>9 DEF Abstract!Item
<1> QED BY <1>1, <1>5, <1>6, <1>8, <1>10 DEF Abstract!Iterate

LEMMA AppendTwice ==
  ASSUME NEW T, NEW s \in Seq(T), NEW a \in T, NEW b \in T
  PROVE  s \o <<a, b>> = Append(Append(s, a), b)
OBVIOUS

\* An iterator gives out its first element.
LEMMA FirstAndRest ==
  ASSUME NEW n \in Nat, n > 0, NEW f, NEW items, items = [i \in 1 .. n |-> f[i]],
         \A i \in 1 .. n : f[i] \in Nat
  PROVE  items # <<>> /\ Head(items) = f[1] /\ Tail(items) = [i \in 1 .. (n - 1) |-> f[i + 1]]
<1>1. items \in Seq(Nat) /\ Len(items) = n /\ \A i \in 1 .. n : items[i] = f[i]
  OBVIOUS
<1>2. 1 \in 1 .. n
  OBVIOUS
<1>3. Tail(items) = [i \in 1 .. (n - 1) |-> items[i + 1]]
  BY <1>1
<1>4. \A i \in 1 .. (n - 1) : items[i + 1] = f[i + 1]
  BY <1>1
<1> QED BY <1>1, <1>2, <1>3, <1>4

LEMMA IterNextStore ==
  ASSUME StoreInv, LiveInv', IterNext PROVE StoreInv' /\ Abstract!Advance
<1>1. Running /\ UNCHANGED <<cells, args, status>> /\ Len(stack) > 1 /\ Top.kind = "iter"
  BY DEF IterNext, Operands
<1>2. Top \in InHeap /\ Abstract!Last(1) = Seen(cells, Top) /\ Top.at \in Nat /\ Top.len \in Nat
  BY <1>1, TopScalars DEF InHeap, Value
<1>3. PICK items : items = [i \in 1 .. Top.len |-> cells[Top.at + i - 1].at]
  OBVIOUS
<1>4. Abstract!Last(1) = Abstract!Item("iter", items)
  BY <1>1, <1>2, <1>3, SeenKinds
<1>5. Abstract!Last(1).kind = "iter" /\ Abstract!Last(1).items = items
  BY <1>4 DEF Abstract!Item
<1>6. 1 \in Nat /\ 1 <= Len(stack) /\ Len(DerefAll(stack)) = Len(stack)
  BY <1>1, RunningFacts, StoreStack
<1>7. CASE Top.len = 0 /\ stack' = Lower(1)
  <2>1. items = <<>>
    BY <1>3, <1>7
  <2>2. StoreInv' /\ Abstract!Becomes(Abstract!Under(1))
    BY <1>1, <1>6, <1>7, LowerStore
  <2> QED BY <1>1, <1>5, <1>6, <2>1, <2>2 DEF Abstract!Advance
<1>8. CASE /\ Top.len > 0
           /\ stack' = Lower(1) \o <<IterVal(Top.at + 1, Top.len - 1), cells[Top.at]>>
  <2>1. PICK v : v = IterVal(Top.at + 1, Top.len - 1)
    OBVIOUS
  <2>2. PICK x : x = cells[Top.at]
    OBVIOUS
  <2>3. v \in InHeap /\ v.kind = "iter" /\ v.at = Top.at + 1 /\ v.len = Top.len - 1
    <3>1. /\ Top.at + Top.len < HeapSize
          /\ v.at = Top.at + 1 /\ v.len = Top.len - 1 /\ v.kind = "iter"
      BY <1>1, <1>2, <2>1 DEF InHeap, IterVal
    <3> QED BY <1>2, <1>8, <2>1, <3>1, SizesAssumption DEF InHeap, Value, Kinds, IterVal
  <2>4. ExtentOf(Top) \subseteq ScalarCells
    <3>1. Top \in Held
      BY <1>1, RunningFacts DEF Top, Held, Elements
    <3> QED BY <1>1, <3>1, HeldLive, LiveAreScalars, RunningFacts
  <2>5. Top.at \in ExtentOf(Top)
    BY <1>2, <1>8 DEF ExtentOf, Span
  <2>6. x.kind = "scalar" /\ x \in InHeap
    BY <1>1, <2>2, <2>4, <2>5, RunningFacts DEF ScalarCells, MemInv
  <2>7. PICK r : r = Lower(1)
    OBVIOUS
  <2>8. r \in Seq(InHeap) /\ ArraysWithin(r, ScalarCells)
    BY <1>1, <1>6, <2>7, LowerScalars
  <2>9. stack' = Append(Append(r, v), x)
    BY <1>8, <2>1, <2>2, <2>3, <2>6, <2>7, <2>8, AppendTwice
  <2>10. Append(r, v) \in Seq(InHeap) /\ ArraysWithin(Append(r, v), ScalarCells)
    BY <2>3, <2>8, ArraysAppend
  <2>11. ArraysWithin(stack', ScalarCells)
    BY <2>6, <2>9, <2>10, ArraysAppend
  <2>12. StoreInv' /\ MemInv'
    BY <1>1, <2>11, MoveStore DEF LiveInv
  <2>13. SeenAll(cells, stack') = Append(Append(SeenAll(cells, r), Seen(cells, v)), Seen(cells, x))
    BY <2>3, <2>6, <2>8, <2>9, <2>10, SeenAppend
  <2>14. SeenAll(cells, r) \o <<Seen(cells, v), Seen(cells, x)>>
           = Append(Append(SeenAll(cells, r), Seen(cells, v)), Seen(cells, x))
    <3>1. PICK T : T = {Seen(cells, w) : w \in InHeap}
      OBVIOUS
    <3>2. SeenAll(cells, r) \in Seq(T) /\ Seen(cells, v) \in T /\ Seen(cells, x) \in T
      BY <2>3, <2>6, <2>8, <3>1, SeenAllSeq
    <3> QED BY <3>2, AppendTwice
  <2>15. Abstract!Under(1) = SeenAll(cells, r)
    BY <1>1, <1>6, <2>7, RunningFacts, StoreStack
  <2>16. Abstract!Becomes(Abstract!Under(1) \o <<Seen(cells, v), Seen(cells, x)>>)
    <3>1. SeenAll(cells', stack') = Abstract!Under(1) \o <<Seen(cells, v), Seen(cells, x)>>
      BY <1>1, <2>13, <2>14, <2>15
    <3> QED BY <1>1, <2>12, <3>1, BecomesStep
  <2>17. items # <<>> /\ Head(items) = x.at
         /\ Tail(items) = [i \in 1 .. v.len |-> cells[v.at + i - 1].at]
    <3>1. PICK f : f = [i \in 1 .. Top.len |-> cells[Top.at + i - 1].at]
      OBVIOUS
    <3>2. \A i \in 1 .. Top.len : f[i] \in Nat
      <4>1. ASSUME NEW i \in 1 .. Top.len PROVE cells[Top.at + i - 1].at \in Nat
        <5>1. Top.at + i - 1 \in ExtentOf(Top)
          BY <1>2 DEF ExtentOf, Span
        <5>2. cells[Top.at + i - 1] \in InHeap
          BY <1>1, <2>4, <5>1, RunningFacts DEF ScalarCells, MemInv
        <5> QED BY <5>2 DEF InHeap, Value
      <4> QED BY <3>1, <4>1
    <3>3. items = [i \in 1 .. Top.len |-> f[i]]
      BY <1>3, <3>1
    <3>4. /\ items # <<>> /\ Head(items) = f[1]
          /\ Tail(items) = [i \in 1 .. (Top.len - 1) |-> f[i + 1]]
      BY <1>2, <1>8, <3>2, <3>3, FirstAndRest
    <3>5. f[1] = x.at
      BY <1>2, <1>8, <2>2, <3>1
    <3>6. ASSUME NEW i \in 1 .. (Top.len - 1) PROVE f[i + 1] = cells[v.at + i - 1].at
      <4>1. i + 1 \in 1 .. Top.len /\ Top.at + (i + 1) - 1 = v.at + i - 1
        BY <1>2, <2>3
      <4> QED BY <3>1, <4>1
    <3> QED BY <2>3, <3>4, <3>5, <3>6
  <2>18. Seen(cells, v) = Abstract!Item("iter", Tail(items))
         /\ Seen(cells, x) = Abstract!ScalarItem(Head(items))
    <3>1. Seen(cells, v) = Abstract!Item(v.kind, [i \in 1 .. v.len |-> cells[v.at + i - 1].at])
      BY <2>3, SeenKinds
    <3>2. Seen(cells, x) = Abstract!ScalarItem(x.at)
      BY <2>6, SeenKinds
    <3> QED BY <2>3, <2>17, <3>1, <3>2
  <2>19. items # <<>>
    BY <2>17
  <2> QED BY <1>1, <1>5, <1>6, <2>12, <2>16, <2>18, <2>19 DEF Abstract!Advance
<1> QED BY <1>7, <1>8 DEF IterNext

\* A new array of scalars takes the place of k values.
LEMMA PushArrayStore ==
  ASSUME StoreInv, LiveInv', Running, \A c \in LiveCells : cells'[c] = cells[c],
         UNCHANGED <<args, status>>, NEW k \in Nat, k <= Len(stack),
         NEW n \in Nat, NEW junk \in BOOLEAN, NEW contents \in [1 .. n -> InHeap],
         \A i \in 1 .. n : contents[i].kind = "scalar",
         Allocate(Place(n, junk), n, contents),
         stack' = Append(Lower(k), ArrayVal(Place(n, junk).at, n))
  PROVE  /\ StoreInv'
         /\ Abstract!Becomes(Append(Abstract!Under(k),
                                    Abstract!Item("array", [i \in 1 .. n |-> contents[i].at])))
<1>1. MemInv /\ LiveInv /\ args = <<>> /\ stack \in Seq(InHeap)
  BY RunningFacts
<1>2. PICK v : v = ArrayVal(Place(n, junk).at, n)
  OBVIOUS
<1>3. /\ v \in InHeap /\ v.kind = "array" /\ ExtentOf(v) \subseteq ScalarCells'
      /\ Seen(cells', v) = Abstract!Item("array", [i \in 1 .. n |-> contents[i].at])
  BY <1>1, <1>2, NewArraySeen
<1>4. PICK r : r = Lower(k)
  OBVIOUS
<1>5. r \in Seq(InHeap) /\ Len(r) = Len(stack) - k /\ \A i \in 1 .. Len(r) : r[i] = stack[i]
  BY <1>4, LowerScalars
<1>6. ArraysWithin(stack, ScalarCells')
  BY ScalarsKept
<1>7. ArraysWithin(r, ScalarCells')
  BY <1>1, <1>4, <1>6, LowerKeeps
<1>8. stack' = Append(r, v)
  BY <1>2, <1>4
<1>9. ArraysWithin(stack', ScalarCells')
  BY <1>3, <1>5, <1>7, <1>8, ArraysAppend
<1>10. ArraysWithin(args', ScalarCells')
  BY <1>1 DEF ArraysWithin
<1>11. StoreInv' /\ MemInv'
  BY <1>9, <1>10 DEF StoreInv, LiveInv
<1>12. SeenAll(cells', stack') = Append(SeenAll(cells', r), Seen(cells', v))
  BY <1>3, <1>5, <1>8, SeenAppend
<1>13. SeenAll(cells', r) = SeenAll(cells, r)
  <2>1. \A i \in 1 .. Len(r) : r[i] \in Held
    <3>1. Len(stack) \in Nat
      BY <1>1
    <3>2. \A i \in 1 .. Len(r) : i \in DOMAIN stack /\ r[i] = stack[i]
      BY <1>1, <1>5, <3>1
    <3> QED BY <3>2 DEF Held, Elements
  <2> QED BY <1>1, <1>5, <2>1, HeldKept
<1>14. Abstract!Under(k) = SeenAll(cells, r)
  BY <1>1, <1>4, StoreStack
<1>15. SeenAll(cells', stack')
         = Append(Abstract!Under(k), Abstract!Item("array", [i \in 1 .. n |-> contents[i].at]))
  BY <1>3, <1>12, <1>13, <1>14
<1> QED BY <1>11, <1>15, BecomesStep

\* A call ends without touching memory.
LEMMA EndStore ==
  ASSUME StoreInv, LiveInv', Running, UNCHANGED <<cells, args>>,
         status' \in {"idle", "oom", "aborted", "crashed"},
         stack' = stack \/ stack' = SubSeq(stack, 1, 1)
  PROVE  StoreInv' /\ Abstract!End
<1>1. MemInv /\ stack \in Seq(InHeap) /\ Len(stack) \in Nat /\ 1 \in 0 .. Len(stack)
      /\ ItersCovered(stack) /\ ArraysWithin(stack, ScalarCells)
  BY RunningFacts
<1>2. ArraysWithin(stack', ScalarCells)
  BY <1>1, PrefixKeeps
<1>3. StoreInv'
  BY <1>2, MoveStore
<1>4. /\ DerefAll(stack) = SeenAll(cells, stack) /\ DerefAll(stack)' = SeenAll(cells, stack')
      /\ DerefAll(args)' = DerefAll(args)
  BY DerefIsSeen
<1>5. SubSeq(SeenAll(cells, stack), 1, 1) = SeenAll(cells, SubSeq(stack, 1, 1))
  BY <1>1, SeenPrefix
<1>6. DerefAll(stack)' \in {SubSeq(DerefAll(stack), 1, 1), DerefAll(stack)}
  BY <1>4, <1>5
<1> QED BY <1>3, <1>4, <1>6 DEF Abstract!End, Running

LEMMA MakeArrayStore ==
  ASSUME FlatUse, StoreInv, LiveInv', \A c \in LiveCells : cells'[c] = cells[c],
         NEW n \in Lengths, MakeArray(n)
  PROVE  StoreInv' /\ (Abstract!Make(n) \/ Abstract!End)
<1>1. n \in Nat /\ n < Len(stack) /\ n <= Len(stack) /\ Running
      /\ \A v \in Elements(Upper(n)) : v.kind = "scalar"
  <2>1. n \in Nat /\ n < Len(stack) /\ Running
        /\ \A v \in Elements(Upper(n)) : v.kind = "scalar"
    BY ProgramAssumption DEF MakeArray, Operands, FlatUse
  <2> QED BY <2>1, RunningFacts
<1>2. PICK junk \in BOOLEAN :
        \/ /\ Allocate(Place(n, junk), n, Upper(n))
           /\ stack' = Append(Lower(n), ArrayVal(Place(n, junk).at, n))
           /\ UNCHANGED <<args, status>>
        \/ AssertFails(Place(n, junk), n)
        \/ /\ Place(n, junk).at = NoChunk
           /\ marks' = Place(n, junk).used
           /\ status' = "oom"
           /\ UNCHANGED <<cells, stack, args>>
  BY DEF MakeArray
<1>3. MemInv /\ stack \in Seq(InHeap) /\ Len(stack) \in Nat
  BY <1>1, RunningFacts
<1>4. PICK contents : contents = Upper(n)
  OBVIOUS
<1>5. /\ contents \in [1 .. n -> InHeap]
      /\ \A i \in 1 .. n : contents[i] = stack[Len(stack) - n + i]
      /\ \A i \in 1 .. n : contents[i].kind = "scalar"
  <2>1. /\ contents \in [1 .. n -> InHeap]
        /\ \A i \in 1 .. n : contents[i] = stack[Len(stack) - n + i]
    BY <1>1, <1>3, <1>4, StackParts
  <2>2. \A i \in 1 .. n : contents[i] \in Elements(Upper(n))
    BY <1>4, <2>1 DEF Elements
  <2> QED BY <1>1, <2>1, <2>2
<1>6. CASE /\ Allocate(Place(n, junk), n, Upper(n))
           /\ stack' = Append(Lower(n), ArrayVal(Place(n, junk).at, n))
           /\ UNCHANGED <<args, status>>
  <2>1. /\ StoreInv'
        /\ Abstract!Becomes(Append(Abstract!Under(n),
                                   Abstract!Item("array", [i \in 1 .. n |-> contents[i].at])))
    BY <1>1, <1>4, <1>5, <1>6, PushArrayStore
  <2>2. Len(DerefAll(stack)) = Len(stack)
    BY <1>1, <1>3, StoreStack
  <2>3. \A i \in 1 .. n : Abstract!Over(n)[i] = Seen(cells, contents[i])
    <3>1. PICK h : h = DerefAll(stack)
      OBVIOUS
    <3>2. h = SeenAll(cells, stack)
      BY <3>1, DerefIsSeen
    <3>3. /\ h \in Seq({Seen(cells, v) : v \in InHeap}) /\ Len(h) = Len(stack)
          /\ \A i \in 1 .. Len(stack) : h[i] = Seen(cells, stack[i])
      BY <1>3, <3>2, SeenAllSeq
    <3>4. \A i \in 1 .. n : SubSeq(h, Len(h) - n + 1, Len(h))[i] = h[Len(h) - n + i]
      BY <1>1, <3>3
    <3>5. \A i \in 1 .. n : Len(stack) - n + i \in 1 .. Len(stack)
      BY <1>1, <1>3
    <3>6. \A i \in 1 .. n : SubSeq(h, Len(h) - n + 1, Len(h))[i] = Seen(cells, contents[i])
      BY <1>5, <3>3, <3>4, <3>5
    <3> QED BY <3>1, <3>6 DEF Abstract!Over
  <2>4. \A i \in 1 .. n : /\ Abstract!Over(n)[i].kind = "scalar"
                          /\ Abstract!Over(n)[i].items[1] = contents[i].at
    <3>1. ASSUME NEW i \in 1 .. n
          PROVE  Seen(cells, contents[i]).kind = "scalar"
                 /\ Seen(cells, contents[i]).items[1] = contents[i].at
      <4>1. Seen(cells, contents[i]) = Abstract!ScalarItem(contents[i].at)
        BY <1>5, SeenKinds
      <4> QED BY <4>1 DEF Abstract!ScalarItem, Abstract!Item
    <3> QED BY <2>3, <3>1
  <2>5. [i \in 1 .. n |-> Abstract!Over(n)[i].items[1]] = [i \in 1 .. n |-> contents[i].at]
    BY <2>4
  <2> QED BY <1>1, <2>1, <2>2, <2>4, <2>5 DEF Abstract!Make
<1>7. CASE AssertFails(Place(n, junk), n)
  BY <1>1, <1>7, EndStore DEF AssertFails
<1>8. CASE /\ Place(n, junk).at = NoChunk
           /\ marks' = Place(n, junk).used
           /\ status' = "oom"
           /\ UNCHANGED <<cells, stack, args>>
  BY <1>1, <1>8, EndStore
<1> QED BY <1>2, <1>6, <1>7, <1>8

LEMMA ToStringStore ==
  ASSUME StoreInv, LiveInv', \A c \in LiveCells : cells'[c] = cells[c],
         NEW n \in Lengths, NativeToString(n)
  PROVE  StoreInv' /\ (Abstract!Spell(n) \/ Abstract!End)
<1>1. n \in Nat /\ Len(stack) > 1 /\ Running /\ Top.kind = "scalar"
  BY ProgramAssumption DEF NativeToString, Operands
<1>2. PICK junk \in BOOLEAN, x \in Scalars :
        \/ /\ Allocate(Place(n, junk), n, [i \in 1 .. n |-> Scalar(x)])
           /\ stack' = Append(Lower(1), ArrayVal(Place(n, junk).at, n))
           /\ UNCHANGED <<args, status>>
        \/ AssertFails(Place(n, junk), n)
        \/ NullWrite(Place(n, junk))
  BY DEF NativeToString
<1>3. CASE /\ Allocate(Place(n, junk), n, [i \in 1 .. n |-> Scalar(x)])
           /\ stack' = Append(Lower(1), ArrayVal(Place(n, junk).at, n))
           /\ UNCHANGED <<args, status>>
  <2>1. PICK contents : contents = [i \in 1 .. n |-> Scalar(x)]
    OBVIOUS
  <2>2. /\ contents \in [1 .. n -> InHeap]
        /\ \A i \in 1 .. n : contents[i].kind = "scalar" /\ contents[i].at = x
    BY <2>1, PlainInHeap DEF Scalar
  <2>3. 1 \in Nat /\ 1 <= Len(stack) /\ Len(DerefAll(stack)) = Len(stack)
    BY <1>1, RunningFacts, StoreStack
  <2>4. /\ StoreInv'
        /\ Abstract!Becomes(Append(Abstract!Under(1),
                                   Abstract!Item("array", [i \in 1 .. n |-> contents[i].at])))
    BY <1>1, <1>3, <2>1, <2>2, <2>3, PushArrayStore
  <2>5. [i \in 1 .. n |-> contents[i].at] = [i \in 1 .. n |-> x]
    BY <2>2
  <2>6. Abstract!Last(1).kind = "scalar"
    BY <1>1, TopScalars, SeenKinds
  <2> QED BY <1>1, <2>3, <2>4, <2>5, <2>6 DEF Abstract!Spell
<1>4. CASE AssertFails(Place(n, junk), n)
  BY <1>1, <1>4, EndStore DEF AssertFails
<1>5. CASE NullWrite(Place(n, junk))
  BY <1>1, <1>5, EndStore DEF NullWrite
<1> QED BY <1>2, <1>3, <1>4, <1>5

\* What the store sees of an array of scalars.
LEMMA ArraySeen ==
  ASSUME StoreInv, NEW v \in Held, v.kind = "array",
         NEW items, items = [i \in 1 .. v.len |-> cells[v.at + i - 1].at]
  PROVE  /\ v \in InHeap /\ v.at \in Nat /\ v.len \in Nat
         /\ \A i \in 1 .. v.len : /\ v.at + i - 1 \in LiveCells
                                  /\ v.at + i - 1 \in Cells
                                  /\ cells[v.at + i - 1] \in InHeap
                                  /\ cells[v.at + i - 1].kind = "scalar"
         /\ items \in Seq(Nat) /\ Len(items) = v.len
         /\ Seen(cells, v) = Abstract!Item("array", items)
<1>1. MemInv
  BY DEF StoreInv, LiveInv
<1>2. v \in InHeap /\ ExtentOf(v) \subseteq LiveCells
  BY <1>1, HeldLive
<1>3. v.at \in Nat /\ v.len \in Nat
  BY <1>2 DEF InHeap, Value
<1>4. ASSUME NEW i \in 1 .. v.len
      PROVE  /\ v.at + i - 1 \in LiveCells /\ v.at + i - 1 \in Cells
             /\ cells[v.at + i - 1] \in InHeap /\ cells[v.at + i - 1].kind = "scalar"
  <2>1. v.at + i - 1 \in ExtentOf(v)
    BY <1>3 DEF ExtentOf, Span
  <2>2. v.at + i - 1 \in LiveCells
    BY <1>2, <2>1
  <2> QED BY <1>1, <2>2, LiveAreScalars DEF ScalarCells, MemInv
<1>5. \A i \in 1 .. v.len : cells[v.at + i - 1].at \in Nat
  BY <1>4 DEF InHeap, Value
<1>6. items \in Seq(Nat) /\ Len(items) = v.len
  BY <1>3, <1>5
<1>7. Seen(cells, v) = Abstract!Item("array", items)
  BY SeenKinds
<1> QED BY <1>2, <1>3, <1>4, <1>6, <1>7

LEMMA JoinItems ==
  ASSUME NEW f \in Seq(Nat), NEW g \in Seq(Nat), NEW h,
         h = [i \in 1 .. (Len(f) + Len(g)) |-> IF i <= Len(f) THEN f[i] ELSE g[i - Len(f)]]
  PROVE  f \o g = h
<1>1. PICK r : r = f \o g
  OBVIOUS
<1>2. /\ r \in Seq(Nat) /\ Len(r) = Len(f) + Len(g)
      /\ \A i \in 1 .. (Len(f) + Len(g)) : r[i] = IF i <= Len(f) THEN f[i] ELSE g[i - Len(f)]
  BY <1>1
<1>3. r = [i \in 1 .. (Len(f) + Len(g)) |-> r[i]]
  BY <1>2
<1>4. r = h
  BY <1>2, <1>3
<1> QED BY <1>1, <1>4

LEMMA AddStringsStore ==
  ASSUME FlatUse, StoreInv, LiveInv', \A c \in LiveCells : cells'[c] = cells[c],
         NativeAddStrings
  PROVE  StoreInv' /\ (Abstract!Concat \/ Abstract!End)
<1>1. PICK a : a = stack[Len(stack) - 1]
  OBVIOUS
<1>2. PICK b : b = Top
  OBVIOUS
<1>3. PICK n : n = a.len + b.len
  OBVIOUS
<1>4. /\ Running /\ Len(stack) > 2 /\ n \in Lengths /\ a.kind = "array" /\ b.kind = "array"
  BY <1>1, <1>2, <1>3 DEF NativeAddStrings, Operands
<1>5. n \in Nat /\ n < PageBits
  BY <1>4, ProgramAssumption DEF FlatUse
<1>6. PICK junk \in BOOLEAN :
        \/ /\ Allocate(Place(n, junk), n, Joined(Zeroed(Place(n, junk).at, n), a, b))
           /\ stack' = Append(Lower(2), ArrayVal(Place(n, junk).at, n))
           /\ UNCHANGED <<args, status>>
        \/ AssertFails(Place(n, junk), n)
        \/ NullWrite(Place(n, junk))
  BY <1>1, <1>2, <1>3 DEF NativeAddStrings
<1>7. /\ LiveInv /\ ~Dead /\ args = <<>> /\ MemInv
      /\ stack \in Seq(InHeap) /\ Len(stack) \in Nat
  BY <1>4, RunningFacts
<1>8. a \in Held /\ b \in Held
  BY <1>1, <1>2, <1>4, <1>7 DEF Top, Held, Elements
<1>9. PICK f : f = [i \in 1 .. a.len |-> cells[a.at + i - 1].at]
  OBVIOUS
<1>10. PICK g : g = [i \in 1 .. b.len |-> cells[b.at + i - 1].at]
  OBVIOUS
<1>11. /\ a.at \in Nat /\ a.len \in Nat /\ f \in Seq(Nat) /\ Len(f) = a.len
       /\ \A i \in 1 .. a.len : /\ a.at + i - 1 \in LiveCells /\ a.at + i - 1 \in Cells
                                /\ cells[a.at + i - 1] \in InHeap
                                /\ cells[a.at + i - 1].kind = "scalar"
       /\ Seen(cells, a) = Abstract!Item("array", f)
  BY <1>4, <1>8, <1>9, ArraySeen
<1>12. /\ b.at \in Nat /\ b.len \in Nat /\ g \in Seq(Nat) /\ Len(g) = b.len
       /\ \A i \in 1 .. b.len : /\ b.at + i - 1 \in LiveCells /\ b.at + i - 1 \in Cells
                                /\ cells[b.at + i - 1] \in InHeap
                                /\ cells[b.at + i - 1].kind = "scalar"
       /\ Seen(cells, b) = Abstract!Item("array", g)
  BY <1>4, <1>8, <1>10, ArraySeen
<1>13. CASE /\ Allocate(Place(n, junk), n, Joined(Zeroed(Place(n, junk).at, n), a, b))
            /\ stack' = Append(Lower(2), ArrayVal(Place(n, junk).at, n))
            /\ UNCHANGED <<args, status>>
  <2>1. PICK from : from = Zeroed(Place(n, junk).at, n)
    OBVIOUS
  <2>2. \A c \in LiveCells : c \in Cells => from[c] = cells[c]
    <3>1. Span(Place(n, junk).at, n) \intersect LiveCells = {}
      BY <1>5, <1>7, <1>13, PlaceAvoidsLive DEF Allocate
    <3> QED BY <2>1, <3>1 DEF Zeroed
  <2>3. PICK contents : contents = Joined(from, a, b)
    OBVIOUS
  <2>4. contents = [i \in 1 .. n |-> IF i <= a.len THEN from[a.at + i - 1]
                                                  ELSE from[b.at + i - a.len - 1]]
    BY <1>3, <2>3 DEF Joined
  <2>5. ASSUME NEW i \in 1 .. n
        PROVE  /\ contents[i] \in InHeap /\ contents[i].kind = "scalar"
               /\ contents[i].at = IF i <= Len(f) THEN f[i] ELSE g[i - Len(f)]
    <3>1. CASE i <= a.len
      <4>1. i \in 1 .. a.len
        BY <1>11, <3>1
      <4>2. contents[i] = cells[a.at + i - 1]
        BY <1>11, <2>2, <2>4, <3>1, <4>1
      <4>3. f[i] = cells[a.at + i - 1].at
        BY <1>9, <4>1
      <4> QED BY <1>11, <3>1, <4>1, <4>2, <4>3
    <3>2. CASE ~(i <= a.len)
      <4>1. PICK j : j = i - a.len
        OBVIOUS
      <4>2. j \in 1 .. b.len /\ b.at + i - a.len - 1 = b.at + j - 1
        BY <1>3, <1>11, <1>12, <3>2, <4>1
      <4>3. contents[i] = from[b.at + j - 1]
        BY <2>4, <3>2, <4>2
      <4>4. contents[i] = cells[b.at + j - 1]
        BY <1>12, <2>2, <4>2, <4>3
      <4>5. g[j] = cells[b.at + j - 1].at
        BY <1>10, <4>2
      <4> QED BY <1>11, <1>12, <3>2, <4>1, <4>2, <4>4, <4>5
    <3> QED BY <3>1, <3>2
  <2>6. contents \in [1 .. n -> InHeap]
    BY <2>4, <2>5
  <2>7. /\ 2 \in Nat /\ 1 \in Nat /\ 2 <= Len(stack) /\ 1 <= Len(stack)
        /\ Len(DerefAll(stack)) = Len(stack)
    BY <1>4, <1>7, StoreStack
  <2>8. /\ StoreInv'
        /\ Abstract!Becomes(Append(Abstract!Under(2),
                                   Abstract!Item("array", [i \in 1 .. n |-> contents[i].at])))
    BY <1>4, <1>5, <1>13, <2>1, <2>3, <2>5, <2>6, <2>7, PushArrayStore
  <2>9. f \o g = [i \in 1 .. n |-> contents[i].at]
    <3>1. f \o g = [i \in 1 .. (Len(f) + Len(g)) |-> IF i <= Len(f) THEN f[i] ELSE g[i - Len(f)]]
      BY <1>11, <1>12, JoinItems
    <3>2. Len(f) + Len(g) = n
      BY <1>3, <1>11, <1>12
    <3> QED BY <2>5, <3>1, <3>2
  <2>10. Abstract!Last(2) = Abstract!Item("array", f)
    <3>1. Abstract!Last(2) = Seen(cells, stack[Len(stack) - 2 + 1])
      BY <1>7, <2>7, StoreStack
    <3>2. stack[Len(stack) - 2 + 1] = a
      BY <1>1, <1>7
    <3> QED BY <1>11, <3>1, <3>2
  <2>11. Abstract!Last(1) = Abstract!Item("array", g)
    BY <1>2, <1>4, <1>12, TopScalars
  <2>12. /\ Abstract!Last(2).kind = "array" /\ Abstract!Last(2).items = f
         /\ Abstract!Last(1).kind = "array" /\ Abstract!Last(1).items = g
    BY <2>10, <2>11 DEF Abstract!Item
  <2> QED BY <1>4, <2>7, <2>8, <2>9, <2>12 DEF Abstract!Concat
<1>14. CASE AssertFails(Place(n, junk), n)
  BY <1>4, <1>14, EndStore DEF AssertFails
<1>15. CASE NullWrite(Place(n, junk))
  BY <1>4, <1>15, EndStore DEF NullWrite
<1> QED BY <1>6, <1>13, <1>14, <1>15

-----------------------------------------------------------------------------
(* The host.                                                               *)

LEMMA HostStringStore ==
  ASSUME FlatUse, StoreInv, LiveInv', \A c \in LiveCells : cells'[c] = cells[c],
         NEW n \in Lengths, HostString(n)
  PROVE  StoreInv' /\ Abstract!Give(n)
<1>1. n \in Nat /\ Idle /\ ~Running /\ Len(args) < MaxHostArgs
  BY ProgramAssumption DEF HostString, Idle, Running
<1>2. PICK junk \in BOOLEAN, x \in Scalars :
        \/ /\ Allocate(Place(n, junk), n, [i \in 1 .. n |-> Scalar(x)])
           /\ args' = Append(args, ArrayVal(Place(n, junk).at, n))
           /\ UNCHANGED <<stack, status>>
        \/ AssertFails(Place(n, junk), n)
        \/ NullWrite(Place(n, junk))
  BY DEF HostString
<1>3. MemInv /\ stack \in Seq(InHeap) /\ args \in Seq(InHeap)
  BY DEF StoreInv, LiveInv, MemInv
<1>4. /\ \A i \in 1 .. Len(stack) : stack[i] \in Held
      /\ \A i \in 1 .. Len(args) : args[i] \in Held
  BY <1>3 DEF Held, Elements
<1>5. /\ SeenAll(cells', stack) = SeenAll(cells, stack)
      /\ SeenAll(cells', args) = SeenAll(cells, args)
  BY <1>3, <1>4, HeldKept
<1>6. Len(DerefAll(args)) = Len(args)
  BY <1>3, SeenAllSeq, DerefIsSeen
<1>7. CASE /\ Allocate(Place(n, junk), n, [i \in 1 .. n |-> Scalar(x)])
           /\ args' = Append(args, ArrayVal(Place(n, junk).at, n))
           /\ UNCHANGED <<stack, status>>
  <2>1. PICK contents : contents = [i \in 1 .. n |-> Scalar(x)]
    OBVIOUS
  <2>2. /\ contents \in [1 .. n -> InHeap]
        /\ \A i \in 1 .. n : contents[i].kind = "scalar" /\ contents[i].at = x
    BY <2>1, PlainInHeap DEF Scalar
  <2>3. PICK v : v = ArrayVal(Place(n, junk).at, n)
    OBVIOUS
  <2>4. /\ v \in InHeap /\ v.kind = "array" /\ ExtentOf(v) \subseteq ScalarCells'
        /\ Seen(cells', v) = Abstract!Item("array", [i \in 1 .. n |-> contents[i].at])
    <3>1. Allocate(Place(n, junk), n, contents)
      BY <1>7, <2>1
    <3>2. MemInv /\ n \in Nat /\ \A i \in 1 .. n : contents[i].kind = "scalar"
      BY <1>1, <1>3, <2>2
    <3>3. contents \in [1 .. n -> InHeap]
      BY <2>2
    <3> QED BY ONLY <2>3, <3>1, <3>2, <3>3, NewArraySeen, Zenon
  <2>5. [i \in 1 .. n |-> contents[i].at] = [i \in 1 .. n |-> x]
    BY <2>2
  <2>6. ArraysWithin(stack, ScalarCells') /\ ArraysWithin(args, ScalarCells')
    BY ScalarsKept
  <2>7. args' = Append(args, v)
    BY <1>7, <2>3
  <2>8. ArraysWithin(args', ScalarCells')
    BY <1>3, <2>4, <2>6, <2>7, ArraysAppend
  <2>9. StoreInv'
    BY <1>7, <2>6, <2>8 DEF StoreInv
  <2>10. SeenAll(cells', args') = Append(SeenAll(cells', args), Seen(cells', v))
    BY <1>3, <2>4, <2>7, SeenAppend
  <2>11. DerefAll(args)' = Append(DerefAll(args), Abstract!Item("array", [i \in 1 .. n |-> x]))
    BY <1>5, <2>4, <2>5, <2>10, DerefIsSeen
  <2>12. DerefAll(stack)' = DerefAll(stack)
    BY <1>5, <1>7, DerefIsSeen
  <2> QED BY <1>1, <1>6, <1>7, <2>9, <2>11, <2>12 DEF Abstract!Give, Idle
<1>8. ASSUME UNCHANGED <<cells, stack, args>>, status' \in {"aborted", "crashed"}
      PROVE  StoreInv' /\ Abstract!Give(n)
  <2>1. ArraysWithin(stack', ScalarCells)
    BY <1>8 DEF StoreInv, ArraysWithin
  <2>2. StoreInv'
    BY <1>8, <2>1, MoveStore
  <2>3. DerefAll(stack)' = DerefAll(stack) /\ DerefAll(args)' = DerefAll(args)
    BY <1>8, DerefIsSeen
  <2> QED BY <1>1, <1>6, <1>8, <2>2, <2>3 DEF Abstract!Give, Idle
<1>9. CASE AssertFails(Place(n, junk), n)
  BY <1>8, <1>9 DEF AssertFails
<1>10. CASE NullWrite(Place(n, junk))
  BY <1>8, <1>10 DEF NullWrite
<1> QED BY <1>2, <1>7, <1>9, <1>10

\* One value in front of others.
LEMMA SeenFront ==
  ASSUME NEW mem, NEW s \in Seq(InHeap), NEW v \in InHeap
  PROVE  SeenAll(mem, <<v>> \o s) = <<Seen(mem, v)>> \o SeenAll(mem, s)
<1>1. PICK r : r = <<v>> \o s
  OBVIOUS
<1>2. /\ r \in Seq(InHeap) /\ Len(r) = Len(s) + 1 /\ r[1] = v /\ Len(s) \in Nat
      /\ \A i \in 2 .. (Len(s) + 1) : i - 1 \in 1 .. Len(s) /\ r[i] = s[i - 1]
  BY <1>1
<1>3. PICK T : T = {Seen(mem, w) : w \in InHeap}
  OBVIOUS
<1>4. PICK t : t = SeenAll(mem, s)
  OBVIOUS
<1>5. PICK u : u = SeenAll(mem, r)
  OBVIOUS
<1>6. PICK x : x = Seen(mem, v)
  OBVIOUS
<1>7. t \in Seq(T) /\ Len(t) = Len(s) /\ \A i \in 1 .. Len(s) : t[i] = Seen(mem, s[i])
  BY <1>3, <1>4, SeenAllSeq
<1>8. u \in Seq(T) /\ Len(u) = Len(r) /\ \A i \in 1 .. Len(r) : u[i] = Seen(mem, r[i])
  BY <1>2, <1>3, <1>5, SeenAllSeq
<1>9. x \in T
  BY <1>3, <1>6
<1>10. PICK w : w = <<x>> \o t
  OBVIOUS
<1>11. /\ w \in Seq(T) /\ Len(w) = Len(s) + 1 /\ w[1] = x
       /\ \A i \in 2 .. (Len(s) + 1) : w[i] = t[i - 1]
  BY <1>2, <1>7, <1>9, <1>10
<1>12. u[1] = x /\ \A i \in 2 .. (Len(s) + 1) : u[i] = t[i - 1]
  <2>1. 1 \in 1 .. Len(r) /\ \A i \in 2 .. (Len(s) + 1) : i \in 1 .. Len(r)
    BY <1>2
  <2>2. u[1] = x
    BY <1>2, <1>6, <1>8, <2>1
  <2>3. ASSUME NEW i \in 2 .. (Len(s) + 1) PROVE u[i] = t[i - 1]
    <3>1. u[i] = Seen(mem, r[i])
      BY <1>8, <2>1
    <3> QED BY <1>2, <1>7, <3>1
  <2> QED BY <2>2, <2>3
<1>13. \A i \in 1 .. (Len(s) + 1) : i = 1 \/ i \in 2 .. (Len(s) + 1)
  BY <1>2
<1>14. \A i \in 1 .. (Len(s) + 1) : u[i] = w[i]
  BY <1>11, <1>12, <1>13
<1>15. u = w
  BY <1>2, <1>8, <1>11, <1>14
<1> QED BY <1>1, <1>4, <1>5, <1>6, <1>10, <1>15

LEMMA ExecuteStore ==
  ASSUME StoreInv, LiveInv', Execute PROVE StoreInv' /\ Abstract!Call
<1>1. /\ Idle /\ Len(args) < StackSize /\ args' = <<>> /\ UNCHANGED cells
      /\ stack' = <<Frame>> \o args /\ status' = "run"
  BY DEF Execute
<1>2. args \in Seq(InHeap) /\ Len(args) \in Nat /\ ArraysWithin(args, ScalarCells)
  BY DEF StoreInv, LiveInv, MemInv
<1>3. Frame \in InHeap /\ Frame.kind = "frame"
  BY PlainInHeap DEF Frame
<1>4. PICK v : v = Frame
  OBVIOUS
<1>5. SeenAll(cells, stack') = <<Seen(cells, v)>> \o SeenAll(cells, args)
  BY <1>1, <1>2, <1>3, <1>4, SeenFront
<1>6. Seen(cells, v) = Abstract!FrameItem
  BY <1>3, <1>4, SeenKinds
<1>7. DerefAll(stack)' = <<Abstract!FrameItem>> \o DerefAll(args)
  BY <1>1, <1>5, <1>6, DerefIsSeen
<1>8. DerefAll(args)' = <<>> /\ Len(DerefAll(args)) = Len(args)
  BY <1>1, <1>2, SeenAllSeq, DerefIsSeen DEF SeenAll
<1>9. ArraysWithin(stack', ScalarCells)
  <2>1. /\ Len(stack') = Len(args) + 1 /\ stack'[1] = v
        /\ \A i \in 2 .. Len(stack') : i - 1 \in 1 .. Len(args) /\ stack'[i] = args[i - 1]
    BY <1>1, <1>2, <1>3, <1>4
  <2>2. \A i \in 1 .. Len(stack') : i = 1 \/ i \in 2 .. Len(stack')
    BY <1>2, <2>1
  <2> QED BY <1>2, <1>3, <1>4, <2>1, <2>2 DEF ArraysWithin
<1>10. StoreInv'
  BY <1>1, <1>9 DEF StoreInv, ScalarCells, ArraysWithin
<1> QED BY <1>1, <1>7, <1>8, <1>10 DEF Abstract!Call, Idle

-----------------------------------------------------------------------------
(* The refinement.                                                         *)

\* Every step is a step of the store, or changes nothing that it sees.
LEMMA StoreStep ==
  ASSUME FlatUse
  PROVE  StoreInv /\ [Next]_vars => StoreInv' /\ [Abstract!StoreNext]_Abstract!storeVars
<1> SUFFICES ASSUME StoreInv, [Next]_vars
             PROVE  StoreInv' /\ [Abstract!StoreNext]_Abstract!storeVars
  OBVIOUS
<1>1. LiveInv' /\ \A c \in LiveCells : cells'[c] = cells[c]
  BY LiveStep DEF StoreInv
<1>2. CASE PushValue \/ LoadLocal \/ StoreLocal \/ PopValues \/ ReturnValue
  BY <1>1, <1>2, PushValueStore, LoadLocalStore, StoreLocalStore, PopStore, ReturnStore
     DEF Abstract!StoreNext
<1>3. CASE ArrayLength \/ MakeIter \/ IterNext
  BY <1>1, <1>3, LengthStore, MakeIterStore, IterNextStore DEF Abstract!StoreNext
<1>4. ASSUME NEW n \in Lengths, MakeArray(n)
      PROVE  StoreInv' /\ [Abstract!StoreNext]_Abstract!storeVars
  BY <1>1, <1>4, MakeArrayStore DEF Abstract!StoreNext
<1>5. ASSUME NEW n \in Lengths, NativeToString(n)
      PROVE  StoreInv' /\ [Abstract!StoreNext]_Abstract!storeVars
  BY <1>1, <1>5, ToStringStore DEF Abstract!StoreNext
<1>6. CASE NativeAddStrings
  BY <1>1, <1>6, AddStringsStore DEF Abstract!StoreNext
<1>7. CASE Finish
  BY <1>1, <1>7, EndStore DEF Abstract!StoreNext, Finish
<1>8. CASE GiveUp
  BY <1>1, <1>8, EndStore DEF Abstract!StoreNext, GiveUp
<1>9. ASSUME NEW n \in Lengths, HostString(n)
      PROVE  StoreInv' /\ [Abstract!StoreNext]_Abstract!storeVars
  BY <1>1, <1>9, HostStringStore DEF Abstract!StoreNext
<1>10. CASE Execute
  BY <1>1, <1>10, ExecuteStore DEF Abstract!StoreNext
<1>11. CASE UNCHANGED vars
  <2>1. UNCHANGED <<cells, stack, args, status>>
    BY <1>11 DEF vars
  <2>2. StoreInv'
    BY <1>1, <2>1 DEF StoreInv, ScalarCells, ArraysWithin
  <2>3. DerefAll(stack)' = DerefAll(stack) /\ DerefAll(args)' = DerefAll(args)
    BY <2>1, DerefIsSeen
  <2> QED BY <2>1, <2>2, <2>3 DEF Abstract!storeVars
<1> QED BY <1>2, <1>3, <1>4, <1>5, <1>6, <1>7, <1>8, <1>9, <1>10, <1>11 DEF Next

LEMMA StoreInvInit == Init => StoreInv /\ Abstract!StoreInit
<1> SUFFICES ASSUME Init PROVE StoreInv /\ Abstract!StoreInit
  OBVIOUS
<1>1. stack = <<>> /\ args = <<>> /\ status = "idle"
  BY DEF Init
<1>2. StoreInv
  BY <1>1, LiveInvInit DEF StoreInv, ArraysWithin
<1>3. DerefAll(stack) = <<>> /\ DerefAll(args) = <<>>
  BY <1>1 DEF DerefAll
<1> QED BY <1>1, <1>2, <1>3 DEF Abstract!StoreInit

\* A flat program and its host cannot tell the heap from a store of values that
\* never change, whatever the sizes, the lengths below a page and the scalars:
\* where arrays lie, when the collector runs and which cells are used again shows
\* in nothing that vm_execute, the native functions or the host read.
THEOREM HeapImplementsArrayStore ==
  ASSUME FlatUse
  PROVE  Spec => ImplementsArrayStore
<1>1. StoreInv /\ [Next]_vars => StoreInv' /\ [Abstract!StoreNext]_Abstract!storeVars
  BY StoreStep
<1>2. Spec => Abstract!StoreInit /\ [][Abstract!StoreNext]_Abstract!storeVars
  BY <1>1, StoreInvInit, PTL DEF Spec
<1> QED BY <1>2 DEF ImplementsArrayStore, Abstract!StoreSpec
=============================================================================
