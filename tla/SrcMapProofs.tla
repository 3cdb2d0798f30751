---------------------------- MODULE SrcMapProofs ----------------------------
(***************************************************************************)
(* SrcMap's invariants and its refinement of SymbolMap, for all keys,      *)
(* values, hash functions and initial capacities.                          *)
(***************************************************************************)
EXTENDS SrcMapRefinement, FiniteSetTheorems, TLAPS

-----------------------------------------------------------------------------
(* Remainders.                                                             *)

\* A remainder is an index.
LEMMA RemainderIsIndex ==
  ASSUME NEW a \in Nat, NEW c \in Nat \ {0}
  PROVE  a % c \in 0 .. c - 1
  OBVIOUS

\* Below twice the modulus the remainder wraps around once.
LEMMA WrapsAround ==
  ASSUME NEW a \in Nat, NEW c \in Nat \ {0}, a < 2 * c
  PROVE  a % c = IF a < c THEN a ELSE a - c
  OBVIOUS
-----------------------------------------------------------------------------
(* Tables.                                                                 *)

LEMMA TabIndexIsSlot ==
  ASSUME NEW t, IsTable(t), NEW k \in Keys, NEW i \in Nat
  PROVE  TabIndex(t, k, i) \in Slots(t)
<1>1. StartIndex(t, k) \in Nat
  BY RemainderIsIndex, HashAssumption DEF IsTable, StartIndex
<1>2. i + StartIndex(t, k) \in Nat /\ t.capacity \in Nat \ {0}
  BY <1>1 DEF IsTable
<1>3. (i + StartIndex(t, k)) % t.capacity \in 0 .. t.capacity - 1
  BY <1>2, RemainderIsIndex
<1>. QED  BY <1>3 DEF TabIndex, Slots

\* A search that passes every slot looks at every slot.
LEMMA RemaindersCover ==
  ASSUME NEW c \in Nat \ {0}, NEW h \in 0 .. c - 1, NEW s \in 0 .. c - 1
  PROVE  \E i \in 0 .. c - 1 : (i + h) % c = s
<1>1. CASE s >= h
  <2>1. s - h \in 0 .. c - 1 /\ (s - h) + h = s
    BY <1>1
  <2>2. s % c = s
    BY WrapsAround
  <2>. QED  BY <2>1, <2>2
<1>2. CASE s < h
  <2>1. s - h + c \in 0 .. c - 1 /\ (s - h + c) + h = s + c
    BY <1>2
  <2>2. (s + c) % c = s
    BY WrapsAround, s + c \in Nat
  <2>. QED  BY <2>1, <2>2
<1>. QED  BY <1>1, <1>2

LEMMA LooksEverywhere ==
  ASSUME NEW t, IsTable(t), NEW k \in Keys, NEW s \in Slots(t)
  PROVE  \E i \in Slots(t) : TabIndex(t, k, i) = s
<1>1. t.capacity \in Nat \ {0} /\ StartIndex(t, k) \in 0 .. t.capacity - 1
  BY RemainderIsIndex, HashAssumption DEF IsTable, StartIndex
<1>. QED  BY <1>1, RemaindersCover DEF TabIndex, Slots

LEMMA UsedIsFinite ==
  ASSUME NEW t, IsTable(t)
  PROVE  IsFiniteSet(Used(t)) /\ Cardinality(Used(t)) \in Nat
<1>1. IsFiniteSet(Slots(t))
  <2>1. 0 \in Int /\ t.capacity - 1 \in Int
    BY DEF IsTable
  <2>. QED  BY <2>1, FS_Interval DEF Slots
<1>. QED  BY <1>1, FS_Subset, FS_CardinalityType DEF Used

\* As long as there is an unused slot a loop does not come to its end.
LEMMA SearchEnds ==
  ASSUME NEW t, IsTable(t), Counted(t), NEW k \in Keys,
         NEW i \in Slots(t), Passes(t, k, i), t.keys[TabIndex(t, k, i)] \notin {Empty, k}
  PROVE  i + 1 \in Slots(t) /\ Passes(t, k, i + 1)
<1>1. Passes(t, k, i + 1)
  BY DEF Passes, Slots, IsTable
<1>2. ASSUME i + 1 = t.capacity PROVE FALSE
  <2>1. ASSUME NEW s \in Slots(t) PROVE t.keys[s] # Empty
    <3>1. PICK j \in Slots(t) : TabIndex(t, k, j) = s
      BY LooksEverywhere
    <3>. QED  BY <1>1, <1>2, <3>1 DEF Passes, Slots
  <2>2. Used(t) = Slots(t)
    BY <2>1 DEF Used
  <2>3. Cardinality(Slots(t)) = t.capacity
    <3>1. 0 \in Int /\ t.capacity - 1 \in Int /\ ~(0 > t.capacity - 1)
      BY DEF IsTable
    <3>2. Cardinality(0 .. t.capacity - 1) = (t.capacity - 1) - 0 + 1
      BY <3>1, FS_Interval
    <3>. QED  BY <3>2 DEF Slots, IsTable
  <2>. QED  BY <2>2, <2>3 DEF Counted, IsTable
<1>. QED  BY <1>1, <1>2 DEF Slots, IsTable

\* Two slots do not hold the same key.
LEMMA OneSlotEach ==
  ASSUME NEW t, IsTable(t), AllFound(t),
         NEW r \in Used(t), NEW s \in Used(t), t.keys[r] = t.keys[s]
  PROVE  r = s
<1>. DEFINE k == t.keys[r]
<1>1. PICK i \in Slots(t) : TabIndex(t, k, i) = r /\ Passes(t, k, i)
  BY DEF AllFound, FindsAt
<1>2. PICK j \in Slots(t) : TabIndex(t, k, j) = s /\ Passes(t, k, j)
  BY DEF AllFound, FindsAt
<1>3. ~(i < j) /\ ~(j < i)
  BY <1>1, <1>2 DEF Passes, Slots, IsTable
<1>4. i = j
  BY <1>3 DEF Slots, IsTable
<1>. QED  BY <1>1, <1>2, <1>4

\* A search that comes to an unused slot has not missed its key.
LEMMA NotThere ==
  ASSUME NEW t, IsTable(t), AllFound(t), NEW k \in Keys,
         NEW i \in Slots(t), Passes(t, k, i), t.keys[TabIndex(t, k, i)] = Empty
  PROVE  \A s \in Used(t) : t.keys[s] # k
<1>. SUFFICES ASSUME NEW s \in Used(t), t.keys[s] = k PROVE FALSE
  OBVIOUS
<1>1. PICK j \in Slots(t) : TabIndex(t, k, j) = s /\ Passes(t, k, j)
  BY DEF AllFound, FindsAt
<1>2. ~(i < j) /\ ~(j < i)
  BY <1>1, KeyAssumption DEF Passes, Slots, IsTable, Used
<1>3. i = j
  BY <1>2 DEF Slots, IsTable
<1>. QED  BY <1>1, <1>3 DEF Used

\* Putting a key where its search ends makes a table of one key more.
LEMMA PutKeeps ==
  ASSUME NEW t, IsTable(t), AllFound(t), Counted(t), t.count + 1 < t.capacity,
         NEW k \in Keys, NEW v \in Vals \union {NoVal},
         NEW i \in Slots(t), Passes(t, k, i), t.keys[TabIndex(t, k, i)] = Empty
  PROVE  LET s == TabIndex(t, k, i)
             u == Put(t, s, k, v)
         IN  /\ IsTable(u) /\ AllFound(u) /\ Counted(u)
             /\ u.capacity = t.capacity /\ u.count = t.count + 1
             /\ s \in Slots(t) /\ s \notin Used(t)
             /\ Used(u) = Used(t) \union {s}
             /\ u.keys[s] = k /\ u.vals[s] = v
             /\ \A r \in Used(t) : u.keys[r] = t.keys[r] /\ u.vals[r] = t.vals[r]
<1>. DEFINE s == TabIndex(t, k, i)
            u == Put(t, s, k, v)
<1>1. s \in Slots(t) /\ t.keys[s] = Empty
  BY TabIndexIsSlot DEF Slots, IsTable
<1>2. /\ u = [capacity |-> t.capacity, count |-> t.count + 1,
              keys |-> [t.keys EXCEPT ![s] = k], vals |-> [t.vals EXCEPT ![s] = v]]
      /\ Slots(u) = Slots(t)
  BY <1>1 DEF Put, IsTable, Slots
<1>3. IsTable(u)
  BY <1>1, <1>2 DEF IsTable, Slots
<1>4. Used(u) = Used(t) \union {s} /\ s \notin Used(t)
  BY <1>1, <1>2, KeyAssumption DEF Used, IsTable
<1>5. Counted(u)
  <2>1. Cardinality(Used(u)) = Cardinality(Used(t)) + 1
    BY <1>4, UsedIsFinite, FS_AddElement
  <2>. QED  BY <2>1, <1>2 DEF Counted
<1>6. \A r \in Used(t) : u.keys[r] = t.keys[r] /\ u.vals[r] = t.vals[r]
  BY <1>1, <1>2, <1>4 DEF IsTable, Used
<1>7. u.keys[s] = k /\ u.vals[s] = v
  BY <1>1, <1>2 DEF IsTable
<1>8. \A x \in Keys, j \in Nat : TabIndex(u, x, j) = TabIndex(t, x, j)
  BY <1>2 DEF TabIndex, StartIndex
<1>. HIDE DEF s, u
<1>9. AllFound(u)
  <2>. SUFFICES ASSUME NEW r \in Used(u) PROVE FindsAt(u, u.keys[r], r)
    BY DEF AllFound
  <2>1. CASE r = s
    <3>1. Passes(u, k, i)
      <4>. SUFFICES ASSUME NEW j \in 0 .. i - 1 PROVE u.keys[TabIndex(t, k, j)] \notin {Empty, k}
        BY <1>8 DEF Passes, Slots, IsTable
      <4>1. j \in Nat /\ t.keys[TabIndex(t, k, j)] \notin {Empty, k}
        BY DEF Passes, Slots, IsTable
      <4>2. TabIndex(t, k, j) \in Slots(t)
        BY <4>1, TabIndexIsSlot
      <4>. QED  BY <4>1, <4>2, <1>6 DEF Used
    <3>2. i \in Slots(u) /\ i \in Nat
      BY <1>2 DEF Slots, IsTable
    <3>3. TabIndex(u, k, i) = s
      BY <3>2, <1>8 DEF s
    <3>. QED  BY <2>1, <3>1, <3>2, <3>3, <1>7 DEF FindsAt
  <2>2. CASE r \in Used(t)
    <3>. DEFINE x == t.keys[r]
    <3>1. x \in Keys /\ u.keys[r] = x
      BY <2>2, <1>6 DEF Used, IsTable
    <3>2. PICK n \in Slots(t) : TabIndex(t, x, n) = r /\ Passes(t, x, n)
      BY <2>2 DEF AllFound, FindsAt
    <3>3. Passes(u, x, n)
      <4>. SUFFICES ASSUME NEW j \in 0 .. n - 1 PROVE u.keys[TabIndex(t, x, j)] \notin {Empty, x}
        BY <1>8, <3>1 DEF Passes, Slots, IsTable
      <4>1. j \in Nat /\ t.keys[TabIndex(t, x, j)] \notin {Empty, x}
        BY <3>2 DEF Passes, Slots, IsTable
      <4>2. TabIndex(t, x, j) \in Slots(t)
        BY <3>1, <4>1, TabIndexIsSlot
      <4>. QED  BY <4>1, <4>2, <1>6 DEF Used
    <3>4. n \in Slots(u) /\ n \in Nat
      BY <1>2 DEF Slots, IsTable
    <3>5. TabIndex(u, x, n) = r
      BY <3>1, <3>2, <3>4, <1>8
    <3>. QED  BY <3>1, <3>3, <3>4, <3>5 DEF FindsAt
  <2>. QED  BY <1>4, <2>1, <2>2
<1>. QED  BY <1>1, <1>2, <1>3, <1>4, <1>5, <1>6, <1>7, <1>9 DEF s, u

\* An empty table.
LEMMA EmptyTable ==
  ASSUME NEW c \in Nat \ {0}
  PROVE  LET t == NewTable(c) IN
         IsTable(t) /\ Used(t) = {} /\ AllFound(t) /\ Counted(t) /\ t.capacity = c /\ t.count = 0
<1>. DEFINE t == NewTable(c)
<1>1. t.capacity = c /\ t.count = 0 /\ IsTable(t) /\ Used(t) = {}
  BY DEF NewTable, IsTable, Slots, Used
<1>. QED  BY <1>1, FS_EmptySet DEF AllFound, Counted

-----------------------------------------------------------------------------
(* The invariant.                                                          *)

\* The slots that have been moved.
MovedSlots == {s \in Used(map) : s < at}

SameEntry(r, s) == new.keys[r] = map.keys[s] /\ new.vals[r] = map.vals[s]

\* While the map moves, the new table has room for all of it, and holds what has
\* been moved.
MoveInv ==
  phase = "move" =>
    /\ new.capacity = 2 * (map.count + 1)
    /\ new.count = Cardinality(MovedSlots)
    /\ \A s \in MovedSlots : \E r \in Used(new) : SameEntry(r, s)
    /\ \A r \in Used(new) : \E s \in MovedSlots : SameEntry(r, s)
    /\ at < map.capacity /\ map.keys[at] # Empty => Passes(new, map.keys[at], probe)

\* A loop has passed other keys only, and a key is stored where there is headroom.
SearchInv ==
  /\ phase \in {"store", "search"} => Passes(map, request.key, probe)
  /\ phase = "store" => map.count + 1 < map.capacity

Tables == IsTable(map) /\ AllFound(map) /\ Counted(map) /\ IsTable(new) /\ AllFound(new) /\ Counted(new)

Inv == TypeOK /\ Tables /\ GrowsOnce /\ SearchInv /\ MoveInv

LEMMA InvInit == Init => Inv
<1>. SUFFICES ASSUME Init PROVE Inv
  OBVIOUS
<1>1. Tables /\ map.capacity = InitialCapacity
  <2>1. 1 \in Nat \ {0}
    OBVIOUS
  <2>. QED  BY <2>1, EmptyTable, CapacityAssumption DEF Init, Tables
<1>2. TypeOK
  <2>1. at \in 0 .. map.capacity
    BY <1>1, CapacityAssumption DEF Init
  <2>. QED  BY <1>1, <2>1 DEF Init, TypeOK, Tables
<1>. QED  BY <1>1, <1>2 DEF Init, Inv, GrowsOnce, SearchInv, MoveInv

\* More keys than the new table holds have not been moved.
LEMMA RoomToMove ==
  ASSUME Inv, phase = "move", at < map.capacity, map.keys[at] # Empty
  PROVE  /\ at \in Used(map) /\ at \notin MovedSlots
         /\ IsFiniteSet(MovedSlots)
         /\ new.count + 1 <= map.count
<1>1. at \in Used(map) /\ at \notin MovedSlots
  BY DEF Inv, TypeOK, Used, Slots, MovedSlots, Tables, IsTable
<1>2. IsFiniteSet(Used(map))
  BY UsedIsFinite DEF Inv, Tables
<1>3. MovedSlots \subseteq Used(map) /\ MovedSlots # Used(map)
  BY <1>1 DEF MovedSlots
<1>4. IsFiniteSet(MovedSlots) /\ Cardinality(MovedSlots) < Cardinality(Used(map))
  <2>1. /\ IsFiniteSet(MovedSlots) /\ Cardinality(MovedSlots) <= Cardinality(Used(map))
        /\ Cardinality(MovedSlots) # Cardinality(Used(map))
    BY <1>2, <1>3, FS_Subset
  <2>. QED  BY <2>1, <1>2, FS_CardinalityType
<1>5. new.count = Cardinality(MovedSlots) /\ map.count = Cardinality(Used(map))
  BY DEF Inv, MoveInv, Tables, Counted
<1>6. new.count \in Nat /\ map.count \in Nat
  BY DEF Inv, Tables, IsTable
<1>. QED  BY <1>1, <1>4, <1>5, <1>6

\* Hence a key is moved, or its loop goes on.
LEMMA MovesOn ==
  ASSUME Inv, Moving, map.keys[at] # Empty
  PROVE  /\ Moved \in {"moved", "goes on"}
         /\ Moved = "moved" => new.keys[Target] = Empty
         /\ Moved = "goes on" => new.keys[Target] \notin {Empty, map.keys[at]}
<1>. DEFINE k == map.keys[at]
<1>1. /\ phase = "move" /\ at < map.capacity /\ at \in Nat /\ probe \in Slots(new) /\ k \in Keys
      /\ IsTable(map) /\ IsTable(new) /\ AllFound(new) /\ Counted(new) /\ Passes(new, k, probe)
  <2>1. phase = "move" /\ at < map.capacity /\ Passes(new, k, probe)
    BY DEF Inv, Moving, MoveInv
  <2>2. at \in 0 .. map.capacity /\ probe \in Slots(new)
    BY <2>1 DEF Inv, TypeOK
  <2>3. IsTable(map) /\ IsTable(new) /\ AllFound(new) /\ Counted(new)
    BY DEF Inv, Tables
  <2>4. at \in Slots(map)
    BY <2>1, <2>2, <2>3 DEF IsTable, Slots
  <2>5. k \in Keys
    BY <2>3, <2>4 DEF IsTable
  <2>. QED  BY <2>1, <2>2, <2>3, <2>5
<1>2. new.count + 1 <= map.count /\ new.capacity = 2 * (map.count + 1)
      /\ new.count \in Nat /\ map.count \in Nat
  BY <1>1, RoomToMove DEF Inv, MoveInv, IsTable
<1>3. ~NeedsGrowth(new) /\ new.count + 1 < Required(map)
  BY <1>2 DEF NeedsGrowth, Required
<1>4. Target \in Slots(new)
  <2>1. probe \in Nat
    BY <1>1 DEF Slots
  <2>2. TabIndex(new, k, probe) \in Slots(new)
    BY <1>1, <2>1, TabIndexIsSlot
  <2>. QED  BY <2>2 DEF Target
<1>5. CASE new.keys[Target] = Empty
  BY <1>3, <1>5 DEF Moved
<1>6. CASE new.keys[Target] = k
  <2>1. Target \in Used(new)
    BY <1>1, <1>4, <1>6, KeyAssumption DEF Used
  <2>2. PICK s \in MovedSlots : SameEntry(Target, s)
    BY <1>1, <2>1 DEF Inv, MoveInv
  <2>3. s \in Used(map) /\ map.keys[s] = map.keys[at]
    BY <2>2, <1>6 DEF SameEntry, MovedSlots
  <2>4. at \in Used(map)
    BY <1>1, RoomToMove
  <2>5. s = at
    BY <2>3, <2>4, OneSlotEach DEF Inv, Tables
  <2>6. at \notin MovedSlots
    BY <1>1, RoomToMove
  <2>. QED  BY <2>2, <2>5, <2>6
<1>7. CASE new.keys[Target] \notin {Empty, k}
  <2>1. probe + 1 \in Slots(new)
    BY <1>1, <1>7, SearchEnds DEF Target
  <2>. QED  BY <1>3, <1>7, <2>1, <1>1 DEF Moved, Slots, IsTable
<1>. QED  BY <1>5, <1>6, <1>7

\* A call ends with the tables as they are.
LEMMA AnswerKeeps ==
  ASSUME Inv, NEW is, NEW v, Answer(is, v), phase # "idle", UNCHANGED <<map, new, at, probe>>,
         starved' \in BOOLEAN
  PROVE  Inv'
<1>1. request.key \in Keys /\ request \in [op : {"insert", "lookup"}, key : Keys, val : Vals \union {NoVal}]
  BY DEF Inv, TypeOK, GrowsOnce
<1>2. request' \in [op : {"none"}, key : Keys, val : {NoVal}] /\ phase' = "idle"
  BY <1>1 DEF Answer
<1>3. TypeOK'
  BY <1>2 DEF Inv, TypeOK
<1>. QED  BY <1>2, <1>3 DEF Inv, Tables, GrowsOnce, SearchInv, MoveInv

\* The first slot of a loop has nothing to pass.
LEMMA PassesNone == \A t, k : Passes(t, k, 0)
  BY DEF Passes

\* A call begins.
LEMMA BeginKeeps ==
  ASSUME Inv, phase = "idle", UNCHANGED <<map, new, at>>, probe' = 0, starved' = FALSE,
         \/ phase' = "search" /\ request' \in [op : {"lookup"}, key : Keys, val : {NoVal}]
         \/ /\ phase' \in {"grow", "store"} /\ request' \in [op : {"insert"}, key : Keys, val : Vals]
            /\ phase' = "store" => ~NeedsGrowth(map)
  PROVE  Inv'
<1>1. 0 \in Slots(map)
  BY DEF Inv, Tables, IsTable, Slots
<1>2. TypeOK'
  BY <1>1 DEF Inv, TypeOK
<1>3. SearchInv'
  <2>1. ~NeedsGrowth(map) => map.count + 1 < map.capacity
    BY DEF Inv, Tables, IsTable, NeedsGrowth, Required
  <2>. QED  BY <2>1, PassesNone DEF SearchInv
<1>. QED  BY <1>2, <1>3 DEF Inv, Tables, GrowsOnce, MoveInv

LEMMA GrowKeeps == Inv /\ Grow => Inv'
<1>. SUFFICES ASSUME Inv, Grow PROVE Inv'
  OBVIOUS
<1>1. IsTable(map) /\ map.count \in Nat /\ map.capacity \in Nat \ {0}
  BY DEF Inv, Tables, IsTable
<1>2. NewCapacity(map) \in Nat \ {0} /\ NewCapacity(map) = 2 * (map.count + 1)
  BY <1>1 DEF NewCapacity, Required
<1>3. /\ IsTable(new') /\ Used(new') = {} /\ AllFound(new') /\ Counted(new')
      /\ new'.capacity = 2 * (map.count + 1) /\ new'.count = 0
  BY <1>2, EmptyTable DEF Grow
<1>4. Tables'
  BY <1>3 DEF Grow, Inv, Tables
<1>5. TypeOK'
  <2>1. 0 \in Slots(new')
    BY <1>3 DEF IsTable, Slots
  <2>2. 0 \in 0 .. map.capacity
    BY <1>1
  <2>. QED  BY <1>3, <2>1, <2>2 DEF Grow, Inv, TypeOK
<1>6. MoveInv'
  <2>1. MovedSlots' = {}
    BY <1>1 DEF Grow, MovedSlots, Used, Slots
  <2>2. Cardinality(MovedSlots') = 0
    BY <2>1, FS_EmptySet
  <2>. QED  BY <1>3, <2>1, <2>2, PassesNone DEF Grow, MoveInv
<1>. QED  BY <1>4, <1>5, <1>6 DEF Grow, Inv, GrowsOnce, SearchInv

LEMMA SkipUnusedKeeps == Inv /\ SkipUnused => Inv'
<1>. SUFFICES ASSUME Inv, SkipUnused PROVE Inv'
  OBVIOUS
<1>1. /\ phase = "move" /\ at \in Nat /\ at < map.capacity /\ map.capacity \in Nat
      /\ map.keys[at] = Empty
  BY DEF SkipUnused, Moving, Inv, Tables, IsTable, TypeOK
<1>2. MovedSlots' = MovedSlots
  BY <1>1 DEF SkipUnused, MovedSlots, Used, Slots
<1>3. TypeOK'
  <2>1. 0 \in Slots(new) /\ at + 1 \in 0 .. map.capacity
    BY <1>1 DEF Inv, Tables, IsTable, Slots
  <2>. QED  BY <2>1, <1>1 DEF SkipUnused, Inv, TypeOK
<1>4. MoveInv'
  BY <1>1, <1>2, PassesNone DEF SkipUnused, Inv, MoveInv, SameEntry
<1>. QED  BY <1>1, <1>3, <1>4 DEF SkipUnused, Inv, Tables, GrowsOnce, SearchInv

\* What an entry's move does to the new table.
LEMMA MoveOne ==
  ASSUME Inv, Moving, map.keys[at] # Empty, new.keys[Target] = Empty,
         new' = Put(new, Target, map.keys[at], map.vals[at])
  PROVE  /\ IsTable(new') /\ AllFound(new') /\ Counted(new')
         /\ new'.capacity = new.capacity /\ new'.count = new.count + 1
         /\ Used(new') = Used(new) \union {Target}
         /\ new'.keys[Target] = map.keys[at] /\ new'.vals[Target] = map.vals[at]
         /\ \A r \in Used(new) : new'.keys[r] = new.keys[r] /\ new'.vals[r] = new.vals[r]
<1>. DEFINE k == map.keys[at]
            v == map.vals[at]
<1>1. phase = "move" /\ at < map.capacity /\ at \in Slots(map)
  BY DEF Moving, Inv, TypeOK, Tables, IsTable, Slots
<1>2. k \in Keys /\ v \in Vals \union {NoVal}
  BY <1>1 DEF Inv, Tables, IsTable
<1>3. new.count + 1 < new.capacity
  BY <1>1, RoomToMove DEF Inv, MoveInv, Tables, IsTable
<1>4. probe \in Slots(new) /\ Passes(new, k, probe)
  BY <1>1 DEF Inv, TypeOK, MoveInv
<1>5. new.keys[TabIndex(new, k, probe)] = Empty
  BY DEF Target
<1>. QED  BY <1>2, <1>3, <1>4, <1>5, PutKeeps DEF Inv, Tables, Target

LEMMA MoveKeyKeeps == Inv /\ MoveKey => Inv'
<1>. SUFFICES ASSUME Inv, MoveKey PROVE Inv'
  OBVIOUS
<1>. DEFINE k == map.keys[at]
<1>1. /\ Moving /\ phase = "move" /\ k # Empty /\ at \in Slots(map) /\ at \in Nat /\ at < map.capacity
      /\ map.capacity \in Nat /\ k \in Keys
  <2>1. Moving /\ phase = "move" /\ k # Empty /\ at < map.capacity
    BY DEF MoveKey, Moving
  <2>2. at \in 0 .. map.capacity /\ IsTable(map)
    BY DEF Inv, TypeOK, Tables
  <2>3. at \in Slots(map) /\ at \in Nat /\ map.capacity \in Nat
    BY <2>1, <2>2 DEF IsTable, Slots
  <2>. QED  BY <2>1, <2>2, <2>3 DEF IsTable
<1>2. /\ Moved \in {"moved", "goes on"} /\ map' = map /\ starved' = starved
      /\ Moved = "moved" => new.keys[Target] = Empty
      /\ Moved = "goes on" => new.keys[Target] \notin {Empty, k}
  BY <1>1, MovesOn DEF MoveKey
<1>3. CASE Moved = "moved"
  <2>1. /\ new' = Put(new, Target, k, map.vals[at]) /\ new.keys[Target] = Empty
        /\ at' = at + 1 /\ probe' = 0 /\ UNCHANGED <<request, phase, answer>>
    BY <1>2, <1>3 DEF MoveKey
  <2>2. /\ IsTable(new') /\ AllFound(new') /\ Counted(new')
        /\ new'.capacity = new.capacity /\ new'.count = new.count + 1
        /\ Used(new') = Used(new) \union {Target}
        /\ new'.keys[Target] = k /\ new'.vals[Target] = map.vals[at]
        /\ \A r \in Used(new) : new'.keys[r] = new.keys[r] /\ new'.vals[r] = new.vals[r]
    BY <1>1, <2>1, MoveOne
  <2>3. MovedSlots' = MovedSlots \union {at}
    <3>1. at \in Used(map)
      BY <1>1 DEF Used
    <3>2. \A s \in Used(map) : s \in Nat
      BY <1>1 DEF Used, Slots
    <3>3. MovedSlots' = {s \in Used(map) : s < at + 1}
      BY <1>2, <2>1 DEF MovedSlots
    <3>4. {s \in Used(map) : s < at + 1} = {s \in Used(map) : s < at} \union {at}
      <4>1. \A s \in Nat : s < at + 1 <=> s < at \/ s = at
        BY <1>1
      <4>. QED  BY <3>1, <3>2, <4>1
    <3>. QED  BY <3>3, <3>4 DEF MovedSlots
  <2>4. Cardinality(MovedSlots') = Cardinality(MovedSlots) + 1
    BY <1>1, <2>3, RoomToMove, FS_AddElement
  <2>5. MoveInv'
    <3>1. \A s \in MovedSlots' : \E r \in Used(new') : new'.keys[r] = map.keys[s] /\ new'.vals[r] = map.vals[s]
      <4>. SUFFICES ASSUME NEW s \in MovedSlots'
                    PROVE  \E r \in Used(new') : new'.keys[r] = map.keys[s] /\ new'.vals[r] = map.vals[s]
        OBVIOUS
      <4>1. CASE s = at
        BY <4>1, <2>2
      <4>2. CASE s \in MovedSlots
        BY <4>2, <1>1, <2>2 DEF Inv, MoveInv, SameEntry
      <4>. QED  BY <2>3, <4>1, <4>2
    <3>2. \A r \in Used(new') : \E s \in MovedSlots' : new'.keys[r] = map.keys[s] /\ new'.vals[r] = map.vals[s]
      <4>. SUFFICES ASSUME NEW r \in Used(new')
                    PROVE  \E s \in MovedSlots' : new'.keys[r] = map.keys[s] /\ new'.vals[r] = map.vals[s]
        OBVIOUS
      <4>1. CASE r = Target
        BY <4>1, <2>2, <2>3
      <4>2. CASE r \in Used(new)
        BY <4>2, <1>1, <2>2, <2>3 DEF Inv, MoveInv, SameEntry
      <4>. QED  BY <2>2, <4>1, <4>2
    <3>3. /\ map' = map /\ new'.capacity = 2 * (map'.count + 1)
          /\ new'.count = Cardinality(MovedSlots')
      BY <1>1, <1>2, <2>2, <2>4 DEF Inv, MoveInv
    <3>4. at' < map'.capacity => Passes(new', map'.keys[at'], probe')
      BY <2>1, PassesNone
    <3>5. (\A s \in MovedSlots : \E r \in Used(new) : SameEntry(r, s))'
      BY <1>2, <3>1 DEF SameEntry
    <3>6. (\A r \in Used(new) : \E s \in MovedSlots : SameEntry(r, s))'
      BY <1>2, <3>2 DEF SameEntry
    <3>. QED  BY <3>3, <3>4, <3>5, <3>6 DEF MoveInv
  <2>6. TypeOK'
    <3>1. 0 \in Slots(new') /\ at + 1 \in 0 .. map.capacity
      BY <1>1, <2>2 DEF IsTable, Slots
    <3>. QED  BY <1>1, <1>2, <2>1, <2>2, <3>1 DEF Inv, TypeOK
  <2>. QED  BY <1>1, <1>2, <2>1, <2>2, <2>5, <2>6 DEF Inv, Tables, GrowsOnce, SearchInv
<1>4. CASE Moved = "goes on"
  <2>1. probe' = probe + 1 /\ UNCHANGED <<new, at, request, phase, answer>>
    BY <1>4 DEF MoveKey
  <2>2. probe + 1 \in Slots(new) /\ Passes(new, k, probe + 1)
    <3>1. probe \in Slots(new) /\ Passes(new, k, probe)
      BY <1>1 DEF Inv, TypeOK, MoveInv
    <3>2. new.keys[TabIndex(new, k, probe)] \notin {Empty, k}
      BY <1>2, <1>4 DEF Target
    <3>. QED  BY <1>1, <3>1, <3>2, SearchEnds DEF Inv, Tables
  <2>3. MoveInv'
    <3>1. MovedSlots' = MovedSlots /\ UNCHANGED <<map, new, at, phase>>
      BY <1>2, <2>1 DEF MovedSlots, Used, Slots
    <3>2. Passes(new', map'.keys[at'], probe')
      BY <1>2, <2>1, <2>2
    <3>. QED  BY <1>1, <3>1, <3>2 DEF Inv, MoveInv, SameEntry
  <2>4. TypeOK'
    BY <1>1, <1>2, <2>1, <2>2 DEF Inv, TypeOK
  <2>. QED  BY <1>1, <1>2, <2>1, <2>3, <2>4 DEF Inv, Tables, GrowsOnce, SearchInv
<1>. QED  BY <1>2, <1>3, <1>4

\* When the map has moved, both tables have the same number of keys.
LEMMA MovedAll ==
  ASSUME Inv, phase = "move", at = map.capacity
  PROVE  MovedSlots = Used(map) /\ new.count = map.count
<1>1. MovedSlots = Used(map)
  BY DEF MovedSlots, Used, Slots, Inv, Tables, IsTable
<1>. QED  BY <1>1 DEF Inv, MoveInv, Tables, Counted

LEMMA AdoptKeeps == Inv /\ Adopt => Inv'
<1>. SUFFICES ASSUME Inv, Adopt PROVE Inv'
  OBVIOUS
<1>1. phase = "move" /\ new.count = map.count /\ new.capacity = 2 * (map.count + 1) /\ map.count \in Nat
  BY MovedAll DEF Adopt, Inv, MoveInv, Tables, IsTable
<1>2. /\ map' = new /\ new' = NewTable(1) /\ phase' = "store" /\ at' = 0 /\ probe' = 0
      /\ UNCHANGED <<request, starved, answer>>
  BY <1>1 DEF Adopt
<1>3. 1 \in Nat \ {0}
  OBVIOUS
<1>4. Tables'
  BY <1>2, <1>3, EmptyTable DEF Inv, Tables
<1>5. TypeOK'
  <2>1. 0 \in Slots(map') /\ 0 \in 0 .. map'.capacity
    BY <1>4 DEF Tables, IsTable, Slots
  <2>. QED  BY <1>1, <1>2, <1>4, <2>1 DEF Inv, TypeOK, Tables
<1>. QED  BY <1>1, <1>2, <1>4, <1>5, PassesNone DEF Inv, GrowsOnce, SearchInv, MoveInv

LEMMA StoreKeeps == Inv /\ Store => Inv'
<1>. SUFFICES ASSUME Inv, Store PROVE Inv'
  OBVIOUS
<1>1. /\ phase = "store" /\ map.keys[Current] = Empty /\ map' = Put(map, Current, request.key, request.val)
      /\ UNCHANGED <<new, at, probe, starved>>
      /\ request \in [op : {"insert"}, key : Keys, val : Vals]
  BY DEF Store, Inv, TypeOK
<1>2. request' \in [op : {"none"}, key : Keys, val : {NoVal}] /\ phase' = "idle"
  BY <1>1 DEF Store, Answer
<1>3. probe \in Slots(map) /\ Passes(map, request.key, probe) /\ map.count + 1 < map.capacity
  BY <1>1 DEF Inv, TypeOK, SearchInv
<1>4. IsTable(map') /\ AllFound(map') /\ Counted(map') /\ map'.capacity = map.capacity
  BY <1>1, <1>3, PutKeeps DEF Inv, Tables, Current
<1>5. TypeOK'
  BY <1>1, <1>2, <1>4 DEF Inv, TypeOK
<1>. QED  BY <1>1, <1>2, <1>4, <1>5 DEF Inv, Tables, GrowsOnce, SearchInv, MoveInv

\* A probing loop over the map goes on.
LEMMA LoopKeeps ==
  ASSUME Inv, phase \in {"store", "search"}, map.keys[Current] \notin {Empty, request.key},
         probe' = probe + 1, UNCHANGED <<map, new, at, request, phase, starved, answer>>
  PROVE  Inv'
<1>1. probe \in Slots(map) /\ Passes(map, request.key, probe) /\ request.key \in Keys
  BY DEF Inv, TypeOK, SearchInv
<1>2. probe + 1 \in Slots(map) /\ Passes(map, request.key, probe + 1)
  BY <1>1, SearchEnds DEF Inv, Tables, Current
<1>3. TypeOK'
  BY <1>2 DEF Inv, TypeOK
<1>. QED  BY <1>2, <1>3 DEF Inv, Tables, GrowsOnce, SearchInv, MoveInv

LEMMA ClearKeeps == Inv /\ Clear => Inv'
<1>. SUFFICES ASSUME Inv, Clear PROVE Inv'
  OBVIOUS
<1>1. /\ phase = "idle" /\ UNCHANGED <<new, at, request, probe, phase, starved>>
      /\ map' = [map EXCEPT !.keys = [s \in Slots(map) |-> Empty], !.count = 0]
  BY DEF Clear
<1>2. IsTable(map') /\ Used(map') = {} /\ map'.count = 0 /\ map'.capacity = map.capacity
  BY <1>1 DEF Inv, Tables, IsTable, Used, Slots
<1>3. AllFound(map') /\ Counted(map')
  BY <1>2, FS_EmptySet DEF AllFound, Counted, IsTable
<1>4. TypeOK'
  BY <1>1, <1>2 DEF Inv, TypeOK
<1>. QED  BY <1>1, <1>2, <1>3, <1>4 DEF Inv, Tables, GrowsOnce, SearchInv, MoveInv

LEMMA InvStep == Inv /\ [Next]_vars => Inv'
<1>. SUFFICES ASSUME Inv, [Next]_vars PROVE Inv'
  OBVIOUS
<1>1. ASSUME NEW k \in Keys, NEW v \in Vals, BeginInsert(k, v) PROVE Inv'
  BY <1>1, BeginKeeps DEF BeginInsert, Insertion
<1>2. ASSUME NEW k \in Keys, BeginLookup(k) PROVE Inv'
  BY <1>2, BeginKeeps DEF BeginLookup, Lookup
<1>3. CASE GrowFails
  BY <1>3, AnswerKeeps DEF GrowFails
<1>4. CASE StoreGoesOn
  BY <1>4, LoopKeeps DEF StoreGoesOn, GoesOn
<1>5. CASE StoreFails
  BY <1>5, AnswerKeeps DEF StoreFails, Inv, TypeOK
<1>6. CASE Found
  BY <1>6, AnswerKeeps DEF Found, Inv, TypeOK
<1>7. CASE SearchGoesOn
  BY <1>7, LoopKeeps DEF SearchGoesOn, GoesOn
<1>8. CASE NotFound
  BY <1>8, AnswerKeeps DEF NotFound, Inv, TypeOK
<1>9. CASE UNCHANGED vars
  BY <1>9 DEF vars, Inv, TypeOK, Tables, GrowsOnce, SearchInv, MoveInv, MovedSlots, SameEntry
<1>. QED  BY <1>1, <1>2, <1>3, <1>4, <1>5, <1>6, <1>7, <1>8, <1>9, GrowKeeps, SkipUnusedKeeps,
             MoveKeyKeeps, AdoptKeeps, StoreKeeps, ClearKeeps DEF Next, Calls, Steps

LEMMA Invariance == Spec => []Inv
  BY InvInit, InvStep, PTL DEF Spec

\* Both tables are tables, and every loop is at one of its slots (co_srcmap.c).
THEOREM SrcMapTypeCorrect == Spec => []TypeOK
  BY Invariance, PTL DEF Inv

\* No key is ever hidden behind an unused slot (srcmap_insert, srcmap_lookup).
THEOREM KeysAreFound == Spec => []Findable
<1>1. Inv => Findable
  BY DEF Inv, Tables, Findable
<1>. QED  BY <1>1, Invariance, PTL

\* There always is an unused slot at which a loop ends.
THEOREM RoomIsLeft == Spec => []HasRoom
<1>1. Inv => HasRoom
  BY DEF Inv, Tables, HasRoom
<1>. QED  BY <1>1, Invariance, PTL

\* The insertions into the new table never grow it, and the assert on the counts
\* never fails (srcmap_ensure_capacity).
THEOREM GrowthIsEnough == Spec => []GrowsOnce
  BY Invariance, PTL DEF Inv

-----------------------------------------------------------------------------
(* The refinement.                                                         *)

\* What is bound is what the slots hold.
LEMMA BoundIsHeld ==
  ASSUME NEW t, IsTable(t), AllFound(t)
  PROVE  /\ DOMAIN Bound(t) = {t.keys[s] : s \in Used(t)}
         /\ \A s \in Used(t) : Bound(t)[t.keys[s]] = t.vals[s]
<1>. SUFFICES ASSUME NEW s \in Used(t) PROVE SlotOf(t, t.keys[s]) = s
  BY DEF Bound
<1>1. SlotOf(t, t.keys[s]) \in Used(t) /\ t.keys[SlotOf(t, t.keys[s])] = t.keys[s]
  BY DEF SlotOf
<1>. QED  BY <1>1, OneSlotEach

\* Tables with the same entries bind the same.
LEMMA BoundAlike ==
  ASSUME NEW t, IsTable(t), AllFound(t), NEW u, IsTable(u), AllFound(u),
         \A s \in Used(t) : \E r \in Used(u) : u.keys[r] = t.keys[s] /\ u.vals[r] = t.vals[s],
         \A r \in Used(u) : \E s \in Used(t) : u.keys[r] = t.keys[s] /\ u.vals[r] = t.vals[s]
  PROVE  Bound(u) = Bound(t)
<1>1. {t.keys[s] : s \in Used(t)} = {u.keys[s] : s \in Used(u)}
  OBVIOUS
<1>2. ASSUME NEW s \in Used(t) PROVE t.vals[SlotOf(t, t.keys[s])] = u.vals[SlotOf(u, t.keys[s])]
  <2>1. PICK r \in Used(u) : u.keys[r] = t.keys[s] /\ u.vals[r] = t.vals[s]
    OBVIOUS
  <2>2. SlotOf(t, t.keys[s]) = s
    <3>1. SlotOf(t, t.keys[s]) \in Used(t) /\ t.keys[SlotOf(t, t.keys[s])] = t.keys[s]
      BY DEF SlotOf
    <3>. QED  BY <3>1, OneSlotEach
  <2>3. SlotOf(u, t.keys[s]) = r
    <3>1. SlotOf(u, u.keys[r]) \in Used(u) /\ u.keys[SlotOf(u, u.keys[r])] = u.keys[r]
      BY DEF SlotOf
    <3>. QED  BY <2>1, <3>1, OneSlotEach
  <2>. QED  BY <2>1, <2>2, <2>3
<1>3. \A k \in {t.keys[s] : s \in Used(t)} : t.vals[SlotOf(t, k)] = u.vals[SlotOf(u, k)]
  BY <1>2
<1>. QED  BY <1>1, <1>3 DEF Bound

\* Where a search ends tells whether its key is bound.
LEMMA SearchTells ==
  ASSUME NEW t, IsTable(t), AllFound(t), NEW k \in Keys, NEW i \in Slots(t), Passes(t, k, i)
  PROVE  LET s == TabIndex(t, k, i)
         IN  /\ t.keys[s] = Empty => k \notin DOMAIN Bound(t)
             /\ t.keys[s] = k => k \in DOMAIN Bound(t) /\ Bound(t)[k] = t.vals[s]
<1>. DEFINE s == TabIndex(t, k, i)
<1>1. s \in Slots(t)
  BY TabIndexIsSlot DEF Slots, IsTable
<1>2. ASSUME t.keys[s] = Empty PROVE k \notin DOMAIN Bound(t)
  <2>1. \A r \in Used(t) : t.keys[r] # k
    BY <1>2, NotThere
  <2>2. DOMAIN Bound(t) = {t.keys[r] : r \in Used(t)}
    BY BoundIsHeld
  <2>. QED  BY <2>1, <2>2
<1>3. ASSUME t.keys[s] = k PROVE k \in DOMAIN Bound(t) /\ Bound(t)[k] = t.vals[s]
  <2>1. s \in Used(t)
    BY <1>1, <1>3, KeyAssumption DEF Used
  <2>. HIDE DEF s
  <2>. QED  BY <1>3, <2>1, BoundIsHeld
<1>. QED  BY <1>2, <1>3

\* What is bound when k is bound as well.
WithKey(b, k, v) == [x \in DOMAIN b \union {k} |-> IF x = k THEN v ELSE b[x]]

\* A key that is put where its search ended is bound, and nothing else changes.
LEMMA BoundPut ==
  ASSUME NEW t, IsTable(t), AllFound(t), Counted(t), t.count + 1 < t.capacity,
         NEW k \in Keys, NEW v \in Vals \union {NoVal},
         NEW i \in Slots(t), Passes(t, k, i), t.keys[TabIndex(t, k, i)] = Empty
  PROVE  Bound(Put(t, TabIndex(t, k, i), k, v)) = WithKey(Bound(t), k, v)
<1>. DEFINE s == TabIndex(t, k, i)
            u == Put(t, s, k, v)
            b == Bound(u)
            a == Bound(t)
<1>1. /\ IsTable(u) /\ AllFound(u) /\ Used(u) = Used(t) \union {s}
      /\ u.keys[s] = k /\ u.vals[s] = v
      /\ \A r \in Used(t) : u.keys[r] = t.keys[r] /\ u.vals[r] = t.vals[r]
  BY PutKeeps
<1>2. k \notin DOMAIN a
  BY SearchTells
<1>. HIDE DEF s, u
<1>3. DOMAIN b = {u.keys[r] : r \in Used(u)} /\ \A r \in Used(u) : b[u.keys[r]] = u.vals[r]
  BY <1>1, BoundIsHeld
<1>4. DOMAIN a = {t.keys[r] : r \in Used(t)} /\ \A r \in Used(t) : a[t.keys[r]] = t.vals[r]
  BY BoundIsHeld
<1>5. b = [x \in DOMAIN b |-> b[x]]
  BY DEF Bound
<1>. HIDE DEF a, b
<1>6. DOMAIN b = DOMAIN a \union {k}
  BY <1>1, <1>3, <1>4
<1>7. \A x \in DOMAIN b : b[x] = IF x = k THEN v ELSE a[x]
  BY <1>1, <1>2, <1>3, <1>4
<1>. QED  BY <1>5, <1>6, <1>7 DEF a, b, u, s, WithKey

\* Without keys nothing is bound.
LEMMA BoundNone ==
  ASSUME NEW t, Used(t) = {}
  PROVE  Bound(t) = Symbols!NoBinding
<1>1. {t.keys[s] : s \in Used(t)} = {}
  OBVIOUS
<1>2. Bound(t) = [k \in {} |-> t.vals[SlotOf(t, k)]]
  BY <1>1 DEF Bound
<1>. QED  BY <1>2 DEF Symbols!NoBinding

LEMMA SymbolsInit == Init => Symbols!Init
<1>. SUFFICES ASSUME Init PROVE Symbols!Init
  OBVIOUS
<1>1. Used(map) = {}
  BY EmptyTable, CapacityAssumption DEF Init
<1>. QED  BY <1>1, BoundNone DEF Init, Symbols!Init, Reply, Symbols!Reply

LEMMA SymbolsStep == Inv /\ [Next]_vars => [Symbols!Next]_Symbols!symbols
<1>. SUFFICES ASSUME Inv, [Next]_vars PROVE [Symbols!Next]_Symbols!symbols
  OBVIOUS
<1>. USE DEF Symbols!symbols
<1>0. ASSUME UNCHANGED <<map, request, starved, answer>> PROVE [Symbols!Next]_Symbols!symbols
  BY <1>0 DEF Bound, SlotOf
<1>1. ASSUME NEW k \in Keys, NEW v \in Vals, BeginInsert(k, v) PROVE Symbols!Next
  <2>1. Insertion(k, v) \in Symbols!Requests
    BY DEF Insertion, Symbols!Requests
  <2>2. Symbols!Ask(Insertion(k, v))
    BY <1>1 DEF BeginInsert, Insertion, Symbols!Ask, Inv, TypeOK
  <2>. QED  BY <2>1, <2>2 DEF Symbols!Next
<1>2. ASSUME NEW k \in Keys, BeginLookup(k) PROVE Symbols!Next
  <2>1. Lookup(k) \in Symbols!Requests
    BY DEF Lookup, Symbols!Requests
  <2>2. Symbols!Ask(Lookup(k))
    BY <1>2 DEF BeginLookup, Lookup, Symbols!Ask, Inv, TypeOK
  <2>. QED  BY <2>1, <2>2 DEF Symbols!Next
<1>3. CASE GrowFails
  BY <1>3 DEF GrowFails, Answer, Reply, Symbols!Next, Symbols!Starve, Symbols!Answer, Symbols!Reply, Inv, TypeOK
<1>4. CASE Adopt
  <2>1. phase = "move" /\ at = map.capacity
    BY <1>4 DEF Adopt
  <2>2. MovedSlots = Used(map) /\ new.count = map.count
    BY <2>1, MovedAll
  <2>3. map' = new /\ UNCHANGED <<request, starved, answer>>
    BY <1>4, <2>2 DEF Adopt
  <2>4. Bound(new) = Bound(map)
    BY <2>1, <2>2, BoundAlike DEF Inv, Tables, MoveInv, SameEntry
  <2>. QED  BY <2>3, <2>4
<1>5. CASE MoveKey
  <2>1. Moved \in {"moved", "goes on"}
    BY <1>5, MovesOn DEF MoveKey
  <2>2. UNCHANGED <<map, request, starved, answer>>
    BY <1>5, <2>1 DEF MoveKey
  <2>. QED  BY <1>0, <2>2
<1>6. ASSUME phase \in {"store", "search"}
      PROVE  /\ request.key \in Keys /\ request.val \in Vals \union {NoVal} /\ probe \in Slots(map)
             /\ IsTable(map) /\ AllFound(map) /\ Counted(map)
             /\ Passes(map, request.key, probe)
             /\ map.keys[Current] = Empty => request.key \notin DOMAIN Bound(map)
             /\ map.keys[Current] = request.key =>
                  request.key \in DOMAIN Bound(map) /\ Bound(map)[request.key] = map.vals[Current]
             /\ map.keys[Current] \notin {Empty, request.key} => probe + 1 < map.capacity
  <2>1. /\ request.key \in Keys /\ request.val \in Vals \union {NoVal} /\ probe \in Slots(map)
        /\ IsTable(map) /\ AllFound(map) /\ Counted(map) /\ Passes(map, request.key, probe)
    BY <1>6 DEF Inv, TypeOK, Tables, SearchInv
  <2>2. /\ map.keys[Current] = Empty => request.key \notin DOMAIN Bound(map)
        /\ map.keys[Current] = request.key =>
             request.key \in DOMAIN Bound(map) /\ Bound(map)[request.key] = map.vals[Current]
    BY <2>1, SearchTells DEF Current
  <2>3. ASSUME map.keys[Current] \notin {Empty, request.key} PROVE probe + 1 < map.capacity
    <3>1. probe + 1 \in Slots(map)
      BY <2>1, <2>3, SearchEnds DEF Current
    <3>. QED  BY <2>1, <3>1 DEF Slots, IsTable
  <2>. QED  BY <2>1, <2>2, <2>3
<1>7. CASE Store
  <2>1. phase = "store" /\ map.keys[Current] = Empty /\ map.count + 1 < map.capacity
    BY <1>7 DEF Store, Inv, SearchInv
  <2>2. Bound(map') = WithKey(Bound(map), request.key, request.val)
    <3>1. map' = Put(map, TabIndex(map, request.key, probe), request.key, request.val)
      BY <1>7 DEF Store, Current
    <3>2. /\ IsTable(map) /\ AllFound(map) /\ Counted(map) /\ map.count + 1 < map.capacity
          /\ request.key \in Keys /\ request.val \in Vals \union {NoVal} /\ probe \in Slots(map)
          /\ Passes(map, request.key, probe)
          /\ map.keys[TabIndex(map, request.key, probe)] = Empty
      BY <1>6, <2>1 DEF Current
    <3>. QED  BY <3>1, <3>2, BoundPut
  <2>3. request.op = "insert" /\ request.key \notin DOMAIN Bound(map)
    BY <1>6, <2>1 DEF Inv, TypeOK
  <2>. HIDE DEF Bound
  <2>4. Symbols!Store
    BY <1>7, <2>2, <2>3 DEF WithKey, Store, Answer, Reply, Symbols!Store, Symbols!Answer, Symbols!Reply
  <2>. QED  BY <2>4 DEF Symbols!Next
<1>8. CASE StoreFails
  <2>1. request.op = "insert" /\ request.key \in DOMAIN Bound(map)
    <3>1. phase = "store" /\ (map.keys[Current] = request.key \/ ~(probe + 1 < map.capacity)) /\ map.keys[Current] # Empty
      BY <1>6, <1>8 DEF StoreFails, GivesUp, IsTable, Slots
    <3>. QED  BY <1>6, <3>1 DEF Inv, TypeOK
  <2>2. UNCHANGED Bound(map)
    BY <1>8 DEF StoreFails, Bound, SlotOf
  <2>3. Symbols!Refuse
    BY <1>8, <2>1, <2>2 DEF StoreFails, Answer, Reply, Symbols!Refuse, Symbols!Answer, Symbols!Reply
  <2>. QED  BY <2>3 DEF Symbols!Next
<1>9. CASE Found
  <2>1. request.op = "lookup" /\ request.key \in DOMAIN Bound(map) /\ Bound(map)[request.key] = map.vals[Current]
    BY <1>6, <1>9 DEF Found, Inv, TypeOK
  <2>2. UNCHANGED Bound(map)
    BY <1>9 DEF Found, Bound, SlotOf
  <2>3. Symbols!Find
    BY <1>9, <2>1, <2>2 DEF Found, Answer, Reply, Symbols!Find, Symbols!Answer, Symbols!Reply
  <2>. QED  BY <2>3 DEF Symbols!Next
<1>10. CASE NotFound
  <2>1. request.op = "lookup" /\ request.key \notin DOMAIN Bound(map)
    <3>1. phase = "search" /\ map.keys[Current] # request.key /\ (map.keys[Current] = Empty \/ ~(probe + 1 < map.capacity))
      BY <1>6, <1>10 DEF NotFound, GivesUp, IsTable, Slots
    <3>. QED  BY <1>6, <3>1 DEF Inv, TypeOK
  <2>2. UNCHANGED Bound(map)
    BY <1>10 DEF NotFound, Bound, SlotOf
  <2>3. Symbols!Find
    BY <1>10, <2>1, <2>2 DEF NotFound, Answer, Reply, Symbols!Find, Symbols!Answer, Symbols!Reply
  <2>. QED  BY <2>3 DEF Symbols!Next
<1>11. CASE Clear
  <2>1. Used(map') = {}
    BY <1>11 DEF Clear, Inv, Tables, IsTable, Used, Slots
  <2>2. Bound(map') = Symbols!NoBinding
    BY <2>1, BoundNone
  <2>3. request.op = "none"
    BY <1>11 DEF Clear, Inv, TypeOK
  <2>4. Symbols!Clear
    BY <1>11, <2>2, <2>3 DEF Clear, Reply, Symbols!Clear, Symbols!Reply
  <2>. QED  BY <2>4 DEF Symbols!Next
<1>12. CASE Grow \/ SkipUnused \/ StoreGoesOn \/ SearchGoesOn \/ UNCHANGED vars
  BY <1>0, <1>12 DEF Grow, SkipUnused, StoreGoesOn, SearchGoesOn, vars
<1>. QED  BY <1>1, <1>2, <1>3, <1>4, <1>5, <1>7, <1>8, <1>9, <1>10, <1>11, <1>12 DEF Next, Calls, Steps

\* Wherever the slots are, the map is a map (co_srcmap.c): a key is bound once and
\* keeps its value through collisions and growth, until the map is cleared.
THEOREM SrcMapImplementsSymbolMap == Spec => ImplementsSymbolMap
<1>1. Spec => Symbols!Init /\ [][Symbols!Next]_Symbols!symbols
  BY Invariance, SymbolsInit, SymbolsStep, PTL DEF Spec
<1>. QED  BY <1>1 DEF ImplementsSymbolMap, Symbols!Spec
=============================================================================
