------------------------------- MODULE SrcMap -------------------------------
(***************************************************************************)
(* The hash map from names to numbers (adder/compiler/co_srcmap.c): open   *)
(* addressing with linear probing; before an insertion the map may move    *)
(* into a larger table.  A loop's round is a step: one probed slot, one    *)
(* slot moved.                                                             *)
(***************************************************************************)
EXTENDS Naturals, FiniteSets

CONSTANTS
  Keys, Vals,
  Empty,            \* the key of an unused slot
  NoVal,            \* what is in an unused slot, and in answers without a value
  Hash,             \* srcmap_hash
  InitialCapacity   \* 16 for variables and functions, 50 for keywords

ASSUME KeyAssumption == Empty \notin Keys /\ Keys # {}
ASSUME HashAssumption == Hash \in [Keys -> Nat]
ASSUME CapacityAssumption == InitialCapacity \in Nat \ {0}

VARIABLES
  map,      \* the table
  new,      \* the table the map moves into
  at,       \* index in map of the next slot to move
  request,  \* the call that is being executed: its operation and arguments
  probe,    \* slots the probing loop has passed
  phase,    \* where the call is: "idle", "grow", "move", "store", "search", "nested", "abort"
  starved,  \* malloc failed in the last call
  answer    \* what the last call answered

vars == <<map, new, at, request, probe, phase, starved, answer>>

-----------------------------------------------------------------------------
(* Tables.                                                                 *)

\* srcmap_init: the keys are set to zero, the values are not.
NewTable(capacity) ==
  [capacity |-> capacity, count |-> 0,
   keys |-> [s \in 0 .. capacity - 1 |-> Empty], vals |-> [s \in 0 .. capacity - 1 |-> NoVal]]

Slots(t) == 0 .. t.capacity - 1
Used(t)  == {s \in Slots(t) : t.keys[s] # Empty}

\* The slot a loop looks at after i others.
StartIndex(t, k)   == Hash[k] % t.capacity
TabIndex(t, k, i) == (i + StartIndex(t, k)) % t.capacity

\* What one more key requires, and whether there is too little headroom for it.
Required(t)   == t.count + 1
NeedsGrowth(t) == t.capacity <= Required(t) + (Required(t) \div 4)

\* Mutant: a new table with no headroom.
TightCapacity(t) == Required(t)

NewCapacity(t) == Required(t) * 2

Put(t, s, k, v) ==
  [capacity |-> t.capacity, count |-> t.count + 1,
   keys |-> [t.keys EXCEPT ![s] = k], vals |-> [t.vals EXCEPT ![s] = v]]

-----------------------------------------------------------------------------
(* Calls.                                                                  *)

Insertion(k, v) == [op |-> "insert", key |-> k, val |-> v]
Lookup(k)       == [op |-> "lookup", key |-> k, val |-> NoVal]
Reply(is, v)    == [is |-> is, val |-> v]

Init ==
  /\ map = NewTable(InitialCapacity)
  /\ new = NewTable(1)
  /\ at = 0 /\ probe = 0
  /\ phase = "idle"
  /\ request \in [op : {"none"}, key : Keys, val : {NoVal}]
  /\ starved = FALSE
  /\ answer = Reply("none", NoVal)

\* The call returns.
Answer(is, v) ==
  /\ answer' = Reply(is, v)
  /\ request' = [request EXCEPT !.op = "none", !.val = NoVal]
  /\ phase' = "idle"

\* Mutant: every other slot, round and round.
GoesOnByTwo == probe' = (probe + 2) % map.capacity

\* The loop goes on to the next slot, if there is one.
GoesOn  == probe + 1 < map.capacity /\ probe' = probe + 1
GivesUp == probe + 1 >= map.capacity

\* srcmap_insert and srcmap_ensure_capacity begin
BeginInsert(k, v) ==
  /\ phase = "idle"
  /\ request' = Insertion(k, v)
  /\ phase' = IF NeedsGrowth(map) THEN "grow" ELSE "store"
  /\ probe' = 0 /\ starved' = FALSE
  /\ UNCHANGED <<map, new, at, answer>>

\* malloc gives the memory of a larger table
Grow ==
  /\ phase = "grow"
  /\ new' = NewTable(NewCapacity(map))
  /\ at' = 0 /\ probe' = 0
  /\ phase' = "move"
  /\ UNCHANGED <<map, request, starved, answer>>

\* or it does not.
GrowFails ==
  /\ phase = "grow"
  /\ starved' = TRUE
  /\ Answer("refused", NoVal)
  /\ UNCHANGED <<map, new, at, probe>>

Moving == phase = "move" /\ at < map.capacity

\* Where the insertion into the new table looks.
Target == TabIndex(new, map.keys[at], probe)

SkipUnused ==
  /\ Moving /\ map.keys[at] = Empty
  /\ at' = at + 1 /\ probe' = 0
  /\ UNCHANGED <<map, new, request, phase, starved, answer>>

\* A round of the insertion into the new table, which begins with
\* srcmap_ensure_capacity as well; the new table must not get more than the old one has.
Moved ==
  CASE probe = 0 /\ NeedsGrowth(new)          -> "grows"
    [] new.keys[Target] = Empty               -> IF new.count + 1 < Required(map) THEN "moved" ELSE "error"
    [] new.keys[Target] = map.keys[at]        -> "error"
    [] OTHER                                  -> IF probe + 1 < new.capacity THEN "goes on" ELSE "error"

\* Mutant: a moved key stays at its index, as if the table were only made longer.
MoveKeyInPlace ==
  /\ Moving /\ map.keys[at] # Empty
  /\ new' = Put(new, at, map.keys[at], map.vals[at])
  /\ at' = at + 1 /\ probe' = 0
  /\ UNCHANGED <<map, request, phase, starved, answer>>

\* On an error the new table is given up and the insertion fails.
MoveKey ==
  /\ Moving /\ map.keys[at] # Empty
  /\ \/ /\ Moved = "moved"
        /\ new' = Put(new, Target, map.keys[at], map.vals[at])
        /\ at' = at + 1 /\ probe' = 0
        /\ UNCHANGED <<request, phase, answer>>
     \/ /\ Moved = "goes on"
        /\ probe' = probe + 1
        /\ UNCHANGED <<new, at, request, phase, answer>>
     \/ /\ Moved = "error"
        /\ Answer("refused", NoVal)
        /\ UNCHANGED <<new, at, probe>>
     \/ /\ Moved = "grows"
        /\ phase' = "nested"
        /\ UNCHANGED <<new, at, probe, request, answer>>
  /\ UNCHANGED <<map, starved>>

\* Mutant: the map takes the new table over without its capacity.
AdoptKeepsCapacity ==
  /\ phase = "move" /\ at = map.capacity /\ new.count = map.count
  /\ map' = [new EXCEPT !.capacity = map.capacity] /\ new' = NewTable(1)
  /\ phase' = "store"
  /\ at' = 0 /\ probe' = 0
  /\ UNCHANGED <<request, starved, answer>>

\* The new table takes the old one's place; an assert compares their counts.
Adopt ==
  /\ phase = "move" /\ at = map.capacity
  /\ IF new.count = map.count
     THEN /\ map' = new /\ new' = NewTable(1)
          /\ phase' = "store"
     ELSE /\ phase' = "abort"
          /\ UNCHANGED <<map, new>>
  /\ at' = 0 /\ probe' = 0
  /\ UNCHANGED <<request, starved, answer>>

\* The slot the insertion or lookup looks at.
Current == TabIndex(map, request.key, probe)

Store ==
  /\ phase = "store" /\ map.keys[Current] = Empty
  /\ map' = Put(map, Current, request.key, request.val)
  /\ Answer("stored", NoVal)
  /\ UNCHANGED <<new, at, probe, starved>>

StoreGoesOn ==
  /\ phase = "store" /\ map.keys[Current] \notin {Empty, request.key} /\ GoesOn
  /\ UNCHANGED <<map, new, at, request, phase, starved, answer>>

\* The key is there already, or there is no slot.
StoreFails ==
  /\ phase = "store" /\ map.keys[Current] # Empty
  /\ map.keys[Current] = request.key \/ GivesUp
  /\ Answer("refused", NoVal)
  /\ UNCHANGED <<map, new, at, probe, starved>>

\* srcmap_lookup begins
BeginLookup(k) ==
  /\ phase = "idle"
  /\ request' = Lookup(k)
  /\ phase' = "search"
  /\ probe' = 0 /\ starved' = FALSE
  /\ UNCHANGED <<map, new, at, answer>>

Found ==
  /\ phase = "search" /\ map.keys[Current] = request.key
  /\ Answer("found", map.vals[Current])
  /\ UNCHANGED <<map, new, at, probe, starved>>

SearchGoesOn ==
  /\ phase = "search" /\ map.keys[Current] \notin {Empty, request.key} /\ GoesOn
  /\ UNCHANGED <<map, new, at, request, phase, starved, answer>>

\* Mutant: a lookup gives up at the first other key.
NotFoundAtOtherKey ==
  /\ phase = "search" /\ map.keys[Current] # request.key
  /\ Answer("absent", NoVal)
  /\ UNCHANGED <<map, new, at, probe, starved>>

\* An unused slot ends the search, and so does the end of the loop.
NotFound ==
  /\ phase = "search" /\ map.keys[Current] # request.key
  /\ map.keys[Current] = Empty \/ GivesUp
  /\ Answer("absent", NoVal)
  /\ UNCHANGED <<map, new, at, probe, starved>>

\* Mutant: the count is kept as well.
ClearKeepsCount ==
  /\ phase = "idle"
  /\ map' = [map EXCEPT !.keys = [s \in Slots(map) |-> Empty]]
  /\ answer' = Reply("cleared", NoVal)
  /\ UNCHANGED <<new, at, request, probe, phase, starved>>

\* srcmap_clear: the values stay.
Clear ==
  /\ phase = "idle"
  /\ map' = [map EXCEPT !.keys = [s \in Slots(map) |-> Empty], !.count = 0]
  /\ answer' = Reply("cleared", NoVal)
  /\ UNCHANGED <<new, at, request, probe, phase, starved>>

Calls ==
  \/ \E k \in Keys, v \in Vals : BeginInsert(k, v)
  \/ \E k \in Keys : BeginLookup(k)
  \/ Clear

Steps ==
  \/ Grow \/ GrowFails \/ SkipUnused \/ MoveKey \/ Adopt
  \/ Store \/ StoreGoesOn \/ StoreFails
  \/ Found \/ SearchGoesOn \/ NotFound

Next == Calls \/ Steps

Spec == Init /\ [][Next]_vars

\* A call, once begun, goes on.
FairSpec == Spec /\ WF_vars(Steps)

-----------------------------------------------------------------------------
(* Properties.                                                             *)

IsTable(t) ==
  t \in [capacity : Nat \ {0}, count : Nat,
         keys : [Slots(t) -> Keys \union {Empty}], vals : [Slots(t) -> Vals \union {NoVal}]]

\* Both tables are tables, and every loop is at one of its slots.
TypeOK ==
  /\ IsTable(map) /\ IsTable(new)
  /\ at \in 0 .. map.capacity
  /\ phase = "idle"   => request \in [op : {"none"}, key : Keys, val : {NoVal}]
  /\ phase = "search" => request \in [op : {"lookup"}, key : Keys, val : {NoVal}]
  /\ phase \in {"grow", "move", "store", "nested", "abort"} =>
       request \in [op : {"insert"}, key : Keys, val : Vals]
  /\ phase \in {"idle", "grow", "move", "store", "search", "nested", "abort"}
  /\ phase \in {"store", "search"} => probe \in Slots(map)
  /\ phase = "move" => probe \in Slots(new)
  /\ starved \in BOOLEAN

\* A search for k passes the first i slots it looks at.
Passes(t, k, i) == \A j \in 0 .. i - 1 : t.keys[TabIndex(t, k, j)] \notin {Empty, k}

FindsAt(t, k, s) == \E i \in Slots(t) : TabIndex(t, k, i) = s /\ Passes(t, k, i)

AllFound(t) == \A s \in Used(t) : FindsAt(t, t.keys[s], s)

\* Every key in a table, the new one while it is filled included, is where a search
\* that stops at the first unused slot or the first equal key gets to: through
\* collisions, the end of the table, growth (with other home slots for every key)
\* and clearing.
Findable == AllFound(map) /\ AllFound(new)

Counted(t) == t.count = Cardinality(Used(t)) /\ t.count < t.capacity

\* The count is that of the keys, and less than the capacity: a search ends at an
\* unused slot.
HasRoom == Counted(map) /\ Counted(new)

\* One growth is enough: the insertions into the new table do not grow it again
\* (srcmap_ensure_capacity would call itself), and the assert on the counts holds.
GrowsOnce == phase \notin {"nested", "abort"}

\* A call that has begun ends.
Answered == phase # "idle" ~> phase = "idle"
=============================================================================
