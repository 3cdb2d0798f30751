----------------------------- MODULE TypeContext -----------------------------
(***************************************************************************)
(* The contexts of the type checker (adder/compiler/co_bty.c): a context   *)
(* is a sorted table of names and types in the arena, searched by halving. *)
(* Entering a scope copies the table of the one around it; a table that    *)
(* gets full moves to a larger place.  Nothing is ever given back to the   *)
(* arena.  A step of the search is a step.                                 *)
(***************************************************************************)
EXTENDS Arena

CONSTANTS
  Names, Types, NoType,
  Length,           \* of every name
  Rank,             \* the order of strncmp, as numbers
  InitialCapacity,  \* 16
  OtherSizes,       \* words of the other objects that come to lie in the arena
  MaxScopes, MaxObjects  \* bounds on open scopes and on objects in the arena

ASSUME NameAssumption ==
  /\ Length \in [Names -> Nat \ {0}]
  /\ Rank \in [Names -> Nat]
  /\ \A n, m \in Names : Length[n] = Length[m] /\ Rank[n] = Rank[m] => n = m
ASSUME CapacityAssumption == InitialCapacity \in Nat \ {0}
ASSUME OtherAssumption == OtherSizes \subseteq Nat \ {0}

VARIABLES
  arena,     \* the chunks
  objects,   \* history: the parts of the arena that were handed out, in order
  contexts,  \* the contexts of the open scopes, innermost last
  request,   \* the call that is being executed: its operation, scope and arguments
  low, high, \* where its search looks
  phase,     \* where the call is: "idle", "grow", "search", "bind", or "dead"
  starved,   \* malloc failed in the last insertion
  answer     \* what the last call answered

vars == <<arena, objects, contexts, request, low, high, phase, starved, answer>>

-----------------------------------------------------------------------------
(* Contexts in the arena.                                                  *)

ContextWords == 4                       \* sizeof(bty_ctx_t)
TableWords(capacity) == 2 * capacity    \* sizeof(bty_ctx_kvp_t) is two words

Context(table, size, capacity) ==
  [chunk |-> table.chunk, first |-> table.first, size |-> size, capacity |-> capacity]

\* The entry at an index: a pointer to the name, and the type.
KeyAt(ar, c, i)  == ar[c.chunk].words[c.first + 2 * i]
TypeAt(ar, c, i) == ar[c.chunk].words[c.first + 2 * i + 1]
NameAt(ar, c, i) == LET p == KeyAt(ar, c, i) IN ar[p.chunk].words[p.first]

\* srcrefcmp, which sorts longer names first.
Compare(actual, name) ==
  IF Length[actual] = Length[name] THEN Rank[actual] - Rank[name] ELSE Length[name] - Length[actual]

\* The context and its table, allocated one after the other.
NewContext(ar, capacity) ==
  LET c == Alloc(ar, 1, ContextWords)
      t == Alloc(c.arena, 1, TableWords(capacity))
  IN  [arena |-> t.arena, context |-> c.object, table |-> t.object]

Pointer(object) == [chunk |-> object.chunk, first |-> object.first]

\* The name in its string, and the entry at an index of a table.
WriteEntry(ar, c, i, str, n, t) ==
  Write(Write(ar, str.chunk, str.first, [o \in {0} |-> n]),
        c.chunk, c.first + 2 * i, [o \in 0 .. 1 |-> IF o = 0 THEN Pointer(str) ELSE t])

\* bty_ctx_ensure_capacity
Required(c)    == c.size + 1
NewCapacity(c) == Required(c) * 2

\* Mutant: what is about to be inserted is not counted.
GrowsLate(c) == c.size > c.capacity

NeedsGrowth(c) == Required(c) >= c.capacity

\* bty_ctx_make_room_at
MakeRoom(ar, c, i) ==
  Write(ar, c.chunk, c.first + 2 * (i + 1), Words(ar, c.chunk, c.first + 2 * i, 2 * (c.size - i)))

Innermost == contexts[Len(contexts)]
Searched  == contexts[request.scope]

-----------------------------------------------------------------------------
(* Calls.                                                                  *)

Insertion(n, t) == [op |-> "insert", scope |-> Len(contexts), name |-> n, type |-> t]
Lookup(d, n)    == [op |-> "lookup", scope |-> d, name |-> n, type |-> NoType]
Reply(is, type) == [is |-> is, type |-> type]

\* bty_ctx_create; the parser has made the arena.
Init ==
  /\ \E first \in {NewContext(<<NewChunk(0)>>, InitialCapacity)} :
       /\ arena = first.arena
       /\ objects = Append(Append(<<>>, first.context), first.table)
       /\ contexts = <<Context(first.table, 0, InitialCapacity)>>
  /\ request \in [op : {"none"}, scope : {1}, name : Names, type : {NoType}]
  /\ low = 0 /\ high = 0
  /\ phase = "idle"
  /\ starved = FALSE
  /\ answer = Reply("none", NoType)

\* The call returns.
Answer(is, type) ==
  /\ answer' = Reply(is, type)
  /\ request' = [request EXCEPT !.op = "none", !.type = NoType, !.scope = 1]
  /\ phase' = "idle"

\* An allocation whose result is used unchecked gets no memory.
Dies(ar) == Len(ar) > Len(arena) /\ phase' = "dead" /\ UNCHANGED <<arena, objects>>

\* Mutant: the inner scope works on the table of the outer one.
EnterShallow ==
  /\ phase = "idle" /\ Len(contexts) < MaxScopes /\ Len(objects) < MaxObjects
  /\ \E new \in {NewContext(arena, Innermost.capacity)} :
       /\ arena' = new.arena
       /\ objects' = Append(Append(objects, new.context), new.table)
       /\ contexts' = Append(contexts, Innermost)
  /\ UNCHANGED <<request, low, high, phase, starved, answer>>

\* bty_ctx_clone, at a branch, a loop or a function's body
Enter ==
  /\ phase = "idle" /\ Len(contexts) < MaxScopes /\ Len(objects) < MaxObjects
  /\ \E new \in {NewContext(arena, Innermost.capacity)} :
       \/ /\ arena' = Write(new.arena, new.table.chunk, new.table.first,
                            Words(arena, Innermost.chunk, Innermost.first, 2 * Innermost.size))
          /\ objects' = Append(Append(objects, new.context), new.table)
          /\ contexts' = Append(contexts, Context(new.table, Innermost.size, Innermost.capacity))
          /\ UNCHANGED phase
       \/ /\ Dies(new.arena)
          /\ UNCHANGED contexts
  /\ UNCHANGED <<request, low, high, starved, answer>>

\* The context of a scope is forgotten at its end.
Leave ==
  /\ phase = "idle" /\ Len(contexts) > 1
  /\ contexts' = SubSeq(contexts, 1, Len(contexts) - 1)
  /\ UNCHANGED <<arena, objects, request, low, high, phase, starved, answer>>

\* A type or a message is put into the arena.
Other(n) ==
  /\ phase = "idle" /\ Len(objects) < MaxObjects
  /\ \E new \in {Alloc(arena, 1, n)} :
       \/ /\ arena' = new.arena
          /\ objects' = Append(objects, new.object)
          /\ UNCHANGED phase
       \/ Dies(new.arena)
  /\ UNCHANGED <<contexts, request, low, high, starved, answer>>

\* The search begins with a whole table of this many entries.
Search(size) == phase' = "search" /\ low' = 0 /\ high' = size - 1

\* bty_ctx_insert begins; bty_ctx_ensure_capacity
BeginInsert(n, t) ==
  /\ phase = "idle" /\ Len(objects) < MaxObjects
  /\ request' = Insertion(n, t)
  /\ starved' = FALSE
  /\ IF NeedsGrowth(Innermost) THEN phase' = "grow" /\ UNCHANGED <<low, high>>
                               ELSE Search(Innermost.size)
  /\ UNCHANGED <<arena, objects, contexts, answer>>

\* The table moves to a larger place
Grow ==
  /\ phase = "grow"
  /\ \E new \in {Alloc(arena, Len(arena), TableWords(NewCapacity(Searched)))} :
       /\ arena' = Moved(arena, Searched.chunk, Searched.first, new)
       /\ objects' = Append(objects, new.object)
       /\ contexts' = [contexts EXCEPT ![request.scope] =
                         Context(new.object, Searched.size, NewCapacity(Searched))]
  /\ Search(Searched.size)
  /\ UNCHANGED <<request, starved, answer>>

\* or there is none, and the name is not bound.
GrowFails ==
  /\ phase = "grow"
  /\ Fitting(arena, Len(arena), TableWords(NewCapacity(Searched))) = {}
  /\ starved' = TRUE
  /\ Answer("refused", NoType)
  /\ UNCHANGED <<arena, objects, contexts, low, high>>

\* bty_ctx_lookup begins
BeginLookup(d, n) ==
  /\ phase = "idle"
  /\ request' = Lookup(d, n)
  /\ starved' = FALSE
  /\ Search(contexts[d].size)
  /\ UNCHANGED <<arena, objects, contexts, answer>>

Mid    == low + (high - low) \div 2
MidIs  == Compare(NameAt(arena, Searched, Mid), request.name)

\* Mutant: the middle is looked at again.
HalveKeepsMid ==
  /\ phase = "search" /\ low <= high /\ MidIs # 0
  /\ IF MidIs > 0 THEN high' = Mid - 1 /\ UNCHANGED low
                  ELSE low' = Mid /\ UNCHANGED high
  /\ UNCHANGED <<arena, objects, contexts, request, phase, starved, answer>>

\* bty_ctx_binsearch goes on in one half
Halve ==
  /\ phase = "search" /\ low <= high /\ MidIs # 0
  /\ IF MidIs > 0 THEN high' = Mid - 1 /\ UNCHANGED low
                  ELSE low' = Mid + 1 /\ UNCHANGED high
  /\ UNCHANGED <<arena, objects, contexts, request, phase, starved, answer>>

\* or has found the name, which a lookup wants and an insertion does not.
Hit ==
  /\ phase = "search" /\ low <= high /\ MidIs = 0
  /\ IF request.op = "lookup" THEN Answer("found", TypeAt(arena, Searched, Mid))
                              ELSE Answer("refused", NoType)
  /\ UNCHANGED <<arena, objects, contexts, low, high, starved>>

Miss ==
  /\ phase = "search" /\ low > high
  /\ IF request.op = "lookup" THEN Answer("absent", NoType)
                              ELSE phase' = "bind" /\ UNCHANGED <<request, answer>>
  /\ UNCHANGED <<arena, objects, contexts, low, high, starved>>

\* Mutant: the new entry is put before the place that was found.
BindBefore ==
  /\ phase = "bind"
  /\ \E room \in {MakeRoom(arena, Searched, IF low > 0 THEN low - 1 ELSE 0)} :
     \E str \in {Alloc(room, 1, StringWords(Length[request.name]))} :
       /\ arena' = WriteEntry(str.arena, Searched, IF low > 0 THEN low - 1 ELSE 0,
                              str.object, request.name, request.type)
       /\ objects' = Append(objects, str.object)
  /\ contexts' = [contexts EXCEPT ![request.scope].size = @ + 1]
  /\ Answer("inserted", NoType)
  /\ UNCHANGED <<low, high, starved>>

\* The insertion makes room where the search ended, copies the name and writes the entry.
Bind ==
  /\ phase = "bind"
  /\ \E room \in {MakeRoom(arena, Searched, low)} :
     \E str \in {Alloc(room, 1, StringWords(Length[request.name]))} :
       \/ /\ arena' = WriteEntry(str.arena, Searched, low, str.object, request.name, request.type)
          /\ objects' = Append(objects, str.object)
          /\ contexts' = [contexts EXCEPT ![request.scope].size = @ + 1]
          /\ Answer("inserted", NoType)
       \/ Dies(str.arena) /\ UNCHANGED <<contexts, request, answer>>
  /\ UNCHANGED <<low, high, starved>>

Calls ==
  \/ Enter \/ Leave
  \/ \E n \in OtherSizes : Other(n)
  \/ \E n \in Names, t \in Types : BeginInsert(n, t)
  \/ \E d \in DOMAIN contexts, n \in Names : BeginLookup(d, n)

Steps == Grow \/ GrowFails \/ Halve \/ Hit \/ Miss \/ Bind

Next == Calls \/ Steps

Spec == Init /\ [][Next]_vars

\* A call, once begun, goes on.
FairSpec == Spec /\ WF_vars(Steps)

-----------------------------------------------------------------------------
(* Properties.                                                             *)

IsChunk(c) ==
  /\ c.capacity \in Nat /\ c.size \in 0 .. c.capacity
  /\ DOMAIN c.words = 0 .. c.capacity - 1

IsContext(c) ==
  /\ c.chunk \in DOMAIN arena /\ c.first \in Nat
  /\ c.capacity \in Nat \ {0} /\ c.size \in 0 .. c.capacity

\* Chunks are not overfull, tables have room for their entries, and for one more
\* when an insertion is about to write it.
TypeOK ==
  /\ \A i \in DOMAIN arena : IsChunk(arena[i])
  /\ contexts # <<>> /\ \A d \in DOMAIN contexts : IsContext(contexts[d])
  /\ request.scope \in DOMAIN contexts
  /\ phase \in {"idle", "grow", "search", "bind", "dead"}
  /\ phase \in {"search", "bind"} =>
       /\ low \in 0 .. high + 1 /\ high \in -1 .. Searched.size - 1
       /\ request.op = "insert" => Searched.size < Searched.capacity

Apart(x, y) ==
  x.chunk # y.chunk \/ x.first + x.len <= y.first \/ y.first + y.len <= x.first

Table(c) == Object(c.chunk, c.first, TableWords(c.capacity))

\* No two objects share a word, wherever chunks end and whatever grows, and every
\* open scope has a table of its own.
Separate ==
  /\ \A i, j \in DOMAIN objects : i # j => Apart(objects[i], objects[j])
  /\ \A d \in DOMAIN contexts : \E i \in DOMAIN objects : objects[i] = Table(contexts[d])
  /\ \A d, e \in DOMAIN contexts : d # e => Apart(Table(contexts[d]), Table(contexts[e]))

Entries(c) == 0 .. c.size - 1

\* The entries of every open scope are sorted, so that halving finds them: after
\* an insertion anywhere, after growing over what lies behind the table, and with
\* other scopes' and other objects' writing in between.
Ordered ==
  \A d \in DOMAIN contexts : \A i, j \in Entries(contexts[d]) :
    i < j => Compare(NameAt(arena, contexts[d], i), NameAt(arena, contexts[d], j)) < 0

\* A call that has begun ends, or ends the process.
Returns == phase # "idle" ~> phase \in {"idle", "dead"}
=============================================================================
