----------------------- MODULE TypeContextScopesProofs -----------------------
(***************************************************************************)
(* The tables of the type checker's contexts stay sorted, wherever they    *)
(* move and whatever is written behind and between them; and so the        *)
(* contexts implement Scopes, for every set of names and any sizes of      *)
(* chunks, tables and other objects.                                       *)
(***************************************************************************)
EXTENDS TypeContextProofs, TypeContextRefinement

-----------------------------------------------------------------------------
(* Words that stay.                                                        *)

Outside(c, o, x) == c # x.chunk \/ o < x.first \/ x.first + x.len <= o

SameWords(ar, new, y) ==
  \A o \in y.first .. y.first + y.len - 1 : new[y.chunk].words[o] = ar[y.chunk].words[o]

\* srcrefcmp is a strict order of names.
LEMMA CompareOrder ==
  ASSUME NEW n \in Names, NEW m \in Names, NEW k \in Names
  PROVE  /\ Compare(n, m) \in Int
         /\ Compare(n, m) < 0 <=> Compare(m, n) > 0
         /\ Compare(n, m) = 0 <=> n = m
         /\ Compare(n, m) < 0 /\ Compare(m, k) < 0 => Compare(n, k) < 0
<1>1. /\ Length[n] \in Nat /\ Length[m] \in Nat /\ Length[k] \in Nat
      /\ Rank[n] \in Nat /\ Rank[m] \in Nat /\ Rank[k] \in Nat
      /\ Length[n] = Length[m] /\ Rank[n] = Rank[m] => n = m
  BY NameAssumption
<1> QED BY <1>1 DEF Compare

\* Words from a place on that have been overwritten.
Overwritten(ar, c, first, n, ws, w) ==
  /\ SameSizes(ar, w)
  /\ \A d \in DOMAIN ar : \A o \in 0 .. ar[d].capacity - 1 :
       Outside(d, o, Object(c, first, n)) => w[d].words[o] = ar[d].words[o]
  /\ \A k \in 0 .. n - 1 : first + k < ar[c].capacity => w[c].words[first + k] = ws[k]

\* Writing changes the words it is given and no others.
LEMMA WriteWords ==
  ASSUME NEW ar, IsArena(ar), NEW c \in DOMAIN ar, NEW first \in Nat, NEW n \in Nat, NEW ws,
         DOMAIN ws = 0 .. n - 1, \A k \in 0 .. n - 1 : ws[k] \in Word
  PROVE  Overwritten(ar, c, first, n, ws, Write(ar, c, first, ws))
<1> DEFINE w == Write(ar, c, first, ws)
<1>1. \A o \in DOMAIN ws : ws[o] \in Word
  OBVIOUS
<1>2. /\ IsArena(w) /\ DOMAIN w = DOMAIN ar
      /\ \A i \in DOMAIN ar : w[i].capacity = ar[i].capacity /\ w[i].size = ar[i].size
      /\ \A i \in DOMAIN ar : i # c => w[i] = ar[i]
      /\ \A o \in 0 .. ar[c].capacity - 1 :
           w[c].words[o] = IF o - first \in DOMAIN ws THEN ws[o - first] ELSE ar[c].words[o]
  BY <1>1, WriteType
<1>3. ar[c].capacity \in Nat
  BY DEF IsArena, IsChunk
<1> HIDE DEF w
<1>4. ASSUME NEW d \in DOMAIN ar, NEW o \in 0 .. ar[d].capacity - 1, Outside(d, o, Object(c, first, n))
      PROVE  w[d].words[o] = ar[d].words[o]
  <2>1. CASE d # c
    BY <1>2, <2>1
  <2>2. CASE d = c
    <3>1. o < first \/ first + n <= o
      BY <1>4, <2>2 DEF Outside, Object
    <3>2. o - first \notin DOMAIN ws
      BY <1>3, <2>2, <3>1
    <3> QED BY <1>2, <2>2, <3>2
  <2> QED BY <2>1, <2>2
<1>5. ASSUME NEW k \in 0 .. n - 1, first + k < ar[c].capacity
      PROVE  w[c].words[first + k] = ws[k]
  <2>1. first + k \in 0 .. ar[c].capacity - 1 /\ (first + k) - first = k
    BY <1>3, <1>5
  <2> QED BY <1>2, <2>1
<1>6. SameSizes(ar, w)
  BY <1>2 DEF SameSizes
<1>7. Overwritten(ar, c, first, n, ws, w)
  BY <1>4, <1>5, <1>6 DEF Overwritten
<1> QED BY <1>7 DEF w

\* Writing overwrites the words it is given.
LEMMA WriteEffect ==
  ASSUME NEW ar, IsArena(ar), NEW c \in DOMAIN ar, NEW first \in Nat, NEW n \in Nat, NEW ws,
         DOMAIN ws = 0 .. n - 1, \A k \in 0 .. n - 1 : ws[k] \in Word,
         NEW w, w = Write(ar, c, first, ws)
  PROVE  Overwritten(ar, c, first, n, ws, w)
BY WriteWords

\* What is in use keeps its words when a fresh object is written.
LEMMA WriteFresh ==
  ASSUME NEW ar, IsArena(ar), NEW new, IsArena(new), Keeps(ar, new),
         NEW x \in ObjectType, Inside(new, x), x.chunk \in DOMAIN ar => ar[x.chunk].size <= x.first,
         NEW n \in Nat, n <= x.len, NEW ws, DOMAIN ws = 0 .. n - 1, \A k \in 0 .. n - 1 : ws[k] \in Word
  PROVE  LET w == Write(new, x.chunk, x.first, ws)
         IN  /\ Keeps(ar, w)
             /\ \A k \in 0 .. n - 1 : w[x.chunk].words[x.first + k] = ws[k]
<1> DEFINE w == Write(new, x.chunk, x.first, ws)
<1>1. x.chunk \in DOMAIN new /\ x.first \in Nat /\ x.len \in Nat /\ x.first + x.len <= new[x.chunk].size
  BY DEF ObjectType, Inside
<1>2. /\ SameSizes(new, w)
      /\ \A d \in DOMAIN new : \A o \in 0 .. new[d].capacity - 1 :
           Outside(d, o, Object(x.chunk, x.first, n)) => w[d].words[o] = new[d].words[o]
      /\ \A k \in 0 .. n - 1 : x.first + k < new[x.chunk].capacity => w[x.chunk].words[x.first + k] = ws[k]
  <2>1. Overwritten(new, x.chunk, x.first, n, ws, w)
    BY <1>1, WriteWords
  <2> QED BY <2>1 DEF Overwritten
<1> HIDE DEF w
<1>3. \A d \in DOMAIN new : new[d].size \in Nat /\ new[d].capacity \in Nat /\ new[d].size <= new[d].capacity
  BY DEF IsArena, IsChunk
<1>4. ASSUME NEW d \in DOMAIN ar, NEW o \in 0 .. ar[d].size - 1
      PROVE  w[d].words[o] = ar[d].words[o]
  <2>1. ar[d].size \in Nat /\ d \in DOMAIN new /\ ar[d].size <= new[d].size
    BY DEF IsArena, IsChunk, Keeps
  <2>2. o \in 0 .. new[d].capacity - 1
    BY <1>3, <2>1
  <2>3. Outside(d, o, Object(x.chunk, x.first, n))
    BY <1>1, <2>1 DEF Outside, Object
  <2> QED BY <1>2, <2>1, <2>2, <2>3 DEF Keeps
<1>5. Keeps(ar, w)
  BY <1>2, <1>4 DEF Keeps, SameSizes
<1>6. ASSUME NEW k \in 0 .. n - 1 PROVE w[x.chunk].words[x.first + k] = ws[k]
  <2>1. x.first + k < new[x.chunk].capacity
    BY <1>1, <1>3
  <2> QED BY <1>2, <2>1
<1> QED BY <1>5, <1>6 DEF w

\* Objects in use keep their words.
LEMMA KeptWords ==
  ASSUME NEW ar, IsArena(ar), NEW new, Keeps(ar, new), NEW y \in ObjectType, Inside(ar, y)
  PROVE  SameWords(ar, new, y)
<1>1. y.chunk \in DOMAIN ar /\ y.first \in Nat /\ y.len \in Nat /\ y.first + y.len <= ar[y.chunk].size
  BY DEF ObjectType, Inside
<1>2. ar[y.chunk].size \in Nat
  BY <1>1 DEF IsArena, IsChunk
<1>3. \A o \in y.first .. y.first + y.len - 1 : o \in 0 .. ar[y.chunk].size - 1
  BY <1>1, <1>2
<1> QED BY <1>1, <1>3 DEF SameWords, Keeps

-----------------------------------------------------------------------------
(* Entries.                                                                *)

SameEntry(ar, c, i, new, e, j) ==
  /\ KeyAt(new, e, j) = KeyAt(ar, c, i)
  /\ TypeAt(new, e, j) = TypeAt(ar, c, i)
  /\ NameAt(new, e, j) = NameAt(ar, c, i)

Same(ar, c, new, e) == e.size = c.size /\ \A i \in Entries(c) : SameEntry(ar, c, i, new, e, i)

\* All contexts have the entries they had.
SameAll(ar, cs, new, ds) == DOMAIN ds = DOMAIN cs /\ \A d \in DOMAIN cs : Same(ar, cs[d], new, ds[d])

\* They have, and there is one more with the entries of the last.
Entered(ar, cs, new, ds) ==
  /\ DOMAIN ds = 1 .. Len(cs) + 1
  /\ \A d \in DOMAIN cs : Same(ar, cs[d], new, ds[d])
  /\ Same(ar, cs[Len(cs)], new, ds[Len(cs) + 1])

\* They have, but for a new entry in one of them.
Extended(ar, cs, s, at, name, type, new, ds) ==
  /\ DOMAIN ds = DOMAIN cs /\ ds[s].size = cs[s].size + 1
  /\ \A d \in DOMAIN cs : d # s => Same(ar, cs[d], new, ds[d])
  /\ \A i \in Entries(cs[s]) : i < at => SameEntry(ar, cs[s], i, new, ds[s], i)
  /\ \A i \in Entries(cs[s]) : at <= i => SameEntry(ar, cs[s], i, new, ds[s], i + 1)
  /\ NameAt(new, ds[s], at) = name /\ TypeAt(new, ds[s], at) = type

\* An object that is apart from all tables.
Aside(x, cs) == \A d \in DOMAIN cs : Apart(x, Table(cs[d]))

\* Entries have names, which lie in objects that are no tables, and types.
Named(ar, objs, cs) ==
  \A d \in DOMAIN cs : \A i \in Entries(cs[d]) :
    /\ \E o \in DOMAIN objs : KeyAt(ar, cs[d], i) = Pointer(objs[o]) /\ Aside(objs[o], cs)
    /\ NameAt(ar, cs[d], i) \in Names /\ TypeAt(ar, cs[d], i) \in Types

OrderedIn(ar, cs) ==
  \A d \in DOMAIN cs : \A i, j \in Entries(cs[d]) :
    i < j => Compare(NameAt(ar, cs[d], i), NameAt(ar, cs[d], j)) < 0

\* What a search has passed is smaller, or larger, than what it looks for.
Narrowed ==
  phase \in {"search", "bind"} =>
    /\ \A i \in Entries(Searched) :
         /\ i < low  => Compare(NameAt(arena, Searched, i), request.name) < 0
         /\ i > high => Compare(NameAt(arena, Searched, i), request.name) > 0
    /\ phase = "bind" => low > high

FullInv == Inv /\ Named(arena, objects, contexts) /\ OrderedIn(arena, contexts) /\ Narrowed

\* Entries whose words and name are the same.
LEMMA EntryKept ==
  ASSUME NEW ar, NEW new, NEW c \in ContextType, NEW e, NEW i \in Nat, NEW j \in Nat, NEW y \in ObjectType,
         KeyAt(ar, c, i) = Pointer(y), SameWords(ar, new, y),
         new[e.chunk].words[e.first + 2 * j] = ar[c.chunk].words[c.first + 2 * i],
         new[e.chunk].words[e.first + 2 * j + 1] = ar[c.chunk].words[c.first + 2 * i + 1]
  PROVE  SameEntry(ar, c, i, new, e, j)
<1>1. KeyAt(new, e, j) = KeyAt(ar, c, i) /\ TypeAt(new, e, j) = TypeAt(ar, c, i)
  BY DEF KeyAt, TypeAt
<1>2. y.first \in y.first .. y.first + y.len - 1
  BY DEF ObjectType
<1>3. new[y.chunk].words[y.first] = ar[y.chunk].words[y.first]
  BY <1>2 DEF SameWords
<1>4. NameAt(new, e, j) = NameAt(ar, c, i)
  BY <1>1, <1>3 DEF NameAt, Pointer
<1> QED BY <1>1, <1>4 DEF SameEntry

\* A copy of a table, or a table left alone, has the same entries.
LEMMA CopySame ==
  ASSUME NEW ar, IsArena(ar), NEW objs, Objects(ar, objs), NEW cs, Contexts(ar, objs, cs), Named(ar, objs, cs),
         NEW new, Keeps(ar, new), NEW d \in DOMAIN cs, NEW e, e.size = cs[d].size,
         \A k \in 0 .. 2 * cs[d].size - 1 :
           new[e.chunk].words[e.first + k] = ar[cs[d].chunk].words[cs[d].first + k],
         e.first \in Nat
  PROVE  Same(ar, cs[d], new, e)
<1>1. cs[d] \in ContextType /\ cs[d].size \in Nat /\ cs[d].first \in Nat
  BY ContextInArena DEF ContextType
<1>2. ASSUME NEW i \in Entries(cs[d]) PROVE SameEntry(ar, cs[d], i, new, e, i)
  <2>1. PICK o \in DOMAIN objs : KeyAt(ar, cs[d], i) = Pointer(objs[o])
    BY DEF Named
  <2>2. objs[o] \in ObjectType /\ Inside(ar, objs[o])
    BY ElementOfSeq, LenProperties DEF Objects
  <2>3. SameWords(ar, new, objs[o])
    BY <2>2, KeptWords
  <2>4. i \in Nat /\ 2 * i \in 0 .. 2 * cs[d].size - 1 /\ 2 * i + 1 \in 0 .. 2 * cs[d].size - 1
    BY <1>1 DEF Entries
  <2>5. /\ e.first + (2 * i + 1) = e.first + 2 * i + 1
        /\ cs[d].first + (2 * i + 1) = cs[d].first + 2 * i + 1
    BY <1>1, <2>4
  <2> QED BY <1>1, <2>1, <2>2, <2>3, <2>4, <2>5, EntryKept
<1> QED BY <1>2 DEF Same

\* Where nothing in use is written, all contexts are the same.
LEMMA KeptContext ==
  ASSUME NEW ar, IsArena(ar), NEW objs, Objects(ar, objs), NEW cs, Contexts(ar, objs, cs), Named(ar, objs, cs),
         NEW new, Keeps(ar, new), NEW d \in DOMAIN cs
  PROVE  Same(ar, cs[d], new, cs[d])
<1>1. /\ cs[d] \in ContextType /\ cs[d].size \in Nat /\ cs[d].first \in Nat /\ cs[d].capacity \in Nat
      /\ cs[d].size <= cs[d].capacity
  BY ContextInArena DEF ContextType
<1>2. Table(cs[d]) \in ObjectType /\ Inside(ar, Table(cs[d]))
  <2>1. PICK i \in DOMAIN objs : objs[i] = Table(cs[d])
    BY DEF Contexts
  <2> QED BY <2>1, ElementOfSeq, LenProperties DEF Objects
<1>3. SameWords(ar, new, Table(cs[d]))
  BY <1>2, KeptWords
<1>4. ASSUME NEW k \in 0 .. 2 * cs[d].size - 1
      PROVE  new[cs[d].chunk].words[cs[d].first + k] = ar[cs[d].chunk].words[cs[d].first + k]
  <2>1. cs[d].first + k \in cs[d].first .. cs[d].first + 2 * cs[d].capacity - 1
    BY <1>1
  <2> QED BY <1>3, <2>1 DEF SameWords, Table, Object, TableWords
<1> QED BY <1>1, <1>4, CopySame

\* Contexts with the entries of old ones keep names and order.
LEMMA QuietStep ==
  ASSUME NEW ar, NEW objs, NEW cs, Named(ar, objs, cs), OrderedIn(ar, cs), NEW new, NEW more, NEW ds,
         \A d \in DOMAIN ds : \E e \in DOMAIN cs : Same(ar, cs[e], new, ds[d]),
         \A o \in DOMAIN objs : Aside(objs[o], cs) =>
           Aside(objs[o], ds) /\ \E p \in DOMAIN more : more[p] = objs[o]
  PROVE  Named(new, more, ds) /\ OrderedIn(new, ds)
<1>1. ASSUME NEW d \in DOMAIN ds, NEW i \in Entries(ds[d])
      PROVE  /\ \E o \in DOMAIN more : KeyAt(new, ds[d], i) = Pointer(more[o]) /\ Aside(more[o], ds)
             /\ NameAt(new, ds[d], i) \in Names /\ TypeAt(new, ds[d], i) \in Types
  <2>1. PICK e \in DOMAIN cs : Same(ar, cs[e], new, ds[d])
    OBVIOUS
  <2>2. i \in Entries(cs[e]) /\ SameEntry(ar, cs[e], i, new, ds[d], i)
    BY <2>1 DEF Same, Entries
  <2>3. PICK o \in DOMAIN objs : KeyAt(ar, cs[e], i) = Pointer(objs[o]) /\ Aside(objs[o], cs)
    BY <2>2 DEF Named
  <2>4. PICK p \in DOMAIN more : more[p] = objs[o]
    BY <2>3
  <2>5. KeyAt(new, ds[d], i) = Pointer(more[p]) /\ Aside(more[p], ds)
    BY <2>2, <2>3, <2>4 DEF SameEntry
  <2>6. NameAt(new, ds[d], i) \in Names /\ TypeAt(new, ds[d], i) \in Types
    BY <2>2 DEF Named, SameEntry
  <2> QED BY <2>5, <2>6
<1>2. ASSUME NEW d \in DOMAIN ds, NEW i \in Entries(ds[d]), NEW j \in Entries(ds[d]), i < j
      PROVE  Compare(NameAt(new, ds[d], i), NameAt(new, ds[d], j)) < 0
  <2>1. PICK e \in DOMAIN cs : Same(ar, cs[e], new, ds[d])
    OBVIOUS
  <2>2. /\ i \in Entries(cs[e]) /\ j \in Entries(cs[e])
        /\ SameEntry(ar, cs[e], i, new, ds[d], i) /\ SameEntry(ar, cs[e], j, new, ds[d], j)
    BY <2>1 DEF Same, Entries
  <2> QED BY <1>2, <2>2 DEF OrderedIn, SameEntry
<1> QED BY <1>1, <1>2 DEF Named, OrderedIn

-----------------------------------------------------------------------------
(* Steps.                                                                  *)

\* The first context is empty.
LEMMA InitFull == Init => FullInv
<1> SUFFICES ASSUME Init PROVE FullInv
  OBVIOUS
<1>1. \A d \in DOMAIN contexts : Entries(contexts[d]) = {}
  <2>1. PICK c : contexts = <<c>> /\ c.size = 0
    BY DEF Init, Context
  <2> QED BY <2>1 DEF Entries
<1>2. Named(arena, objects, contexts) /\ OrderedIn(arena, contexts)
  BY <1>1 DEF Named, OrderedIn
<1>3. Narrowed
  BY DEF Init, Narrowed
<1> QED BY <1>2, <1>3, InitInv DEF FullInv

\* Objects that are added disturb no name and no order.
LEMMA AddedKeeps ==
  ASSUME FullInv, NEW new, NEW more, NEW x, NEW n, Adds(arena, objects, new, more, x, n)
  PROVE  Named(new, more, contexts) /\ OrderedIn(new, contexts) /\ SameAll(arena, contexts, new, contexts)
<1>1. \A d \in DOMAIN contexts : Same(arena, contexts[d], new, contexts[d])
  BY KeptContext DEF FullInv, Inv, Adds
<1>2. \A o \in DOMAIN objects : \E p \in DOMAIN more : more[p] = objects[o]
  BY DEF Adds
<1>3. Named(new, more, contexts) /\ OrderedIn(new, contexts)
  BY <1>1, <1>2, QuietStep DEF FullInv
<1> QED BY <1>1, <1>3 DEF SameAll

\* So does what happens without the arena.
LEMMA UnchangedKeeps ==
  ASSUME FullInv, UNCHANGED <<arena, objects, contexts>>
  PROVE  /\ Named(arena', objects', contexts') /\ OrderedIn(arena', contexts')
         /\ SameAll(arena, contexts, arena', contexts')
BY DEF FullInv, SameAll, Same, SameEntry

\* A scope that is entered knows what the one around it knows.
LEMMA EnterFull ==
  ASSUME FullInv, Enter
  PROVE  /\ FullInv'
         /\ Entered(arena, contexts, arena', contexts') \/ UNCHANGED <<arena, contexts>>
<1> DEFINE new == NewContext(arena, Innermost.capacity)
           more == Append(Append(objects, new.context), new.table)
           ws == Words(arena, Innermost.chunk, Innermost.first, 2 * Innermost.size)
           w == Write(new.arena, new.table.chunk, new.table.first, ws)
           c == Context(new.table, Innermost.size, Innermost.capacity)
<1>1. Inv'
  BY EnterInv DEF FullInv
<1>2. Narrowed'
  BY DEF Enter, Narrowed, Dies
<1>3. /\ Len(contexts) \in DOMAIN contexts /\ DOMAIN contexts = 1 .. Len(contexts) /\ Len(contexts) \in Nat
  BY ContextNumbers DEF FullInv
<1>4. /\ Innermost \in ContextType /\ Innermost.chunk \in DOMAIN arena
      /\ Innermost.first + 2 * Innermost.capacity <= arena[Innermost.chunk].capacity
      /\ Innermost.size <= Innermost.capacity /\ arena[Innermost.chunk].capacity \in Nat
  BY <1>3, ContextInArena DEF FullInv, Inv, Innermost, ContextType
<1>5. /\ Innermost.first \in Nat /\ Innermost.size \in Nat /\ Innermost.capacity \in Nat \ {0}
  BY <1>4 DEF ContextType
<1>6. Adds(arena, objects, new.arena, more, new.table, 2 * Innermost.capacity)
  BY <1>5, NewContextType DEF FullInv, Inv
<1>7. CASE /\ arena' = w /\ objects' = more /\ contexts' = Append(contexts, c)
  <2>1. /\ 2 * Innermost.size \in Nat /\ 2 * Innermost.size <= new.table.len
        /\ Innermost.first + 2 * Innermost.size <= arena[Innermost.chunk].capacity
    <3>1. new.table.len = 2 * Innermost.capacity
      BY <1>6 DEF Adds
    <3> HIDE DEF new
    <3> QED BY <1>4, <1>5, <3>1
  <2>2. DOMAIN ws = 0 .. 2 * Innermost.size - 1
    BY DEF Words
  <2>3. \A k \in 0 .. 2 * Innermost.size - 1 : ws[k] \in Word
    BY <1>4, <1>5, <2>1, <2>2, WordsType DEF FullInv, Inv
  <2>4. \A k \in 0 .. 2 * Innermost.size - 1 : ws[k] = arena[Innermost.chunk].words[Innermost.first + k]
    BY DEF Words
  <2> HIDE DEF ws, new, more
  <2>5. /\ IsArena(new.arena) /\ Keeps(arena, new.arena) /\ new.table \in ObjectType /\ Inside(new.arena, new.table)
        /\ new.table.chunk \in DOMAIN arena => arena[new.table.chunk].size <= new.table.first
    BY <1>6 DEF Adds
  <2>6. /\ Keeps(arena, w)
        /\ \A k \in 0 .. 2 * Innermost.size - 1 : w[new.table.chunk].words[new.table.first + k] = ws[k]
    BY <2>1, <2>2, <2>3, <2>5, WriteFresh DEF FullInv, Inv
  <2> HIDE DEF w
  <2>7. c.chunk = new.table.chunk /\ c.first = new.table.first /\ c.first \in Nat /\ c.size = Innermost.size
    BY <2>5 DEF Context, ObjectType
  <2> HIDE DEF c
  <2>8. Same(arena, contexts[Len(contexts)], w, c)
    <3>1. Innermost = contexts[Len(contexts)]
      BY DEF Innermost
    <3>2. \A k \in 0 .. 2 * contexts[Len(contexts)].size - 1 :
            w[c.chunk].words[c.first + k]
              = arena[contexts[Len(contexts)].chunk].words[contexts[Len(contexts)].first + k]
      BY <2>4, <2>6, <2>7, <3>1
    <3> QED BY <1>3, <2>6, <2>7, <3>1, <3>2, CopySame DEF FullInv, Inv
  <2>9. \A d \in DOMAIN contexts : Same(arena, contexts[d], w, contexts[d])
    BY <2>6, KeptContext DEF FullInv, Inv
  <2>10. /\ DOMAIN contexts' = 1 .. Len(contexts) + 1
         /\ \A d \in 1 .. Len(contexts) : contexts'[d] = contexts[d]
         /\ contexts'[Len(contexts) + 1] = c
    BY <1>3, <1>7
  <2>11. \A d \in DOMAIN contexts' : \E e \in DOMAIN contexts : Same(arena, contexts[e], w, contexts'[d])
    BY <1>3, <2>8, <2>9, <2>10
  <2>12. Table(c) = new.table
    <3>1. new.table.len = 2 * Innermost.capacity /\ new.table \in ObjectType
      BY <1>6 DEF Adds
    <3> QED BY <3>1 DEF c, Context, Table, Object, TableWords, ObjectType
  <2>13. ASSUME NEW o \in DOMAIN objects, Aside(objects[o], contexts)
         PROVE  Aside(objects[o], contexts') /\ \E p \in DOMAIN more : more[p] = objects[o]
    <3>1. Apart(objects[o], new.table) /\ \E p \in DOMAIN more : more[p] = objects[o]
      BY <1>6 DEF Adds
    <3> QED BY <1>3, <2>10, <2>12, <2>13, <3>1 DEF Aside
  <2>14. Named(w, more, contexts') /\ OrderedIn(w, contexts')
    BY <2>11, <2>13, QuietStep DEF FullInv
  <2>15. Entered(arena, contexts, w, contexts')
    BY <1>3, <2>8, <2>9, <2>10 DEF Entered
  <2> QED BY <1>1, <1>2, <1>7, <2>14, <2>15 DEF FullInv
<1>8. CASE UNCHANGED <<arena, objects, contexts>>
  BY <1>1, <1>2, <1>8, UnchangedKeeps DEF FullInv
<1> QED BY <1>7, <1>8 DEF Enter, Dies

\* Leaving a scope leaves the others alone.
LEMMA LeaveFull == ASSUME FullInv, Leave PROVE FullInv'
<1>1. Inv'
  BY LeaveInv DEF FullInv
<1>2. Narrowed'
  BY DEF Leave, Narrowed
<1>3. contexts \in Seq(ContextType) /\ DOMAIN contexts = 1 .. Len(contexts) /\ Len(contexts) \in Nat
  BY ContextNumbers DEF FullInv, Inv, Contexts
<1>4. DOMAIN contexts' \subseteq DOMAIN contexts /\ \A d \in DOMAIN contexts' : contexts'[d] = contexts[d]
  BY <1>3, SubSeqProperties, LenProperties DEF Leave
<1>5. \A d \in DOMAIN contexts' : \E e \in DOMAIN contexts : Same(arena, contexts[e], arena, contexts'[d])
  BY <1>4 DEF Same, SameEntry
<1>6. \A o \in DOMAIN objects : Aside(objects[o], contexts) =>
        Aside(objects[o], contexts') /\ \E p \in DOMAIN objects : objects[p] = objects[o]
  BY <1>4 DEF Aside
<1>7. Named(arena, objects, contexts') /\ OrderedIn(arena, contexts')
  BY <1>5, <1>6, QuietStep DEF FullInv
<1> QED BY <1>1, <1>2, <1>7 DEF FullInv, Leave

\* Other objects are written behind everything.
LEMMA OtherFull ==
  ASSUME FullInv, NEW n \in OtherSizes, Other(n)
  PROVE  FullInv' /\ SameAll(arena, contexts, arena', contexts')
<1> DEFINE new == Alloc(arena, 1, n)
           more == Append(objects, new.object)
<1>1. Inv'
  BY OtherInv DEF FullInv
<1>2. Narrowed'
  BY DEF Other, Narrowed, Dies
<1>3. Adds(arena, objects, new.arena, more, new.object, n)
  <2>1. n \in Nat \ {0} /\ 1 \in Nat \ {0}
    BY OtherAssumption
  <2> QED BY <2>1, AllocObjects DEF FullInv, Inv
<1> HIDE DEF new, more
<1>4. Named(new.arena, more, contexts) /\ OrderedIn(new.arena, contexts) /\ SameAll(arena, contexts, new.arena, contexts)
  BY <1>3, AddedKeeps
<1>5. CASE arena' = new.arena /\ objects' = more
  BY <1>1, <1>2, <1>4, <1>5 DEF FullInv, Other
<1>6. CASE Dies(new.arena)
  BY <1>1, <1>2, <1>6, UnchangedKeeps DEF FullInv, Other, Dies
<1> QED BY <1>5, <1>6 DEF Other, new, more

\* What arealloc copies of the table is not what it overwrites.
LEMMA GrowFull ==
  ASSUME FullInv, Grow
  PROVE  FullInv' /\ SameAll(arena, contexts, arena', contexts')
<1> DEFINE s == request.scope
           n == TableWords(NewCapacity(Searched))
           new == Alloc(arena, Len(arena), n)
           more == Append(objects, new.object)
           to == new.object
           rest == arena[Searched.chunk].capacity - Searched.first
           len == IF to.len < rest THEN to.len ELSE rest
           Overlaps(i) == to.chunk = Searched.chunk /\ Searched.first + i >= to.first
           ws == [i \in 0 .. len - 1 |->
                    IF Overlaps(i) THEN Junk ELSE arena[Searched.chunk].words[Searched.first + i]]
           w == Write(new.arena, to.chunk, to.first, ws)
           c == Context(new.object, Searched.size, NewCapacity(Searched))
<1>1. Inv'
  BY GrowInv DEF FullInv
<1>2. s \in DOMAIN contexts /\ Searched = contexts[s]
  BY DEF FullInv, Inv, CallOK, Searched
<1>3. /\ Searched \in ContextType /\ Searched.chunk \in DOMAIN arena
      /\ Searched.first + 2 * Searched.capacity <= arena[Searched.chunk].size
      /\ arena[Searched.chunk].size <= arena[Searched.chunk].capacity
      /\ arena[Searched.chunk].size \in Nat /\ arena[Searched.chunk].capacity \in Nat
      /\ Searched.size <= Searched.capacity
  BY <1>2, ContextInArena DEF FullInv, Inv
<1>4. /\ Searched.first \in Nat /\ Searched.size \in Nat /\ Searched.capacity \in Nat \ {0}
  BY <1>3 DEF ContextType
<1>5. /\ NewCapacity(Searched) \in Nat \ {0} /\ Searched.size < NewCapacity(Searched)
      /\ n \in Nat \ {0} /\ n = 2 * NewCapacity(Searched)
  BY <1>4 DEF NewCapacity, Required, TableWords
<1>6. Len(arena) \in Nat \ {0}
  BY LenProperties DEF FullInv, Inv, IsArena
<1>7. Adds(arena, objects, new.arena, more, to, 2 * NewCapacity(Searched))
  BY <1>5, <1>6, AllocObjects DEF FullInv, Inv
<1>8. /\ arena' = w /\ objects' = more /\ contexts' = [contexts EXCEPT ![s] = c]
      /\ phase' = "search" /\ low' = 0 /\ high' = Searched.size - 1 /\ request' = request
  BY DEF Grow, Search, Moved
<1> HIDE DEF new, more, n
<1>9. /\ IsArena(new.arena) /\ Keeps(arena, new.arena) /\ to \in ObjectType /\ Inside(new.arena, to)
      /\ to.chunk \in DOMAIN arena => arena[to.chunk].size <= to.first
      /\ to.len = 2 * NewCapacity(Searched)
  BY <1>7 DEF Adds
<1>10. to.first \in Nat /\ to.len \in Nat
  BY <1>9 DEF ObjectType
<1>11. /\ len \in Nat /\ len <= to.len /\ 2 * Searched.size <= len
       /\ Searched.first + len <= arena[Searched.chunk].capacity
  <2> HIDE DEF to
  <2> QED BY <1>3, <1>4, <1>5, <1>9, <1>10
<1> HIDE DEF len
<1>12. DOMAIN ws = 0 .. len - 1
  OBVIOUS
<1>13. ASSUME NEW k \in 0 .. len - 1 PROVE ws[k] \in Word
  <2>1. Searched.first + k \in 0 .. arena[Searched.chunk].capacity - 1
    BY <1>3, <1>4, <1>11
  <2>2. arena[Searched.chunk].words[Searched.first + k] \in Word /\ Junk \in Word
    BY <1>3, <2>1, ReadType DEF FullInv, Inv, Word
  <2> QED BY <2>2
<1>14. ASSUME NEW k \in 0 .. 2 * Searched.size - 1
       PROVE  k \in 0 .. len - 1 /\ ws[k] = arena[Searched.chunk].words[Searched.first + k]
  <2>1. k \in 0 .. len - 1
    BY <1>4, <1>11
  <2>2. ~ Overlaps(k)
    BY <1>3, <1>4, <1>9, <1>10
  <2> QED BY <2>1, <2>2
<1> HIDE DEF ws, to
<1>15. /\ Keeps(arena, w)
       /\ \A k \in 0 .. len - 1 : w[to.chunk].words[to.first + k] = ws[k]
  BY <1>9, <1>11, <1>12, <1>13, WriteFresh DEF FullInv, Inv
<1> HIDE DEF w
<1>16. c.chunk = to.chunk /\ c.first = to.first /\ c.size = Searched.size /\ Table(c) = to
  <2>1. to = new.object
    BY DEF to
  <2> QED BY <1>9, <2>1 DEF Context, Table, Object, TableWords, ObjectType
<1> HIDE DEF c
<1>17. Same(arena, contexts[s], w, c)
  <2>1. \A k \in 0 .. 2 * contexts[s].size - 1 :
          w[c.chunk].words[c.first + k] = arena[contexts[s].chunk].words[contexts[s].first + k]
    BY <1>2, <1>14, <1>15, <1>16
  <2> QED BY <1>2, <1>10, <1>15, <1>16, <2>1, CopySame DEF FullInv, Inv
<1>18. \A d \in DOMAIN contexts : Same(arena, contexts[d], w, contexts[d])
  BY <1>15, KeptContext DEF FullInv, Inv
<1>19. /\ DOMAIN contexts' = DOMAIN contexts /\ contexts'[s] = c
       /\ \A d \in DOMAIN contexts : d # s => contexts'[d] = contexts[d]
  BY <1>2, <1>8
<1>20. \A d \in DOMAIN contexts' : \E e \in DOMAIN contexts : Same(arena, contexts[e], w, contexts'[d])
  BY <1>2, <1>17, <1>18, <1>19
<1>21. ASSUME NEW o \in DOMAIN objects, Aside(objects[o], contexts)
       PROVE  Aside(objects[o], contexts') /\ \E p \in DOMAIN more : more[p] = objects[o]
  <2>1. Apart(objects[o], to) /\ \E p \in DOMAIN more : more[p] = objects[o]
    BY <1>7 DEF Adds
  <2> QED BY <1>16, <1>19, <1>21, <2>1 DEF Aside
<1>22. Named(w, more, contexts') /\ OrderedIn(w, contexts')
  BY <1>20, <1>21, QuietStep DEF FullInv
<1>23. Narrowed'
  <2>1. Searched' = c
    BY <1>2, <1>8, <1>19 DEF Searched
  <2>2. \A i \in Entries(c) : ~ (i < 0) /\ ~ (i > Searched.size - 1)
    BY <1>4, <1>16 DEF Entries
  <2> QED BY <1>8, <2>1, <2>2 DEF Narrowed
<1>24. SameAll(arena, contexts, w, contexts')
  BY <1>2, <1>17, <1>18, <1>19 DEF SameAll
<1> QED BY <1>1, <1>8, <1>22, <1>23, <1>24 DEF FullInv

\* A search that begins has passed nothing.
LEMMA BeginFull ==
  ASSUME FullInv, \/ \E n \in Names, t \in Types : BeginInsert(n, t)
                  \/ \E d \in DOMAIN contexts, n \in Names : BeginLookup(d, n)
  PROVE  FullInv'
<1>1. Inv'
  BY BeginInsertInv, SearchInv DEF FullInv
<1>2. UNCHANGED <<arena, objects, contexts>>
  BY DEF BeginInsert, BeginLookup
<1>3. CASE \E n \in Names, t \in Types : BeginInsert(n, t)
  <2>1. Searched' = Innermost
    BY <1>2, <1>3 DEF BeginInsert, Searched, Innermost, Insertion
  <2>2. phase' = "grow" \/ (phase' = "search" /\ low' = 0 /\ high' = Innermost.size - 1)
    BY <1>3 DEF BeginInsert, Search
  <2>3. Innermost.size \in Nat
    BY ContextInArena, ContextNumbers DEF FullInv, Inv, Innermost, ContextType
  <2>4. \A i \in Entries(Innermost) : ~ (i < 0) /\ ~ (i > Innermost.size - 1)
    BY <2>3 DEF Entries
  <2>5. Narrowed'
    BY <2>1, <2>2, <2>4 DEF Narrowed
  <2> QED BY <1>1, <1>2, <2>5, UnchangedKeeps DEF FullInv
<1>4. ASSUME NEW d \in DOMAIN contexts, NEW n \in Names, BeginLookup(d, n) PROVE FullInv'
  <2>1. Searched' = contexts[d]
    BY <1>2, <1>4 DEF BeginLookup, Searched, Lookup
  <2>2. phase' = "search" /\ low' = 0 /\ high' = contexts[d].size - 1
    BY <1>4 DEF BeginLookup, Search
  <2>3. contexts[d].size \in Nat
    BY ContextInArena DEF FullInv, Inv, ContextType
  <2>4. \A i \in Entries(contexts[d]) : ~ (i < 0) /\ ~ (i > contexts[d].size - 1)
    BY <2>3 DEF Entries
  <2>5. Narrowed'
    BY <2>1, <2>2, <2>4 DEF Narrowed
  <2> QED BY <1>1, <1>2, <2>5, UnchangedKeeps DEF FullInv
<1> QED BY <1>3, <1>4

\* What lies on the far side of the middle is passed as well.
LEMMA HalveFull == ASSUME FullInv, Halve PROVE FullInv'
<1>1. Inv'
  BY SearchInv DEF FullInv
<1>2. UNCHANGED <<arena, objects, contexts, request>> /\ phase = "search" /\ phase' = "search"
  BY DEF Halve
<1>3. Searched' = Searched
  BY <1>2 DEF Searched
<1>4. /\ low \in Nat /\ high \in Int /\ low <= high /\ high < Searched.size /\ Searched.size \in Nat
      /\ request.scope \in DOMAIN contexts /\ request.name \in Names /\ Searched = contexts[request.scope]
  <2>1. request.scope \in DOMAIN contexts
    BY DEF FullInv, Inv, CallOK
  <2>2. Searched.size \in Nat
    BY <2>1, ContextInArena DEF FullInv, Inv, Searched, ContextType
  <2> QED BY <2>1, <2>2 DEF Halve, FullInv, Inv, CallOK, Searched, RequestType
<1>5. Mid \in low .. high /\ Mid \in Entries(Searched)
  BY <1>4 DEF Mid, Entries
<1> DEFINE At(i) == NameAt(arena, Searched, i)
<1>6. \A i \in Entries(Searched) : At(i) \in Names
  BY <1>4 DEF FullInv, Named
<1>7. \A i, j \in Entries(Searched) : i < j => Compare(At(i), At(j)) < 0
  BY <1>4 DEF FullInv, OrderedIn
<1>8. \A i \in Entries(Searched) :
        (i < low => Compare(At(i), request.name) < 0) /\ (i > high => Compare(At(i), request.name) > 0)
  BY <1>2 DEF FullInv, Narrowed
<1>9. MidIs = Compare(At(Mid), request.name) /\ MidIs # 0
  BY DEF MidIs, Halve
<1> HIDE DEF At
<1>10. MidIs \in Int
  BY <1>4, <1>5, <1>6, <1>9, CompareOrder
<1>11. CASE MidIs > 0
  <2>1. low' = low /\ high' = Mid - 1
    BY <1>11 DEF Halve
  <2>2. ASSUME NEW i \in Entries(Searched), i > Mid - 1 PROVE Compare(At(i), request.name) > 0
    <3>1. CASE i = Mid
      BY <1>9, <1>11, <3>1
    <3>2. CASE i # Mid
      <4>1. i \in Int /\ Mid < i
        BY <1>4, <1>5, <2>2, <3>2 DEF Entries
      <4>2. Compare(At(Mid), At(i)) < 0
        BY <1>5, <1>7, <4>1
      <4>3. Compare(request.name, At(Mid)) < 0
        BY <1>4, <1>5, <1>6, <1>9, <1>11, CompareOrder
      <4>4. Compare(request.name, At(i)) < 0
        BY <1>4, <1>5, <1>6, <4>2, <4>3, CompareOrder
      <4> QED BY <1>4, <1>6, <4>4, CompareOrder
    <3> QED BY <3>1, <3>2
  <2>3. Narrowed'
    BY <1>2, <1>3, <1>8, <2>1, <2>2 DEF Narrowed, At
  <2> QED BY <1>1, <1>2, <2>3, UnchangedKeeps DEF FullInv
<1>12. CASE MidIs < 0
  <2>1. low' = Mid + 1 /\ high' = high
    BY <1>4, <1>12, <1>10 DEF Halve
  <2>2. ASSUME NEW i \in Entries(Searched), i < Mid + 1 PROVE Compare(At(i), request.name) < 0
    <3>1. CASE i = Mid
      BY <1>9, <1>12, <3>1
    <3>2. CASE i # Mid
      <4>1. i \in Int /\ i < Mid
        BY <1>4, <1>5, <2>2, <3>2 DEF Entries
      <4>2. Compare(At(i), At(Mid)) < 0
        BY <1>5, <1>7, <4>1
      <4> QED BY <1>4, <1>5, <1>6, <1>9, <1>12, <4>2, CompareOrder
    <3> QED BY <3>1, <3>2
  <2>3. Narrowed'
    BY <1>2, <1>3, <1>8, <2>1, <2>2 DEF Narrowed, At
  <2> QED BY <1>1, <1>2, <2>3, UnchangedKeeps DEF FullInv
<1> QED BY <1>9, <1>11, <1>12, <1>10

\* Steps that end a search change no table.
LEMMA SearchEndFull == ASSUME FullInv, GrowFails \/ Hit \/ Miss PROVE FullInv'
<1>1. Inv'
  BY SearchInv DEF FullInv
<1>2. UNCHANGED <<arena, objects, contexts, low, high>>
  BY DEF GrowFails, Hit, Miss
<1>3. phase' = "idle" \/ (phase = "search" /\ phase' = "bind" /\ low > high /\ UNCHANGED request)
  BY DEF GrowFails, Hit, Miss, Answer
<1>4. Narrowed'
  <2>1. CASE phase' = "idle"
    BY <2>1 DEF Narrowed
  <2>2. CASE phase = "search" /\ phase' = "bind" /\ low > high /\ UNCHANGED request
    <3>1. Searched' = Searched
      BY <1>2, <2>2 DEF Searched
    <3> QED BY <1>2, <2>2, <3>1 DEF FullInv, Narrowed
  <2> QED BY <1>3, <2>1, <2>2
<1> QED BY <1>1, <1>2, <1>4, UnchangedKeeps DEF FullInv

\* A context with room for another entry, and a place for it.
Insertable(ar, c, at) ==
  /\ c \in ContextType /\ c.chunk \in DOMAIN ar /\ c.first + 2 * c.capacity <= ar[c.chunk].size
  /\ c.size < c.capacity /\ at \in 0 .. c.size

\* The table of such a context lies in its chunk.
LEMMA InsertableIn ==
  ASSUME NEW ar, IsArena(ar), NEW c, NEW at, Insertable(ar, c, at)
  PROVE  /\ c.first \in Nat /\ c.size \in Nat /\ c.capacity \in Nat /\ at \in Nat
         /\ at <= c.size /\ c.size < c.capacity
         /\ ar[c.chunk].size \in Nat /\ ar[c.chunk].capacity \in Nat
         /\ ar[c.chunk].size <= ar[c.chunk].capacity /\ c.first + 2 * c.capacity <= ar[c.chunk].size
         /\ Table(c) = Object(c.chunk, c.first, 2 * c.capacity)
<1>1. c.first \in Nat /\ c.size \in Nat /\ c.capacity \in Nat
  BY DEF Insertable, ContextType
<1>2. at \in Nat /\ at <= c.size /\ c.size < c.capacity
  BY <1>1 DEF Insertable
<1>3. ar[c.chunk].size \in Nat /\ ar[c.chunk].capacity \in Nat /\ ar[c.chunk].size <= ar[c.chunk].capacity
  BY DEF Insertable, IsArena, IsChunk
<1> QED BY <1>1, <1>2, <1>3 DEF Insertable, Table, TableWords

\* Making room moves the entries behind the place by one, and nothing else.
LEMMA RoomWords ==
  ASSUME NEW ar, IsArena(ar), NEW c, NEW at, Insertable(ar, c, at), NEW room, room = MakeRoom(ar, c, at)
  PROVE  /\ SameSizes(ar, room)
         /\ \A d \in DOMAIN ar : \A o \in 0 .. ar[d].capacity - 1 :
              Outside(d, o, Object(c.chunk, c.first + 2 * (at + 1), 2 * (c.size - at)))
                => room[d].words[o] = ar[d].words[o]
         /\ \A k \in 0 .. 2 * (c.size - at) - 1 :
              room[c.chunk].words[c.first + 2 * (at + 1) + k] = ar[c.chunk].words[c.first + 2 * at + k]
<1>1. PICK from, to, n : from = c.first + 2 * at /\ to = c.first + 2 * (at + 1) /\ n = 2 * (c.size - at)
  OBVIOUS
<1>2. PICK ws : ws = Words(ar, c.chunk, from, n)
  OBVIOUS
<1>3. /\ from \in Nat /\ to \in Nat /\ n \in Nat /\ from + n <= ar[c.chunk].capacity
      /\ to + n <= ar[c.chunk].capacity /\ ar[c.chunk].capacity \in Nat /\ c.chunk \in DOMAIN ar
  BY <1>1, InsertableIn DEF Insertable
<1>4. DOMAIN ws = 0 .. n - 1 /\ \A k \in 0 .. n - 1 : ws[k] = ar[c.chunk].words[from + k]
  BY <1>2 DEF Words
<1>5. \A k \in 0 .. n - 1 : ws[k] \in Word
  BY <1>2, <1>3, <1>4, WordsType
<1>6. room = Write(ar, c.chunk, to, ws)
  BY <1>1, <1>2 DEF MakeRoom
<1>7. /\ SameSizes(ar, room)
      /\ \A d \in DOMAIN ar : \A o \in 0 .. ar[d].capacity - 1 :
           Outside(d, o, Object(c.chunk, to, n)) => room[d].words[o] = ar[d].words[o]
      /\ \A k \in 0 .. n - 1 : to + k < ar[c.chunk].capacity => room[c.chunk].words[to + k] = ws[k]
  <2>1. Overwritten(ar, c.chunk, to, n, ws, room)
    BY <1>3, <1>4, <1>5, <1>6, WriteEffect
  <2> QED BY <2>1 DEF Overwritten
<1>8. \A k \in 0 .. n - 1 : to + k < ar[c.chunk].capacity
  BY <1>3
<1> QED BY <1>1, <1>4, <1>7, <1>8

\* A name and an entry are written.
LEMMA EntryWords ==
  ASSUME NEW room, IsArena(room), NEW ar, IsArena(ar), NEW x \in ObjectType, Keeps(room, ar), Inside(ar, x),
         x.chunk \in DOMAIN room => room[x.chunk].size <= x.first,
         NEW c, NEW at, Insertable(room, c, at), NEW name \in Names, NEW type \in Types,
         NEW w, w = WriteEntry(ar, c, at, x, name, type)
  PROVE  /\ \A d \in DOMAIN room : \A o \in 0 .. room[d].size - 1 :
              Outside(d, o, Object(c.chunk, c.first + 2 * at, 2)) => w[d].words[o] = room[d].words[o]
         /\ w[c.chunk].words[c.first + 2 * at] = Pointer(x)
         /\ w[c.chunk].words[c.first + 2 * at + 1] = type
         /\ w[x.chunk].words[x.first] = name
<1>1. PICK place : place = c.first + 2 * at
  OBVIOUS
<1>2. PICK ns, es : ns = [o \in {0} |-> name] /\ es = [o \in 0 .. 1 |-> IF o = 0 THEN Pointer(x) ELSE type]
  OBVIOUS
<1>3. PICK named : named = Write(ar, x.chunk, x.first, ns)
  OBVIOUS
<1>4. w = Write(named, c.chunk, place, es)
  BY <1>1, <1>2, <1>3 DEF WriteEntry
<1>5. /\ x.chunk \in DOMAIN ar /\ x.chunk \in Nat /\ x.first \in Nat /\ x.len \in Nat \ {0}
      /\ x.first + x.len <= ar[x.chunk].size
  BY DEF ObjectType, Inside
<1>6. \A d \in DOMAIN ar : ar[d].size \in Nat /\ ar[d].capacity \in Nat /\ ar[d].size <= ar[d].capacity
  BY DEF IsArena, IsChunk
<1>7. \A d \in DOMAIN room : /\ d \in DOMAIN ar /\ room[d].size \in Nat /\ room[d].size <= ar[d].size
                             /\ \A o \in 0 .. room[d].size - 1 : ar[d].words[o] = room[d].words[o]
  BY DEF IsArena, IsChunk, Keeps
<1>8. /\ c.chunk \in DOMAIN room /\ c.first \in Nat /\ at \in Nat /\ c.capacity \in Nat /\ place \in Nat
      /\ place + 2 <= c.first + 2 * c.capacity /\ c.first + 2 * c.capacity <= room[c.chunk].size
      /\ c.first <= place
  BY <1>1, InsertableIn DEF Insertable
<1>9. DOMAIN ns = 0 .. 1 - 1 /\ \A k \in 0 .. 1 - 1 : ns[k] \in Word /\ ns[k] = name
  BY <1>2 DEF Word
<1>10. /\ SameSizes(ar, named)
       /\ \A d \in DOMAIN ar : \A o \in 0 .. ar[d].capacity - 1 :
            Outside(d, o, Object(x.chunk, x.first, 1)) => named[d].words[o] = ar[d].words[o]
       /\ \A k \in 0 .. 1 - 1 : x.first + k < ar[x.chunk].capacity => named[x.chunk].words[x.first + k] = ns[k]
  <2>1. 1 \in Nat /\ \A k \in 0 .. 1 - 1 : ns[k] \in Word
    BY <1>9
  <2>2. Overwritten(ar, x.chunk, x.first, 1, ns, named)
    BY <1>3, <1>5, <1>9, <2>1, WriteEffect
  <2> QED BY <2>2 DEF Overwritten
<1>11. named[x.chunk].words[x.first] = name
  <2>1. x.first + 0 < ar[x.chunk].capacity /\ x.first + 0 = x.first /\ 0 \in 0 .. 1 - 1
    BY <1>5, <1>6
  <2> QED BY <1>9, <1>10, <2>1
<1>12. /\ IsArena(named) /\ DOMAIN named = DOMAIN ar
       /\ \A d \in DOMAIN ar : named[d].size = ar[d].size /\ named[d].capacity = ar[d].capacity
  BY <1>10 DEF SameSizes
<1>13. DOMAIN es = 0 .. 2 - 1 /\ es[0] = Pointer(x) /\ es[1] = type
  BY <1>2
<1>14. \A k \in 0 .. 2 - 1 : es[k] \in Word
  <2>1. Pointer(x) \in [chunk : Nat, first : Nat]
    BY <1>5 DEF Pointer
  <2> QED BY <1>2, <2>1 DEF Word
<1>15. /\ \A d \in DOMAIN named : \A o \in 0 .. named[d].capacity - 1 :
            Outside(d, o, Object(c.chunk, place, 2)) => w[d].words[o] = named[d].words[o]
       /\ \A k \in 0 .. 2 - 1 : place + k < named[c.chunk].capacity => w[c.chunk].words[place + k] = es[k]
  <2>1. 2 \in Nat /\ c.chunk \in DOMAIN named
    BY <1>7, <1>8, <1>12
  <2>2. Overwritten(named, c.chunk, place, 2, es, w)
    BY <1>4, <1>8, <1>12, <1>13, <1>14, <2>1, WriteEffect
  <2> QED BY <2>2 DEF Overwritten
<1>16. w[c.chunk].words[place] = Pointer(x) /\ w[c.chunk].words[place + 1] = type
  <2>1. /\ place + 0 < named[c.chunk].capacity /\ place + 1 < named[c.chunk].capacity /\ place + 0 = place
        /\ 0 \in 0 .. 2 - 1 /\ 1 \in 0 .. 2 - 1
    BY <1>6, <1>7, <1>8, <1>12
  <2> QED BY <1>13, <1>15, <2>1
<1>17. ASSUME NEW d \in DOMAIN room, NEW o \in 0 .. room[d].size - 1, Outside(d, o, Object(c.chunk, place, 2))
       PROVE  w[d].words[o] = room[d].words[o]
  <2>1. d \in DOMAIN ar /\ o \in 0 .. ar[d].capacity - 1 /\ d \in DOMAIN named /\ o \in 0 .. named[d].capacity - 1
    BY <1>6, <1>7, <1>12
  <2>2. Outside(d, o, Object(x.chunk, x.first, 1))
    BY <1>5, <1>7 DEF Outside, Object
  <2> QED BY <1>7, <1>10, <1>15, <1>17, <2>1, <2>2
<1>18. w[x.chunk].words[x.first] = name
  <2>1. x.chunk \in DOMAIN named /\ x.first \in 0 .. named[x.chunk].capacity - 1
    BY <1>5, <1>6, <1>12
  <2>2. Outside(x.chunk, x.first, Object(c.chunk, place, 2))
    <3>1. CASE x.chunk # c.chunk
      BY <3>1 DEF Outside, Object
    <3>2. CASE x.chunk = c.chunk
      <4>1. room[c.chunk].size \in Nat /\ room[c.chunk].size <= x.first
        BY <1>7, <1>8, <3>2
      <4>2. place + 2 <= x.first
        BY <1>5, <1>8, <4>1
      <4> QED BY <1>5, <1>8, <4>2 DEF Outside, Object
    <3> QED BY <3>1, <3>2
  <2> QED BY <1>11, <1>15, <2>1, <2>2
<1> QED BY <1>1, <1>16, <1>17, <1>18

\* What an insertion leaves: the entries before the place that was found, the new
\* one, those behind it, and every word in use outside the table.
Inserted(ar, c, at, x, name, type, w) ==
  /\ \A d \in DOMAIN ar : \A o \in 0 .. ar[d].size - 1 :
       Outside(d, o, Table(c)) => w[d].words[o] = ar[d].words[o]
  /\ \A k \in 0 .. 2 * at - 1 : w[c.chunk].words[c.first + k] = ar[c.chunk].words[c.first + k]
  /\ \A k \in 2 * at .. 2 * c.size - 1 :
       w[c.chunk].words[c.first + (k + 2)] = ar[c.chunk].words[c.first + k]
  /\ w[c.chunk].words[c.first + 2 * at] = Pointer(x)
  /\ w[c.chunk].words[c.first + 2 * at + 1] = type
  /\ w[x.chunk].words[x.first] = name

\* Making room, allocating the name and writing the entry leave that.
LEMMA InsertedWords ==
  ASSUME NEW ar, IsArena(ar), NEW objs, Objects(ar, objs), NEW c, NEW at, Insertable(ar, c, at),
         NEW room, room = MakeRoom(ar, c, at), NEW n,
         NEW new, NEW more, NEW x, Adds(room, objs, new, more, x, n),
         NEW name \in Names, NEW type \in Types, NEW w, w = WriteEntry(new, c, at, x, name, type)
  PROVE  Inserted(ar, c, at, x, name, type, w)
<1>1. /\ c.first \in Nat /\ c.size \in Nat /\ c.capacity \in Nat /\ at \in Nat /\ at <= c.size /\ c.size < c.capacity
      /\ ar[c.chunk].size \in Nat /\ ar[c.chunk].capacity \in Nat /\ ar[c.chunk].size <= ar[c.chunk].capacity
      /\ c.first + 2 * c.capacity <= ar[c.chunk].size
      /\ Table(c) = Object(c.chunk, c.first, 2 * c.capacity) /\ c.chunk \in DOMAIN ar
  BY InsertableIn DEF Insertable
<1>2. /\ SameSizes(ar, room)
      /\ \A d \in DOMAIN ar : \A o \in 0 .. ar[d].capacity - 1 :
           Outside(d, o, Object(c.chunk, c.first + 2 * (at + 1), 2 * (c.size - at)))
             => room[d].words[o] = ar[d].words[o]
      /\ \A k \in 0 .. 2 * (c.size - at) - 1 :
           room[c.chunk].words[c.first + 2 * (at + 1) + k] = ar[c.chunk].words[c.first + 2 * at + k]
  BY RoomWords
<1>3. IsArena(room) /\ Insertable(room, c, at)
  BY <1>2 DEF SameSizes, Insertable
<1>4. /\ \A d \in DOMAIN room : \A o \in 0 .. room[d].size - 1 :
           Outside(d, o, Object(c.chunk, c.first + 2 * at, 2)) => w[d].words[o] = room[d].words[o]
      /\ w[c.chunk].words[c.first + 2 * at] = Pointer(x)
      /\ w[c.chunk].words[c.first + 2 * at + 1] = type
      /\ w[x.chunk].words[x.first] = name
  BY <1>3, EntryWords DEF Adds
<1>5. \A d \in DOMAIN ar : /\ d \in DOMAIN room /\ room[d].size = ar[d].size
                           /\ ar[d].size \in Nat /\ ar[d].capacity \in Nat /\ ar[d].size <= ar[d].capacity
  BY <1>2 DEF SameSizes, IsArena, IsChunk
<1>6. ASSUME NEW d \in DOMAIN ar, NEW o \in 0 .. ar[d].size - 1,
             Outside(d, o, Object(c.chunk, c.first + 2 * at, 2)),
             Outside(d, o, Object(c.chunk, c.first + 2 * (at + 1), 2 * (c.size - at)))
      PROVE  w[d].words[o] = ar[d].words[o]
  <2>1. o \in 0 .. ar[d].capacity - 1 /\ o \in 0 .. room[d].size - 1 /\ d \in DOMAIN room
    BY <1>5
  <2> QED BY <1>2, <1>4, <1>6, <2>1
<1>7. ASSUME NEW d \in DOMAIN ar, NEW o \in 0 .. ar[d].size - 1, Outside(d, o, Table(c))
      PROVE  w[d].words[o] = ar[d].words[o]
  <2>1. o \in Nat
    BY <1>5
  <2>2. d # c.chunk \/ o < c.first \/ c.first + 2 * c.capacity <= o
    BY <1>1, <1>7 DEF Outside, Object
  <2>3. /\ Outside(d, o, Object(c.chunk, c.first + 2 * at, 2))
        /\ Outside(d, o, Object(c.chunk, c.first + 2 * (at + 1), 2 * (c.size - at)))
    BY <1>1, <2>1, <2>2 DEF Outside, Object
  <2> QED BY <1>6, <2>3
<1>8. ASSUME NEW k \in 0 .. 2 * at - 1
      PROVE  w[c.chunk].words[c.first + k] = ar[c.chunk].words[c.first + k]
  <2>1. c.first + k \in 0 .. ar[c.chunk].size - 1
    BY <1>1
  <2>2. /\ Outside(c.chunk, c.first + k, Object(c.chunk, c.first + 2 * at, 2))
        /\ Outside(c.chunk, c.first + k, Object(c.chunk, c.first + 2 * (at + 1), 2 * (c.size - at)))
    BY <1>1 DEF Outside, Object
  <2> QED BY <1>1, <1>6, <2>1, <2>2
<1>9. ASSUME NEW k \in 2 * at .. 2 * c.size - 1
      PROVE  w[c.chunk].words[c.first + (k + 2)] = ar[c.chunk].words[c.first + k]
  <2>1. c.first + (k + 2) \in 0 .. room[c.chunk].size - 1
    BY <1>1, <1>5
  <2>2. Outside(c.chunk, c.first + (k + 2), Object(c.chunk, c.first + 2 * at, 2))
    BY <1>1 DEF Outside, Object
  <2>3. w[c.chunk].words[c.first + (k + 2)] = room[c.chunk].words[c.first + (k + 2)]
    BY <1>1, <1>4, <1>5, <2>1, <2>2
  <2>4. /\ k - 2 * at \in 0 .. 2 * (c.size - at) - 1
        /\ c.first + 2 * (at + 1) + (k - 2 * at) = c.first + (k + 2)
        /\ c.first + 2 * at + (k - 2 * at) = c.first + k
    BY <1>1
  <2> QED BY <1>2, <2>3, <2>4
<1> QED BY <1>4, <1>7, <1>8, <1>9 DEF Inserted

\* Objects beside a table keep their words when an entry is inserted in it.
LEMMA BesideKeeps ==
  ASSUME NEW ar, IsArena(ar), NEW c, NEW at, Insertable(ar, c, at), NEW x, NEW name, NEW type,
         NEW w, Inserted(ar, c, at, x, name, type, w),
         NEW y \in ObjectType, Inside(ar, y), Apart(y, Table(c))
  PROVE  SameWords(ar, w, y)
<1>1. /\ c.first \in Nat /\ c.capacity \in Nat /\ Table(c) = Object(c.chunk, c.first, 2 * c.capacity)
  BY InsertableIn
<1>2. /\ y.chunk \in DOMAIN ar /\ y.first \in Nat /\ y.len \in Nat /\ y.first + y.len <= ar[y.chunk].size
      /\ ar[y.chunk].size \in Nat
  BY DEF ObjectType, Inside, IsArena, IsChunk
<1>3. y.chunk # c.chunk \/ y.first + y.len <= c.first \/ c.first + 2 * c.capacity <= y.first
  BY <1>1 DEF Apart, Object
<1>4. ASSUME NEW o \in y.first .. y.first + y.len - 1 PROVE w[y.chunk].words[o] = ar[y.chunk].words[o]
  <2>1. o \in 0 .. ar[y.chunk].size - 1
    BY <1>2
  <2>2. Outside(y.chunk, o, Table(c))
    BY <1>1, <1>2, <1>3 DEF Outside, Object
  <2> QED BY <1>2, <2>1, <2>2 DEF Inserted
<1> QED BY <1>4 DEF SameWords

\* What the names of entries lie in, and that inserting keeps it.
LEMMA NameKept ==
  ASSUME NEW ar, IsArena(ar), NEW objs, Objects(ar, objs), NEW cs, Contexts(ar, objs, cs), Named(ar, objs, cs),
         NEW s \in DOMAIN cs, NEW at, Insertable(ar, cs[s], at), NEW x, NEW name, NEW type,
         NEW w, Inserted(ar, cs[s], at, x, name, type, w), NEW d \in DOMAIN cs, NEW i \in Entries(cs[d])
  PROVE  \E y \in ObjectType : KeyAt(ar, cs[d], i) = Pointer(y) /\ SameWords(ar, w, y)
<1>1. PICK o \in DOMAIN objs : KeyAt(ar, cs[d], i) = Pointer(objs[o]) /\ Aside(objs[o], cs)
  BY DEF Named
<1>2. objs[o] \in ObjectType /\ Inside(ar, objs[o])
  BY ElementOfSeq, LenProperties DEF Objects
<1>3. Apart(objs[o], Table(cs[s]))
  BY <1>1 DEF Aside
<1>4. SameWords(ar, w, objs[o])
  BY <1>2, <1>3, BesideKeeps
<1> QED BY <1>1, <1>2, <1>4

\* Contexts an entry is not inserted in stay the same.
LEMMA OthersSame ==
  ASSUME NEW ar, IsArena(ar), NEW objs, Objects(ar, objs), NEW cs, Contexts(ar, objs, cs), Named(ar, objs, cs),
         NEW s \in DOMAIN cs, NEW at, Insertable(ar, cs[s], at), NEW x, NEW name, NEW type,
         NEW w, Inserted(ar, cs[s], at, x, name, type, w), NEW d \in DOMAIN cs, d # s
  PROVE  Same(ar, cs[d], w, cs[d])
<1>1. /\ cs[d] \in ContextType /\ cs[d].first \in Nat /\ cs[d].size \in Nat /\ cs[d].capacity \in Nat
      /\ cs[d].size <= cs[d].capacity
  BY ContextInArena DEF ContextType
<1>2. Table(cs[d]) \in ObjectType /\ Inside(ar, Table(cs[d]))
  <2>1. PICK i \in DOMAIN objs : objs[i] = Table(cs[d])
    BY DEF Contexts
  <2> QED BY <2>1, ElementOfSeq, LenProperties DEF Objects
<1>3. Apart(Table(cs[d]), Table(cs[s]))
  BY DEF Contexts
<1>4. SameWords(ar, w, Table(cs[d]))
  BY <1>2, <1>3, BesideKeeps
<1>5. ASSUME NEW i \in Entries(cs[d]) PROVE SameEntry(ar, cs[d], i, w, cs[d], i)
  <2>1. PICK y \in ObjectType : KeyAt(ar, cs[d], i) = Pointer(y) /\ SameWords(ar, w, y)
    BY NameKept
  <2>2. /\ i \in Nat
        /\ cs[d].first + 2 * i \in cs[d].first .. cs[d].first + 2 * cs[d].capacity - 1
        /\ cs[d].first + 2 * i + 1 \in cs[d].first .. cs[d].first + 2 * cs[d].capacity - 1
    BY <1>1 DEF Entries
  <2>3. /\ w[cs[d].chunk].words[cs[d].first + 2 * i] = ar[cs[d].chunk].words[cs[d].first + 2 * i]
        /\ w[cs[d].chunk].words[cs[d].first + 2 * i + 1] = ar[cs[d].chunk].words[cs[d].first + 2 * i + 1]
    BY <1>4, <2>2 DEF SameWords, Table, Object, TableWords
  <2> QED BY <1>1, <2>1, <2>2, <2>3, EntryKept
<1> QED BY <1>5 DEF Same

\* In the context it is inserted in, entries before the place stay, those from the
\* place on are one further, and the new one is at the place.
LEMMA EntriesMove ==
  ASSUME NEW ar, IsArena(ar), NEW objs, Objects(ar, objs), NEW cs, Contexts(ar, objs, cs), Named(ar, objs, cs),
         NEW s \in DOMAIN cs, NEW at, Insertable(ar, cs[s], at), NEW x, NEW name, NEW type,
         NEW w, Inserted(ar, cs[s], at, x, name, type, w),
         NEW e, e.chunk = cs[s].chunk, e.first = cs[s].first
  PROVE  /\ \A i \in Entries(cs[s]) : i < at => SameEntry(ar, cs[s], i, w, e, i)
         /\ \A i \in Entries(cs[s]) : at <= i => SameEntry(ar, cs[s], i, w, e, i + 1)
         /\ KeyAt(w, e, at) = Pointer(x) /\ TypeAt(w, e, at) = type /\ NameAt(w, e, at) = name
<1>1. /\ cs[s].first \in Nat /\ cs[s].size \in Nat /\ at \in Nat /\ at <= cs[s].size /\ cs[s] \in ContextType
  BY InsertableIn DEF Insertable
<1>2. ASSUME NEW i \in Entries(cs[s]), i < at PROVE SameEntry(ar, cs[s], i, w, e, i)
  <2>1. PICK y \in ObjectType : KeyAt(ar, cs[s], i) = Pointer(y) /\ SameWords(ar, w, y)
    BY NameKept
  <2>2. i \in Nat /\ 2 * i \in 0 .. 2 * at - 1 /\ 2 * i + 1 \in 0 .. 2 * at - 1
    BY <1>1, <1>2 DEF Entries
  <2>3. e.first + (2 * i + 1) = e.first + 2 * i + 1
    BY <1>1, <2>2
  <2>4. /\ w[e.chunk].words[e.first + 2 * i] = ar[cs[s].chunk].words[cs[s].first + 2 * i]
        /\ w[e.chunk].words[e.first + 2 * i + 1] = ar[cs[s].chunk].words[cs[s].first + 2 * i + 1]
    BY <2>2, <2>3 DEF Inserted
  <2> QED BY <1>1, <2>1, <2>2, <2>4, EntryKept
<1>3. ASSUME NEW i \in Entries(cs[s]), at <= i PROVE SameEntry(ar, cs[s], i, w, e, i + 1)
  <2>1. PICK y \in ObjectType : KeyAt(ar, cs[s], i) = Pointer(y) /\ SameWords(ar, w, y)
    BY NameKept
  <2>2. /\ i \in Nat /\ i + 1 \in Nat
        /\ 2 * i \in 2 * at .. 2 * cs[s].size - 1 /\ 2 * i + 1 \in 2 * at .. 2 * cs[s].size - 1
    BY <1>1, <1>3 DEF Entries
  <2>3. /\ e.first + (2 * i + 2) = e.first + 2 * (i + 1)
        /\ e.first + (2 * i + 1 + 2) = e.first + 2 * (i + 1) + 1
        /\ cs[s].first + (2 * i + 1) = cs[s].first + 2 * i + 1
    BY <1>1, <2>2
  <2>4. /\ w[e.chunk].words[e.first + (2 * i + 2)] = ar[cs[s].chunk].words[cs[s].first + 2 * i]
        /\ w[e.chunk].words[e.first + (2 * i + 1 + 2)] = ar[cs[s].chunk].words[cs[s].first + (2 * i + 1)]
    BY <2>2 DEF Inserted
  <2>5. /\ w[e.chunk].words[e.first + 2 * (i + 1)] = ar[cs[s].chunk].words[cs[s].first + 2 * i]
        /\ w[e.chunk].words[e.first + 2 * (i + 1) + 1] = ar[cs[s].chunk].words[cs[s].first + 2 * i + 1]
    BY <2>3, <2>4
  <2> QED BY <1>1, <2>1, <2>2, <2>5, EntryKept
<1>4. KeyAt(w, e, at) = Pointer(x) /\ TypeAt(w, e, at) = type
  BY DEF Inserted, KeyAt, TypeAt
<1>5. NameAt(w, e, at) = name
  BY <1>4 DEF Inserted, NameAt, Pointer
<1> QED BY <1>2, <1>3, <1>4, <1>5

\* The place that was found keeps the order.
LEMMA OrderKept ==
  ASSUME NEW ar, NEW objs, NEW cs, Named(ar, objs, cs), OrderedIn(ar, cs),
         NEW s \in DOMAIN cs, cs[s].size \in Nat, NEW at \in 0 .. cs[s].size,
         NEW x, NEW name \in Names, NEW type, NEW w,
         NEW e, e.size = cs[s].size + 1,
         \A i \in Entries(cs[s]) : i < at => SameEntry(ar, cs[s], i, w, e, i),
         \A i \in Entries(cs[s]) : at <= i => SameEntry(ar, cs[s], i, w, e, i + 1),
         KeyAt(w, e, at) = Pointer(x), TypeAt(w, e, at) = type, NameAt(w, e, at) = name,
         \A i \in Entries(cs[s]) : i < at => Compare(NameAt(ar, cs[s], i), name) < 0,
         \A i \in Entries(cs[s]) : at <= i => Compare(NameAt(ar, cs[s], i), name) > 0
  PROVE  \A i, j \in Entries(e) : i < j => Compare(NameAt(w, e, i), NameAt(w, e, j)) < 0
<1> SUFFICES ASSUME NEW i \in Entries(e), NEW j \in Entries(e), i < j
             PROVE  Compare(NameAt(w, e, i), NameAt(w, e, j)) < 0
  OBVIOUS
<1>1. i \in Nat /\ j \in Nat /\ i <= cs[s].size /\ j <= cs[s].size /\ at \in Nat
  BY DEF Entries
<1>2. ASSUME NEW k \in Entries(cs[s])
      PROVE  /\ NameAt(ar, cs[s], k) \in Names
             /\ k < at => NameAt(w, e, k) = NameAt(ar, cs[s], k)
             /\ at <= k => NameAt(w, e, k + 1) = NameAt(ar, cs[s], k)
  BY DEF Named, SameEntry
<1>3. ASSUME NEW k \in Entries(e), k > at
      PROVE  k - 1 \in Entries(cs[s]) /\ at <= k - 1 /\ NameAt(w, e, k) = NameAt(ar, cs[s], k - 1)
  <2>1. k - 1 \in Entries(cs[s]) /\ at <= k - 1 /\ (k - 1) + 1 = k
    BY <1>1, <1>3 DEF Entries
  <2> QED BY <1>2, <2>1
<1>4. \A k \in Entries(e) : k < at => k \in Entries(cs[s])
  BY DEF Entries
<1>5. CASE j < at
  <2>1. i < at /\ i \in Entries(cs[s]) /\ j \in Entries(cs[s])
    BY <1>1, <1>4, <1>5
  <2> QED BY <1>2, <1>5, <2>1 DEF OrderedIn
<1>6. CASE j = at
  <2>1. i < at /\ i \in Entries(cs[s])
    BY <1>4, <1>6
  <2> QED BY <1>2, <1>6, <2>1
<1>7. CASE j > at
  <2>1. j - 1 \in Entries(cs[s]) /\ at <= j - 1 /\ NameAt(w, e, j) = NameAt(ar, cs[s], j - 1)
    BY <1>3, <1>7
  <2>2. CASE i < at
    <3>1. i \in Entries(cs[s]) /\ i < j - 1
      BY <1>1, <1>4, <2>1, <2>2
    <3> QED BY <1>2, <2>1, <2>2, <3>1 DEF OrderedIn
  <2>3. CASE i = at
    <3>1. Compare(NameAt(ar, cs[s], j - 1), name) > 0 /\ NameAt(ar, cs[s], j - 1) \in Names
      BY <1>2, <2>1
    <3>2. Compare(name, NameAt(ar, cs[s], j - 1)) < 0
      BY <3>1, CompareOrder
    <3> QED BY <2>1, <2>3, <3>2
  <2>4. CASE i > at
    <3>1. i - 1 \in Entries(cs[s]) /\ NameAt(w, e, i) = NameAt(ar, cs[s], i - 1) /\ i - 1 < j - 1
      BY <1>1, <1>3, <2>4
    <3> QED BY <2>1, <3>1 DEF OrderedIn
  <2> QED BY <1>1, <2>2, <2>3, <2>4
<1> QED BY <1>1, <1>5, <1>6, <1>7

\* An inserted entry keeps names and order in all contexts.
LEMMA InsertedKeeps ==
  ASSUME NEW ar, IsArena(ar), NEW objs, Objects(ar, objs), NEW cs, Contexts(ar, objs, cs),
         Named(ar, objs, cs), OrderedIn(ar, cs),
         NEW s \in DOMAIN cs, NEW at, Insertable(ar, cs[s], at),
         NEW name \in Names, NEW type \in Types, NEW room, NEW new, NEW more, NEW x, NEW n,
         Adds(room, objs, new, more, x, n),
         NEW w, Inserted(ar, cs[s], at, x, name, type, w),
         NEW ds, ds = [cs EXCEPT ![s].size = @ + 1],
         \A i \in Entries(cs[s]) : i < at => Compare(NameAt(ar, cs[s], i), name) < 0,
         \A i \in Entries(cs[s]) : at <= i => Compare(NameAt(ar, cs[s], i), name) > 0
  PROVE  Named(w, more, ds) /\ OrderedIn(w, ds) /\ Extended(ar, cs, s, at, name, type, w, ds)
<1>1. cs[s].size \in Nat /\ at \in Nat /\ at \in 0 .. cs[s].size
  BY InsertableIn DEF Insertable
<1>2. /\ DOMAIN ds = DOMAIN cs /\ \A d \in DOMAIN cs : d # s => ds[d] = cs[d]
      /\ ds[s] = [cs[s] EXCEPT !.size = @ + 1]
  OBVIOUS
<1>3. cs[s] \in ContextType
  BY DEF Insertable
<1>4. /\ ds[s].chunk = cs[s].chunk /\ ds[s].first = cs[s].first /\ ds[s].capacity = cs[s].capacity
      /\ ds[s].size = cs[s].size + 1
  BY <1>2, <1>3 DEF ContextType
<1>5. \A d \in DOMAIN cs : Table(ds[d]) = Table(cs[d])
  BY <1>2, <1>4 DEF Table
<1>6. \A y : Aside(y, cs) => Aside(y, ds)
  BY <1>2, <1>5 DEF Aside
<1>7. /\ \A o \in DOMAIN objs : \E p \in DOMAIN more : more[p] = objs[o]
      /\ \E p \in DOMAIN more : more[p] = x
  BY DEF Adds
<1>8. Aside(x, ds)
  <2>1. ASSUME NEW d \in DOMAIN cs PROVE Apart(x, Table(cs[d]))
    <3>1. PICK o \in DOMAIN objs : objs[o] = Table(cs[d])
      BY DEF Contexts
    <3>2. Apart(Table(cs[d]), x)
      BY <3>1 DEF Adds
    <3> QED BY <3>2 DEF Apart
  <2> QED BY <1>6, <2>1 DEF Aside
<1>9. \A d \in DOMAIN cs : d # s => Same(ar, cs[d], w, ds[d])
  BY <1>2, OthersSame
<1>10. /\ \A i \in Entries(cs[s]) : i < at => SameEntry(ar, cs[s], i, w, ds[s], i)
       /\ \A i \in Entries(cs[s]) : at <= i => SameEntry(ar, cs[s], i, w, ds[s], i + 1)
       /\ KeyAt(w, ds[s], at) = Pointer(x) /\ TypeAt(w, ds[s], at) = type /\ NameAt(w, ds[s], at) = name
  BY <1>4, EntriesMove
\* An entry that was there before still has its name.
<1>11. ASSUME NEW d \in DOMAIN cs, NEW k \in Entries(cs[d]), NEW i, SameEntry(ar, cs[d], k, w, ds[d], i)
       PROVE  /\ \E p \in DOMAIN more : KeyAt(w, ds[d], i) = Pointer(more[p]) /\ Aside(more[p], ds)
              /\ NameAt(w, ds[d], i) \in Names /\ TypeAt(w, ds[d], i) \in Types
  <2>1. PICK o \in DOMAIN objs : KeyAt(ar, cs[d], k) = Pointer(objs[o]) /\ Aside(objs[o], cs)
    BY DEF Named
  <2>2. PICK p \in DOMAIN more : more[p] = objs[o]
    BY <1>7
  <2>3. KeyAt(w, ds[d], i) = Pointer(more[p]) /\ Aside(more[p], ds)
    BY <1>6, <1>11, <2>1, <2>2 DEF SameEntry
  <2>4. NameAt(w, ds[d], i) \in Names /\ TypeAt(w, ds[d], i) \in Types
    BY <1>11 DEF Named, SameEntry
  <2> QED BY <2>3, <2>4
<1>12. ASSUME NEW d \in DOMAIN ds, NEW i \in Entries(ds[d])
       PROVE  /\ \E p \in DOMAIN more : KeyAt(w, ds[d], i) = Pointer(more[p]) /\ Aside(more[p], ds)
              /\ NameAt(w, ds[d], i) \in Names /\ TypeAt(w, ds[d], i) \in Types
  <2>1. CASE d # s
    <3>1. i \in Entries(cs[d]) /\ SameEntry(ar, cs[d], i, w, ds[d], i)
      BY <1>2, <1>9, <2>1 DEF Same, Entries
    <3> QED BY <1>2, <1>11, <3>1
  <2>2. CASE d = s /\ i < at
    <3>1. i \in Entries(cs[s])
      BY <1>1, <1>4, <2>2 DEF Entries
    <3> QED BY <1>2, <1>10, <1>11, <2>2, <3>1
  <2>3. CASE d = s /\ i = at
    <3>1. PICK p \in DOMAIN more : more[p] = x
      BY <1>7
    <3> QED BY <1>8, <1>10, <2>3, <3>1
  <2>4. CASE d = s /\ i > at
    <3>1. i - 1 \in Entries(cs[s]) /\ at <= i - 1 /\ (i - 1) + 1 = i
      BY <1>1, <1>4, <2>4 DEF Entries
    <3>2. SameEntry(ar, cs[s], i - 1, w, ds[s], i)
      BY <1>10, <3>1
    <3> QED BY <1>2, <1>11, <2>4, <3>1, <3>2
  <2>5. i \in Int
    BY DEF Entries
  <2>6. i < at \/ i = at \/ i > at
    BY <1>1, <2>5
  <2> QED BY <2>1, <2>2, <2>3, <2>4, <2>6
<1>13. ASSUME NEW d \in DOMAIN ds, NEW i \in Entries(ds[d]), NEW j \in Entries(ds[d]), i < j
       PROVE  Compare(NameAt(w, ds[d], i), NameAt(w, ds[d], j)) < 0
  <2>1. CASE d # s
    <3>1. /\ i \in Entries(cs[d]) /\ SameEntry(ar, cs[d], i, w, ds[d], i)
          /\ j \in Entries(cs[d]) /\ SameEntry(ar, cs[d], j, w, ds[d], j)
      BY <1>2, <1>9, <2>1 DEF Same, Entries
    <3> QED BY <1>2, <1>13, <3>1 DEF OrderedIn, SameEntry
  <2>2. CASE d = s
    <3>1. \A a, b \in Entries(ds[s]) : a < b => Compare(NameAt(w, ds[s], a), NameAt(w, ds[s], b)) < 0
      BY <1>1, <1>4, <1>10, OrderKept
    <3> QED BY <1>13, <2>2, <3>1
  <2> QED BY <2>1, <2>2
<1>14. Extended(ar, cs, s, at, name, type, w, ds)
  BY <1>2, <1>4, <1>9, <1>10 DEF Extended
<1>15. Named(w, more, ds) /\ OrderedIn(w, ds)
  BY <1>12, <1>13 DEF Named, OrderedIn
<1> QED BY <1>14, <1>15

\* The search has found the place that keeps the order.
LEMMA BindFull ==
  ASSUME FullInv, Bind
  PROVE  /\ FullInv'
         /\ \/ /\ Extended(arena, contexts, request.scope, low, request.name, request.type, arena', contexts')
               /\ Answer("inserted", NoType)
            \/ UNCHANGED <<arena, contexts, request, answer>>
<1>1. Inv'
  BY BindInv DEF FullInv
<1>2. PICK s, c, room : s = request.scope /\ c = Searched /\ room = MakeRoom(arena, Searched, low)
  OBVIOUS
<1>3. PICK n : n = StringWords(Length[request.name])
  OBVIOUS
<1>4. PICK str : str = Alloc(room, 1, n)
  OBVIOUS
<1>5. PICK w : w = WriteEntry(str.arena, c, low, str.object, request.name, request.type)
  OBVIOUS
<1>6. PICK more : more = Append(objects, str.object)
  OBVIOUS
<1>7. /\ s \in DOMAIN contexts /\ request.type \in Types /\ c = contexts[s]
      /\ request.name \in Names /\ phase = "bind"
      /\ low \in 0 .. high + 1 /\ high \in -1 .. c.size - 1 /\ c.size < c.capacity
  BY <1>2 DEF FullInv, Inv, CallOK, Bind, Searched, RequestType
<1>8. /\ c \in ContextType /\ c.chunk \in DOMAIN arena /\ c.size \in Nat
      /\ c.first + 2 * c.capacity <= arena[c.chunk].size
  BY <1>7, ContextInArena DEF FullInv, Inv, ContextType
<1>9. low > high
  BY <1>7 DEF FullInv, Narrowed
<1>10. high \in Int /\ low = high + 1 /\ low \in 0 .. c.size
  BY <1>7, <1>8, <1>9
<1>11. Insertable(arena, c, low)
  BY <1>7, <1>8, <1>10 DEF Insertable
<1>12. /\ \A i \in Entries(c) : i < low => Compare(NameAt(arena, c, i), request.name) < 0
       /\ \A i \in Entries(c) : low <= i => Compare(NameAt(arena, c, i), request.name) > 0
  <2>1. \A i \in Entries(c) : low <= i => i > high
    BY <1>10 DEF Entries
  <2> QED BY <1>2, <1>7, <2>1 DEF FullInv, Narrowed
<1>13. IsArena(room) /\ Objects(room, objects)
  <2>1. room = MakeRoom(arena, c, low)
    BY <1>2
  <2>2. SameSizes(arena, room)
    BY <1>11, <2>1, RoomWords DEF FullInv, Inv
  <2> QED BY <2>2, WrittenObjects DEF SameSizes, FullInv, Inv
<1>14. Adds(room, objects, str.arena, more, str.object, n)
  <2>1. Length[request.name] \in Nat \ {0}
    BY <1>7, NameAssumption
  <2>2. n \in Nat \ {0} /\ 1 \in Nat \ {0}
    BY <1>3, <2>1 DEF StringWords
  <2> QED BY <1>4, <1>6, <1>13, <2>2, AllocObjects
<1>15. Inserted(arena, c, low, str.object, request.name, request.type, w)
  <2>1. room = MakeRoom(arena, c, low)
    BY <1>2
  <2> QED BY <1>5, <1>7, <1>11, <1>14, <2>1, InsertedWords DEF FullInv, Inv
<1>16. CASE /\ arena' = w /\ objects' = more
            /\ contexts' = [contexts EXCEPT ![request.scope].size = @ + 1]
            /\ Answer("inserted", NoType)
  <2>1. contexts' = [contexts EXCEPT ![s].size = @ + 1]
    BY <1>2, <1>16
  <2>2. /\ Named(w, more, contexts') /\ OrderedIn(w, contexts')
        /\ Extended(arena, contexts, s, low, request.name, request.type, w, contexts')
    BY <1>7, <1>11, <1>12, <1>14, <1>15, <2>1, InsertedKeeps DEF FullInv, Inv
  <2>3. Narrowed'
    BY <1>16 DEF Answer, Narrowed
  <2> QED BY <1>1, <1>2, <1>16, <2>2, <2>3 DEF FullInv
<1>17. CASE Dies(str.arena) /\ UNCHANGED <<contexts, request, answer>>
  <2>1. Narrowed'
    BY <1>17 DEF Dies, Narrowed
  <2> QED BY <1>1, <1>17, <2>1, UnchangedKeeps DEF Dies, FullInv
<1> QED BY <1>2, <1>3, <1>4, <1>5, <1>6, <1>16, <1>17 DEF Bind

-----------------------------------------------------------------------------
(* The result.                                                             *)

\* Every step preserves the invariant.
LEMMA FullPreserved == FullInv /\ [Next]_vars => FullInv'
<1> SUFFICES ASSUME FullInv, [Next]_vars PROVE FullInv'
  OBVIOUS
<1>1. CASE Enter
  BY <1>1, EnterFull
<1>2. CASE Leave
  BY <1>2, LeaveFull
<1>3. ASSUME NEW n \in OtherSizes, Other(n) PROVE FullInv'
  BY <1>3, OtherFull
<1>4. CASE \/ \E n \in Names, t \in Types : BeginInsert(n, t)
           \/ \E d \in DOMAIN contexts, n \in Names : BeginLookup(d, n)
  BY <1>4, BeginFull
<1>5. CASE Grow
  BY <1>5, GrowFull
<1>6. CASE Halve
  BY <1>6, HalveFull
<1>7. CASE GrowFails \/ Hit \/ Miss
  BY <1>7, SearchEndFull
<1>8. CASE Bind
  BY <1>8, BindFull
<1>9. CASE UNCHANGED vars
  <2>1. Inv'
    BY <1>9, InvPreserved DEF FullInv
  <2>2. Searched' = Searched
    BY <1>9 DEF vars, Searched
  <2>3. Narrowed'
    BY <1>9, <2>2 DEF vars, FullInv, Narrowed
  <2> QED BY <1>9, <2>1, <2>3, UnchangedKeeps DEF vars, FullInv
<1> QED BY <1>1, <1>2, <1>3, <1>4, <1>5, <1>6, <1>7, <1>8, <1>9 DEF Next, Calls, Steps

\* The entries of every open scope are sorted at every moment, for every set of
\* names and any sizes of chunks, tables and other objects: an insertion anywhere,
\* a table that moves over what lies behind it and all writing in between keep it.
THEOREM EntriesOrdered == Spec => []Ordered
<1>1. Init => FullInv
  BY InitFull
<1>2. FullInv /\ [Next]_vars => FullInv'
  BY FullPreserved
<1>3. FullInv => Ordered
  BY DEF FullInv, OrderedIn, Ordered
<1> QED BY <1>1, <1>2, <1>3, PTL DEF Spec


-----------------------------------------------------------------------------
(* What a table says.                                                      *)

\* No name stands twice in a table.
Distinct(ar, c) == \A i, j \in Entries(c) : NameAt(ar, c, i) = NameAt(ar, c, j) => i = j

\* Sorted entries have different names.
LEMMA OrderedDistinct ==
  ASSUME NEW ar, NEW objs, Objects(ar, objs), IsArena(ar), NEW cs, Contexts(ar, objs, cs),
         Named(ar, objs, cs), OrderedIn(ar, cs), NEW d \in DOMAIN cs
  PROVE  Distinct(ar, cs[d])
<1> SUFFICES ASSUME NEW i \in Entries(cs[d]), NEW j \in Entries(cs[d]), NameAt(ar, cs[d], i) = NameAt(ar, cs[d], j)
             PROVE  i = j
  BY DEF Distinct
<1>1. i \in Int /\ j \in Int
  BY DEF Entries
<1>2. NameAt(ar, cs[d], i) \in Names
  BY DEF Named
<1>3. Compare(NameAt(ar, cs[d], i), NameAt(ar, cs[d], i)) = 0
  BY <1>2, CompareOrder
<1>4. ~ (i < j) /\ ~ (j < i)
  BY <1>3 DEF OrderedIn
<1> QED BY <1>1, <1>4

\* A table without repetitions says of every name what its entry says.
LEMMA KnownIs ==
  ASSUME NEW ar, NEW c, Distinct(ar, c)
  PROVE  /\ DOMAIN Known(ar, c) = NamesIn(ar, c)
         /\ \A i \in Entries(c) : Known(ar, c)[NameAt(ar, c, i)] = TypeAt(ar, c, i)
<1>1. ASSUME NEW i \in Entries(c) PROVE Known(ar, c)[NameAt(ar, c, i)] = TypeAt(ar, c, i)
  <2>1. PICK k : k = CHOOSE j \in Entries(c) : NameAt(ar, c, j) = NameAt(ar, c, i)
    OBVIOUS
  <2>2. k \in Entries(c) /\ NameAt(ar, c, k) = NameAt(ar, c, i)
    BY <2>1
  <2>3. k = i
    BY <2>2 DEF Distinct
  <2>4. NameAt(ar, c, i) \in NamesIn(ar, c)
    BY DEF NamesIn
  <2>5. Known(ar, c)[NameAt(ar, c, i)] = TypeAt(ar, c, k)
    BY <2>1, <2>4 DEF Known
  <2> QED BY <2>3, <2>5
<1> QED BY <1>1 DEF Known

\* A table with the same entries says the same.
LEMMA KnownSame ==
  ASSUME NEW ar, NEW c, Distinct(ar, c), NEW new, NEW e, Same(ar, c, new, e)
  PROVE  Known(new, e) = Known(ar, c)
<1>1. /\ Entries(e) = Entries(c)
      /\ \A i \in Entries(c) : NameAt(new, e, i) = NameAt(ar, c, i) /\ TypeAt(new, e, i) = TypeAt(ar, c, i)
  BY DEF Same, SameEntry, Entries
<1>2. Distinct(new, e)
  BY <1>1 DEF Distinct
<1>3. NamesIn(new, e) = NamesIn(ar, c)
  BY <1>1 DEF NamesIn
<1>4. \A n \in NamesIn(ar, c) : Known(new, e)[n] = Known(ar, c)[n]
  <2>1. /\ \A i \in Entries(c) : Known(ar, c)[NameAt(ar, c, i)] = TypeAt(ar, c, i)
        /\ \A i \in Entries(e) : Known(new, e)[NameAt(new, e, i)] = TypeAt(new, e, i)
    BY <1>2, KnownIs
  <2>2. \A n \in NamesIn(ar, c) : \E i \in Entries(c) : n = NameAt(ar, c, i)
    BY DEF NamesIn
  <2> QED BY <1>1, <2>1, <2>2
<1>5. /\ Known(new, e) = [n \in NamesIn(ar, c) |-> Known(new, e)[n]]
      /\ Known(ar, c) = [n \in NamesIn(ar, c) |-> Known(ar, c)[n]]
  BY <1>3 DEF Known
<1> QED BY <1>4, <1>5

\* Where all contexts have the entries they had, nothing else is known.
LEMMA AllKnownSame ==
  ASSUME FullInv, SameAll(arena, contexts, arena', contexts')
  PROVE  AllKnown(arena', contexts') = AllKnown(arena, contexts)
<1>1. \A d \in DOMAIN contexts : Known(arena', contexts'[d]) = Known(arena, contexts[d])
  BY OrderedDistinct, KnownSame DEF FullInv, Inv, SameAll
<1> QED BY <1>1 DEF AllKnown, SameAll

\* What the tables of contexts say.
Said(ar, cs) == {Known(ar, cs[d]) : d \in DOMAIN cs}

\* Scopes are as many as contexts.
LEMMA KnownLength ==
  ASSUME NEW ar, NEW cs, NEW n \in Nat, DOMAIN cs = 1 .. n
  PROVE  /\ AllKnown(ar, cs) \in Seq(Said(ar, cs))
         /\ Len(AllKnown(ar, cs)) = n /\ DOMAIN AllKnown(ar, cs) = 1 .. n
<1>1. AllKnown(ar, cs) \in [1 .. n -> Said(ar, cs)]
  BY DEF AllKnown, Said
<1>2. DOMAIN AllKnown(ar, cs) = 1 .. n
  BY DEF AllKnown
<1>3. AllKnown(ar, cs) \in Seq(Said(ar, cs))
  BY <1>1, SeqDef
<1>4. Len(AllKnown(ar, cs)) \in Nat /\ 1 .. Len(AllKnown(ar, cs)) = 1 .. n
  BY <1>2, <1>3, LenProperties
<1>5. Len(AllKnown(ar, cs)) = n
  BY <1>4
<1> QED BY <1>2, <1>3, <1>5

-----------------------------------------------------------------------------
(* Steps.                                                                  *)

\* What is known after a scope has been entered.
LEMMA EnterKnown ==
  ASSUME FullInv, Entered(arena, contexts, arena', contexts')
  PROVE  AllKnown(arena', contexts') = Append(AllKnown(arena, contexts), AllKnown(arena, contexts)[Len(AllKnown(arena, contexts))])
<1>1. PICK n \in Nat : n = Len(contexts) /\ DOMAIN contexts = 1 .. n /\ n \in DOMAIN contexts
  BY ContextNumbers DEF FullInv
<1>2. PICK k, S : k = AllKnown(arena, contexts) /\ k \in Seq(S) /\ Len(k) = n /\ DOMAIN k = 1 .. n
  <2>1. /\ AllKnown(arena, contexts) \in Seq(Said(arena, contexts))
        /\ Len(AllKnown(arena, contexts)) = n /\ DOMAIN AllKnown(arena, contexts) = 1 .. n
    BY <1>1, KnownLength
  <2> QED BY <2>1
<1>3. DOMAIN contexts' = 1 .. n + 1
  BY <1>1 DEF Entered
<1>4. \A d \in 1 .. n : Known(arena', contexts'[d]) = k[d] /\ d \in DOMAIN contexts'
  <2>1. ASSUME NEW d \in 1 .. n PROVE Known(arena', contexts'[d]) = Known(arena, contexts[d])
    BY <1>1, OrderedDistinct, KnownSame DEF FullInv, Inv, Entered
  <2>2. \A d \in 1 .. n : k[d] = Known(arena, contexts[d])
    BY <1>1, <1>2 DEF AllKnown
  <2>3. \A d \in 1 .. n : d \in 1 .. n + 1
    BY <1>1
  <2> QED BY <1>3, <2>1, <2>2, <2>3
<1>5. Known(arena', contexts'[n + 1]) = k[n]
  <2>1. Known(arena', contexts'[n + 1]) = Known(arena, contexts[n])
    BY <1>1, OrderedDistinct, KnownSame DEF FullInv, Inv, Entered
  <2> QED BY <1>1, <1>2, <2>1 DEF AllKnown
<1>6. k[n] \in S
  BY <1>1, <1>2, ElementOfSeq
<1>7. Append(k, k[n]) = [i \in 1 .. n + 1 |-> IF i = n + 1 THEN k[n] ELSE k[i]]
  BY <1>2, <1>6
<1>8. AllKnown(arena', contexts') = [d \in 1 .. n + 1 |-> Known(arena', contexts'[d])]
  BY <1>3 DEF AllKnown
<1>9. \A d \in 1 .. n + 1 : Known(arena', contexts'[d]) = IF d = n + 1 THEN k[n] ELSE k[d]
  <2>1. \A d \in 1 .. n + 1 : d = n + 1 \/ d \in 1 .. n
    OBVIOUS
  <2> QED BY <1>4, <1>5, <2>1
<1> QED BY <1>2, <1>7, <1>8, <1>9

\* What is known after a scope has been left.
LEMMA LeaveKnown ==
  ASSUME FullInv, Leave
  PROVE  /\ AllKnown(arena', contexts') = SubSeq(AllKnown(arena, contexts), 1, Len(AllKnown(arena, contexts)) - 1)
         /\ Len(AllKnown(arena, contexts)) > 1
<1>1. PICK n \in Nat : n = Len(contexts) /\ DOMAIN contexts = 1 .. n /\ n > 1 /\ contexts \in Seq(ContextType)
  BY ContextNumbers DEF FullInv, Inv, Contexts, Leave
<1>2. PICK k, S : k = AllKnown(arena, contexts) /\ k \in Seq(S) /\ Len(k) = n /\ DOMAIN k = 1 .. n
  <2>1. /\ AllKnown(arena, contexts) \in Seq(Said(arena, contexts))
        /\ Len(AllKnown(arena, contexts)) = n /\ DOMAIN AllKnown(arena, contexts) = 1 .. n
    BY <1>1, KnownLength
  <2> QED BY <2>1
<1>3. contexts' = SubSeq(contexts, 1, n - 1) /\ arena' = arena
  BY <1>1 DEF Leave
<1>4. contexts' = [d \in 1 .. n - 1 |-> contexts[d]]
  BY <1>1, <1>3
<1>5. SubSeq(k, 1, n - 1) = [d \in 1 .. n - 1 |-> k[d]]
  BY <1>1, <1>2
<1>6. \A d \in 1 .. n - 1 : k[d] = Known(arena, contexts[d])
  BY <1>1, <1>2 DEF AllKnown
<1>7. AllKnown(arena', contexts') = [d \in 1 .. n - 1 |-> Known(arena, contexts[d])]
  BY <1>3, <1>4 DEF AllKnown
<1> QED BY <1>1, <1>2, <1>5, <1>6, <1>7

\* What is known when n is known to be t as well.
WithName(k, n, t) == [m \in DOMAIN k \union {n} |-> IF m = n THEN t ELSE k[m]]

\* A table that has got an entry for a new name knows it and what it knew.
LEMMA KnownExtended ==
  ASSUME NEW ar, NEW cs, NEW s \in DOMAIN cs, cs[s].size \in Nat, Distinct(ar, cs[s]),
         NEW at \in 0 .. cs[s].size, NEW name, NEW type, name \notin NamesIn(ar, cs[s]),
         NEW new, NEW ds, Extended(ar, cs, s, at, name, type, new, ds)
  PROVE  Known(new, ds[s]) = WithName(Known(ar, cs[s]), name, type)
<1>1. PICK c, e : c = cs[s] /\ e = ds[s]
  OBVIOUS
<1>2. /\ e.size = c.size + 1 /\ c.size \in Nat /\ at \in 0 .. c.size /\ name \notin NamesIn(ar, c)
      /\ \A i \in Entries(c) : i < at => SameEntry(ar, c, i, new, e, i)
      /\ \A i \in Entries(c) : at <= i => SameEntry(ar, c, i, new, e, i + 1)
      /\ NameAt(new, e, at) = name /\ TypeAt(new, e, at) = type /\ Distinct(ar, c)
  BY <1>1 DEF Extended
\* Every entry of the new table is the new one or an old one, and every old one is there.
<1>3. ASSUME NEW i \in Entries(e), i # at
      PROVE  \E j \in Entries(c) : /\ i = IF j < at THEN j ELSE j + 1
                                   /\ NameAt(new, e, i) = NameAt(ar, c, j)
                                   /\ TypeAt(new, e, i) = TypeAt(ar, c, j)
  <2>1. CASE i < at
    <3>1. i \in Entries(c)
      BY <1>2, <2>1 DEF Entries
    <3> QED BY <1>2, <2>1, <3>1 DEF SameEntry
  <2>2. CASE i > at
    <3>1. i - 1 \in Entries(c) /\ at <= i - 1 /\ (i - 1) + 1 = i /\ ~ (i - 1 < at)
      BY <1>2, <2>2 DEF Entries
    <3>2. SameEntry(ar, c, i - 1, new, e, i)
      BY <1>2, <3>1
    <3> QED BY <3>1, <3>2 DEF SameEntry
  <2>3. i \in Int /\ at \in Int
    BY <1>2 DEF Entries
  <2> QED BY <1>3, <2>1, <2>2, <2>3
<1>4. ASSUME NEW j \in Entries(c)
      PROVE  \E i \in Entries(e) : NameAt(new, e, i) = NameAt(ar, c, j) /\ TypeAt(new, e, i) = TypeAt(ar, c, j)
  <2>1. CASE j < at
    <3>1. j \in Entries(e)
      BY <1>2 DEF Entries
    <3> QED BY <1>2, <2>1, <3>1 DEF SameEntry
  <2>2. CASE at <= j
    <3>1. j + 1 \in Entries(e)
      BY <1>2 DEF Entries
    <3> QED BY <1>2, <2>2, <3>1 DEF SameEntry
  <2>3. j \in Int /\ at \in Int
    BY <1>2 DEF Entries
  <2> QED BY <2>1, <2>2, <2>3
<1>5. at \in Entries(e)
  BY <1>2 DEF Entries
<1>6. \A j \in Entries(c) : NameAt(ar, c, j) # name
  BY <1>2 DEF NamesIn
<1>7. Distinct(new, e)
  <2> SUFFICES ASSUME NEW i \in Entries(e), NEW j \in Entries(e), NameAt(new, e, i) = NameAt(new, e, j)
               PROVE  i = j
    BY DEF Distinct
  <2>1. CASE i = at \/ j = at
    BY <1>2, <1>3, <1>6, <2>1
  <2>2. CASE i # at /\ j # at
    <3>1. PICK a \in Entries(c) : i = (IF a < at THEN a ELSE a + 1) /\ NameAt(new, e, i) = NameAt(ar, c, a)
      BY <1>3, <2>2
    <3>2. PICK b \in Entries(c) : j = (IF b < at THEN b ELSE b + 1) /\ NameAt(new, e, j) = NameAt(ar, c, b)
      BY <1>3, <2>2
    <3>3. a = b
      BY <1>2, <3>1, <3>2 DEF Distinct
    <3> QED BY <3>1, <3>2, <3>3
  <2> QED BY <2>1, <2>2
<1>8. /\ \A i \in Entries(e) : Known(new, e)[NameAt(new, e, i)] = TypeAt(new, e, i)
      /\ \A j \in Entries(c) : Known(ar, c)[NameAt(ar, c, j)] = TypeAt(ar, c, j)
      /\ DOMAIN Known(ar, c) = NamesIn(ar, c)
  BY <1>2, <1>7, KnownIs
<1>9. NamesIn(new, e) = NamesIn(ar, c) \union {name}
  <2>1. \A i \in Entries(e) : NameAt(new, e, i) \in NamesIn(ar, c) \union {name}
    BY <1>2, <1>3 DEF NamesIn
  <2>2. \A j \in Entries(c) : NameAt(ar, c, j) \in NamesIn(new, e)
    BY <1>4 DEF NamesIn
  <2>3. name \in NamesIn(new, e)
    BY <1>2, <1>5 DEF NamesIn
  <2>4. NamesIn(new, e) \subseteq NamesIn(ar, c) \union {name}
    BY <2>1 DEF NamesIn
  <2>5. NamesIn(ar, c) \subseteq NamesIn(new, e)
    BY <2>2 DEF NamesIn
  <2> QED BY <2>3, <2>4, <2>5
<1>10. Known(new, e)[name] = type
  BY <1>2, <1>5, <1>8
<1>11. ASSUME NEW m \in NamesIn(ar, c) PROVE Known(new, e)[m] = Known(ar, c)[m] /\ m # name
  <2>1. PICK j \in Entries(c) : m = NameAt(ar, c, j)
    BY DEF NamesIn
  <2>2. PICK i \in Entries(e) : NameAt(new, e, i) = NameAt(ar, c, j) /\ TypeAt(new, e, i) = TypeAt(ar, c, j)
    BY <1>4
  <2> QED BY <1>6, <1>8, <2>1, <2>2
<1>12. Known(new, e) = [m \in NamesIn(ar, c) \union {name} |-> Known(new, e)[m]]
  BY <1>9 DEF Known
<1>13. \A m \in NamesIn(ar, c) \union {name} :
         Known(new, e)[m] = IF m = name THEN type ELSE Known(ar, c)[m]
  BY <1>10, <1>11
<1> QED BY <1>1, <1>8, <1>12, <1>13 DEF WithName

\* A search that has ended without finding the name has passed all entries.
LEMMA MissedName ==
  ASSUME FullInv, phase \in {"search", "bind"}, low > high
  PROVE  request.name \notin NamesIn(arena, Searched)
<1>1. request.scope \in DOMAIN contexts /\ Searched = contexts[request.scope] /\ request.name \in Names
  BY DEF FullInv, Inv, CallOK, RequestType, Searched
<1>2. low \in Int /\ high \in Int /\ Searched.size \in Nat
  <2>1. Searched.size \in Nat
    BY <1>1, ContextInArena DEF FullInv, Inv, ContextType
  <2> QED BY <2>1 DEF FullInv, Inv, CallOK
<1>3. ASSUME NEW i \in Entries(Searched) PROVE NameAt(arena, Searched, i) # request.name
  <2>1. NameAt(arena, Searched, i) \in Names
    BY <1>1 DEF FullInv, Named
  <2>2. i < low \/ i > high
    BY <1>2 DEF Entries
  <2>3. Compare(NameAt(arena, Searched, i), request.name) # 0
    BY <2>2 DEF FullInv, Narrowed
  <2> QED BY <1>1, <2>1, <2>3, CompareOrder
<1> QED BY <1>3 DEF NamesIn

-----------------------------------------------------------------------------
(* The refinement.                                                         *)

\* At first nothing is known.
LEMMA ScopesInit == Init => ScopesOf!Init
<1> SUFFICES ASSUME Init PROVE ScopesOf!Init
  OBVIOUS
<1>1. PICK c : contexts = <<c>> /\ c.size = 0
  BY DEF Init, Context
<1>2. NamesIn(arena, c) = {}
  BY <1>1 DEF NamesIn, Entries
<1>3. Known(arena, c) = [n \in {} |-> NoType]
  BY <1>2 DEF Known
<1>4. DOMAIN contexts = {1} /\ contexts[1] = c
  BY <1>1
<1>5. AllKnown(arena, contexts) = [d \in {1} |-> Known(arena, c)]
  BY <1>4 DEF AllKnown
<1>6. AllKnown(arena, contexts) = <<[n \in {} |-> NoType]>>
  BY <1>3, <1>5
<1> QED BY <1>6 DEF Init, ScopesOf!Init, Reply, ScopesOf!Reply

\* A call is asked.
LEMMA ScopesAsk ==
  ASSUME FullInv, \/ \E n \in Names, t \in Types : BeginInsert(n, t)
                  \/ \E d \in DOMAIN contexts, n \in Names : BeginLookup(d, n)
  PROVE  ScopesOf!Ask
<1>1. PICK k : k = AllKnown(arena, contexts) /\ Len(k) = Len(contexts) /\ DOMAIN k = DOMAIN contexts
  <2>1. DOMAIN contexts = 1 .. Len(contexts) /\ Len(contexts) \in Nat
    BY ContextNumbers DEF FullInv
  <2>2. Len(AllKnown(arena, contexts)) = Len(contexts)
    BY <2>1, KnownLength
  <2>3. DOMAIN AllKnown(arena, contexts) = DOMAIN contexts
    BY DEF AllKnown
  <2> QED BY <2>2, <2>3
<1>2. /\ UNCHANGED <<arena, contexts, answer>> /\ starved' = FALSE
      /\ request.op = "none"
  BY DEF BeginInsert, BeginLookup, FullInv, Inv, CallOK
<1>3. request' \in [op : {"insert"}, scope : {Len(k)}, name : Names, type : Types]
                     \union [op : {"lookup"}, scope : DOMAIN k, name : Names, type : {NoType}]
  <2>1. CASE \E n \in Names, t \in Types : BeginInsert(n, t)
    <3>1. request' \in [op : {"insert"}, scope : {Len(k)}, name : Names, type : Types]
      BY <1>1, <2>1 DEF BeginInsert, Insertion
    <3> QED BY <3>1
  <2>2. CASE \E d \in DOMAIN contexts, n \in Names : BeginLookup(d, n)
    <3>1. request' \in [op : {"lookup"}, scope : DOMAIN k, name : Names, type : {NoType}]
      BY <1>1, <2>2 DEF BeginLookup, Lookup
    <3> QED BY <3>1
  <2> QED BY <2>1, <2>2
<1>4. UNCHANGED AllKnown(arena, contexts)
  BY <1>2
<1> QED BY <1>1, <1>2, <1>3, <1>4 DEF ScopesOf!Ask

\* A search that ends has the answer.
LEMMA ScopesHit == ASSUME FullInv, Hit PROVE ScopesOf!Find \/ ScopesOf!Refuse
<1>1. PICK s, c, k : /\ s = request.scope /\ c = Searched /\ k = AllKnown(arena, contexts)
                     /\ s \in DOMAIN contexts /\ c = contexts[s]
  BY DEF FullInv, Inv, CallOK, Searched
<1>2. low \in Nat /\ high \in Int /\ low <= high /\ high < c.size /\ c.size \in Nat /\ request.op \in {"insert", "lookup"}
  <2>1. c.size \in Nat
    BY <1>1, ContextInArena DEF FullInv, Inv, ContextType
  <2>2. low \in 0 .. high + 1 /\ high \in -1 .. c.size - 1 /\ low <= high
    BY <1>1 DEF FullInv, Inv, CallOK, Hit
  <2>3. request.op \in {"insert", "lookup"}
    BY DEF FullInv, Inv, CallOK, RequestType, Hit
  <2> QED BY <2>1, <2>2, <2>3
<1>3. Mid \in Entries(c)
  BY <1>2 DEF Mid, Entries
<1>4. NameAt(arena, c, Mid) = request.name
  <2>1. NameAt(arena, c, Mid) \in Names /\ request.name \in Names
    BY <1>1, <1>3 DEF FullInv, Inv, CallOK, RequestType, Named
  <2>2. Compare(NameAt(arena, c, Mid), request.name) = 0
    BY <1>1 DEF Hit, MidIs
  <2> QED BY <2>1, <2>2, CompareOrder
<1>5. k[s] = Known(arena, c)
  BY <1>1 DEF AllKnown
<1>6. request.name \in DOMAIN k[s] /\ k[s][request.name] = TypeAt(arena, c, Mid)
  <2>1. Distinct(arena, c)
    BY <1>1, OrderedDistinct DEF FullInv, Inv
  <2>2. NameAt(arena, c, Mid) \in NamesIn(arena, c)
    BY <1>3 DEF NamesIn
  <2> QED BY <1>3, <1>4, <1>5, <2>1, <2>2, KnownIs
<1>7. UNCHANGED <<arena, contexts, starved>>
  BY DEF Hit
<1>8. UNCHANGED AllKnown(arena, contexts)
  BY <1>7
<1>9. CASE request.op = "lookup"
  <2>1. Answer("found", TypeAt(arena, c, Mid))
    BY <1>1, <1>9 DEF Hit
  <2> QED BY <1>1, <1>6, <1>7, <1>8, <1>9, <2>1
          DEF Answer, Reply, ScopesOf!Find, ScopesOf!Answer, ScopesOf!Reply, ScopesOf!Asked
<1>10. CASE request.op = "insert"
  <2>1. Answer("refused", NoType)
    BY <1>10 DEF Hit
  <2> QED BY <1>1, <1>6, <1>7, <1>8, <1>10, <2>1
          DEF Answer, Reply, ScopesOf!Refuse, ScopesOf!Answer, ScopesOf!Reply, ScopesOf!Asked
<1> QED BY <1>2, <1>9, <1>10

\* So has one that ends without the name, when nothing is to be inserted.
LEMMA ScopesMiss == ASSUME FullInv, Miss, request.op = "lookup" PROVE ScopesOf!Find
<1>1. PICK s, k : s = request.scope /\ k = AllKnown(arena, contexts) /\ s \in DOMAIN contexts /\ Searched = contexts[s]
  BY DEF FullInv, Inv, CallOK, Searched
<1>2. DOMAIN k[s] = NamesIn(arena, Searched)
  BY <1>1 DEF AllKnown, Known
<1>3. request.name \notin DOMAIN k[s]
  BY <1>2, MissedName DEF Miss
<1>4. UNCHANGED <<arena, contexts, starved>> /\ Answer("absent", NoType)
  BY DEF Miss
<1>5. UNCHANGED AllKnown(arena, contexts)
  BY <1>4
<1> QED BY <1>1, <1>3, <1>4, <1>5 DEF Answer, Reply, ScopesOf!Find, ScopesOf!Answer, ScopesOf!Reply, ScopesOf!Asked

\* Before a binding is written its scope does not know the name.
LEMMA BeforeBind ==
  ASSUME FullInv, phase = "bind"
  PROVE  /\ request.op = "insert" /\ request.scope \in DOMAIN contexts
         /\ contexts[request.scope].size \in Nat /\ low \in 0 .. contexts[request.scope].size
         /\ Distinct(arena, contexts[request.scope])
         /\ request.name \notin NamesIn(arena, contexts[request.scope])
<1>1. PICK s, c : s = request.scope /\ c = contexts[s] /\ s \in DOMAIN contexts /\ c = Searched /\ request.op = "insert"
  BY DEF FullInv, Inv, CallOK, Searched
<1>2. c.size \in Nat /\ Distinct(arena, c)
  <2>1. contexts[s] \in ContextType
    BY <1>1, ElementOfSeq, LenProperties DEF FullInv, Inv, Contexts
  <2>2. Distinct(arena, contexts[s])
    BY <1>1, OrderedDistinct DEF FullInv, Inv
  <2> QED BY <1>1, <2>1, <2>2 DEF ContextType
<1>3. low > high /\ low \in 0 .. c.size
  <2>1. low > high /\ low \in 0 .. high + 1 /\ high \in -1 .. c.size - 1
    BY <1>1 DEF FullInv, Inv, CallOK, Narrowed
  <2> QED BY <1>2, <2>1
<1>4. request.name \notin NamesIn(arena, c)
  BY <1>1, <1>3, MissedName
<1> QED BY <1>1, <1>2, <1>3, <1>4

\* A binding that is written is known in its scope, and nowhere else.
LEMMA ScopesBind ==
  ASSUME FullInv, phase = "bind", UNCHANGED starved, Answer("inserted", NoType),
         Extended(arena, contexts, request.scope, low, request.name, request.type, arena', contexts')
  PROVE  ScopesOf!Insert
<1>1. PICK s, c, k : /\ s = request.scope /\ c = contexts[s] /\ k = AllKnown(arena, contexts)
                     /\ s \in DOMAIN contexts /\ request.op = "insert"
  BY BeforeBind
<1>2. /\ c.size \in Nat /\ low \in 0 .. c.size /\ Distinct(arena, c)
      /\ request.name \notin NamesIn(arena, c)
  BY <1>1, BeforeBind
<1>5. DOMAIN k = DOMAIN contexts /\ k[s] = Known(arena, c) /\ DOMAIN k[s] = NamesIn(arena, c)
  <2>1. DOMAIN k = DOMAIN contexts /\ k[s] = Known(arena, c)
    BY <1>1 DEF AllKnown
  <2> QED BY <2>1 DEF Known
<1>6. Known(arena', contexts'[s]) = WithName(k[s], request.name, request.type)
  <2>1. Extended(arena, contexts, s, low, request.name, request.type, arena', contexts')
    BY <1>1
  <2>2. Known(arena', contexts'[s]) = WithName(Known(arena, contexts[s]), request.name, request.type)
    BY <1>1, <1>2, <2>1, KnownExtended
  <2> QED BY <1>1, <1>5, <2>2
<1>7. \A d \in DOMAIN contexts : d # s => Known(arena', contexts'[d]) = k[d]
  <2>1. \A d \in DOMAIN contexts : d # s => Known(arena', contexts'[d]) = Known(arena, contexts[d])
    BY <1>1, OrderedDistinct, KnownSame DEF FullInv, Inv, Extended
  <2> QED BY <1>1, <2>1 DEF AllKnown
<1>8. AllKnown(arena', contexts') = [d \in DOMAIN k |-> Known(arena', contexts'[d])]
  BY <1>5 DEF AllKnown, Extended
<1>9. AllKnown(arena', contexts') = [k EXCEPT ![s] = WithName(k[s], request.name, request.type)]
  <2>1. k = [d \in DOMAIN k |-> k[d]]
    BY <1>1 DEF AllKnown
  <2>2. PICK m : m = [k EXCEPT ![s] = WithName(k[s], request.name, request.type)]
    OBVIOUS
  <2>3. \A d \in DOMAIN k : m[d] = Known(arena', contexts'[d])
    BY <1>1, <1>5, <1>6, <1>7, <2>1, <2>2
  <2>4. m = [d \in DOMAIN k |-> m[d]]
    BY <2>2
  <2> QED BY <1>8, <2>2, <2>3, <2>4
<1>10. AllKnown(arena', contexts')
         = [k EXCEPT ![s] = [n \in DOMAIN k[s] \union {request.name} |->
                               IF n = request.name THEN request.type ELSE @[n]]]
  BY <1>9 DEF WithName
<1> QED BY <1>1, <1>2, <1>5, <1>10 DEF Answer, Reply, ScopesOf!Insert, ScopesOf!Answer, ScopesOf!Reply, ScopesOf!Asked

\* Every step is one of Scopes, or changes nothing there.
LEMMA ScopesStep == FullInv /\ [Next]_vars => [ScopesOf!Next]_ScopesOf!scopes
<1> SUFFICES ASSUME FullInv, [Next]_vars PROVE [ScopesOf!Next]_ScopesOf!scopes
  OBVIOUS
<1> USE DEF ScopesOf!scopes
<1>0. ASSUME UNCHANGED <<AllKnown(arena, contexts), request, starved, answer>>
      PROVE  [ScopesOf!Next]_ScopesOf!scopes
  BY <1>0
<1>1. CASE Enter
  <2>1. UNCHANGED <<request, starved, answer>> /\ request.op = "none"
    BY <1>1 DEF Enter, FullInv, Inv, CallOK
  <2>2. CASE Entered(arena, contexts, arena', contexts')
    BY <2>1, <2>2, EnterKnown DEF ScopesOf!Next, ScopesOf!Enter
  <2>3. CASE UNCHANGED <<arena, contexts>>
    BY <1>0, <2>1, <2>3
  <2> QED BY <1>1, <2>2, <2>3, EnterFull
<1>2. CASE Leave
  <2>1. UNCHANGED <<request, starved, answer>> /\ request.op = "none"
    BY <1>2 DEF Leave, FullInv, Inv, CallOK
  <2> QED BY <1>2, <2>1, LeaveKnown DEF ScopesOf!Next, ScopesOf!Leave
<1>3. ASSUME NEW n \in OtherSizes, Other(n) PROVE [ScopesOf!Next]_ScopesOf!scopes
  <2>1. SameAll(arena, contexts, arena', contexts')
    BY <1>3, OtherFull
  <2>2. UNCHANGED <<request, starved, answer>>
    BY <1>3 DEF Other
  <2> QED BY <1>0, <2>1, <2>2, AllKnownSame
<1>4. CASE \/ \E n \in Names, t \in Types : BeginInsert(n, t)
           \/ \E d \in DOMAIN contexts, n \in Names : BeginLookup(d, n)
  BY <1>4, ScopesAsk DEF ScopesOf!Next
<1>5. CASE Grow
  <2>1. SameAll(arena, contexts, arena', contexts')
    BY <1>5, GrowFull
  <2>2. UNCHANGED <<request, starved, answer>>
    BY <1>5 DEF Grow
  <2> QED BY <1>0, <2>1, <2>2, AllKnownSame
<1>6. CASE GrowFails
  <2>1. request.op = "insert" /\ UNCHANGED <<arena, contexts>> /\ starved' = TRUE /\ Answer("refused", NoType)
    BY <1>6 DEF GrowFails, FullInv, Inv, CallOK
  <2>2. UNCHANGED AllKnown(arena, contexts)
    BY <2>1
  <2>3. ScopesOf!Starve
    BY <2>1, <2>2 DEF Answer, Reply, ScopesOf!Starve, ScopesOf!Answer, ScopesOf!Reply
  <2> QED BY <2>3 DEF ScopesOf!Next
<1>7. CASE Halve \/ (Miss /\ request.op # "lookup") \/ UNCHANGED vars
  <2>1. UNCHANGED <<arena, contexts, request, starved, answer>>
    BY <1>7 DEF Halve, Miss, vars
  <2> QED BY <1>0, <2>1
<1>8. CASE Hit
  BY <1>8, ScopesHit DEF ScopesOf!Next
<1>9. CASE Miss /\ request.op = "lookup"
  BY <1>9, ScopesMiss DEF ScopesOf!Next
<1>10. CASE Bind
  <2>1. phase = "bind" /\ UNCHANGED starved
    BY <1>10 DEF Bind
  <2>2. CASE /\ Extended(arena, contexts, request.scope, low, request.name, request.type, arena', contexts')
             /\ Answer("inserted", NoType)
    BY <2>1, <2>2, ScopesBind DEF ScopesOf!Next
  <2>3. CASE UNCHANGED <<arena, contexts, request, answer>>
    BY <1>0, <2>1, <2>3
  <2> QED BY <1>10, <2>2, <2>3, BindFull
<1> QED BY <1>1, <1>2, <1>3, <1>4, <1>5, <1>6, <1>7, <1>8, <1>9, <1>10 DEF Next, Calls, Steps

\* Sorted tables in an arena are scopes (co_bty.c), for all names and sizes: an inner
\* scope begins with what the outer one knows, a name keeps the type it was bound to,
\* what an inner scope adds is not seen outside, and lookups answer what is known.
THEOREM ContextsImplementScopes == Spec => ImplementsScopes
<1>1. Init => FullInv
  BY InitFull
<1>2. FullInv /\ [Next]_vars => FullInv'
  BY FullPreserved
<1>3. Spec => ScopesOf!Init /\ [][ScopesOf!Next]_ScopesOf!scopes
  BY <1>1, <1>2, ScopesInit, ScopesStep, PTL DEF Spec
<1> QED BY <1>3 DEF ImplementsScopes, ScopesOf!Spec
=============================================================================
