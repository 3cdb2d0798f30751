-------------------------- MODULE TypeContextProofs --------------------------
(***************************************************************************)
(* The type checker's contexts never share memory and never overflow their *)
(* tables, whatever the sizes of chunks, tables and names.                 *)
(***************************************************************************)
EXTENDS TypeContext, TLAPS, WellFoundedInduction, SequenceTheorems

-----------------------------------------------------------------------------
(* The arena: what allocation, writing and moving leave.                   *)

\* What memory holds: nothing, pointers, names and types.
Word == {Zero, Junk} \union [chunk : Nat, first : Nat] \union Names \union Types

Chunk == [capacity : Nat, size : Nat, words : UNION {[0 .. n - 1 -> Word] : n \in Nat}]

IsArena(ar) == ar \in Seq(Chunk) /\ \A i \in DOMAIN ar : IsChunk(ar[i])

ObjectType == [chunk : Nat, first : Nat, len : Nat \ {0}]

\* An object lies in the part of a chunk that is in use.
Inside(ar, x) == x.chunk \in DOMAIN ar /\ x.first + x.len <= ar[x.chunk].size

\* The first of some chunks is one of them.
LEMMA FirstExists ==
  ASSUME NEW chunks, chunks \subseteq Nat, chunks # {}
  PROVE  First(chunks) \in chunks
<1>1. \E x \in chunks : \A y \in chunks : ~ (<<y, x>> \in OpToRel(<, Nat))
  BY NatLessThanWellFounded, WFMin
<1>2. PICK x \in chunks : \A y \in chunks : ~ (<<y, x>> \in OpToRel(<, Nat))
  BY <1>1
<1>3. \A y \in chunks : x <= y
  <2> TAKE y \in chunks
  <2>1. ~ (<<y, x>> \in OpToRel(<, Nat))
    BY <1>2
  <2>2. ~ (y < x)
    BY <2>1 DEF OpToRel
  <2> QED BY <2>2
<1> QED BY <1>2, <1>3 DEF First

\* A word of a chunk can be read.
LEMMA ReadType ==
  ASSUME NEW ar, IsArena(ar), NEW c \in DOMAIN ar, NEW o \in 0 .. ar[c].capacity - 1
  PROVE  ar[c].words[o] \in Word
<1>1. ar[c] \in Chunk /\ IsChunk(ar[c])
  BY ElementOfSeq DEF IsArena
<1>2. PICK n \in Nat : ar[c].words \in [0 .. n - 1 -> Word]
  BY <1>1 DEF Chunk
<1>3. o \in 0 .. n - 1
  BY <1>1, <1>2 DEF IsChunk
<1> QED BY <1>2, <1>3

\* Chunks are records with words of their own.
LEMMA ChunkType ==
  ASSUME NEW capacity \in Nat, NEW size \in 0 .. capacity, NEW ws \in [0 .. capacity - 1 -> Word]
  PROVE  LET c == [capacity |-> capacity, size |-> size, words |-> ws]
         IN  c \in Chunk /\ IsChunk(c)
<1>1. ws \in UNION {[0 .. n - 1 -> Word] : n \in Nat}
  OBVIOUS
<1>2. [capacity |-> capacity, size |-> size, words |-> ws] \in Chunk
  BY <1>1 DEF Chunk
<1> QED BY <1>2 DEF IsChunk

\* A new chunk has room for what it is made for.
LEMMA NewChunkType ==
  ASSUME NEW n \in Nat
  PROVE  /\ NewChunk(n) \in Chunk /\ IsChunk(NewChunk(n))
         /\ NewChunk(n).size = 0 /\ NewChunk(n).capacity >= n
<1> DEFINE capacity == IF n > MinSize THEN n ELSE MinSize
           ws == [o \in 0 .. capacity - 1 |-> Zero]
<1>1. capacity \in Nat /\ capacity >= n
  BY MinSizeAssumption
<1>2. ws \in [0 .. capacity - 1 -> Word]
  BY DEF Word
<1>3. NewChunk(n) = [capacity |-> capacity, size |-> 0, words |-> ws]
  BY DEF NewChunk
<1>4. 0 \in 0 .. capacity
  BY <1>1
<1> HIDE DEF ws
<1> QED BY <1>1, <1>2, <1>3, <1>4, ChunkType

\* Writing leaves an arena with chunks of the same sizes.
LEMMA WriteType ==
  ASSUME NEW ar, IsArena(ar), NEW c \in DOMAIN ar, NEW first \in Nat, NEW ws,
         \A o \in DOMAIN ws : ws[o] \in Word
  PROVE  LET w == Write(ar, c, first, ws)
         IN  /\ IsArena(w) /\ Len(w) = Len(ar) /\ DOMAIN w = DOMAIN ar
             /\ \A i \in DOMAIN ar : w[i].capacity = ar[i].capacity /\ w[i].size = ar[i].size
             /\ \A i \in DOMAIN ar : i # c => w[i] = ar[i]
             /\ \A o \in 0 .. ar[c].capacity - 1 :
                  w[c].words[o] = IF o - first \in DOMAIN ws THEN ws[o - first] ELSE ar[c].words[o]
<1> DEFINE new == [o \in 0 .. ar[c].capacity - 1 |->
                     IF o - first \in DOMAIN ws THEN ws[o - first] ELSE ar[c].words[o]]
           chunk == [capacity |-> ar[c].capacity, size |-> ar[c].size, words |-> new]
           w == Write(ar, c, first, ws)
<1>1. ar \in Seq(Chunk) /\ ar[c] \in Chunk /\ IsChunk(ar[c])
  BY ElementOfSeq DEF IsArena
<1>2. new \in [0 .. ar[c].capacity - 1 -> Word]
  BY ReadType
<1>3. w = [ar EXCEPT ![c] = chunk]
  <2>1. DOMAIN ar[c].words = 0 .. ar[c].capacity - 1
    BY <1>1 DEF IsChunk
  <2>2. w = [ar EXCEPT ![c].words = new]
    BY <2>1 DEF Write
  <2>3. [ar[c] EXCEPT !.words = new] = chunk
    <3>1. PICK words \in UNION {[0 .. n - 1 -> Word] : n \in Nat} :
            ar[c] = [capacity |-> ar[c].capacity, size |-> ar[c].size, words |-> words]
      BY <1>1 DEF Chunk
    <3> HIDE DEF new
    <3> QED BY <3>1
  <2> HIDE DEF new
  <2> QED BY <2>2, <2>3, <1>1
<1> HIDE DEF new, w
<1>4. chunk \in Chunk /\ IsChunk(chunk)
  BY <1>1, <1>2, ChunkType DEF IsChunk
<1>5. chunk.capacity = ar[c].capacity /\ chunk.size = ar[c].size /\ chunk.words = new
  OBVIOUS
<1> HIDE DEF chunk
<1>6. w \in Seq(Chunk) /\ Len(w) = Len(ar) /\ \A i \in 1 .. Len(ar) : w[i] = IF i = c THEN chunk ELSE ar[i]
  BY <1>1, <1>3, <1>4, ExceptSeq, LenProperties
<1>7. DOMAIN ar = 1 .. Len(ar) /\ DOMAIN w = 1 .. Len(ar)
  BY <1>1, <1>6, LenProperties
<1>8. IsArena(w)
  BY <1>4, <1>6, <1>7 DEF IsArena
<1>9. \A o \in 0 .. ar[c].capacity - 1 :
        w[c].words[o] = IF o - first \in DOMAIN ws THEN ws[o - first] ELSE ar[c].words[o]
  <2>1. w[c].words = new
    BY <1>5, <1>6, <1>7
  <2> QED BY <2>1 DEF new
<1> QED BY <1>5, <1>6, <1>7, <1>8, <1>9 DEF w

\* What is in use keeps its words.
Keeps(ar, new) ==
  /\ DOMAIN ar \subseteq DOMAIN new
  /\ \A i \in DOMAIN ar : new[i].capacity = ar[i].capacity /\ ar[i].size <= new[i].size
  /\ \A i \in DOMAIN ar : \A o \in 0 .. ar[i].size - 1 : new[i].words[o] = ar[i].words[o]

\* An allocation gives an object of its size that begins behind everything in use,
\* and keeps what is in use.
LEMMA AllocType ==
  ASSUME NEW ar, IsArena(ar), NEW from \in Nat \ {0}, NEW n \in Nat \ {0}
  PROVE  LET a == Alloc(ar, from, n)
         IN  /\ IsArena(a.arena) /\ Keeps(ar, a.arena)
             /\ a.object \in ObjectType /\ a.object.len = n /\ Inside(a.arena, a.object)
             /\ a.object.chunk \in DOMAIN ar => a.object.first = ar[a.object.chunk].size
<1> DEFINE a == Alloc(ar, from, n)
<1>1. ar \in Seq(Chunk) /\ DOMAIN ar = 1 .. Len(ar) /\ Len(ar) \in Nat
  BY LenProperties DEF IsArena
<1>2. \A i \in DOMAIN ar : ar[i] \in Chunk /\ IsChunk(ar[i])
  BY ElementOfSeq DEF IsArena
<1>3. CASE Fitting(ar, from, n) # {}
  <2> DEFINE i == First(Fitting(ar, from, n))
             old == ar[i].size
             zeros == [o \in 0 .. n - 1 |-> Zero]
             taken == [ar EXCEPT ![i].size = @ + n]
  <2>1. i \in Fitting(ar, from, n)
    <3>1. Fitting(ar, from, n) \subseteq Nat
      BY <1>1 DEF Fitting
    <3> QED BY <1>3, <3>1, FirstExists
  <2>2. i \in DOMAIN ar /\ ar[i].capacity - ar[i].size >= n
    BY <1>1, <2>1 DEF Fitting
  <2>3. old \in Nat /\ ar[i].capacity \in Nat /\ old + n <= ar[i].capacity
    BY <1>2, <2>2 DEF IsChunk
  <2>4. a = [arena |-> Write(taken, i, old, zeros), object |-> Object(i, old, n)]
    BY <1>3 DEF Alloc
  <2> HIDE DEF i
  <2> DEFINE chunk == [capacity |-> ar[i].capacity, size |-> old + n, words |-> ar[i].words]
  <2>5. taken = [ar EXCEPT ![i] = chunk]
    <3>1. PICK words \in UNION {[0 .. m - 1 -> Word] : m \in Nat} :
            ar[i] = [capacity |-> ar[i].capacity, size |-> ar[i].size, words |-> words]
      BY <1>2, <2>2 DEF Chunk
    <3>2. [ar[i] EXCEPT !.size = @ + n] = chunk
      BY <3>1
    <3> QED BY <3>2, <2>2
  <2>6. chunk \in Chunk /\ IsChunk(chunk)
    <3>1. ar[i].words \in [0 .. ar[i].capacity - 1 -> Word]
      <4>1. PICK m \in Nat : ar[i].words \in [0 .. m - 1 -> Word]
        BY <1>2, <2>2 DEF Chunk
      <4>2. DOMAIN ar[i].words = 0 .. ar[i].capacity - 1
        BY <1>2, <2>2 DEF IsChunk
      <4> QED BY <4>1, <4>2
    <3> QED BY <3>1, <2>3, ChunkType
  <2>7. chunk.capacity = ar[i].capacity /\ chunk.size = old + n /\ chunk.words = ar[i].words
    OBVIOUS
  <2> HIDE DEF chunk, taken
  <2>8. /\ taken \in Seq(Chunk) /\ Len(taken) = Len(ar)
        /\ \A j \in 1 .. Len(ar) : taken[j] = IF j = i THEN chunk ELSE ar[j]
    BY <1>1, <2>2, <2>5, <2>6, ExceptSeq, LenProperties
  <2>9. DOMAIN taken = DOMAIN ar
    BY <1>1, <2>8, LenProperties
  <2>10. IsArena(taken)
    BY <1>1, <1>2, <2>6, <2>8, <2>9 DEF IsArena
  <2>11. \A o \in DOMAIN zeros : zeros[o] \in Word
    BY DEF Word
  <2>12. DOMAIN zeros = 0 .. n - 1
    OBVIOUS
  <2> HIDE DEF zeros
  <2> DEFINE w == Write(taken, i, old, zeros)
  <2>13. /\ IsArena(w) /\ DOMAIN w = DOMAIN taken
         /\ \A j \in DOMAIN taken : w[j].capacity = taken[j].capacity /\ w[j].size = taken[j].size
         /\ \A j \in DOMAIN taken : j # i => w[j] = taken[j]
         /\ \A o \in 0 .. taken[i].capacity - 1 :
              w[i].words[o] = IF o - old \in DOMAIN zeros THEN zeros[o - old] ELSE taken[i].words[o]
    BY <2>2, <2>3, <2>9, <2>10, <2>11, WriteType
  <2> HIDE DEF w
  <2>14. taken[i] = chunk /\ \A j \in DOMAIN ar : j # i => taken[j] = ar[j]
    BY <1>1, <2>2, <2>8
  <2>15. Keeps(ar, w)
    <3>1. \A j \in DOMAIN ar : w[j].capacity = ar[j].capacity /\ ar[j].size <= w[j].size
      <4> TAKE j \in DOMAIN ar
      <4>1. ar[j].size \in Nat
        BY <1>2 DEF IsChunk
      <4> QED BY <4>1, <2>3, <2>7, <2>9, <2>13, <2>14
    <3>2. ASSUME NEW j \in DOMAIN ar, NEW o \in 0 .. ar[j].size - 1
          PROVE  w[j].words[o] = ar[j].words[o]
      <4>1. CASE j # i
        BY <4>1, <2>9, <2>13, <2>14
      <4>2. CASE j = i
        <5>1. o \in 0 .. taken[i].capacity - 1 /\ o - old \notin 0 .. n - 1
          BY <4>2, <2>3, <2>7, <2>14
        <5> QED BY <5>1, <4>2, <2>7, <2>12, <2>13, <2>14
      <4> QED BY <4>1, <4>2
    <3> QED BY <3>1, <3>2, <2>9, <2>13 DEF Keeps
  <2>16. i \in Nat
    BY <1>1, <2>2
  <2>17. Object(i, old, n) \in ObjectType
    BY <2>3, <2>16 DEF Object, ObjectType
  <2>18. Inside(w, Object(i, old, n))
    BY <2>2, <2>3, <2>7, <2>9, <2>13, <2>14 DEF Inside, Object
  <2>19. a.arena = w /\ a.object = Object(i, old, n)
    BY <2>4 DEF w
  <2>20. Object(i, old, n).len = n /\ Object(i, old, n).first = old /\ Object(i, old, n).chunk = i
    BY DEF Object
  <2> QED BY <2>13, <2>15, <2>17, <2>18, <2>19, <2>20
<1>4. CASE Fitting(ar, from, n) = {}
  <2> DEFINE chunk == [NewChunk(n) EXCEPT !.size = n]
             x == Object(Len(ar) + 1, 0, n)
             w == Append(ar, chunk)
  <2>1. a = [arena |-> w, object |-> x]
    BY <1>4 DEF Alloc
  <2>2. /\ NewChunk(n) \in Chunk /\ IsChunk(NewChunk(n)) /\ NewChunk(n).capacity >= n
    BY NewChunkType
  <2>3. chunk \in Chunk /\ IsChunk(chunk) /\ chunk.size = n
    <3>1. PICK words \in UNION {[0 .. m - 1 -> Word] : m \in Nat} :
            NewChunk(n) = [capacity |-> NewChunk(n).capacity, size |-> NewChunk(n).size, words |-> words]
      BY <2>2 DEF Chunk
    <3>2. chunk = [capacity |-> NewChunk(n).capacity, size |-> n, words |-> words]
      BY <3>1
    <3>3. words = NewChunk(n).words
      BY <3>1
    <3>4. words \in [0 .. NewChunk(n).capacity - 1 -> Word]
      <4>1. PICK m \in Nat : words \in [0 .. m - 1 -> Word]
        BY <3>1
      <4>2. DOMAIN words = 0 .. NewChunk(n).capacity - 1
        BY <3>3, <2>2 DEF IsChunk
      <4> QED BY <4>1, <4>2
    <3>5. NewChunk(n).capacity \in Nat /\ n \in 0 .. NewChunk(n).capacity
      BY <2>2 DEF IsChunk
    <3> QED BY <3>2, <3>4, <3>5, ChunkType
  <2> HIDE DEF chunk
  <2>4. /\ w \in Seq(Chunk) /\ Len(w) = Len(ar) + 1 /\ DOMAIN w = 1 .. Len(ar) + 1
        /\ \A i \in 1 .. Len(ar) : w[i] = ar[i]
        /\ w[Len(ar) + 1] = chunk
    BY <1>1, <2>3, AppendProperties, LenProperties
  <2> HIDE DEF w
  <2>5. IsArena(w)
    BY <1>1, <1>2, <2>3, <2>4 DEF IsArena
  <2>6. Keeps(ar, w)
    <3>1. \A i \in DOMAIN ar : ar[i].size \in Nat
      BY <1>2 DEF IsChunk
    <3> QED BY <1>1, <2>4, <3>1 DEF Keeps
  <2>7. x \in ObjectType /\ x.len = n /\ x.chunk = Len(ar) + 1 /\ x.first = 0
    BY <1>1 DEF Object, ObjectType
  <2>8. Inside(w, x)
    BY <1>1, <2>3, <2>4, <2>7 DEF Inside
  <2> HIDE DEF x
  <2>9. x.chunk \notin DOMAIN ar
    BY <1>1, <2>7
  <2> QED BY <2>1, <2>5, <2>6, <2>7, <2>8, <2>9
<1> QED BY <1>3, <1>4

-----------------------------------------------------------------------------
(* The objects of the type checker.                                        *)


Objects(ar, objs) ==
  /\ objs \in Seq(ObjectType)
  /\ \A i \in DOMAIN objs : Inside(ar, objs[i])
  /\ \A i, j \in DOMAIN objs : i # j => Apart(objs[i], objs[j])

\* An object that begins behind everything in use is apart from all others.
LEMMA FreshObject ==
  ASSUME NEW ar, IsArena(ar), NEW objs, Objects(ar, objs), NEW new, NEW x,
         IsArena(new), Keeps(ar, new), x \in ObjectType, Inside(new, x),
         x.chunk \in DOMAIN ar => x.first = ar[x.chunk].size
  PROVE  /\ Objects(new, Append(objs, x))
         /\ \A i \in DOMAIN objs : Apart(objs[i], x)
         /\ \A i \in DOMAIN objs : i \in DOMAIN Append(objs, x) /\ Append(objs, x)[i] = objs[i]
         /\ \E i \in DOMAIN Append(objs, x) : Append(objs, x)[i] = x
<1> DEFINE more == Append(objs, x)
<1>1. /\ objs \in Seq(ObjectType) /\ Len(objs) \in Nat /\ DOMAIN objs = 1 .. Len(objs)
      /\ \A i \in DOMAIN objs : objs[i] \in ObjectType /\ Inside(ar, objs[i])
  BY ElementOfSeq, LenProperties DEF Objects
<1>2. /\ more \in Seq(ObjectType) /\ DOMAIN more = 1 .. Len(objs) + 1
      /\ \A i \in 1 .. Len(objs) : more[i] = objs[i]
      /\ more[Len(objs) + 1] = x
  BY <1>1, AppendProperties, LenProperties
<1> HIDE DEF more
<1>3. \A c \in DOMAIN ar : ar[c].size \in Nat /\ c \in DOMAIN new /\ new[c].size \in Nat /\ ar[c].size <= new[c].size
  BY DEF IsArena, IsChunk, Keeps
<1>4. \A i \in DOMAIN objs : Inside(new, objs[i])
  <2> TAKE i \in DOMAIN objs
  <2>1. objs[i].first \in Nat /\ objs[i].len \in Nat
    BY <1>1 DEF ObjectType
  <2> QED BY <2>1, <1>1, <1>3 DEF Inside
<1>5. \A i \in DOMAIN objs : Apart(objs[i], x) /\ Apart(x, objs[i])
  <2> TAKE i \in DOMAIN objs
  <2>1. /\ objs[i].first \in Nat /\ objs[i].len \in Nat /\ x.first \in Nat /\ x.len \in Nat
    BY <1>1 DEF ObjectType
  <2>2. objs[i].chunk \in DOMAIN ar /\ objs[i].first + objs[i].len <= ar[objs[i].chunk].size
    BY <1>1 DEF Inside
  <2> QED BY <2>1, <2>2, <1>3 DEF Apart
<1>6. \A i \in DOMAIN more : Inside(new, more[i])
  BY <1>1, <1>2, <1>4
<1>7. ASSUME NEW i \in DOMAIN more, NEW j \in DOMAIN more, i # j
      PROVE  Apart(more[i], more[j])
  <2>1. CASE i \in 1 .. Len(objs) /\ j \in 1 .. Len(objs)
    BY <2>1, <1>1, <1>2, <1>7 DEF Objects
  <2>2. CASE i = Len(objs) + 1
    BY <2>2, <1>1, <1>2, <1>5, <1>7
  <2>3. CASE j = Len(objs) + 1
    BY <2>3, <1>1, <1>2, <1>5, <1>7
  <2> QED BY <2>1, <2>2, <2>3, <1>1, <1>2
<1>8. Objects(new, more)
  BY <1>2, <1>6, <1>7 DEF Objects
<1>9. Len(objs) + 1 \in DOMAIN more /\ \A i \in DOMAIN objs : i \in DOMAIN more
  BY <1>1, <1>2
<1> QED BY <1>1, <1>2, <1>5, <1>8, <1>9 DEF more

SameSizes(ar, w) ==
  /\ IsArena(w) /\ DOMAIN w = DOMAIN ar
  /\ \A i \in DOMAIN ar : w[i].capacity = ar[i].capacity /\ w[i].size = ar[i].size

\* Writing moves no object.
LEMMA WrittenObjects ==
  ASSUME NEW ar, NEW w, SameSizes(ar, w), NEW objs, Objects(ar, objs)
  PROVE  Objects(w, objs)
BY DEF SameSizes, Objects, Inside

ContextType == [chunk : Nat, first : Nat, size : Nat, capacity : Nat \ {0}]

RequestType ==
  [op : {"none", "insert", "lookup"}, scope : Nat, name : Names, type : Types \union {NoType}]

\* Contexts whose tables are objects, each with a table of its own.
Contexts(ar, objs, cs) ==
  /\ cs \in Seq(ContextType) /\ cs # <<>>
  /\ \A d \in DOMAIN cs : cs[d].size <= cs[d].capacity /\ cs[d].chunk \in DOMAIN ar
  /\ \A d \in DOMAIN cs : \E i \in DOMAIN objs : objs[i] = Table(cs[d])
  /\ \A d, e \in DOMAIN cs : d # e => Apart(Table(cs[d]), Table(cs[e]))

\* What a step of a call expects.
CallOK ==
  /\ request \in RequestType /\ request.scope \in DOMAIN contexts
  /\ request.op = "insert" => request.type \in Types
  /\ phase \in {"idle", "grow", "search", "bind", "dead"}
  /\ phase = "idle" => request.op = "none" /\ request.scope = 1
  /\ phase \in {"grow", "bind"} => request.op = "insert"
  /\ phase = "search" => request.op # "none"
  /\ phase \in {"search", "bind"} =>
       /\ low \in 0 .. high + 1 /\ high \in -1 .. Searched.size - 1
       /\ request.op = "insert" => Searched.size < Searched.capacity

\* The invariant: what the arena holds is typed, all objects lie apart in what is in
\* use, the tables of contexts are among them, and calls find what they expect.
Inv ==
  /\ IsArena(arena) /\ 1 \in DOMAIN arena
  /\ Objects(arena, objects)
  /\ Contexts(arena, objects, contexts)
  /\ CallOK

\* A context lies in the arena with all its entries.
LEMMA ContextInArena ==
  ASSUME NEW ar, IsArena(ar), NEW objs, Objects(ar, objs), NEW cs, Contexts(ar, objs, cs),
         NEW d \in DOMAIN cs
  PROVE  LET c == cs[d]
         IN  /\ c \in ContextType /\ c.chunk \in DOMAIN ar
             /\ c.first + 2 * c.capacity <= ar[c.chunk].size
             /\ ar[c.chunk].size <= ar[c.chunk].capacity
             /\ ar[c.chunk].size \in Nat /\ ar[c.chunk].capacity \in Nat
             /\ c.size <= c.capacity
<1> DEFINE c == cs[d]
<1>1. c \in ContextType
  BY ElementOfSeq, LenProperties DEF Contexts
<1>2. PICK i \in DOMAIN objs : objs[i] = Table(c)
  BY DEF Contexts
<1>3. Inside(ar, Table(c))
  BY <1>2 DEF Objects
<1>4. c.chunk \in DOMAIN ar /\ c.first + 2 * c.capacity <= ar[c.chunk].size
  BY <1>3 DEF Inside, Table, Object, TableWords
<1>5. IsChunk(ar[c.chunk])
  BY <1>4 DEF IsArena
<1>6. c.size <= c.capacity
  BY DEF Contexts
<1> QED BY <1>1, <1>4, <1>5, <1>6 DEF IsChunk

\* Properties follow from the invariant.
LEMMA InvImplies == Inv => TypeOK /\ Separate
<1> SUFFICES ASSUME Inv PROVE TypeOK /\ Separate
  OBVIOUS
<1>1. ASSUME NEW d \in DOMAIN contexts PROVE IsContext(contexts[d])
  BY ContextInArena DEF Inv, IsContext, ContextType
<1>2. TypeOK
  BY <1>1 DEF Inv, IsArena, Contexts, CallOK, TypeOK
<1>3. Separate
  BY DEF Inv, Objects, Contexts, Separate
<1> QED BY <1>2, <1>3

\* More objects disturb no context.
LEMMA MoreObjects ==
  ASSUME NEW ar, NEW objs, NEW cs, Contexts(ar, objs, cs),
         NEW new, NEW more, DOMAIN ar \subseteq DOMAIN new,
         \A i \in DOMAIN objs : \E j \in DOMAIN more : more[j] = objs[i]
  PROVE  Contexts(new, more, cs)
<1>1. ASSUME NEW d \in DOMAIN cs PROVE \E j \in DOMAIN more : more[j] = Table(cs[d])
  <2>1. PICK i \in DOMAIN objs : objs[i] = Table(cs[d])
    BY DEF Contexts
  <2> QED BY <2>1
<1> QED BY <1>1 DEF Contexts

\* A context on an object that is apart from all others, in the place of an old one
\* or as a new one.
LEMMA ContextOn ==
  ASSUME NEW ar, NEW objs, NEW cs, Contexts(ar, objs, cs),
         NEW new, NEW more, DOMAIN ar \subseteq DOMAIN new,
         \A i \in DOMAIN objs : \E j \in DOMAIN more : more[j] = objs[i],
         NEW x \in ObjectType, Inside(new, x), \A i \in DOMAIN objs : Apart(objs[i], x),
         \E j \in DOMAIN more : more[j] = x,
         NEW size \in Nat, NEW capacity \in Nat \ {0}, size <= capacity, x.len = 2 * capacity
  PROVE  /\ Contexts(new, more, Append(cs, Context(x, size, capacity)))
         /\ \A d \in DOMAIN cs : Contexts(new, more, [cs EXCEPT ![d] = Context(x, size, capacity)])
<1> DEFINE c == Context(x, size, capacity)
<1>1. c \in ContextType /\ Table(c) = x /\ c.size <= c.capacity /\ c.chunk \in DOMAIN new
  BY DEF Context, ContextType, Table, Object, TableWords, ObjectType, Inside
<1> HIDE DEF c
<1>2. Contexts(new, more, cs)
  BY MoreObjects
<1>3. cs \in Seq(ContextType) /\ Len(cs) \in Nat /\ DOMAIN cs = 1 .. Len(cs)
  BY LenProperties DEF Contexts
<1>4. \A d \in DOMAIN cs : Apart(Table(cs[d]), x) /\ Apart(x, Table(cs[d]))
  <2> TAKE d \in DOMAIN cs
  <2>1. PICK i \in DOMAIN objs : objs[i] = Table(cs[d])
    BY DEF Contexts
  <2>2. Apart(Table(cs[d]), x)
    BY <2>1
  <2> QED BY <2>2 DEF Apart
<1>5. Contexts(new, more, Append(cs, c))
  <2>1. /\ Append(cs, c) \in Seq(ContextType) /\ DOMAIN Append(cs, c) = 1 .. Len(cs) + 1
        /\ \A d \in 1 .. Len(cs) : Append(cs, c)[d] = cs[d]
        /\ Append(cs, c)[Len(cs) + 1] = c
        /\ Append(cs, c) # <<>>
    BY <1>1, <1>3, AppendProperties, LenProperties
  <2>2. ASSUME NEW d \in DOMAIN Append(cs, c)
        PROVE  /\ Append(cs, c)[d].size <= Append(cs, c)[d].capacity
               /\ Append(cs, c)[d].chunk \in DOMAIN new
               /\ \E i \in DOMAIN more : more[i] = Table(Append(cs, c)[d])
    BY <1>1, <1>2, <1>3, <2>1 DEF Contexts
  <2>3. ASSUME NEW d \in DOMAIN Append(cs, c), NEW e \in DOMAIN Append(cs, c), d # e
        PROVE  Apart(Table(Append(cs, c)[d]), Table(Append(cs, c)[e]))
    <3>1. CASE d \in 1 .. Len(cs) /\ e \in 1 .. Len(cs)
      BY <1>2, <1>3, <2>1, <2>3, <3>1 DEF Contexts
    <3>2. CASE d = Len(cs) + 1
      BY <1>1, <1>3, <1>4, <2>1, <2>3, <3>2
    <3>3. CASE e = Len(cs) + 1
      BY <1>1, <1>3, <1>4, <2>1, <2>3, <3>3
    <3> QED BY <1>3, <2>1, <3>1, <3>2, <3>3
  <2> QED BY <2>1, <2>2, <2>3 DEF Contexts
<1>6. ASSUME NEW k \in DOMAIN cs PROVE Contexts(new, more, [cs EXCEPT ![k] = c])
  <2> DEFINE ds == [cs EXCEPT ![k] = c]
  <2>1. /\ ds \in Seq(ContextType) /\ DOMAIN ds = DOMAIN cs /\ ds # <<>>
        /\ ds[k] = c /\ \A d \in DOMAIN cs : d # k => ds[d] = cs[d]
    BY <1>1, <1>3, ExceptSeq, LenProperties
  <2> HIDE DEF ds
  <2>2. ASSUME NEW d \in DOMAIN ds
        PROVE  /\ ds[d].size <= ds[d].capacity /\ ds[d].chunk \in DOMAIN new
               /\ \E i \in DOMAIN more : more[i] = Table(ds[d])
    <3>1. CASE d = k
      BY <1>1, <2>1, <3>1
    <3>2. CASE d # k
      BY <1>2, <2>1, <3>2 DEF Contexts
    <3> QED BY <3>1, <3>2
  <2>3. ASSUME NEW d \in DOMAIN ds, NEW e \in DOMAIN ds, d # e
        PROVE  Apart(Table(ds[d]), Table(ds[e]))
    <3>1. CASE d = k
      BY <1>1, <1>4, <2>1, <2>3, <3>1
    <3>2. CASE e = k
      BY <1>1, <1>4, <2>1, <2>3, <3>2
    <3>3. CASE d # k /\ e # k
      BY <1>2, <2>1, <2>3, <3>3 DEF Contexts
    <3> QED BY <3>1, <3>2, <3>3
  <2>4. Contexts(new, more, ds)
    BY <2>1, <2>2, <2>3 DEF Contexts
  <2> QED BY <2>4 DEF ds
<1> QED BY <1>5, <1>6 DEF c

\* A context with room gets another entry.
LEMMA OneEntryMore ==
  ASSUME NEW ar, NEW objs, NEW cs, Contexts(ar, objs, cs),
         NEW k \in DOMAIN cs, cs[k].size < cs[k].capacity
  PROVE  Contexts(ar, objs, [cs EXCEPT ![k].size = @ + 1])
<1> DEFINE c == [cs[k] EXCEPT !.size = @ + 1]
           ds == [cs EXCEPT ![k] = c]
<1>1. cs \in Seq(ContextType) /\ cs[k] \in ContextType
  BY ElementOfSeq, LenProperties DEF Contexts
<1>2. /\ c \in ContextType /\ c.size <= c.capacity /\ c.chunk = cs[k].chunk
      /\ c.first = cs[k].first /\ c.capacity = cs[k].capacity
  <2>1. PICK chunk \in Nat, first \in Nat, size \in Nat, capacity \in Nat \ {0} :
          cs[k] = [chunk |-> chunk, first |-> first, size |-> size, capacity |-> capacity]
    BY <1>1 DEF ContextType
  <2>2. c = [chunk |-> chunk, first |-> first, size |-> size + 1, capacity |-> capacity]
    BY <2>1
  <2> HIDE DEF c
  <2> QED BY <2>1, <2>2 DEF ContextType
<1>3. Table(c) = Table(cs[k])
  BY <1>2 DEF Table
<1> HIDE DEF c
<1>4. /\ ds \in Seq(ContextType) /\ DOMAIN ds = DOMAIN cs /\ ds # <<>>
      /\ ds[k] = c /\ \A d \in DOMAIN cs : d # k => ds[d] = cs[d]
  BY <1>1, <1>2, ExceptSeq, LenProperties
<1> HIDE DEF ds
<1>5. \A d \in DOMAIN cs : Table(ds[d]) = Table(cs[d])
  BY <1>3, <1>4
<1>6. \A d \in DOMAIN ds : ds[d].size <= ds[d].capacity /\ ds[d].chunk \in DOMAIN ar
  BY <1>2, <1>4 DEF Contexts
<1>7. Contexts(ar, objs, ds)
  BY <1>4, <1>5, <1>6 DEF Contexts
<1> QED BY <1>7 DEF ds, c

\* The innermost scope is left.
LEMMA OneContextLess ==
  ASSUME NEW ar, NEW objs, NEW cs, Contexts(ar, objs, cs), Len(cs) > 1
  PROVE  /\ Contexts(ar, objs, SubSeq(cs, 1, Len(cs) - 1))
         /\ 1 \in DOMAIN SubSeq(cs, 1, Len(cs) - 1)
<1> DEFINE ds == SubSeq(cs, 1, Len(cs) - 1)
<1>1. cs \in Seq(ContextType) /\ Len(cs) \in Nat /\ DOMAIN cs = 1 .. Len(cs)
  BY LenProperties DEF Contexts
<1>2. /\ ds \in Seq(ContextType) /\ DOMAIN ds = 1 .. Len(cs) - 1
      /\ \A d \in DOMAIN ds : ds[d] = cs[d]
  BY <1>1, SubSeqProperties, LenProperties
<1> HIDE DEF ds
<1>3. 1 \in DOMAIN ds /\ ds # <<>> /\ DOMAIN ds \subseteq DOMAIN cs
  BY <1>1, <1>2
<1>4. Contexts(ar, objs, ds)
  BY <1>2, <1>3 DEF Contexts
<1> QED BY <1>3, <1>4 DEF ds

\* Objects and an arena to which an object of n words has been added, apart from
\* and behind all others, with nothing else changed.
Adds(ar, objs, new, more, x, n) ==
  /\ IsArena(new) /\ DOMAIN ar \subseteq DOMAIN new /\ Keeps(ar, new)
  /\ x.chunk \in DOMAIN ar => ar[x.chunk].size <= x.first
  /\ Objects(new, more)
  /\ x \in ObjectType /\ x.len = n /\ Inside(new, x)
  /\ \A i \in DOMAIN objs : Apart(objs[i], x) /\ \E j \in DOMAIN more : more[j] = objs[i]
  /\ \E j \in DOMAIN more : more[j] = x

\* A new context and its table are apart from everything.
LEMMA NewContextType ==
  ASSUME NEW ar, IsArena(ar), NEW objs, Objects(ar, objs), NEW capacity \in Nat \ {0}
  PROVE  LET new  == NewContext(ar, capacity)
             more == Append(Append(objs, new.context), new.table)
         IN  Adds(ar, objs, new.arena, more, new.table, 2 * capacity)
<1> DEFINE c == Alloc(ar, 1, ContextWords)
           t == Alloc(c.arena, 1, TableWords(capacity))
           new == NewContext(ar, capacity)
           one == Append(objs, c.object)
           more == Append(one, t.object)
<1>1. new.arena = t.arena /\ new.context = c.object /\ new.table = t.object
  BY DEF NewContext
<1>2. ContextWords \in Nat \ {0} /\ TableWords(capacity) \in Nat \ {0} /\ TableWords(capacity) = 2 * capacity
  BY DEF ContextWords, TableWords
<1> HIDE DEF new, one, more
<1>a. 1 \in Nat \ {0}
  OBVIOUS
<1>3. /\ IsArena(c.arena) /\ Keeps(ar, c.arena)
      /\ c.object \in ObjectType /\ Inside(c.arena, c.object)
      /\ c.object.chunk \in DOMAIN ar => c.object.first = ar[c.object.chunk].size
  BY <1>2, <1>a, AllocType
<1>4. /\ IsArena(t.arena) /\ Keeps(c.arena, t.arena)
      /\ t.object \in ObjectType /\ t.object.len = 2 * capacity /\ Inside(t.arena, t.object)
      /\ t.object.chunk \in DOMAIN c.arena => t.object.first = c.arena[t.object.chunk].size
  <2> HIDE DEF c
  <2> QED BY <1>2, <1>3, <1>a, AllocType
<1> HIDE DEF c, t
<1>5. /\ Objects(c.arena, one)
      /\ \A i \in DOMAIN objs : i \in DOMAIN one /\ one[i] = objs[i]
  <2>1. \A i \in DOMAIN objs : i \in DOMAIN Append(objs, c.object) /\ Append(objs, c.object)[i] = objs[i]
    BY <1>3, FreshObject
  <2>2. Objects(c.arena, Append(objs, c.object))
    BY <1>3, FreshObject
  <2> QED BY <2>1, <2>2 DEF one
<1>6. /\ Objects(t.arena, more)
      /\ \A i \in DOMAIN one : Apart(one[i], t.object)
      /\ \A i \in DOMAIN one : i \in DOMAIN more /\ more[i] = one[i]
      /\ \E i \in DOMAIN more : more[i] = t.object
  <2>1. Objects(c.arena, one) /\ IsArena(c.arena)
    BY <1>3, <1>5
  <2>2. /\ Objects(t.arena, Append(one, t.object))
        /\ \A i \in DOMAIN one : Apart(one[i], t.object)
        /\ \A i \in DOMAIN one : i \in DOMAIN Append(one, t.object) /\ Append(one, t.object)[i] = one[i]
        /\ \E i \in DOMAIN Append(one, t.object) : Append(one, t.object)[i] = t.object
    BY <1>4, <2>1, FreshObject
  <2> QED BY <2>2 DEF more
<1>7. /\ DOMAIN ar \subseteq DOMAIN t.arena /\ Keeps(ar, t.arena)
      /\ t.object.chunk \in DOMAIN ar => ar[t.object.chunk].size <= t.object.first
  <2>1. \A i \in DOMAIN ar : ar[i].size \in Nat /\ c.arena[i].size \in Nat /\ t.arena[i].size \in Nat
    BY <1>3, <1>4 DEF IsArena, IsChunk, Keeps
  <2> QED BY <2>1, <1>3, <1>4 DEF Keeps
<1>8. more = Append(Append(objs, new.context), new.table)
  BY <1>1 DEF more, one
<1>9. \A i \in DOMAIN objs : Apart(objs[i], t.object) /\ \E j \in DOMAIN more : more[j] = objs[i]
  BY <1>5, <1>6
<1>10. Adds(ar, objs, t.arena, more, t.object, 2 * capacity)
  BY <1>4, <1>6, <1>7, <1>9 DEF Adds
<1> QED BY <1>1, <1>8, <1>10 DEF new

\* Writing words that are typed leaves the sizes of all chunks.
LEMMA WrittenSizes ==
  ASSUME NEW ar, IsArena(ar), NEW c \in DOMAIN ar, NEW first \in Nat, NEW ws,
         \A o \in DOMAIN ws : ws[o] \in Word
  PROVE  SameSizes(ar, Write(ar, c, first, ws))
BY WriteType DEF SameSizes

\* Words of a part of a chunk can be read.
LEMMA WordsType ==
  ASSUME NEW ar, IsArena(ar), NEW c \in DOMAIN ar, NEW first \in Nat, NEW n \in Nat,
         first + n <= ar[c].capacity
  PROVE  \A o \in DOMAIN Words(ar, c, first, n) : Words(ar, c, first, n)[o] \in Word
<1>1. ar[c].capacity \in Nat
  BY DEF IsArena, IsChunk
<1>2. ASSUME NEW i \in 0 .. n - 1 PROVE ar[c].words[first + i] \in Word
  <2>1. first + i \in 0 .. ar[c].capacity - 1
    BY <1>1
  <2> QED BY <2>1, ReadType
<1> QED BY <1>2 DEF Words

\* Moving an object leaves the sizes of all chunks.
LEMMA MovedSizes ==
  ASSUME NEW ar, IsArena(ar), NEW chunk \in DOMAIN ar, NEW first \in 0 .. ar[chunk].capacity,
         NEW new, IsArena(new.arena), new.object \in ObjectType, Inside(new.arena, new.object)
  PROVE  SameSizes(new.arena, Moved(ar, chunk, first, new))
<1> DEFINE to   == new.object
           rest == ar[chunk].capacity - first
           len  == IF to.len < rest THEN to.len ELSE rest
           Overlaps(i) == to.chunk = chunk /\ first + i >= to.first
           ws == [i \in 0 .. len - 1 |-> IF Overlaps(i) THEN Junk ELSE ar[chunk].words[first + i]]
<1>1. ar[chunk].capacity \in Nat /\ first \in Nat
  BY DEF IsArena, IsChunk
<1>2. to.len \in Nat /\ to.first \in Nat /\ to.chunk \in DOMAIN new.arena
  BY DEF ObjectType, Inside
<1>3. len \in Nat /\ first + len <= ar[chunk].capacity
  BY <1>1, <1>2
<1> HIDE DEF len
<1>4. ASSUME NEW i \in 0 .. len - 1 PROVE ws[i] \in Word
  <2>1. first + i \in 0 .. ar[chunk].capacity - 1
    BY <1>1, <1>3
  <2>2. ar[chunk].words[first + i] \in Word /\ Junk \in Word
    BY <2>1, ReadType DEF Word
  <2> QED BY <2>2
<1>5. \A i \in DOMAIN ws : ws[i] \in Word
  BY <1>4
<1>6. Moved(ar, chunk, first, new) = Write(new.arena, to.chunk, to.first, ws)
  BY DEF Moved, len
<1> HIDE DEF ws
<1> QED BY <1>2, <1>5, <1>6, WrittenSizes

\* So does writing an entry and its name.
LEMMA EntrySizes ==
  ASSUME NEW ar, IsArena(ar), NEW c, c.chunk \in DOMAIN ar, c.first \in Nat, NEW i \in Nat,
         NEW str \in ObjectType, str.chunk \in DOMAIN ar, NEW n \in Names, NEW t \in Types
  PROVE  SameSizes(ar, WriteEntry(ar, c, i, str, n, t))
<1> DEFINE ns == [o \in {0} |-> n]
           es == [o \in 0 .. 1 |-> IF o = 0 THEN Pointer(str) ELSE t]
           named == Write(ar, str.chunk, str.first, ns)
<1>1. \A o \in DOMAIN ns : ns[o] \in Word
  BY DEF Word
<1>2. \A o \in DOMAIN es : es[o] \in Word
  BY DEF Word, Pointer, ObjectType
<1>3. str.first \in Nat /\ c.first + 2 * i \in Nat
  BY DEF ObjectType
<1>4. WriteEntry(ar, c, i, str, n, t) = Write(named, c.chunk, c.first + 2 * i, es)
  BY DEF WriteEntry
<1> HIDE DEF ns, es
<1>5. SameSizes(ar, named)
  BY <1>1, <1>3, WrittenSizes
<1> HIDE DEF named
<1>6. IsArena(named) /\ c.chunk \in DOMAIN named
  BY <1>5 DEF SameSizes
<1>7. SameSizes(named, Write(named, c.chunk, c.first + 2 * i, es))
  BY <1>2, <1>3, <1>6, WrittenSizes
<1> QED BY <1>4, <1>5, <1>7 DEF SameSizes

\* An allocated object is one more that lies apart.
LEMMA AllocObjects ==
  ASSUME NEW ar, IsArena(ar), NEW objs, Objects(ar, objs), NEW from \in Nat \ {0}, NEW n \in Nat \ {0}
  PROVE  LET a    == Alloc(ar, from, n)
             more == Append(objs, a.object)
         IN  Adds(ar, objs, a.arena, more, a.object, n)
<1> DEFINE a == Alloc(ar, from, n)
<1>1. /\ IsArena(a.arena) /\ Keeps(ar, a.arena)
      /\ a.object \in ObjectType /\ a.object.len = n /\ Inside(a.arena, a.object)
      /\ a.object.chunk \in DOMAIN ar => a.object.first = ar[a.object.chunk].size
  BY AllocType
<1> HIDE DEF a
<1>2. /\ Objects(a.arena, Append(objs, a.object))
      /\ \A i \in DOMAIN objs : Apart(objs[i], a.object)
      /\ \A i \in DOMAIN objs : i \in DOMAIN Append(objs, a.object) /\ Append(objs, a.object)[i] = objs[i]
      /\ \E i \in DOMAIN Append(objs, a.object) : Append(objs, a.object)[i] = a.object
  BY <1>1, FreshObject
<1>3. \A i \in DOMAIN objs : \E j \in DOMAIN Append(objs, a.object) : Append(objs, a.object)[j] = objs[i]
  BY <1>2
<1>4. a.object.chunk \in DOMAIN ar => ar[a.object.chunk].size <= a.object.first
  BY <1>1 DEF IsArena, IsChunk
<1>5. Adds(ar, objs, a.arena, Append(objs, a.object), a.object, n)
  BY <1>1, <1>2, <1>3, <1>4 DEF Adds, Keeps
<1> QED BY <1>5 DEF a

\* After Init the first context has its table.
LEMMA InitInv == Init => Inv
<1> SUFFICES ASSUME Init PROVE Inv
  OBVIOUS
<1> DEFINE empty == <<NewChunk(0)>>
           new == NewContext(empty, InitialCapacity)
           more == Append(Append(<<>>, new.context), new.table)
<1>1. arena = new.arena /\ objects = more /\ contexts = <<Context(new.table, 0, InitialCapacity)>>
  BY DEF Init
<1>2. IsArena(empty) /\ 1 \in DOMAIN empty
  <2>1. NewChunk(0) \in Chunk /\ IsChunk(NewChunk(0))
    BY NewChunkType
  <2> QED BY <2>1 DEF IsArena
<1>3. Objects(empty, <<>>)
  BY DEF Objects
<1>4. InitialCapacity \in Nat \ {0}
  BY CapacityAssumption
<1> HIDE DEF empty
<1>a. Adds(empty, <<>>, new.arena, more, new.table, 2 * InitialCapacity)
  BY <1>2, <1>3, <1>4, NewContextType
<1> HIDE DEF new, more
<1>5. /\ IsArena(new.arena) /\ DOMAIN empty \subseteq DOMAIN new.arena
      /\ Objects(new.arena, more)
      /\ new.table \in ObjectType /\ new.table.len = 2 * InitialCapacity
      /\ Inside(new.arena, new.table)
      /\ \E j \in DOMAIN more : more[j] = new.table
  BY <1>a DEF Adds
<1> DEFINE c == Context(new.table, 0, InitialCapacity)
<1>6. c \in ContextType /\ Table(c) = new.table /\ c.size <= c.capacity /\ c.chunk \in DOMAIN new.arena
  BY <1>4, <1>5 DEF Context, ContextType, Table, Object, TableWords, ObjectType, Inside
<1> HIDE DEF c
<1>7. /\ <<c>> \in Seq(ContextType) /\ <<c>> # <<>> /\ DOMAIN <<c>> = {1} /\ <<c>>[1] = c
  BY <1>6
<1>8. Contexts(new.arena, more, <<c>>)
  BY <1>5, <1>6, <1>7 DEF Contexts
<1>9. CallOK
  BY <1>1, <1>7 DEF Init, CallOK, RequestType, c
<1> QED BY <1>1, <1>2, <1>5, <1>8, <1>9 DEF Inv, c

\* The call that is executed is not disturbed while it is idle or dead.
LEMMA IdleCall ==
  ASSUME CallOK, phase' \in {phase, "dead"}, phase = "idle", UNCHANGED request, 1 \in DOMAIN contexts'
  PROVE  CallOK'
BY DEF CallOK

\* Entering a scope gives it a table of its own.
LEMMA EnterInv == ASSUME Inv, Enter PROVE Inv'
<1> DEFINE new == NewContext(arena, Innermost.capacity)
           more == Append(Append(objects, new.context), new.table)
<1>1. Len(contexts) \in DOMAIN contexts /\ 1 \in DOMAIN contexts
  <2>1. contexts \in Seq(ContextType) /\ contexts # <<>>
    BY DEF Inv, Contexts
  <2> QED BY <2>1, LenProperties, EmptySeq
<1>2. /\ Innermost \in ContextType /\ Innermost.chunk \in DOMAIN arena
      /\ Innermost.first + 2 * Innermost.capacity <= arena[Innermost.chunk].capacity
      /\ Innermost.size <= Innermost.capacity
  <2>1. PICK c : c = Innermost /\ c = contexts[Len(contexts)]
    BY DEF Innermost
  <2>2. /\ c \in ContextType /\ c.chunk \in DOMAIN arena /\ c.first + 2 * c.capacity <= arena[c.chunk].size
        /\ arena[c.chunk].size <= arena[c.chunk].capacity
        /\ arena[c.chunk].size \in Nat /\ arena[c.chunk].capacity \in Nat /\ c.size <= c.capacity
    BY <1>1, <2>1, ContextInArena DEF Inv
  <2>3. c.first \in Nat /\ c.capacity \in Nat
    BY <2>2 DEF ContextType
  <2> QED BY <2>1, <2>2, <2>3
<1>3. /\ Innermost.first \in Nat /\ Innermost.size \in Nat /\ Innermost.capacity \in Nat \ {0}
  BY <1>2 DEF ContextType
<1>4. Adds(arena, objects, new.arena, more, new.table, 2 * Innermost.capacity)
  BY <1>3, NewContextType DEF Inv
<1> DEFINE ws == Words(arena, Innermost.chunk, Innermost.first, 2 * Innermost.size)
           w == Write(new.arena, new.table.chunk, new.table.first, ws)
<1>5. SameSizes(new.arena, w)
  <2>1. arena[Innermost.chunk].capacity \in Nat
    BY <1>2 DEF Inv, IsArena, IsChunk
  <2>2. \A o \in DOMAIN ws : ws[o] \in Word
    BY <1>2, <1>3, <2>1, WordsType DEF Inv
  <2>3. new.table.chunk \in DOMAIN new.arena /\ new.table.first \in Nat
    BY <1>4 DEF Adds, Inside, ObjectType
  <2>4. IsArena(new.arena)
    BY <1>4 DEF Adds
  <2> HIDE DEF new, ws
  <2> QED BY <2>2, <2>3, <2>4, WrittenSizes
<1>6. CASE /\ arena' = w /\ objects' = more
           /\ contexts' = Append(contexts, Context(new.table, Innermost.size, Innermost.capacity))
           /\ UNCHANGED phase
  <2> HIDE DEF w, more, new
  <2>1. IsArena(w) /\ DOMAIN w = DOMAIN new.arena /\ DOMAIN arena \subseteq DOMAIN w /\ Objects(w, more)
    BY <1>4, <1>5, WrittenObjects DEF SameSizes, Adds
  <2>2. Inside(w, new.table)
    BY <1>4, <1>5 DEF Inside, SameSizes, Adds
  <2>3. Contexts(w, more, Append(contexts, Context(new.table, Innermost.size, Innermost.capacity)))
    BY <1>2, <1>3, <1>4, <2>1, <2>2, ContextOn DEF Inv, Adds
  <2>4. 1 \in DOMAIN contexts'
    BY <1>1, <1>6, AppendProperties, LenProperties DEF Inv, Contexts
  <2>5. CallOK'
    BY <1>6, <2>4, IdleCall DEF Enter, Inv
  <2> QED BY <1>6, <2>1, <2>3, <2>5 DEF Inv
<1>7. CASE Dies(new.arena) /\ UNCHANGED contexts
  BY <1>1, <1>7, IdleCall DEF Enter, Dies, Inv
<1> QED BY <1>6, <1>7 DEF Enter

\* Leaving a scope, and what else is allocated, disturbs no context.
LEMMA LeaveInv == ASSUME Inv, Leave PROVE Inv'
<1>1. Contexts(arena, objects, contexts') /\ 1 \in DOMAIN contexts'
  BY OneContextLess DEF Inv, Leave
<1>2. CallOK'
  BY <1>1, IdleCall DEF Inv, Leave
<1> QED BY <1>1, <1>2 DEF Inv, Leave

\* Another object lies apart from all tables.
LEMMA OtherInv == ASSUME Inv, NEW n \in OtherSizes, Other(n) PROVE Inv'
<1> DEFINE new == Alloc(arena, 1, n)
           more == Append(objects, new.object)
<1>1. n \in Nat \ {0} /\ 1 \in Nat \ {0}
  BY OtherAssumption
<1>a. Adds(arena, objects, new.arena, more, new.object, n)
  BY <1>1, AllocObjects DEF Inv
<1> HIDE DEF new
<1>2. /\ IsArena(new.arena) /\ DOMAIN arena \subseteq DOMAIN new.arena
      /\ Objects(new.arena, more)
  BY <1>a DEF Adds
<1>3. Contexts(new.arena, more, contexts)
  BY <1>a, MoreObjects DEF Inv, Adds
<1>4. 1 \in DOMAIN contexts'
  <2>1. contexts \in Seq(ContextType) /\ contexts # <<>>
    BY DEF Inv, Contexts
  <2> QED BY <2>1, LenProperties, EmptySeq DEF Other
<1>5. CallOK'
  BY <1>4, IdleCall DEF Inv, Other, Dies
<1>6. CASE arena' = new.arena /\ objects' = more
  BY <1>2, <1>3, <1>5, <1>6 DEF Inv, Other
<1>7. CASE Dies(new.arena)
  BY <1>5, <1>7 DEF Inv, Other, Dies
<1> QED BY <1>6, <1>7 DEF Other, new

\* Contexts are numbered from 1 to the innermost.
LEMMA ContextNumbers ==
  ASSUME Inv
  PROVE  /\ DOMAIN contexts = 1 .. Len(contexts) /\ Len(contexts) \in Nat
         /\ 1 \in DOMAIN contexts /\ Len(contexts) \in DOMAIN contexts
<1>1. contexts \in Seq(ContextType) /\ contexts # <<>>
  BY DEF Inv, Contexts
<1> QED BY <1>1, LenProperties, EmptySeq

\* An insertion that needs no growth has room for its entry.
LEMMA BeginInsertInv == ASSUME Inv, NEW n \in Names, NEW t \in Types, BeginInsert(n, t) PROVE Inv'
<1>1. Len(contexts) \in DOMAIN contexts /\ Len(contexts) \in Nat
  BY ContextNumbers
<1>2. Innermost.size \in Nat /\ Innermost.capacity \in Nat
  BY <1>1, ContextInArena DEF Inv, Innermost, ContextType
<1>3. /\ request' \in RequestType /\ request'.scope = Len(contexts)
      /\ request'.op = "insert" /\ request'.type \in Types
  BY <1>1 DEF BeginInsert, Insertion, RequestType
<1>4. contexts' = contexts /\ Searched' = Innermost
  BY <1>3 DEF BeginInsert, Searched, Innermost
<1>5. CASE NeedsGrowth(Innermost)
  <2>1. phase' = "grow"
    BY <1>5 DEF BeginInsert
  <2>2. CallOK'
    BY <1>1, <1>3, <1>4, <2>1 DEF CallOK
  <2> QED BY <2>2 DEF Inv, BeginInsert
<1>6. CASE ~ NeedsGrowth(Innermost)
  <2>1. phase' = "search" /\ low' = 0 /\ high' = Innermost.size - 1
    BY <1>6 DEF BeginInsert, Search
  <2>2. Innermost.size < Innermost.capacity
    BY <1>2, <1>6 DEF NeedsGrowth, Required
  <2>3. CallOK'
    BY <1>1, <1>2, <1>3, <1>4, <2>1, <2>2 DEF CallOK
  <2> QED BY <2>3 DEF Inv, BeginInsert
<1> QED BY <1>5, <1>6

\* A table that moves comes to lie apart from all others, and has room for its entry.
LEMMA GrowInv == ASSUME Inv, Grow PROVE Inv'
<1> DEFINE s == request.scope
           n == TableWords(NewCapacity(Searched))
           new == Alloc(arena, Len(arena), n)
           more == Append(objects, new.object)
           w == Moved(arena, Searched.chunk, Searched.first, new)
           c == Context(new.object, Searched.size, NewCapacity(Searched))
<1>1. s \in DOMAIN contexts /\ request.op = "insert" /\ Searched = contexts[s] /\ request \in RequestType
  BY DEF Inv, CallOK, Grow, Searched
<1>2. /\ Searched \in ContextType /\ Searched.chunk \in DOMAIN arena
      /\ Searched.first + 2 * Searched.capacity <= arena[Searched.chunk].capacity
      /\ Searched.size <= Searched.capacity /\ arena[Searched.chunk].capacity \in Nat
  BY <1>1, ContextInArena DEF Inv, ContextType
<1>3. /\ Searched.first \in Nat /\ Searched.size \in Nat /\ Searched.capacity \in Nat \ {0}
  BY <1>2 DEF ContextType
<1>4. /\ NewCapacity(Searched) \in Nat \ {0} /\ Searched.size < NewCapacity(Searched)
      /\ n \in Nat \ {0} /\ n = 2 * NewCapacity(Searched)
  BY <1>3 DEF NewCapacity, Required, TableWords
<1>5. Len(arena) \in Nat \ {0}
  BY LenProperties DEF Inv, IsArena
<1>6. Adds(arena, objects, new.arena, more, new.object, 2 * NewCapacity(Searched))
  BY <1>4, <1>5, AllocObjects DEF Inv
<1>7. SameSizes(new.arena, w)
  <2>1. Searched.first \in 0 .. arena[Searched.chunk].capacity
    BY <1>2, <1>3
  <2>2. IsArena(new.arena) /\ new.object \in ObjectType /\ Inside(new.arena, new.object)
    BY <1>6 DEF Adds
  <2> HIDE DEF new
  <2> QED BY <1>2, <2>1, <2>2, MovedSizes DEF Inv
<1>8. /\ arena' = w /\ objects' = more /\ contexts' = [contexts EXCEPT ![s] = c]
      /\ phase' = "search" /\ low' = 0 /\ high' = Searched.size - 1 /\ request' = request
  BY DEF Grow, Search
<1> HIDE DEF w, more, new, n
<1>9. IsArena(w) /\ DOMAIN w = DOMAIN new.arena /\ DOMAIN arena \subseteq DOMAIN w /\ Objects(w, more)
  BY <1>6, <1>7, WrittenObjects DEF SameSizes, Adds
<1>10. Inside(w, new.object)
  BY <1>6, <1>7 DEF Inside, SameSizes, Adds
<1>11. Contexts(w, more, [contexts EXCEPT ![s] = c])
  BY <1>1, <1>3, <1>4, <1>6, <1>9, <1>10, ContextOn DEF Inv, Adds
<1>12. DOMAIN contexts' = DOMAIN contexts /\ contexts'[s] = c
  BY <1>1, <1>8
<1>13. CallOK'
  <2>1. Searched' = c
    BY <1>8, <1>12 DEF Searched
  <2>2. c.size = Searched.size /\ c.capacity = NewCapacity(Searched)
    BY DEF Context
  <2>3. request.type \in Types
    BY <1>1 DEF Inv, CallOK
  <2> HIDE DEF c
  <2> QED BY <1>1, <1>3, <1>4, <1>8, <1>12, <2>1, <2>2, <2>3 DEF CallOK
<1> QED BY <1>8, <1>9, <1>11, <1>13 DEF Inv

\* A call that has returned leaves none.
LEMMA AnswerCall ==
  ASSUME Inv, NEW is, NEW type, Answer(is, type), DOMAIN contexts' = DOMAIN contexts
  PROVE  CallOK'
<1>1. PICK op \in {"none", "insert", "lookup"}, scope \in Nat, name \in Names, t \in Types \union {NoType} :
        request = [op |-> op, scope |-> scope, name |-> name, type |-> t]
  BY DEF Inv, CallOK, RequestType
<1>2. request' = [op |-> "none", scope |-> 1, name |-> name, type |-> NoType]
  BY <1>1 DEF Answer
<1>3. request' \in RequestType /\ request'.scope = 1 /\ request'.op = "none"
  BY <1>2 DEF RequestType
<1> QED BY <1>3, ContextNumbers DEF Answer, CallOK

\* Searches stay inside their table.
LEMMA SearchInv ==
  ASSUME Inv, \/ GrowFails \/ Halve \/ Hit \/ Miss
              \/ \E d \in DOMAIN contexts, n \in Names : BeginLookup(d, n)
  PROVE  Inv'
<1>1. UNCHANGED <<arena, objects, contexts>>
  BY DEF GrowFails, Halve, Hit, Miss, BeginLookup
<1>2. CASE GrowFails
  BY <1>1, <1>2, AnswerCall DEF GrowFails, Inv
<1>3. CASE Halve
  <2>1. low \in 0 .. high + 1 /\ high \in -1 .. Searched.size - 1 /\ low <= high
    BY <1>3 DEF Halve, Inv, CallOK
  <2>2. Searched.size \in Nat
    BY ContextInArena DEF Inv, CallOK, Searched, ContextType
  <2>3. Mid \in low .. high
    BY <2>1, <2>2 DEF Mid
  <2>4. Searched' = Searched
    BY <1>1, <1>3 DEF Halve, Searched
  <2>5. low' \in 0 .. high' + 1 /\ high' \in -1 .. Searched.size - 1
    BY <1>3, <2>1, <2>2, <2>3 DEF Halve
  <2>6. CallOK'
    BY <1>1, <1>3, <2>4, <2>5 DEF Halve, Inv, CallOK
  <2> QED BY <1>1, <2>6 DEF Inv
<1>4. CASE Hit
  <2>1. CallOK'
    BY <1>1, <1>4, AnswerCall DEF Hit
  <2> QED BY <1>1, <2>1 DEF Inv
<1>5. CASE Miss
  <2>1. CASE request.op = "lookup"
    <3>1. CallOK'
      BY <1>1, <1>5, <2>1, AnswerCall DEF Miss
    <3> QED BY <1>1, <3>1 DEF Inv
  <2>2. CASE request.op # "lookup"
    <3>1. phase' = "bind" /\ UNCHANGED <<request, low, high>>
      BY <1>5, <2>2 DEF Miss
    <3>2. Searched' = Searched
      BY <1>1, <3>1 DEF Searched
    <3>3. request.op = "insert"
      BY <1>5, <2>2 DEF Miss, Inv, CallOK, RequestType
    <3>4. CallOK'
      BY <1>1, <1>5, <3>1, <3>2, <3>3 DEF Inv, CallOK, Miss
    <3> QED BY <1>1, <3>4 DEF Inv
  <2> QED BY <2>1, <2>2
<1>6. ASSUME NEW d \in DOMAIN contexts, NEW n \in Names, BeginLookup(d, n) PROVE Inv'
  <2>1. contexts[d].size \in Nat /\ d \in Nat
    BY ContextInArena, ContextNumbers DEF Inv, ContextType
  <2>2. request' \in RequestType /\ request'.scope = d /\ request'.op = "lookup"
    BY <1>6, <2>1 DEF BeginLookup, Lookup, RequestType
  <2>3. Searched' = contexts[d]
    BY <1>1, <2>2 DEF Searched
  <2>4. phase' = "search" /\ low' = 0 /\ high' = contexts[d].size - 1
    BY <1>6 DEF BeginLookup, Search
  <2>5. CallOK'
    BY <1>1, <2>1, <2>2, <2>3, <2>4 DEF CallOK
  <2> QED BY <1>1, <2>5 DEF Inv
<1> QED BY <1>2, <1>3, <1>4, <1>5, <1>6

\* An entry is written inside its table, and its name into a place of its own.
LEMMA BindInv == ASSUME Inv, Bind PROVE Inv'
<1> DEFINE s == request.scope
           moved == Words(arena, Searched.chunk, Searched.first + 2 * low, 2 * (Searched.size - low))
           room == MakeRoom(arena, Searched, low)
           n == StringWords(Length[request.name])
           str == Alloc(room, 1, n)
           more == Append(objects, str.object)
           w == WriteEntry(str.arena, Searched, low, str.object, request.name, request.type)
<1>1. /\ s \in DOMAIN contexts /\ request.type \in Types /\ Searched = contexts[s]
      /\ request.name \in Names
      /\ low \in 0 .. high + 1 /\ high \in -1 .. Searched.size - 1 /\ Searched.size < Searched.capacity
  BY DEF Inv, CallOK, Bind, Searched, RequestType
<1>2. /\ Searched \in ContextType /\ Searched.chunk \in DOMAIN arena
      /\ Searched.first + 2 * Searched.capacity <= arena[Searched.chunk].capacity
      /\ Searched.size <= Searched.capacity /\ arena[Searched.chunk].capacity \in Nat
  BY <1>1, ContextInArena DEF Inv, ContextType
<1>3. /\ Searched.first \in Nat /\ Searched.size \in Nat /\ Searched.capacity \in Nat \ {0}
  BY <1>2 DEF ContextType
<1>4. low \in Nat /\ low <= Searched.size
  BY <1>1, <1>3
<1>5. SameSizes(arena, room)
  <2>1. /\ Searched.first + 2 * low \in Nat /\ 2 * (Searched.size - low) \in Nat
        /\ Searched.first + 2 * low + 2 * (Searched.size - low) <= arena[Searched.chunk].capacity
        /\ Searched.first + 2 * (low + 1) \in Nat
    BY <1>2, <1>3, <1>4
  <2>2. \A o \in DOMAIN moved : moved[o] \in Word
    BY <1>2, <2>1, WordsType DEF Inv
  <2>3. room = Write(arena, Searched.chunk, Searched.first + 2 * (low + 1), moved)
    BY DEF MakeRoom
  <2> HIDE DEF moved
  <2> QED BY <1>2, <2>1, <2>2, <2>3, WrittenSizes DEF Inv
<1> HIDE DEF room
<1>6. IsArena(room) /\ DOMAIN room = DOMAIN arena /\ Objects(room, objects)
  BY <1>5, WrittenObjects DEF SameSizes, Inv
<1>7. n \in Nat \ {0} /\ 1 \in Nat \ {0}
  <2>1. Length[request.name] \in Nat \ {0}
    BY <1>1, NameAssumption
  <2> QED BY <2>1 DEF StringWords
<1>8. Adds(room, objects, str.arena, more, str.object, n)
  BY <1>6, <1>7, AllocObjects
<1>9. SameSizes(str.arena, w)
  <2>1. /\ IsArena(str.arena) /\ str.object \in ObjectType /\ str.object.chunk \in DOMAIN str.arena
        /\ Searched.chunk \in DOMAIN str.arena
    BY <1>2, <1>6, <1>8 DEF Adds, Inside
  <2> HIDE DEF str
  <2> QED BY <1>1, <1>3, <1>4, <2>1, EntrySizes
<1>10. CASE /\ arena' = w /\ objects' = more
            /\ contexts' = [contexts EXCEPT ![request.scope].size = @ + 1]
            /\ Answer("inserted", NoType)
  <2> HIDE DEF w, more, str, n
  <2>1. IsArena(w) /\ DOMAIN arena \subseteq DOMAIN w /\ Objects(w, more)
    BY <1>6, <1>8, <1>9, WrittenObjects DEF SameSizes, Adds
  <2>2. Contexts(w, more, contexts)
    BY <1>8, <2>1, MoreObjects DEF Adds, Inv
  <2>3. Contexts(w, more, contexts')
    BY <1>1, <1>10, <2>2, OneEntryMore
  <2>4. DOMAIN contexts' = DOMAIN contexts
    BY <1>10
  <2>5. CallOK'
    BY <1>10, <2>4, AnswerCall
  <2> QED BY <1>10, <2>1, <2>3, <2>5 DEF Inv
<1>11. CASE Dies(str.arena) /\ UNCHANGED <<contexts, request, answer>>
  <2>1. CallOK'
    BY <1>11 DEF Dies, Inv, CallOK
  <2> QED BY <1>11, <2>1 DEF Dies, Inv
<1> QED BY <1>10, <1>11 DEF Bind, room, str, more, w, n

\* Every step preserves the invariant.
LEMMA InvPreserved == Inv /\ [Next]_vars => Inv'
<1> SUFFICES ASSUME Inv, [Next]_vars PROVE Inv'
  OBVIOUS
<1>1. CASE Enter
  BY <1>1, EnterInv
<1>2. CASE Leave
  BY <1>2, LeaveInv
<1>3. ASSUME NEW n \in OtherSizes, Other(n) PROVE Inv'
  BY <1>3, OtherInv
<1>4. ASSUME NEW n \in Names, NEW t \in Types, BeginInsert(n, t) PROVE Inv'
  BY <1>4, BeginInsertInv
<1>5. ASSUME NEW d \in DOMAIN contexts, NEW n \in Names, BeginLookup(d, n) PROVE Inv'
  BY <1>5, SearchInv
<1>6. CASE Grow
  BY <1>6, GrowInv
<1>7. CASE GrowFails \/ Halve \/ Hit \/ Miss
  BY <1>7, SearchInv
<1>8. CASE Bind
  BY <1>8, BindInv
<1>9. CASE UNCHANGED vars
  <2>1. Searched' = Searched
    BY <1>9 DEF vars, Searched
  <2>2. CallOK'
    BY <1>9, <2>1 DEF vars, Inv, CallOK
  <2> QED BY <1>9, <2>2 DEF vars, Inv
<1> QED BY <1>1, <1>2, <1>3, <1>4, <1>5, <1>6, <1>7, <1>8, <1>9 DEF Next, Calls, Steps

\* The invariant always holds.
THEOREM Invariance == Spec => []Inv
<1>1. Init => Inv
  BY InitInv
<1>2. Inv /\ [Next]_vars => Inv'
  BY InvPreserved
<1> QED BY <1>1, <1>2, PTL DEF Spec

\* Whatever the sizes of chunks, tables, names and other objects: chunks are not
\* overfull, a search never leaves its table, and an insertion that reaches the
\* writing of its entry has room for it.
THEOREM TypeCorrect == Spec => []TypeOK
<1>1. Inv => TypeOK
  BY InvImplies
<1> QED BY <1>1, Invariance, PTL

\* And no two objects share a word, the tables of all open scopes included, though
\* tables move, copies run over what lies behind them and nothing is given back.
THEOREM ObjectsSeparate == Spec => []Separate
<1>1. Inv => Separate
  BY InvImplies
<1> QED BY <1>1, Invariance, PTL
=============================================================================
