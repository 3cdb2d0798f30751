-------------------------------- MODULE Arena --------------------------------
(***************************************************************************)
(* The arena the compiler takes its memory from (adder/shared/sh_arena.c): *)
(* a chain of chunks that only grows.  Memory is counted in words of eight *)
(* bytes, which is what every object is aligned to.                        *)
(***************************************************************************)
EXTENDS Integers, Sequences

CONSTANTS
  MinSize,  \* ARENA_MIN_SIZE
  Zero,     \* a word nothing was written to
  Junk      \* a word that an overlapping copy may have changed before it was read

ASSUME MinSizeAssumption == MinSize \in Nat \ {0}

\* arena_create
NewChunk(n) ==
  LET capacity == IF n > MinSize THEN n ELSE MinSize
  IN  [capacity |-> capacity, size |-> 0, words |-> [o \in 0 .. capacity - 1 |-> Zero]]

Object(chunk, first, len) == [chunk |-> chunk, first |-> first, len |-> len]

Words(ar, chunk, first, n) == [i \in 0 .. n - 1 |-> ar[chunk].words[first + i]]

Write(ar, chunk, first, ws) ==
  [ar EXCEPT ![chunk].words =
     [o \in DOMAIN @ |-> IF o - first \in DOMAIN ws THEN ws[o - first] ELSE @[o]]]

\* The chunks from the one a caller names on that have room for n words.
Fitting(ar, from, n) == {i \in from .. Len(ar) : ar[i].capacity - ar[i].size >= n}

First(chunks) == CHOOSE i \in chunks : \A j \in chunks : i <= j

\* Mutant: what a new chunk is made for is not counted.
AllocUncounted(ar, from, n) ==
  IF Fitting(ar, from, n) # {}
  THEN LET i == First(Fitting(ar, from, n))
       IN  [arena  |-> Write([ar EXCEPT ![i].size = @ + n], i, ar[i].size, [o \in 0 .. n - 1 |-> Zero]),
            object |-> Object(i, ar[i].size, n)]
  ELSE [arena |-> Append(ar, NewChunk(n)), object |-> Object(Len(ar) + 1, 0, n)]

\* aalloc, with the memory malloc gives for a new chunk
Alloc(ar, from, n) ==
  IF Fitting(ar, from, n) # {}
  THEN LET i == First(Fitting(ar, from, n))
       IN  [arena  |-> Write([ar EXCEPT ![i].size = @ + n], i, ar[i].size, [o \in 0 .. n - 1 |-> Zero]),
            object |-> Object(i, ar[i].size, n)]
  ELSE [arena  |-> Append(ar, [NewChunk(n) EXCEPT !.size = n]),
        object |-> Object(Len(ar) + 1, 0, n)]

\* What arealloc leaves, once new is allocated in the last chunk.  The arena does not
\* know how long an object is: it copies what lies behind it as well, up to the end of
\* the chunk, which may be into what it copies.
Moved(ar, chunk, first, new) ==
  LET to   == new.object
      rest == ar[chunk].capacity - first
      len  == IF to.len < rest THEN to.len ELSE rest
      Overlaps(i) == to.chunk = chunk /\ first + i >= to.first
  IN  Write(new.arena, to.chunk, to.first,
            [i \in 0 .. len - 1 |-> IF Overlaps(i) THEN Junk ELSE ar[chunk].words[first + i]])

\* asprint and types take whole words: the characters and the zero behind them.
StringWords(length) == (length \div 8) + 1
=============================================================================
