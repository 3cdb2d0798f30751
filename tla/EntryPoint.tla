----------------------------- MODULE EntryPoint -----------------------------
(***************************************************************************)
(* How a host finds a function of a program by name and type               *)
(* (adder/shared/sh_program.c), types as sequences of tags                 *)
(* (adder/shared/sh_ift.c), and the arguments a call string like           *)
(* f("a", 1) gives (adder/xutils/xu_lib.c).                                *)
(*                                                                         *)
(* A type is the number of array<...> around a scalar.  Annotations cannot *)
(* name a function type, so no argument is a function.  Names and types    *)
(* fit into sstr_t and IFTYPE_MAX_TAGS.                                    *)
(***************************************************************************)
EXTENDS Integers, Sequences, SequencesExt

CONSTANTS Names,       \* of functions
          ArgTypes,    \* types of arguments: [depth |-> number of lists, base |-> tag]
          ReturnTypes, \* as tags
          Segments,    \* kinds of segments of call strings
          MaxExports,  \* bound: functions in the program
          MaxParams,   \* bound: parameters, arguments and segments
          MaxArgs      \* length of entry_point_t.argvals

ASSUME BoundsAssumption == MaxExports \in Nat /\ MaxParams \in Nat /\ MaxArgs \in Nat
ASSUME TypesAssumption  ==
  \A t \in ArgTypes : t.depth \in Nat /\ t.base \in {"b", "c", "i", "f"}

VARIABLES exports,   \* the program's: name, tags of the type, address; and the parameters declared
          call,      \* what the host asks for
          found,     \* what it gets
          passed     \* types of the values it passes

vars == <<exports, call, found, passed>>

ParamLists(S) == UNION {[1 .. n -> S] : n \in 0 .. MaxParams}

-----------------------------------------------------------------------------
(* sh_ift.c.  "P" and "p" are IFT_FUN and IFT_ENDFUN, "l" is IFT_LST, "?" is *)
(* IFT_UNK.                                                                 *)

Tags(type) == [k \in 1 .. type.depth + 1 |-> IF k <= type.depth THEN "l" ELSE type.base]

\* ift_func, ift_func_add_arg
Func(ret)          == <<"P">> \o ret \o <<"p">>
AddArg(func, type) == Front(func) \o Tags(type) \o <<"p">>
FuncType(ret, params) == FoldLeft(AddArg, Func(ret), params)

\* Mutant: a list takes one tag.
FlatSizeOne(tags) == IF tags = <<>> THEN 0 ELSE 1

\* ift_get_flat_size: the tags of the type in front.
FlatSize(tags) ==
  IF tags = <<>> THEN 0
  ELSE CHOOSE n \in 1 .. Len(tags) :
         /\ tags[n] # "l" \/ n = Len(tags)
         /\ \A k \in 1 .. n - 1 : tags[k] = "l"

\* The types from the i-th tag on, up to the last tag, which ends the function.
RECURSIVE Chunks(_, _)
Chunks(func, i) ==
  IF i >= Len(func) THEN <<>>
  ELSE LET size == FlatSize(SubSeq(func, i, Len(func)))
       IN  <<SubSeq(func, i, i + size - 1)>> \o Chunks(func, i + size)

ReturnType(func) == SubSeq(func, 2, 1 + FlatSize(Tail(func)))
Arguments(func)  == IF func = <<>> \/ func[1] # "P" THEN <<>>
                    ELSE Chunks(func, 2 + FlatSize(Tail(func)))
ArgCount(func)   == Len(Arguments(func))

\* The n tags before the last one.
LastTags(func, n) == SubSeq(func, Len(func) - n, Len(func) - 1)

\* Mutants: the tags are not compared; nor are the numbers; or all tags are compared.
ArglistEqualsByCount(a, b) == ArgCount(a) = ArgCount(b)
ArglistEqualsByTags(a, b)  == LastTags(a, ArgCount(b)) = LastTags(b, ArgCount(b))
ArglistEqualsWhole(a, b)   == a = b

\* ift_func_arglist_equals: as many tags as there are arguments.
ArglistEquals(a, b) ==
  /\ ArgCount(a) = ArgCount(b)
  /\ a[1] = "P" /\ b[1] = "P"
  /\ LastTags(a, ArgCount(a)) = LastTags(b, ArgCount(b))

-----------------------------------------------------------------------------
(* The program.                                                            *)

NoCall == [name |-> "", args |-> <<>>]

\* ffi_definition_set_add, of the type bty_to_ffi_type makes: a name is there once.
Export(name, ret, params) ==
  /\ call = NoCall
  /\ Len(exports) < MaxExports
  /\ \A i \in DOMAIN exports : exports[i].name # name
  /\ exports' = Append(exports, [name |-> name, ret |-> ret, params |-> params,
                                 type |-> FuncType(ret, params), address |-> Len(exports)])
  /\ UNCHANGED <<call, found, passed>>

-----------------------------------------------------------------------------
(* sh_program.c.                                                           *)

NotFound(code) == [code |-> code, address |-> -1, argcount |-> -1]

\* program_entry_point_find, entry_point_find_any
Find(name, type) ==
  LET i == SelectInSeq(exports, LAMBDA e : e.name = name)
  IN  IF ArgCount(type) > MaxArgs THEN NotFound("PEP_INVALID_ENTRY_POINT_ARG_COUNT")
      ELSE IF exports = <<>> THEN NotFound("PEP_INVALID_PROGRAM")
      ELSE IF i = 0 THEN NotFound("PEP_NAME_NOT_FOUND")
      ELSE IF ~ArglistEquals(type, exports[i].type) THEN NotFound("PEP_TYPE_NOT_MATCHING")
      ELSE [code |-> "PEP_OK", address |-> exports[i].address,
            argcount |-> ArgCount(exports[i].type)]

\* xu_class_extract with the type of a function, and a call with such arguments; the
\* return type the host expects makes no difference.
Extract(name, args) ==
  /\ call = NoCall
  /\ \E ret \in ReturnTypes : found' = Find(name, FuncType(ret, args))
  /\ call' = [name |-> name, args |-> args]
  /\ passed' = IF found'.code = "PEP_OK" THEN args ELSE <<>>
  /\ UNCHANGED exports

-----------------------------------------------------------------------------
(* Call strings.  A segment is what lies between two separators: "other"   *)
(* is none of a string, a boolean and a number, like the blank in f() and  *)
(* a boolean of fewer than five characters (true with nothing behind it).  *)

SegmentTypes ==
  [string |-> [depth |-> 1, base |-> "c"], bool |-> [depth |-> 0, base |-> "b"],
   float  |-> [depth |-> 0, base |-> "f"], int  |-> [depth |-> 0, base |-> "i"]]

\* Both loops stop at the first segment they do not know.
Readable(segments) ==
  LET stop == SelectInSeq(segments, LAMBDA s : s = "other")
  IN  IF stop = 0 THEN segments ELSE SubSeq(segments, 1, stop - 1)

TypesOf(segments) == [i \in DOMAIN segments |-> SegmentTypes[segments[i]]]

\* xu_ift_from_callstring
FromCallstring(segments) == FuncType(<<"?">>, TypesOf(Readable(segments)))

\* xu_args_from_callstring
ArgsFromCallstring(segments, maxlen) ==
  LET all == TypesOf(Readable(segments))
  IN  IF Len(all) <= maxlen THEN all ELSE SubSeq(all, 1, maxlen)

\* xu_quick_run, for one text of the file.
CallString(name, segments) ==
  /\ call = NoCall
  /\ found' = Find(name, FromCallstring(segments))
  /\ call' = [name |-> name, args |-> TypesOf(Readable(segments))]
  /\ passed' = IF found'.code = "PEP_OK" THEN ArgsFromCallstring(segments, found'.argcount) ELSE <<>>
  /\ UNCHANGED exports
-----------------------------------------------------------------------------
Init ==
  /\ exports = <<>>
  /\ call = NoCall
  /\ found = NotFound("")
  /\ passed = <<>>

\* The program's functions first, then one call.
Next ==
  \E name \in Names :
    \/ \E ret \in ReturnTypes, params \in ParamLists(ArgTypes) : Export(name, ret, params)
    \/ \E args \in ParamLists(ArgTypes) : Extract(name, args)
    \/ \E segments \in ParamLists(Segments) : CallString(name, segments)

Spec == Init /\ [][Next]_vars

-----------------------------------------------------------------------------
(* What an entry point promises.                                           *)

Found    == found.code = "PEP_OK"
Declared == (CHOOSE i \in DOMAIN exports : exports[i].address = found.address)
Params   == exports[Declared].params

\* The tags of a function's type are read back (ift_func_get_arg, ift_func_arg_count,
\* ift_func_get_return_type) as what was declared, however lists are nested.
Decodable ==
  \A i \in DOMAIN exports :
    /\ ReturnType(exports[i].type) = exports[i].ret
    /\ Arguments(exports[i].type)
         = [k \in DOMAIN exports[i].params |-> Tags(exports[i].params[k])]

\* A function is found by its name and the types of its parameters, whatever it returns
\* and whatever else is exported, if its arguments fit into an entry point.
FoundByItsOwnType ==
  \A i \in DOMAIN exports :
    call = [name |-> exports[i].name, args |-> exports[i].params]
      /\ Len(exports[i].params) <= MaxArgs
    => Found /\ found.address = exports[i].address

\* vm_execute pushes entry_point_t.argcount values: as many as the host gave and as the
\* function's frame takes from the stack, though types and values are read from a call
\* string in two passes.
CountsAgree ==
  Found => Len(passed) = found.argcount /\ found.argcount = Len(Params)

Flat(types) == \A i \in DOMAIN types : types[i].depth = 0

\* Where one side has no lists, a value differs from the type declared at most in the
\* first place, and there in the number of lists around it only.
FlatArgumentsFit ==
  Found /\ (Flat(Params) \/ Flat(passed)) =>
    \A i \in DOMAIN Params :
      \/ passed[i] = Params[i]
      \/ i = 1 /\ passed[i].base = Params[i].base

\* A function is entered with values of the types it declares: a lookup that finds another
\* list of types answers PEP_TYPE_NOT_MATCHING (sh_program.c:224).
ArgumentsFit == Found => passed = Params
=============================================================================
