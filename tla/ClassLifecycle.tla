--------------------------- MODULE ClassLifecycle ---------------------------
(***************************************************************************)
(* The class list and its hot reload (adder/xutils/xu_lib.c), the          *)
(* environment a program runs in (adder/vm/vm_env.c) and the table of host *)
(* functions (adder/shared/sh_ffi.c).                                      *)
(*                                                                         *)
(* The host is one thread.  While it creates a class from a file, or       *)
(* refreshes one, somebody may write the file or take it away; the steps   *)
(* of those two operations are therefore actions of their own (todo), and  *)
(* the host does nothing else in between.                                  *)
(*                                                                         *)
(* A program is what it is compiled from: the host functions it imports,   *)
(* in order and with their types, the functions it exports and, in code,   *)
(* which function begins at which address.                                 *)
(***************************************************************************)
EXTENDS Integers, Sequences

CONSTANTS XuCount,    \* length of the class list
          Sources,    \* texts a file or a buffer can have, with what they compile to
          Default,    \* host functions every class can import
          Supplies,   \* host functions the host may inject
          MaxClock    \* bound: the last second

NoProgram == [ok |-> FALSE]
NoEnv     == [isready |-> FALSE, handles |-> <<>>]
NoFile    == [exists |-> FALSE]
NoCaller  == [ref |-> -1]

Refs  == 0 .. XuCount - 1
Times == 0 .. MaxClock

ASSUME XuCountAssumption  == XuCount \in Nat \ {0}
ASSUME MaxClockAssumption == MaxClock \in Nat
ASSUME SourcesAssumption  ==
  \A s \in Sources : s.ok => s.exports \subseteq {s.code[a] : a \in DOMAIN s.code}

VARIABLES
  file,       \* the file, with the second of its last change
  clock,
  count,      \* xu_classlist_t
  classes,    \* its arrays: one record for each index
  todo,       \* the operation the host is in
  caller,     \* a handle the host has extracted, if any
  finalized   \* classes that the host was told are ready

vars == <<file, clock, count, classes, todo, caller, finalized>>

Idle == [op |-> "idle"]

Unused == [program |-> NoProgram, interface |-> <<>>, env |-> NoEnv, path |-> FALSE, modtime |-> 0]

-----------------------------------------------------------------------------
\* program_compile
Compile(source) == IF source.ok THEN source ELSE NoProgram

IsCompiled(ref) == classes[ref].program.ok

\* All that the program imports is supplied, with the type it expects.
Supplied(program, interface) ==
  \A i \in DOMAIN program.imports :
    LET import == program.imports[i]
    IN  import.name \in DOMAIN interface /\ interface[import.name].type = import.type

\* vm_env_setup: an environment has a handle for every import.
EnvOf(program, interface) ==
  IF Supplied(program, interface)
  THEN [isready |-> TRUE,
        handles |-> [i \in DOMAIN program.imports |-> interface[program.imports[i].name].handle]]
  ELSE NoEnv

\* What a call of c executes: its address, in the program the class has now.
Runs(c) ==
  LET class == classes[c.ref]
  IN  CASE ~class.program.ok                        -> "invalid"
        [] class.program.ok /\ ~class.env.isready   -> "refused"
        [] class.program.ok /\ class.env.isready    ->
             IF c.address \in DOMAIN class.program.code THEN class.program.code[c.address]
             ELSE "no function"

-----------------------------------------------------------------------------
(* The file.                                                               *)

WriteFile ==
  /\ \E s \in Sources : file' = [exists |-> TRUE, source |-> s, modtime |-> clock]
  /\ UNCHANGED <<clock, count, classes, todo, caller, finalized>>

RemoveFile ==
  /\ file' = NoFile
  /\ UNCHANGED <<clock, count, classes, todo, caller, finalized>>

Tick ==
  /\ clock < MaxClock
  /\ clock' = clock + 1
  /\ UNCHANGED <<file, count, classes, todo, caller, finalized>>

\* program_file_get_modtime: of a file that is gone, any number.
ModtimeRead(t) == t \in IF file.exists THEN {file.modtime} ELSE Times

-----------------------------------------------------------------------------
(* Creating a class.                                                       *)

\* Mutant: the index is taken before the source is compiled.
CreateCountsFirst(source, fromFile, modtime) ==
  LET fresh == [Unused EXCEPT !.interface = Default, !.program = Compile(source),
                              !.path = fromFile, !.modtime = modtime]
  IN  IF count >= XuCount THEN UNCHANGED <<count, classes, finalized>>
      ELSE /\ classes' = [classes EXCEPT ![count] = fresh]
           /\ count' = count + 1
           /\ finalized' = finalized \ {count}

\* xu_class_create: a source that does not compile leaves its index free, but
\* not as it was.
Create(source, fromFile, modtime) ==
  LET fresh == [Unused EXCEPT !.interface = Default, !.program = Compile(source)]
  IN  IF count >= XuCount THEN UNCHANGED <<count, classes, finalized>>
      ELSE IF ~Compile(source).ok
      THEN /\ classes' = [classes EXCEPT ![count].interface = Default,
                                         ![count].program = NoProgram]
           /\ UNCHANGED <<count, finalized>>
      ELSE /\ classes' = [classes EXCEPT ![count] = [fresh EXCEPT !.path = fromFile,
                                                                  !.modtime = modtime]]
           /\ count' = count + 1
           /\ finalized' = finalized \ {count}

CreateFromMemory ==
  /\ todo = Idle
  /\ \E s \in Sources : Create(s, FALSE, 0)
  /\ UNCHANGED <<file, clock, todo, caller>>

\* xu_class_read_and_create: program_source_read_from_file reads the text first,
\* then the time; a class has a path if the file is there when it is compiled.
ReadSource ==
  /\ todo = Idle
  /\ file.exists
  /\ todo' = [op |-> "time", source |-> file.source]
  /\ UNCHANGED <<file, clock, count, classes, caller, finalized>>

ReadModtime ==
  /\ todo.op = "time"
  /\ \E t \in Times : /\ ModtimeRead(t)
                      /\ todo' = [op |-> "create", source |-> todo.source, modtime |-> t]
  /\ UNCHANGED <<file, clock, count, classes, caller, finalized>>

CreateFromFile ==
  /\ todo.op = "create"
  /\ Create(todo.source, file.exists, todo.modtime)
  /\ todo' = Idle
  /\ UNCHANGED <<file, clock, caller>>

-----------------------------------------------------------------------------
(* Using a class.                                                          *)

\* ffi_native_exports_define
Define(table, f) ==
  [x \in DOMAIN table \union {f.name} |->
     IF x = f.name THEN [type |-> f.type, handle |-> f.handle] ELSE table[x]]

\* xu_class_inject: a name is supplied once.
Inject(ref) ==
  /\ todo = Idle
  /\ IsCompiled(ref)
  /\ \E f \in Supplies :
       /\ f.name \notin DOMAIN classes[ref].interface
       /\ classes' = [classes EXCEPT ![ref].interface = Define(@, f)]
  /\ UNCHANGED <<file, clock, count, todo, caller, finalized>>

\* program_entry_point_find: where an exported function begins.
Entries(program) == {a \in DOMAIN program.code : program.code[a] \in program.exports}

\* xu_class_extract.  name is what the host asked for, told whether it has heard
\* since that the class is another one; xu_caller_t has neither.
Extract(ref) ==
  /\ todo = Idle
  /\ IsCompiled(ref)
  /\ LET program == classes[ref].program
     IN  \E a \in Entries(program) :
           caller' = [ref |-> ref, address |-> a, name |-> program.code[a], told |-> FALSE]
  /\ UNCHANGED <<file, clock, count, classes, todo, finalized>>

\* xu_class_finalize: a setup that fails leaves no environment.
Finalize(ref) ==
  /\ todo = Idle
  /\ IsCompiled(ref)
  /\ LET env == EnvOf(classes[ref].program, classes[ref].interface)
     IN  /\ classes' = [classes EXCEPT ![ref].env = env]
         /\ finalized' = IF env.isready THEN finalized \union {ref} ELSE finalized \ {ref}
  /\ UNCHANGED <<file, clock, count, todo, caller>>

\* xu_finalize_all: one answer for all classes.
FinalizeAll ==
  /\ todo = Idle
  /\ classes' = [r \in Refs |->
       IF r < count /\ IsCompiled(r)
       THEN [classes[r] EXCEPT !.env = EnvOf(classes[r].program, classes[r].interface)]
       ELSE classes[r]]
  /\ finalized' = IF \A r \in Refs : r < count => classes'[r].program.ok /\ classes'[r].env.isready
                  THEN {r \in Refs : r < count} ELSE {}
  /\ UNCHANGED <<file, clock, count, todo, caller>>

\* xu_cleanup_all
CleanupAll ==
  /\ todo = Idle
  /\ classes' = [r \in Refs |-> IF r < count THEN Unused ELSE classes[r]]
  /\ count' = 0
  /\ finalized' = {}
  /\ caller' = IF caller = NoCaller THEN caller ELSE [caller EXCEPT !.told = TRUE]
  /\ UNCHANGED <<file, clock, todo>>

-----------------------------------------------------------------------------
(* xu_refresh_class.                                                       *)

\* There is a file.
RefreshBegin(ref) ==
  /\ todo = Idle
  /\ classes[ref].path
  /\ file.exists
  /\ todo' = [op |-> "stat", ref |-> ref]
  /\ UNCHANGED <<file, clock, count, classes, caller, finalized>>

\* Nothing to do, or the new time is kept, whatever becomes of the source.
RefreshStat ==
  /\ todo.op = "stat"
  /\ \E t \in Times :
       /\ ModtimeRead(t)
       /\ IF classes[todo.ref].modtime >= t
          THEN todo' = Idle /\ UNCHANGED classes
          ELSE /\ classes' = [classes EXCEPT ![todo.ref].modtime = t]
               /\ todo' = [op |-> "read", ref |-> todo.ref]
  /\ UNCHANGED <<file, clock, count, caller, finalized>>

RefreshRead ==
  /\ todo.op = "read"
  /\ todo' = [op |-> "replace", ref |-> todo.ref,
              program |-> IF file.exists THEN Compile(file.source) ELSE NoProgram]
  /\ UNCHANGED <<file, clock, count, classes, caller, finalized>>

\* Mutant: the time is the one the file has when the class is replaced.
RefreshReplaceLate ==
  LET ref == todo.ref
      env == EnvOf(todo.program, classes[ref].interface)
  IN  /\ todo.op = "replace"
      /\ todo' = Idle
      /\ IF todo.program.ok /\ env.isready
         THEN /\ \E t \in Times :
                   /\ ModtimeRead(t)
                   /\ classes' = [classes EXCEPT ![ref].program = todo.program, ![ref].env = env,
                                                 ![ref].modtime = t]
              /\ finalized' = finalized \union {ref}
              /\ caller' = IF caller.ref = ref THEN [caller EXCEPT !.told = TRUE] ELSE caller
         ELSE UNCHANGED <<classes, caller, finalized>>
      /\ UNCHANGED <<file, clock, count>>

\* Mutant: the program is replaced before its environment is known to be complete.
RefreshReplaceFirst ==
  LET ref == todo.ref
      env == EnvOf(todo.program, classes[ref].interface)
  IN  /\ todo.op = "replace"
      /\ todo' = Idle
      /\ CASE todo.program.ok /\ env.isready ->
                /\ classes' = [classes EXCEPT ![ref].program = todo.program, ![ref].env = env]
                /\ finalized' = finalized \union {ref}
                /\ caller' = IF caller.ref = ref THEN [caller EXCEPT !.told = TRUE] ELSE caller
           [] todo.program.ok /\ ~env.isready ->
                /\ classes' = [classes EXCEPT ![ref].program = todo.program]
                /\ UNCHANGED <<caller, finalized>>
           [] OTHER -> UNCHANGED <<classes, caller, finalized>>
      /\ UNCHANGED <<file, clock, count>>

\* XU_OK if the new program compiled and found all its imports; otherwise the
\* class stays as it was.
RefreshReplace ==
  LET ref == todo.ref
      env == EnvOf(todo.program, classes[ref].interface)
  IN  /\ todo.op = "replace"
      /\ todo' = Idle
      /\ IF todo.program.ok /\ env.isready
         THEN /\ classes' = [classes EXCEPT ![ref].program = todo.program, ![ref].env = env]
              /\ finalized' = finalized \union {ref}
              /\ caller' = IF caller.ref = ref THEN [caller EXCEPT !.told = TRUE] ELSE caller
         ELSE UNCHANGED <<classes, caller, finalized>>
      /\ UNCHANGED <<file, clock, count>>

-----------------------------------------------------------------------------
Init ==
  /\ \E s \in Sources : file \in {NoFile, [exists |-> TRUE, source |-> s, modtime |-> 0]}
  /\ clock = 0
  /\ count = 0
  /\ classes = [r \in Refs |-> Unused]
  /\ todo = Idle
  /\ caller = NoCaller
  /\ finalized = {}

Refresh == RefreshStat \/ RefreshRead \/ RefreshReplace

Next ==
  \/ WriteFile \/ RemoveFile \/ Tick
  \/ CreateFromMemory \/ ReadSource \/ ReadModtime \/ CreateFromFile
  \/ \E ref \in Refs : Inject(ref) \/ Extract(ref) \/ Finalize(ref) \/ RefreshBegin(ref)
  \/ FinalizeAll \/ CleanupAll
  \/ Refresh

Spec == Init /\ [][Next]_vars

\* A host that polls refreshes every class again and again; calls return.
FairSpec ==
  /\ Spec
  /\ \A ref \in Refs : SF_vars(RefreshBegin(ref))
  /\ WF_vars(Refresh)
  /\ WF_vars(ReadModtime \/ CreateFromFile)

-----------------------------------------------------------------------------
(* Properties.                                                             *)

Programs == {NoProgram} \union {s \in Sources : s.ok}

FileOK ==
  /\ clock \in Times
  /\ \/ file = NoFile
     \/ file.exists /\ file.source \in Sources /\ file.modtime \in Times

ClassOK(class) ==
  /\ DOMAIN class = DOMAIN Unused
  /\ class.program \in Programs
  /\ class.modtime \in Times

ClassesOK ==
  /\ count \in 0 .. XuCount
  /\ classes = [r \in Refs |-> classes[r]]
  /\ \A r \in Refs : ClassOK(classes[r])
  /\ \A r \in Refs : classes[r].program # NoProgram <=> r < count
  /\ \A r \in Refs : classes[r].path => r < count

TodoOK ==
  /\ todo.op \in {"idle", "time", "create", "stat", "read", "replace"}
  /\ todo.op \in {"time", "create"} => todo.source \in Sources
  /\ todo.op = "create" => todo.modtime \in Times
  /\ todo.op \in {"stat", "read", "replace"} => todo.ref \in Refs /\ todo.ref < count
  /\ todo.op = "replace" => todo.program \in Programs

HostOK ==
  /\ \/ caller = NoCaller
     \/ DOMAIN caller = {"ref", "address", "name", "told"} /\ caller.ref \in Refs
  /\ finalized \subseteq {r \in Refs : r < count /\ classes[r].env.isready}

TypeOK == FileOK /\ ClassesOK /\ TodoOK /\ HostOK

\* A program runs with its own host functions only: an environment that is ready
\* has, at the index of every import of the program that is there now, the handle
\* supplied under that name and with that type.
EnvMatches ==
  \A r \in Refs : classes[r].env.isready =>
    /\ classes[r].program.ok
    /\ classes[r].env = EnvOf(classes[r].program, classes[r].interface)

\* Once the host was told that a class is ready, a caller runs the function it was
\* extracted for until the host is told something else: no refresh that fails,
\* no write to the file, no injection and no other class comes between.
CallsRunWhatWasExtracted ==
  caller # NoCaller /\ ~caller.told /\ caller.ref \in finalized => Runs(caller) = caller.name

\* A source that compiles and links and has a later time than the class is in the
\* class some time, or is replaced itself.
Fits(r) == file.exists /\ file.source.ok /\ Supplied(file.source, classes[r].interface)

CatchesUp ==
  \A r \in Refs :
    classes[r].path /\ Fits(r) /\ file.modtime > classes[r].modtime
      ~> ~classes[r].path \/ ~Fits(r) \/ classes[r].program = file.source
=============================================================================
