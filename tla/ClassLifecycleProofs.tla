----------------------- MODULE ClassLifecycleProofs -----------------------
(***************************************************************************)
(* Theorems about ClassLifecycle, for every length of the class list,      *)
(* every set of sources and every host.                                    *)
(***************************************************************************)
EXTENDS ClassLifecycle, TLAPS

\* What EnvMatches says of one class.
Matches(class) ==
  class.env.isready => /\ class.program.ok
                       /\ class.env = EnvOf(class.program, class.interface)

\* What a caller relies on that nobody told anything: it is in the program still.
CallerFits ==
  caller # NoCaller /\ ~caller.told =>
    LET program == classes[caller.ref].program
    IN  /\ program # NoProgram
        /\ caller.address \in DOMAIN program.code
        /\ program.code[caller.address] = caller.name

Inv == TypeOK /\ EnvMatches /\ CallerFits

-----------------------------------------------------------------------------
(* Programs and environments.                                              *)

LEMMA OkMeansProgram ==
  ASSUME NEW p \in Programs
  PROVE  p.ok <=> p # NoProgram
BY DEF Programs, NoProgram

LEMMA CompileType ==
  ASSUME NEW s \in Sources
  PROVE  Compile(s) \in Programs
BY DEF Compile, Programs

\* The environment vm_env_setup makes of a program matches it.
LEMMA SetupMatches ==
  ASSUME NEW class, class.program.ok, class.env = EnvOf(class.program, class.interface)
  PROVE  Matches(class)
BY DEF Matches

\* A function more in the table changes no environment that was complete.
LEMMA InjectKeepsEnv ==
  ASSUME NEW program, NEW known, NEW f, f.name \notin DOMAIN known, Supplied(program, known)
  PROVE  EnvOf(program, Define(known, f)) = EnvOf(program, known)
<1> DEFINE more == Define(known, f)
<1>1. \A i \in DOMAIN program.imports :
        /\ program.imports[i].name \in DOMAIN known
        /\ more[program.imports[i].name] = known[program.imports[i].name]
  BY DEF Supplied, Define
<1>2. DOMAIN more = DOMAIN known \union {f.name}
  BY DEF Define
<1> HIDE DEF more
<1>3. Supplied(program, more)
  BY <1>1, <1>2 DEF Supplied
<1>4. [i \in DOMAIN program.imports |-> more[program.imports[i].name].handle]
        = [i \in DOMAIN program.imports |-> known[program.imports[i].name].handle]
  BY <1>1
<1>5. EnvOf(program, more) = EnvOf(program, known)
  BY <1>3, <1>4 DEF EnvOf
<1> QED BY <1>5 DEF more

-----------------------------------------------------------------------------
(* Steps that change one class, and steps that change none.                *)

LEMMA OneClass ==
  ASSUME ClassesOK, NEW ref \in Refs, NEW c, ClassOK(c), classes' = [classes EXCEPT ![ref] = c]
  PROVE  /\ classes' = [r \in Refs |-> classes'[r]]
         /\ classes'[ref] = c
         /\ \A r \in Refs : r # ref => classes'[r] = classes[r]
         /\ \A r \in Refs : ClassOK(classes'[r])
<1>1. DOMAIN classes = Refs
  BY DEF ClassesOK
<1>2. /\ classes' = [r \in Refs |-> classes'[r]]
      /\ classes'[ref] = c
      /\ \A r \in Refs : r # ref => classes'[r] = classes[r]
  BY <1>1
<1> QED BY <1>2 DEF ClassesOK

LEMMA MatchesNow ==
  EnvMatches => \A r \in Refs : Matches(classes[r])
BY DEF EnvMatches, Matches

LEMMA MatchesNext ==
  (\A r \in Refs : Matches(classes'[r])) => EnvMatches'
BY DEF EnvMatches, Matches, EnvOf, Supplied

LEMMA NoClass ==
  ASSUME Inv, UNCHANGED <<count, classes, caller, finalized>>
  PROVE  ClassesOK' /\ HostOK' /\ EnvMatches' /\ CallerFits'
<1>1. ClassesOK'
  BY DEF Inv, TypeOK, ClassesOK, ClassOK
<1>2. HostOK'
  BY DEF Inv, TypeOK, HostOK
<1>3. EnvMatches'
  BY MatchesNow, MatchesNext DEF Inv
<1>4. CallerFits'
  BY DEF Inv, CallerFits
<1> QED BY <1>1, <1>2, <1>3, <1>4

\* Steps of the file and of operations that have not come to the class.
LEMMA EnvironmentStep ==
  ASSUME Inv, WriteFile \/ RemoveFile \/ Tick \/ ReadSource \/ ReadModtime
              \/ (\E ref \in Refs : RefreshBegin(ref)) \/ RefreshRead
  PROVE  Inv'
<1>1. UNCHANGED <<count, classes, caller, finalized>>
  BY DEF WriteFile, RemoveFile, Tick, ReadSource, ReadModtime, RefreshBegin, RefreshRead
<1>2. FileOK'
  BY MaxClockAssumption
  DEF Inv, TypeOK, FileOK, Times, WriteFile, RemoveFile, Tick, ReadSource, ReadModtime,
      RefreshBegin, RefreshRead
<1>3. TodoOK'
  <2>1. CASE WriteFile \/ RemoveFile \/ Tick
    BY <2>1 DEF Inv, TypeOK, TodoOK, WriteFile, RemoveFile, Tick
  <2>2. CASE ReadSource
    <3>1. file.source \in Sources
      BY <2>2 DEF Inv, TypeOK, FileOK, ReadSource, NoFile
    <3> QED BY <2>2, <3>1 DEF TodoOK, ReadSource
  <2>3. CASE ReadModtime
    BY <2>3 DEF Inv, TypeOK, TodoOK, ReadModtime
  <2>4. CASE \E ref \in Refs : RefreshBegin(ref)
    <3>1. PICK ref \in Refs : RefreshBegin(ref)
      BY <2>4
    <3>2. ref < count
      BY <3>1 DEF Inv, TypeOK, ClassesOK, RefreshBegin
    <3> QED BY <3>1, <3>2 DEF TodoOK, RefreshBegin
  <2>5. CASE RefreshRead
    <3>1. (IF file.exists THEN Compile(file.source) ELSE NoProgram) \in Programs
      BY CompileType DEF Inv, TypeOK, FileOK, NoFile, Programs
    <3> QED BY <2>5, <3>1 DEF Inv, TypeOK, TodoOK, RefreshRead
  <2> QED BY <2>1, <2>2, <2>3, <2>4, <2>5
<1> QED BY <1>1, <1>2, <1>3, NoClass DEF Inv, TypeOK

-----------------------------------------------------------------------------
(* The operations of the host.                                             *)

LEMMA CreateKeeps ==
  ASSUME Inv, NEW s \in Sources, NEW fromFile, NEW t \in Times,
         Create(s, fromFile, t), UNCHANGED <<file, clock, caller>>, TodoOK'
  PROVE  Inv'
<1>0. Compile(s) \in Programs /\ count \in Nat /\ XuCount \in Nat
  BY CompileType, XuCountAssumption DEF Inv, TypeOK, ClassesOK
<1>1. FileOK' /\ TodoOK'
  BY DEF Inv, TypeOK, FileOK
<1>2. CASE UNCHANGED <<count, classes, finalized>>
  BY <1>1, <1>2, NoClass DEF Inv, TypeOK
<1>3. CASE /\ count < XuCount /\ ~Compile(s).ok
           /\ classes' = [classes EXCEPT ![count].interface = Default, ![count].program = NoProgram]
           /\ UNCHANGED <<count, finalized>>
  <2> DEFINE c == [classes[count] EXCEPT !.interface = Default, !.program = NoProgram]
  <2>1. count \in Refs /\ ClassOK(classes[count]) /\ classes[count].program = NoProgram
        /\ ~classes[count].path
    BY <1>0, <1>3 DEF Inv, TypeOK, ClassesOK, Refs
  <2>2. /\ ClassOK(c)
        /\ c.program = NoProgram /\ c.path = classes[count].path /\ c.env = classes[count].env
    BY <2>1 DEF ClassOK, Unused, Programs
  <2>3. classes' = [classes EXCEPT ![count] = c]
    BY <1>3
  <2> HIDE DEF c
  <2>4. /\ classes' = [r \in Refs |-> classes'[r]]
        /\ classes'[count] = c
        /\ \A r \in Refs : r # count => classes'[r] = classes[r]
        /\ \A r \in Refs : ClassOK(classes'[r])
    BY <2>1, <2>2, <2>3, OneClass DEF Inv, TypeOK
  <2>5. ClassesOK'
    BY <2>1, <2>2, <2>4, <1>3 DEF Inv, TypeOK, ClassesOK, ClassOK
  <2>6. HostOK'
    <3>1. \A r \in finalized : r \in Refs /\ r < count /\ r # count /\ classes[r].env.isready
      BY <1>0 DEF Inv, TypeOK, HostOK, Refs
    <3>2. \A r \in finalized : classes'[r].env.isready
      BY <2>4, <3>1
    <3> QED BY <3>1, <3>2, <1>3 DEF Inv, TypeOK, HostOK
  <2>7. Matches(c)
    BY <2>1, <2>2 DEF Inv, EnvMatches, Matches, NoProgram
  <2>8. EnvMatches'
    BY <2>4, <2>7, MatchesNow, MatchesNext DEF Inv
  <2>9. CallerFits'
    BY <2>1, <2>4 DEF Inv, TypeOK, HostOK, CallerFits
  <2> QED BY <1>1, <2>5, <2>6, <2>8, <2>9 DEF Inv, TypeOK
<1>4. CASE /\ count < XuCount /\ Compile(s).ok
           /\ classes' = [classes EXCEPT ![count] =
                [[Unused EXCEPT !.interface = Default, !.program = Compile(s)]
                   EXCEPT !.path = fromFile, !.modtime = t]]
           /\ count' = count + 1
           /\ finalized' = finalized \ {count}
  <2> DEFINE c == [[Unused EXCEPT !.interface = Default, !.program = Compile(s)]
                     EXCEPT !.path = fromFile, !.modtime = t]
  <2>1. count \in Refs /\ classes[count].program = NoProgram
    BY <1>0, <1>4 DEF Inv, TypeOK, ClassesOK, Refs
  <2>2. ClassOK(c) /\ c.program = Compile(s) /\ ~c.env.isready
    BY <1>0 DEF ClassOK, Unused, NoEnv
  <2>3. c.program # NoProgram
    BY <1>0, <1>4, <2>2, OkMeansProgram
  <2> HIDE DEF c
  <2>4. /\ classes' = [r \in Refs |-> classes'[r]]
        /\ classes'[count] = c
        /\ \A r \in Refs : r # count => classes'[r] = classes[r]
        /\ \A r \in Refs : ClassOK(classes'[r])
    BY <2>1, <2>2, <1>4, OneClass DEF Inv, TypeOK, c
  <2>5. ClassesOK'
    BY <2>1, <2>2, <2>3, <2>4, <1>0, <1>4 DEF Inv, TypeOK, ClassesOK, ClassOK, Refs
  <2>6. HostOK'
    BY <2>1, <2>4, <1>0, <1>4 DEF Inv, TypeOK, HostOK, Refs
  <2>7. EnvMatches'
    BY <2>2, <2>4, MatchesNow, MatchesNext DEF Inv, Matches
  <2>8. CallerFits'
    BY <2>1, <2>4, <1>4 DEF Inv, TypeOK, HostOK, CallerFits
  <2> QED BY <1>1, <2>5, <2>6, <2>7, <2>8 DEF Inv, TypeOK
<1>5. count >= XuCount \/ count < XuCount
  BY <1>0
<1> QED BY <1>0, <1>2, <1>3, <1>4, <1>5 DEF Create

LEMMA InjectKeeps ==
  ASSUME Inv, NEW ref \in Refs, Inject(ref)
  PROVE  Inv'
<1> DEFINE known == classes[ref].interface
           more(f) == Define(known, f)
<1>1. PICK f \in Supplies : f.name \notin DOMAIN known
                            /\ classes' = [classes EXCEPT ![ref].interface = more(f)]
  BY DEF Inject
<1> DEFINE c == [classes[ref] EXCEPT !.interface = more(f)]
<1>2. /\ ClassOK(c)
      /\ c.program = classes[ref].program /\ c.path = classes[ref].path /\ c.env = classes[ref].env
      /\ c.interface = more(f)
  BY DEF Inv, TypeOK, ClassesOK, ClassOK, Unused
<1>3. classes' = [classes EXCEPT ![ref] = c]
  BY <1>1
<1>4. ASSUME c.env.isready PROVE c.env = EnvOf(c.program, c.interface)
  <2>1. c.env = EnvOf(c.program, known)
    BY <1>2, <1>4 DEF Inv, EnvMatches
  <2>2. Supplied(c.program, known)
    <3> HIDE DEF c, more, known
    <3>1. SUFFICES ASSUME ~Supplied(c.program, known) PROVE FALSE
      OBVIOUS
    <3>2. EnvOf(c.program, known) = NoEnv
      BY <3>1 DEF EnvOf
    <3>3. ~NoEnv.isready
      BY DEF NoEnv
    <3> QED BY <1>4, <2>1, <3>2, <3>3
  <2>3. EnvOf(c.program, more(f)) = EnvOf(c.program, known)
    <3> HIDE DEF c
    <3> QED BY <1>1, <2>2, InjectKeepsEnv
  <2> QED BY <1>2, <2>1, <2>3
<1>5. Matches(c)
  BY <1>2, <1>4 DEF Inv, EnvMatches, Matches
<1> HIDE DEF c
<1>6. /\ classes' = [r \in Refs |-> classes'[r]]
      /\ classes'[ref] = c
      /\ \A r \in Refs : r # ref => classes'[r] = classes[r]
      /\ \A r \in Refs : ClassOK(classes'[r])
  BY <1>2, <1>3, OneClass DEF Inv, TypeOK
<1>7. UNCHANGED <<file, clock, count, todo, caller, finalized>>
  BY DEF Inject
<1>8. FileOK' /\ TodoOK'
  BY <1>7 DEF Inv, TypeOK, FileOK, TodoOK
<1>9. ClassesOK' /\ HostOK'
  BY <1>2, <1>6, <1>7 DEF Inv, TypeOK, ClassesOK, ClassOK, HostOK
<1>10. EnvMatches'
  BY <1>5, <1>6, MatchesNow, MatchesNext DEF Inv
<1>11. CallerFits'
  BY <1>2, <1>6, <1>7 DEF Inv, TypeOK, HostOK, CallerFits
<1> QED BY <1>8, <1>9, <1>10, <1>11 DEF Inv, TypeOK

LEMMA ExtractKeeps ==
  ASSUME Inv, NEW ref \in Refs, Extract(ref)
  PROVE  Inv'
<1>1. PICK a \in DOMAIN classes[ref].program.code :
        caller' = [ref |-> ref, address |-> a, name |-> classes[ref].program.code[a], told |-> FALSE]
  BY DEF Extract, Entries
<1>2. UNCHANGED <<file, clock, count, classes, todo, finalized>>
  BY DEF Extract
<1>3. classes[ref].program # NoProgram
  BY OkMeansProgram DEF Extract, IsCompiled, Inv, TypeOK, ClassesOK, ClassOK
<1>4. FileOK' /\ TodoOK' /\ ClassesOK'
  BY <1>2 DEF Inv, TypeOK, FileOK, TodoOK, ClassesOK, ClassOK
<1>5. HostOK'
  BY <1>1, <1>2 DEF Inv, TypeOK, HostOK
<1>6. EnvMatches'
  BY <1>2, MatchesNow, MatchesNext DEF Inv
<1>7. CallerFits'
  BY <1>1, <1>2, <1>3 DEF CallerFits
<1> QED BY <1>4, <1>5, <1>6, <1>7 DEF Inv, TypeOK

LEMMA FinalizeKeeps ==
  ASSUME Inv, NEW ref \in Refs, Finalize(ref)
  PROVE  Inv'
<1> DEFINE env == EnvOf(classes[ref].program, classes[ref].interface)
           c   == [classes[ref] EXCEPT !.env = env]
<1>1. /\ classes' = [classes EXCEPT ![ref] = c]
      /\ UNCHANGED <<file, clock, count, todo, caller>>
      /\ classes[ref].program.ok
  BY DEF Finalize, IsCompiled
<1>2. finalized' = IF env.isready THEN finalized \union {ref} ELSE finalized \ {ref}
  BY DEF Finalize
<1>3. /\ ClassOK(c)
      /\ c.program = classes[ref].program /\ c.path = classes[ref].path /\ c.env = env
      /\ c.interface = classes[ref].interface
  BY DEF Inv, TypeOK, ClassesOK, ClassOK, Unused
<1>4. Matches(c)
  BY <1>1, <1>3, SetupMatches
<1> HIDE DEF c, env
<1>5. /\ classes' = [r \in Refs |-> classes'[r]]
      /\ classes'[ref] = c
      /\ \A r \in Refs : r # ref => classes'[r] = classes[r]
      /\ \A r \in Refs : ClassOK(classes'[r])
  BY <1>1, <1>3, OneClass DEF Inv, TypeOK
<1>6. ref < count
  BY <1>1, OkMeansProgram DEF Inv, TypeOK, ClassesOK, ClassOK
<1>7. FileOK' /\ TodoOK' /\ ClassesOK'
  BY <1>1, <1>3, <1>5 DEF Inv, TypeOK, FileOK, TodoOK, ClassesOK, ClassOK
<1>8. HostOK'
  BY <1>1, <1>2, <1>3, <1>5, <1>6 DEF Inv, TypeOK, HostOK
<1>9. EnvMatches'
  BY <1>4, <1>5, MatchesNow, MatchesNext DEF Inv
<1>10. CallerFits'
  BY <1>1, <1>3, <1>5 DEF Inv, TypeOK, HostOK, CallerFits
<1> QED BY <1>7, <1>8, <1>9, <1>10 DEF Inv, TypeOK

LEMMA FinalizeAllKeeps ==
  ASSUME Inv, FinalizeAll
  PROVE  Inv'
<1> DEFINE c(r) == [classes[r] EXCEPT !.env = EnvOf(classes[r].program, classes[r].interface)]
<1>1. UNCHANGED <<file, clock, count, todo, caller>>
  BY DEF FinalizeAll
<1>2. ASSUME NEW r \in Refs
      PROVE  /\ ClassOK(classes'[r])
             /\ classes'[r].program = classes[r].program
             /\ classes'[r].path = classes[r].path
             /\ Matches(classes'[r])
  <2>1. CASE r < count /\ IsCompiled(r)
    <3>1. classes'[r] = c(r)
      BY <2>1 DEF FinalizeAll
    <3>2. /\ ClassOK(c(r))
          /\ c(r).program = classes[r].program /\ c(r).path = classes[r].path
          /\ c(r).interface = classes[r].interface
          /\ c(r).env = EnvOf(classes[r].program, classes[r].interface)
      BY DEF Inv, TypeOK, ClassesOK, ClassOK, Unused
    <3> HIDE DEF c
    <3>3. Matches(c(r))
      BY <2>1, <3>2, SetupMatches DEF IsCompiled
    <3> QED BY <3>1, <3>2, <3>3
  <2>2. CASE ~(r < count /\ IsCompiled(r))
    <3>1. classes'[r] = classes[r]
      BY <2>2 DEF FinalizeAll
    <3> QED BY <3>1, MatchesNow DEF Inv, TypeOK, ClassesOK
  <2> QED BY <2>1, <2>2
<1>3. classes' = [r \in Refs |-> classes'[r]]
  BY DEF FinalizeAll
<1>4. ClassesOK'
  BY <1>1, <1>2, <1>3 DEF Inv, TypeOK, ClassesOK, ClassOK
<1>5. FileOK' /\ TodoOK'
  BY <1>1 DEF Inv, TypeOK, FileOK, TodoOK
<1>6. finalized' \subseteq {r \in Refs : r < count /\ classes'[r].env.isready}
  BY DEF FinalizeAll
<1>7. HostOK'
  BY <1>1, <1>6 DEF Inv, TypeOK, HostOK
<1>8. EnvMatches'
  BY <1>2, MatchesNext
<1>9. CallerFits'
  BY <1>1, <1>2 DEF Inv, TypeOK, HostOK, CallerFits
<1> QED BY <1>4, <1>5, <1>7, <1>8, <1>9 DEF Inv, TypeOK

LEMMA CleanupKeeps ==
  ASSUME Inv, CleanupAll
  PROVE  Inv'
<1>1. count' = 0 /\ finalized' = {} /\ todo = Idle /\ UNCHANGED <<file, clock, todo>>
  BY DEF CleanupAll
<1>2. \A r \in Refs : classes'[r] = Unused \/ (classes'[r] = classes[r] /\ ~(r < count))
  BY DEF CleanupAll
<1>3. ClassOK(Unused) /\ Unused.program = NoProgram /\ ~Unused.path /\ ~Unused.env.isready
  BY MaxClockAssumption DEF ClassOK, Unused, Programs, Times, NoEnv
<1>4. \A r \in Refs : /\ ClassOK(classes'[r])
                      /\ classes'[r].program = NoProgram /\ ~classes'[r].path
                      /\ ~(r < 0)
  BY <1>2, <1>3 DEF Inv, TypeOK, ClassesOK, Refs
<1>5. classes' = [r \in Refs |-> classes'[r]]
  BY DEF CleanupAll
<1>6. ClassesOK'
  BY <1>1, <1>4, <1>5, XuCountAssumption DEF ClassesOK, ClassOK
<1>7. FileOK' /\ TodoOK'
  BY <1>1 DEF Inv, TypeOK, FileOK, TodoOK, Idle
<1>8. \/ caller' = NoCaller
      \/ DOMAIN caller' = {"ref", "address", "name", "told"} /\ caller'.ref \in Refs /\ caller'.told
  <2>1. CASE caller = NoCaller
    BY <2>1 DEF CleanupAll
  <2>2. CASE caller # NoCaller
    <3>1. DOMAIN caller = {"ref", "address", "name", "told"} /\ caller.ref \in Refs
      BY <2>2 DEF Inv, TypeOK, HostOK
    <3>2. caller' = [caller EXCEPT !.told = TRUE]
      BY <2>2 DEF CleanupAll
    <3> QED BY <3>1, <3>2
  <2> QED BY <2>1, <2>2
<1>9. HostOK' /\ CallerFits'
  BY <1>1, <1>8 DEF HostOK, CallerFits
<1>10. EnvMatches'
  <2>1. \A r \in Refs : Matches(classes'[r])
    BY <1>2, <1>3, MatchesNow DEF Inv, Matches
  <2> QED BY <2>1, MatchesNext
<1> QED BY <1>6, <1>7, <1>9, <1>10 DEF Inv, TypeOK

-----------------------------------------------------------------------------
(* Refreshing.                                                             *)

LEMMA RefreshStatKeeps ==
  ASSUME Inv, RefreshStat
  PROVE  Inv'
<1>1. PICK t \in Times :
        IF classes[todo.ref].modtime >= t
        THEN todo' = Idle /\ UNCHANGED classes
        ELSE /\ classes' = [classes EXCEPT ![todo.ref].modtime = t]
             /\ todo' = [op |-> "read", ref |-> todo.ref]
  BY DEF RefreshStat
<1>2. UNCHANGED <<file, clock, count, caller, finalized>>
  BY DEF RefreshStat
<1>3. todo.ref \in Refs /\ todo.ref < count
  BY DEF RefreshStat, Inv, TypeOK, TodoOK
<1>4. FileOK'
  BY <1>2 DEF Inv, TypeOK, FileOK
<1>5. CASE todo' = Idle /\ UNCHANGED classes
  <2>1. TodoOK'
    BY <1>5 DEF TodoOK, Idle
  <2> QED BY <1>2, <1>4, <1>5, <2>1, NoClass DEF Inv, TypeOK
<1>6. CASE /\ classes' = [classes EXCEPT ![todo.ref].modtime = t]
           /\ todo' = [op |-> "read", ref |-> todo.ref]
  <2> DEFINE c == [classes[todo.ref] EXCEPT !.modtime = t]
  <2>1. classes' = [classes EXCEPT ![todo.ref] = c]
    BY <1>6
  <2>2. /\ ClassOK(c)
        /\ c.program = classes[todo.ref].program /\ c.path = classes[todo.ref].path
        /\ c.env = classes[todo.ref].env /\ c.interface = classes[todo.ref].interface
    BY <1>3 DEF Inv, TypeOK, ClassesOK, ClassOK, Unused
  <2> HIDE DEF c
  <2>3. /\ classes' = [r \in Refs |-> classes'[r]]
        /\ classes'[todo.ref] = c
        /\ \A r \in Refs : r # todo.ref => classes'[r] = classes[r]
        /\ \A r \in Refs : ClassOK(classes'[r])
    BY <1>3, <2>1, <2>2, OneClass DEF Inv, TypeOK
  <2>4. TodoOK'
    BY <1>2, <1>3, <1>6 DEF TodoOK
  <2>5. ClassesOK' /\ HostOK'
    BY <1>2, <2>2, <2>3 DEF Inv, TypeOK, ClassesOK, ClassOK, HostOK
  <2>6. Matches(c)
    BY <1>3, <2>2, MatchesNow DEF Inv, Matches
  <2>7. EnvMatches'
    BY <2>3, <2>6, MatchesNow, MatchesNext DEF Inv
  <2>8. CallerFits'
    BY <1>2, <2>2, <2>3 DEF Inv, TypeOK, HostOK, CallerFits
  <2> QED BY <1>4, <2>4, <2>5, <2>7, <2>8 DEF Inv, TypeOK
<1> QED BY <1>1, <1>5, <1>6

\* The new program comes with the environment made for it, and who holds a caller
\* of the old one is told.
LEMMA RefreshReplaceKeeps ==
  ASSUME Inv, RefreshReplace
  PROVE  Inv'
<1> DEFINE ref == todo.ref
           env == EnvOf(todo.program, classes[ref].interface)
           c   == [classes[ref] EXCEPT !.program = todo.program, !.env = env]
<1>1. ref \in Refs /\ ref < count /\ todo.program \in Programs
  BY DEF RefreshReplace, Inv, TypeOK, TodoOK
<1>2. todo' = Idle /\ UNCHANGED <<file, clock, count>>
  BY DEF RefreshReplace
<1>3. FileOK' /\ TodoOK'
  BY <1>2 DEF Inv, TypeOK, FileOK, TodoOK, Idle
<1>4. CASE ~(todo.program.ok /\ env.isready)
  <2>1. UNCHANGED <<classes, caller, finalized>>
    BY <1>4 DEF RefreshReplace
  <2> QED BY <1>2, <1>3, <2>1, NoClass DEF Inv, TypeOK
<1>5. CASE todo.program.ok /\ env.isready
  <2>1. /\ classes' = [classes EXCEPT ![ref] = c]
        /\ finalized' = finalized \union {ref}
        /\ caller' = IF caller.ref = ref THEN [caller EXCEPT !.told = TRUE] ELSE caller
    BY <1>5 DEF RefreshReplace
  <2>2. /\ ClassOK(c)
        /\ c.program = todo.program /\ c.path = classes[ref].path
        /\ c.env = env /\ c.interface = classes[ref].interface
    BY <1>1 DEF Inv, TypeOK, ClassesOK, ClassOK, Unused
  <2>3. c.program # NoProgram
    BY <1>1, <1>5, <2>2, OkMeansProgram
  <2>4. Matches(c)
    BY <1>5, <2>2, SetupMatches
  <2>5. c.env.isready
    BY <1>5, <2>2
  <2> HIDE DEF c, env
  <2>6. /\ classes' = [r \in Refs |-> classes'[r]]
        /\ classes'[ref] = c
        /\ \A r \in Refs : r # ref => classes'[r] = classes[r]
        /\ \A r \in Refs : ClassOK(classes'[r])
    BY <1>1, <2>1, <2>2, OneClass DEF Inv, TypeOK
  <2>7. ClassesOK'
    BY <1>1, <1>2, <2>2, <2>3, <2>6 DEF Inv, TypeOK, ClassesOK, ClassOK
  <2>8. \/ caller' = caller /\ caller.ref # ref
        \/ /\ DOMAIN caller' = {"ref", "address", "name", "told"}
           /\ caller'.ref \in Refs /\ caller'.told
    <3>1. CASE caller.ref # ref
      BY <2>1, <3>1
    <3>2. CASE caller.ref = ref
      <4>1. DOMAIN caller = {"ref", "address", "name", "told"} /\ caller.ref \in Refs
        BY <1>1, <3>2 DEF Inv, TypeOK, HostOK, NoCaller, Refs
      <4>2. caller' = [caller EXCEPT !.told = TRUE]
        BY <2>1, <3>2
      <4> QED BY <4>1, <4>2
    <3> QED BY <3>1, <3>2
  <2>9. finalized' \subseteq {r \in Refs : r < count' /\ classes'[r].env.isready}
    BY <1>1, <1>2, <2>1, <2>5, <2>6 DEF Inv, TypeOK, HostOK
  <2>10. HostOK'
    BY <2>8, <2>9 DEF Inv, TypeOK, HostOK
  <2>11. EnvMatches'
    BY <2>4, <2>6, MatchesNow, MatchesNext DEF Inv
  <2>12. CallerFits'
    BY <2>6, <2>8 DEF Inv, TypeOK, HostOK, CallerFits
  <2> QED BY <1>3, <2>7, <2>10, <2>11, <2>12 DEF Inv, TypeOK
<1> QED BY <1>4, <1>5

-----------------------------------------------------------------------------
(* The theorems.                                                           *)

LEMMA InitInv == Init => Inv
<1> SUFFICES ASSUME Init PROVE Inv
  OBVIOUS
<1>1. classes = [r \in Refs |-> classes[r]] /\ \A r \in Refs : classes[r] = Unused
  BY DEF Init
<1>2. ClassOK(Unused) /\ Unused.program = NoProgram /\ ~Unused.path /\ ~Unused.env.isready
  BY MaxClockAssumption DEF ClassOK, Unused, Programs, Times, NoEnv
<1>3. FileOK
  BY MaxClockAssumption DEF Init, FileOK, NoFile, Times
<1>4. ClassesOK
  BY <1>1, <1>2, XuCountAssumption DEF Init, ClassesOK, Refs
<1>5. TodoOK /\ HostOK
  BY DEF Init, TodoOK, HostOK, Idle
<1>6. EnvMatches
  BY <1>1, <1>2 DEF EnvMatches
<1>7. CallerFits
  BY DEF Init, CallerFits
<1> QED BY <1>3, <1>4, <1>5, <1>6, <1>7 DEF Inv, TypeOK

LEMMA NextInv == Inv /\ [Next]_vars => Inv'
<1> SUFFICES ASSUME Inv, [Next]_vars PROVE Inv'
  OBVIOUS
<1>1. CASE WriteFile \/ RemoveFile \/ Tick \/ ReadSource \/ ReadModtime
           \/ (\E ref \in Refs : RefreshBegin(ref)) \/ RefreshRead
  BY <1>1, EnvironmentStep
<1>2. CASE CreateFromMemory
  <2>1. PICK s \in Sources : Create(s, FALSE, 0)
    BY <1>2 DEF CreateFromMemory
  <2>2. UNCHANGED <<file, clock, caller>> /\ todo = Idle /\ todo' = Idle
    BY <1>2 DEF CreateFromMemory
  <2>3. TodoOK' /\ 0 \in Times
    BY <2>2, MaxClockAssumption DEF TodoOK, Idle, Times
  <2> QED BY <2>1, <2>2, <2>3, CreateKeeps
<1>3. CASE CreateFromFile
  <2>1. Create(todo.source, file.exists, todo.modtime) /\ UNCHANGED <<file, clock, caller>>
    BY <1>3 DEF CreateFromFile
  <2>2. todo.source \in Sources /\ todo.modtime \in Times
    BY <1>3 DEF CreateFromFile, Inv, TypeOK, TodoOK
  <2>3. TodoOK'
    BY <1>3 DEF CreateFromFile, TodoOK, Idle
  <2> QED BY <2>1, <2>2, <2>3, CreateKeeps
<1>4. CASE \E ref \in Refs : Inject(ref) \/ Extract(ref) \/ Finalize(ref)
  BY <1>4, InjectKeeps, ExtractKeeps, FinalizeKeeps
<1>5. CASE FinalizeAll \/ CleanupAll
  BY <1>5, FinalizeAllKeeps, CleanupKeeps
<1>6. CASE RefreshStat \/ RefreshReplace
  BY <1>6, RefreshStatKeeps, RefreshReplaceKeeps
<1>7. CASE UNCHANGED vars
  <2>1. FileOK' /\ TodoOK'
    BY <1>7 DEF vars, Inv, TypeOK, FileOK, TodoOK
  <2> QED BY <1>7, <2>1, NoClass DEF vars, Inv, TypeOK
<1> QED BY <1>1, <1>2, <1>3, <1>4, <1>5, <1>6, <1>7 DEF Next, Refresh

THEOREM Invariance == Spec => []Inv
<1> QED BY InitInv, NextInv, PTL DEF Spec

\* The class list is well-formed: a class below count has a program and no other
\* index has one or is refreshed (xu_lib.c).
THEOREM ClassTypeCorrect == Spec => []TypeOK
<1>1. Inv => TypeOK
  BY DEF Inv
<1> QED BY <1>1, Invariance, PTL

\* No program ever runs with host functions that were mapped for another one, whatever
\* the file does during xu_refresh_class and whichever step of it fails.
THEOREM EnvironmentsMatch == Spec => []EnvMatches
<1>1. Inv => EnvMatches
  BY DEF Inv
<1> QED BY <1>1, Invariance, PTL

\* A caller of a class that is ready runs the function it was extracted for, unless
\* xu_refresh_class or xu_cleanup_all told the host otherwise.
THEOREM CallersKeepTheirFunction == Spec => []CallsRunWhatWasExtracted
<1>1. Inv => CallsRunWhatWasExtracted
  <2> SUFFICES ASSUME Inv, caller # NoCaller, ~caller.told, caller.ref \in finalized
               PROVE  Runs(caller) = caller.name
    BY DEF CallsRunWhatWasExtracted
  <2>1. classes[caller.ref].env.isready
    BY DEF Inv, TypeOK, HostOK
  <2>2. /\ classes[caller.ref].program.ok
        /\ caller.address \in DOMAIN classes[caller.ref].program.code
        /\ classes[caller.ref].program.code[caller.address] = caller.name
    BY OkMeansProgram DEF Inv, TypeOK, HostOK, ClassesOK, ClassOK, CallerFits
  <2> QED BY <2>1, <2>2 DEF Runs
<1> QED BY <1>1, Invariance, PTL
=============================================================================
