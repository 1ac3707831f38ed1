-------------------------- MODULE Coverage_proofs --------------------------
(***************************************************************************)
(* Proofs about the coverage that pcov records: about CovGenerator, which  *)
(* gets it from dumps, for every queue, any number of runs and any number  *)
(* of restarts, and about PcovCollect, by which PHP code reads it, for any *)
(* files and lines and arenas of any size.                                 *)
(***************************************************************************)
EXTENDS CovGenerator, PcovCollect, FiniteSetTheorems, TLAPS

(* The inductive invariant, part by part. *)

CovFiles == cov \in [Seeds -> {NoFile} \cup SUBSET Records]

(* Beyond the choice of an entry there is one, and what was read of it is  *)
(* the entry or the default input.                                         *)
Looking ==
    /\ pc \notin {"glob", "next"} => q \in Seeds
    /\ pc \in {"exec", "run", "trim", "write", "remove"} => inp \in {q, Default}

(* The records of a file are of one run. *)
OfOneRun(records) == \A r, s \in records : r.run = s.run

DumpsOfOneRun == OfOneRun(dump) /\ \A s \in Seeds : OfOneRun(cov[s])

(* The static is set during a run only, and the dump is of this run then. *)
DumpOfThisRun ==
    /\ cov_init => pc = "run" /\ (dump # NoFile => \A r \in dump : r.run = run)
    /\ pc = "run" => run > 0

(* Unless the generator was started again, no dump outlives its entry. *)
DumpOfItsEntry ==
    kills = 0 /\ dump # NoFile =>
      /\ pc \in {"run", "trim", "write", "remove", "ended"}
      /\ \A r \in dump : r.of \in {q, Default}

(* What is about to be written goes into a file that was just opened. *)
WrittenOnce == pc = "write" => cov[q] = {}

IInv ==
    /\ TypeOK
    /\ CovFiles
    /\ WrittenOnce
    /\ Looking
    /\ DumpsOfOneRun
    /\ DumpOfThisRun
    /\ DumpOfItsEntry
    /\ CovOfItsEntry

-----------------------------------------------------------------------------
(* A missing file is told apart from every file. *)
LEMMA NoFileIsNone ==
    /\ \A S \in SUBSET Records : S # NoFile
    /\ OfOneRun(NoFile)
    /\ OfOneRun({})
<1>1. [run |-> 0, of |-> Default, line |-> <<>>] \notin Records
  BY DEF Records
<1>2. \A S \in SUBSET Records : S # NoFile
  BY <1>1 DEF NoFile
<1>3. OfOneRun(NoFile) /\ OfOneRun({})
  BY DEF OfOneRun, NoFile
<1> QED
  BY <1>2, <1>3

(* The generator starts with an empty workdir. *)
LEMMA InitIInv == Init => IInv
<1> SUFFICES ASSUME Init PROVE IInv
  OBVIOUS
<1> USE CovGeneratorConstants DEF Init
<1>1. TypeOK
  <2>1. cov_init \in BOOLEAN
    OBVIOUS
  <2>2. queue \in [Seeds -> Phases]
    BY DEF Phases
  <2> QED
    BY <2>1, <2>2 DEF TypeOK
<1>2. CovFiles /\ WrittenOnce /\ Looking /\ DumpOfThisRun /\ DumpOfItsEntry /\ CovOfItsEntry
  BY DEF CovFiles, WrittenOnce, Looking, DumpOfThisRun, DumpOfItsEntry, CovOfItsEntry
<1>3. DumpsOfOneRun
  BY NoFileIsNone DEF DumpsOfOneRun
<1> QED
  BY <1>1, <1>2, <1>3 DEF IInv

(* A record that a run dumps joins records of the same run and entry.      *)
LEMMA RecordJoins ==
    ASSUME IInv, pc = "run",
           NEW line \in Lines \cup ({"feedback"} \X Lines),
           cov_dump_payload([run |-> run, of |-> inp, line |-> line])
    PROVE  /\ dump' \subseteq Records /\ dump' # NoFile
           /\ cov_init' = TRUE
           /\ \A r \in dump' : r.run = run
           /\ kills = 0 => \A r \in dump' : r.of \in {q, Default}
<1> DEFINE record == [run |-> run, of |-> inp, line |-> line]
<1>1. record \in Records /\ record.run = run /\ record.of \in {q, Default}
  <2>1. run \in 1 .. MaxRuns
    BY CovGeneratorConstants DEF IInv, TypeOK, DumpOfThisRun
  <2>2. inp \in Seeds \cup {Default} /\ inp \in {q, Default}
    BY DEF IInv, TypeOK, Looking
  <2> QED
    BY <2>1, <2>2 DEF Records
<1>2. dump' = {record} \/ (cov_init /\ dump # NoFile /\ dump' = dump \cup {record})
  BY DEF cov_dump_payload
<1>3. cov_init' = TRUE
  BY DEF cov_dump_payload
<1> HIDE DEF record
<1>4. CASE dump' = {record}
  <2>1. dump' \subseteq Records
    BY <1>1, <1>4
  <2> QED
    BY <1>1, <1>3, <1>4, <2>1, NoFileIsNone
<1>5. CASE cov_init /\ dump # NoFile /\ dump' = dump \cup {record}
  <2>1. dump' \subseteq Records
    BY <1>1, <1>5 DEF IInv, TypeOK
  <2>2. \A r \in dump' : r.run = run
    BY <1>1, <1>5 DEF IInv, DumpOfThisRun
  <2>3. kills = 0 => \A r \in dump' : r.of \in {q, Default}
    BY <1>1, <1>5 DEF IInv, DumpOfItsEntry
  <2> QED
    BY <1>3, <2>1, <2>2, <2>3, NoFileIsNone
<1> QED
  BY <1>2, <1>4, <1>5

(* Every step keeps the inductive invariant. *)
LEMMA StepIInv == IInv /\ [Next]_vars => IInv'
<1> SUFFICES ASSUME IInv, [Next]_vars PROVE IInv'
  OBVIOUS
<1> USE CovGeneratorConstants DEF genVars, vmVars
<1>1. ASSUME NEW s \in Seeds, CreateEntry(s) \/ FillEntry(s) \/ UnlinkEntry(s) PROVE IInv'
  <2> USE <1>1 DEF CreateEntry, FillEntry, UnlinkEntry
  <2>1. queue' \in [Seeds -> Phases]
    BY DEF IInv, TypeOK, Phases
  <2>2. TypeOK'
    BY <2>1 DEF IInv, TypeOK
  <2> QED
    BY <2>2 DEF IInv, CovFiles, WrittenOnce, Looking, DumpsOfOneRun, OfOneRun,
                DumpOfThisRun, DumpOfItsEntry, CovOfItsEntry
<1>2. CASE Glob \/ Sleep \/ StartRun \/ ReadEntry \/ \E s \in Seeds : NextEntry(s)
  <2>1. UNCHANGED <<cov, dump, cov_init, visited, kills>>
    BY <1>2 DEF Glob, Sleep, StartRun, ReadEntry, NextEntry
  <2>2. TypeOK'
    <3>1. CASE Glob \/ Sleep
      BY <3>1 DEF Glob, Sleep, IInv, TypeOK
    <3>2. CASE StartRun
      BY <3>2 DEF StartRun, IInv, TypeOK
    <3>3. CASE ReadEntry
      BY <3>3 DEF ReadEntry, IInv, TypeOK, Looking
    <3>4. CASE \E s \in Seeds : NextEntry(s)
      BY <3>4 DEF NextEntry, IInv, TypeOK
    <3> QED
      BY <1>2, <3>1, <3>2, <3>3, <3>4
  <2>3. Looking'
    BY <1>2 DEF Glob, Sleep, StartRun, ReadEntry, NextEntry, IInv, Looking
  <2>4. DumpOfThisRun'
    BY <1>2, <2>1 DEF Glob, Sleep, StartRun, ReadEntry, NextEntry, IInv, TypeOK, DumpOfThisRun
  <2>5. DumpOfItsEntry'
    BY <1>2, <2>1 DEF Glob, Sleep, StartRun, ReadEntry, NextEntry, IInv, DumpOfItsEntry
  <2> QED
    BY <1>2, <2>1, <2>2, <2>3, <2>4, <2>5
       DEF Glob, Sleep, StartRun, ReadEntry, NextEntry, IInv, CovFiles, WrittenOnce,
           DumpsOfOneRun, OfOneRun, CovOfItsEntry
<1>3. ASSUME NEW line \in Lines, php_pcov_trace(line) \/ php_pcov_feedback(line)
      PROVE  IInv'
  <2>1. /\ pc = "run" /\ visited' \subseteq Lines
        /\ UNCHANGED <<queue, cov, pc, todo, q, inp, run, kills>>
    BY <1>3 DEF php_pcov_trace, php_pcov_feedback, IInv, TypeOK
  <2>2. \/ UNCHANGED <<dump, cov_init>>
        \/ \E l \in Lines \cup ({"feedback"} \X Lines) :
             cov_dump_payload([run |-> run, of |-> inp, line |-> l])
    BY <1>3 DEF php_pcov_trace, php_pcov_feedback
  <2>3. \/ UNCHANGED <<dump, cov_init>>
        \/ /\ dump' \subseteq Records /\ dump' # NoFile
           /\ cov_init' = TRUE
           /\ \A r \in dump' : r.run = run
           /\ kills = 0 => \A r \in dump' : r.of \in {q, Default}
    BY <2>1, <2>2, RecordJoins
  <2>4. TypeOK'
    <3>1. cov_init' \in BOOLEAN
      BY <2>3 DEF IInv, TypeOK
    <3>2. dump' = NoFile \/ dump' \subseteq Records
      BY <2>3 DEF IInv, TypeOK
    <3> QED
      BY <2>1, <3>1, <3>2 DEF IInv, TypeOK
  <2>5. DumpsOfOneRun' /\ DumpOfThisRun'
    BY <2>1, <2>3 DEF IInv, DumpsOfOneRun, OfOneRun, DumpOfThisRun
  <2>6. DumpOfItsEntry'
    BY <2>1, <2>3 DEF IInv, DumpOfItsEntry
  <2> QED
    BY <2>1, <2>4, <2>5, <2>6 DEF IInv, CovFiles, WrittenOnce, Looking, CovOfItsEntry
<1>4. CASE EndRun
  <2> USE <1>4 DEF EndRun
  <2>1. cov_init' \in BOOLEAN
    OBVIOUS
  <2>2. TypeOK'
    BY <2>1 DEF IInv, TypeOK
  <2> QED
    BY <2>2 DEF IInv, CovFiles, WrittenOnce, Looking, DumpsOfOneRun, OfOneRun,
                DumpOfThisRun, DumpOfItsEntry, CovOfItsEntry
<1>5. CASE OpenCov /\ ~RqDirExists
  <2> USE <1>5 DEF OpenCov
  <2>1. TypeOK'
    BY DEF IInv, TypeOK
  <2> QED
    BY <2>1 DEF IInv, CovFiles, WrittenOnce, Looking, DumpsOfOneRun, OfOneRun,
                DumpOfThisRun, DumpOfItsEntry, CovOfItsEntry
<1>6. CASE (OpenCov /\ RqDirExists) \/ WriteCov
  <2>1. /\ pc \in {"trim", "write"} /\ pc' \in {"write", "remove"}
        /\ UNCHANGED <<queue, todo, q, inp, dump, cov_init, visited, run, kills>>
    BY <1>6 DEF OpenCov, WriteCov
  <2>2. PICK records \in {{}, dump} : cov' = [cov EXCEPT ![q] = records]
    BY <1>6 DEF OpenCov, WriteCov
  <2>3. q \in Seeds
    BY <2>1 DEF IInv, Looking
  <2>4. records \in {NoFile} \cup SUBSET Records
    BY <2>2 DEF IInv, TypeOK
  <2>5. CovFiles' /\ \A s \in Seeds : cov'[s] = IF s = q THEN records ELSE cov[s]
    BY <2>2, <2>3, <2>4 DEF IInv, CovFiles
  <2>6. TypeOK'
    BY <2>1, <2>4, <2>5 DEF IInv, TypeOK
  <2>7. OfOneRun(records)
    BY <2>2, NoFileIsNone DEF IInv, DumpsOfOneRun
  <2>8. DumpsOfOneRun'
    BY <2>1, <2>5, <2>7 DEF IInv, DumpsOfOneRun, OfOneRun
  <2>9. CovOfItsEntry'
    BY <2>1, <2>2, <2>5 DEF IInv, CovOfItsEntry, DumpOfItsEntry
  <2>10. DumpOfItsEntry'
    BY <2>1 DEF IInv, DumpOfItsEntry
  <2>11. WrittenOnce'
    BY <1>6, <2>1, <2>3, <2>5 DEF OpenCov, WriteCov, IInv, CovFiles, WrittenOnce
  <2> QED
    BY <2>1, <2>3, <2>5, <2>6, <2>8, <2>9, <2>10, <2>11 DEF IInv, Looking, DumpOfThisRun
<1>7. CASE RemoveDump
  <2> USE <1>7 DEF RemoveDump
  <2>1. TypeOK'
    BY DEF IInv, TypeOK
  <2>2. DumpsOfOneRun'
    BY NoFileIsNone DEF IInv, DumpsOfOneRun, OfOneRun
  <2> QED
    BY <2>1, <2>2 DEF IInv, CovFiles, WrittenOnce, Looking, DumpOfThisRun, DumpOfItsEntry,
                      CovOfItsEntry
<1>8. CASE Kill
  <2> USE <1>8 DEF Kill
  <2>1. kills' \in 0 .. Restarts /\ kills' # 0
    BY DEF IInv, TypeOK
  <2>2. cov_init' \in BOOLEAN
    OBVIOUS
  <2>3. TypeOK'
    BY <2>1, <2>2 DEF IInv, TypeOK
  <2> QED
    BY <2>1, <2>3 DEF IInv, CovFiles, WrittenOnce, Looking, DumpsOfOneRun, OfOneRun, DumpOfThisRun,
                      DumpOfItsEntry, CovOfItsEntry
<1>9. CASE UNCHANGED vars
  <2> USE <1>9 DEF vars
  <2>1. TypeOK'
    BY DEF IInv, TypeOK
  <2> QED
    BY <2>1 DEF IInv, CovFiles, WrittenOnce, Looking, DumpsOfOneRun, OfOneRun,
                DumpOfThisRun, DumpOfItsEntry, CovOfItsEntry
<1> QED
  BY <1>1, <1>2, <1>3, <1>4, <1>5, <1>6, <1>7, <1>8, <1>9 DEF Next, Generator

(* The inductive invariant holds in every state of every behaviour. *)
LEMMA IInvInvariant == Spec => []IInv
  BY InitIInv, StepIInv, PTL DEF Spec

(* Records of one run have one number among them, or none. *)
LEMMA OneNumber ==
    ASSUME NEW records, OfOneRun(records)
    PROVE  Cardinality({r.run : r \in records}) <= 1
<1>1. CASE records = {}
  <2>1. {r.run : r \in records} = {}
    BY <1>1
  <2> QED
    BY <2>1, FS_EmptySet
<1>2. CASE records # {}
  <2>1. PICK s \in records : TRUE
    BY <1>2
  <2>2. {r.run : r \in records} = {s.run}
    BY <2>1 DEF OfOneRun
  <2>3. Cardinality({s.run}) = 1
    BY FS_Singleton
  <2> QED
    BY <2>2, <2>3
<1> QED
  BY <1>1, <1>2

-----------------------------------------------------------------------------
(* Every variable keeps its type, and an entry is run only for want of its *)
(* .cov file.                                                              *)
THEOREM TypeCorrect == Spec => []TypeOK
  BY IInvInvariant, PTL DEF IInv

(* A .cov file holds the coverage of one run, wherever the generator died: *)
(* the first record of a run truncates whatever dump it finds.             *)
THEOREM CovOfOneRunInvariant == Spec => []CovOfOneRun
<1>1. IInv => CovOfOneRun
  BY OneNumber DEF IInv, DumpsOfOneRun, CovOfOneRun
<1> QED
  BY <1>1, IInvInvariant, PTL

(* Unless the generator was started again it is the coverage of its own    *)
(* entry, or of the default input.                                         *)
THEOREM CovOfItsEntryInvariant == Spec => []CovOfItsEntry
  BY IInvInvariant, PTL DEF IInv

(* A .cov file that was written is final, whenever the generator dies and  *)
(* whatever afl-fuzz does to the entry: only a file that did not exist is  *)
(* opened, and only one just opened is written.                            *)
THEOREM CovIsFinalAlways == Spec => CovIsFinal
<1>1. ASSUME IInv, [Next]_vars, NEW s \in Seeds, cov[s] \notin {NoFile, {}}
      PROVE  cov'[s] = cov[s]
  <2>1. CASE OpenCov
    <3>1. q # s
      BY <1>1, <2>1 DEF OpenCov, IInv, TypeOK
    <3> QED
      BY <1>1, <2>1, <3>1 DEF OpenCov, IInv, CovFiles
  <2>2. CASE WriteCov
    <3>1. q # s
      BY <1>1, <2>2 DEF WriteCov, IInv, WrittenOnce
    <3> QED
      BY <1>1, <2>2, <3>1 DEF WriteCov, IInv, CovFiles
  <2>3. CASE ~OpenCov /\ ~WriteCov
    BY <1>1, <2>3 DEF Next, Generator, CreateEntry, FillEntry, UnlinkEntry, Glob, NextEntry, Sleep,
                      ReadEntry, StartRun, EndRun, RemoveDump, php_pcov_trace, php_pcov_feedback, Kill, vars
  <2> QED
    BY <2>1, <2>2, <2>3
<1>2. IInv /\ [Next]_vars =>
        [\A s \in Seeds : cov[s] \notin {NoFile, {}} => cov'[s] = cov[s]]_vars
  BY <1>1
<1> QED
  BY <1>2, IInvInvariant, PTL DEF Spec, CovIsFinal

-----------------------------------------------------------------------------
(* PcovCollect: the inductive invariant, part by part. *)

Used == 1 .. allocated

(* The records of the trace lie in the arena one after the other, each     *)
(* linked to the one that was recorded next.                               *)
ListShape ==
    /\ cell = [a \in Address |-> cell[a]]
    /\ next = allocated
    /\ start = IF allocated = 0 THEN NULL ELSE 1
    /\ \A a \in Used : cell[a].next = IF a = allocated THEN NULL ELSE a + 1

(* All of them are reached from the first. *)
AllReached == \A S \in SUBSET Address : Closed(S) => Used \subseteq S

(* They are what was recorded. *)
TraceInArena ==
    /\ recorded = {<<cell[a].file, cell[a].line>> : a \in Used}
    /\ waiting = {t[1] : t \in recorded}

CollectIInv ==
    /\ CollectTypeOK
    /\ ListShape
    /\ AllReached
    /\ TraceInArena
    /\ CollectComplete

(* The walk over the list meets exactly the records in use.                *)
LEMMA WalkedIsUsed ==
    ASSUME CollectIInv
    PROVE  Walked = Used
<1>1. allocated \in Nat /\ Used \subseteq Address
  BY PcovCollectConstants DEF CollectIInv, CollectTypeOK, Used, Address
<1>2. Closed(Used)
  <2>1. start # NULL => start \in Used
    BY <1>1 DEF CollectIInv, ListShape, Used, NULL
  <2>2. ASSUME NEW a \in Used, cell[a].next # NULL PROVE cell[a].next \in Used
    <3>1. a # allocated /\ cell[a].next = a + 1
      BY <2>2 DEF CollectIInv, ListShape
    <3> QED
      BY <1>1, <3>1 DEF Used
  <2> QED
    BY <2>1, <2>2 DEF Closed
<1>3. Walked \subseteq Used
  BY <1>1, <1>2 DEF Walked
<1>4. Used \subseteq Walked
  BY <1>1 DEF Walked, CollectIInv, AllReached
<1> QED
  BY <1>3, <1>4

(* An empty arena and the tables that belong to it. *)
EmptyTrace ==
    /\ cell = [a \in Address |-> Free] /\ allocated = 0
    /\ start = NULL /\ next = NULL /\ last = NULL
    /\ recorded = {} /\ waiting = {} /\ fresh = FALSE

LEMMA EmptyArena ==
    ASSUME EmptyTrace
    PROVE  /\ ListShape /\ AllReached /\ TraceInArena
           /\ \A a \in Address : a > allocated /\ cell[a] = Free
<1> USE DEF EmptyTrace
<1>1. Used = {}
  BY DEF Used
<1>2. ListShape
  BY <1>1 DEF ListShape, NULL
<1>3. TraceInArena
  BY <1>1 DEF TraceInArena
<1>4. \A a \in Address : a > allocated
  BY PcovCollectConstants DEF Address
<1> QED
  BY <1>1, <1>2, <1>3, <1>4 DEF AllReached

(* What collect returned first. *)
LEMMA NothingReturned ==
    /\ Nothing \in [tables : SUBSET Files, covered : SUBSET (Files \X LineNumbers),
                    expected : SUBSET (Files \X LineNumbers)]
    /\ Nothing.covered = {} /\ Nothing.tables = {} /\ Nothing.expected = {}
BY DEF Nothing

(* The tables and what was returned, which most steps leave alone. *)
TablesOK ==
    /\ files \subseteq Directory /\ discovered \subseteq Files
    /\ returned \in [tables : SUBSET Files, covered : SUBSET (Files \X LineNumbers),
                     expected : SUBSET (Files \X LineNumbers)]
    /\ returned.covered = {t \in returned.expected : t[1] \in returned.tables
                                                    /\ t[2] \in Discoverable[t[1]]}

LEMMA CollectIInvTables == CollectIInv => TablesOK
BY DEF CollectIInv, CollectTypeOK, CollectComplete, TablesOK

(* A state with an empty trace and good tables. *)
LEMMA Emptied == EmptyTrace /\ enabled \in BOOLEAN /\ TablesOK => CollectIInv
<1> SUFFICES ASSUME EmptyTrace, enabled \in BOOLEAN, TablesOK PROVE CollectIInv
  OBVIOUS
<1>1. ListShape /\ AllReached /\ TraceInArena /\ \A a \in Address : a > allocated /\ cell[a] = Free
  BY EmptyArena
<1>2. CollectTypeOK
  <2>1. \A a \in Address : IF a > allocated THEN cell[a] = Free
                          ELSE cell[a] \in [file : Files, line : LineNumbers, next : Pointer]
    BY <1>1
  <2>2. /\ allocated \in 0 .. MaxRecords
        /\ start \in Pointer /\ next \in Pointer /\ last \in Pointer
    BY PcovCollectConstants DEF EmptyTrace, Pointer, NULL
  <2> QED
    BY <2>1, <2>2 DEF EmptyTrace, TablesOK, CollectTypeOK
<1>3. CollectComplete
  BY DEF EmptyTrace, TablesOK, CollectComplete
<1> QED
  BY <1>1, <1>2, <1>3 DEF CollectIInv

LEMMA CollectInitIInv == CollectInit => CollectIInv
<1> SUFFICES ASSUME CollectInit PROVE CollectIInv
  OBVIOUS
<1>1. TablesOK
  BY NothingReturned DEF CollectInit, TablesOK
<1> QED
  BY <1>1, Emptied DEF CollectInit, EmptyTrace

LEMMA RinitIInv ==
    ASSUME CollectIInv, PHP_RINIT
    PROVE  CollectIInv'
<1>1. TablesOK'
  BY CollectIInvTables DEF PHP_RINIT, TablesOK
<1>2. enabled' \in BOOLEAN
  BY DEF CollectIInv, CollectTypeOK, PHP_RINIT
<1>3. EmptyTrace'
  BY DEF PHP_RINIT, EmptyTrace
<1>4. (EmptyTrace /\ enabled \in BOOLEAN /\ TablesOK => CollectIInv)'
  BY Emptied, PTL
<1> QED
  BY <1>1, <1>2, <1>3, <1>4

LEMMA ClearIInv ==
    ASSUME CollectIInv, NEW withFiles \in BOOLEAN, php_pcov_clear(withFiles)
    PROVE  CollectIInv'
<1>1. TablesOK'
  BY CollectIInvTables DEF php_pcov_clear, TablesOK
<1>2. enabled' \in BOOLEAN
  BY DEF CollectIInv, CollectTypeOK, php_pcov_clear
<1>3. EmptyTrace'
  BY DEF php_pcov_clear, EmptyTrace
<1>4. (EmptyTrace /\ enabled \in BOOLEAN /\ TablesOK => CollectIInv)'
  BY Emptied, PTL
<1> QED
  BY <1>1, <1>2, <1>3, <1>4

(* A step that leaves the trace alone leaves the list what it was. *)
LEMMA SameTrace ==
    ASSUME CollectIInv, UNCHANGED <<listVars, waiting, recorded>>
    PROVE  ListShape' /\ AllReached' /\ TraceInArena'
<1>1. ListShape'
  BY DEF CollectIInv, ListShape, Used, listVars
<1>2. AllReached'
  BY DEF CollectIInv, AllReached, Closed, Used, listVars
<1>3. TraceInArena'
  BY DEF CollectIInv, TraceInArena, Used, listVars
<1> QED
  BY <1>1, <1>2, <1>3

(* compile_file, start and stop. *)
LEMMA FlagsIInv ==
    ASSUME CollectIInv,
           UNCHANGED <<listVars, last, discovered, waiting, returned, recorded, fresh>>,
           files' \subseteq Directory, enabled' \in BOOLEAN
    PROVE  CollectIInv'
<1>1. CollectTypeOK'
  BY DEF CollectIInv, CollectTypeOK, Pointer, listVars
<1>2. CollectComplete'
  BY DEF CollectIInv, CollectComplete, listVars
<1> QED
  BY <1>1, <1>2, SameTrace DEF CollectIInv

LEMMA CollectStepIInv ==
    ASSUME CollectIInv, NEW wanted \in SUBSET Files, php_pcov_collect(wanted)
    PROVE  CollectIInv'
<1>1. ListShape' /\ AllReached' /\ TraceInArena'
  BY SameTrace DEF php_pcov_collect
<1> DEFINE Returned == [tables : SUBSET Files, covered : SUBSET (Files \X LineNumbers),
                        expected : SUBSET (Files \X LineNumbers)]
           Complete(r) == r.covered = {t \in r.expected : t[1] \in r.tables
                                                         /\ t[2] \in Discoverable[t[1]]}
<1>2. recorded \subseteq Files \X LineNumbers
  BY DEF CollectIInv, CollectTypeOK
<1>3. returned' \in Returned /\ Complete(returned') /\ (fresh' <=> last' # next')
      /\ last' \in Pointer /\ discovered' \subseteq Files
  <2>1. CASE last = next
    <3>1. ~fresh /\ ~fresh' /\ last' = next' /\ last' \in Pointer /\ discovered' \subseteq Files
      BY <2>1 DEF php_pcov_collect, CollectIInv, CollectComplete, CollectTypeOK, listVars
    <3>2. returned' = Nothing
      BY <2>1, <3>1 DEF php_pcov_collect, Nothing
    <3> QED
      BY <3>1, <3>2, NothingReturned
  <2>2. CASE last # next
    <3> DEFINE found == Found(wanted)
    <3>1. /\ returned' = [tables |-> found, covered |-> php_pcov_report(found),
                          expected |-> recorded]
          /\ last' = next /\ discovered' = discovered \cup found /\ fresh' = FALSE
          /\ next' = next
      BY <2>2 DEF php_pcov_collect, listVars
    <3>2. php_pcov_report(found) = {t \in recorded : t[1] \in found /\ t[2] \in Discoverable[t[1]]}
      BY WalkedIsUsed DEF php_pcov_report, CollectIInv, TraceInArena
    <3>3. found \subseteq Files
      BY DEF Found
    <3>4. last' \in Pointer /\ discovered' \subseteq Files
      BY <3>1, <3>3 DEF CollectIInv, CollectTypeOK
    <3> HIDE DEF found
    <3>5. returned' \in Returned
      BY <1>2, <3>1, <3>2, <3>3
    <3>6. Complete(returned')
      BY <3>1, <3>2
    <3> QED
      BY <3>1, <3>4, <3>5, <3>6
  <2> QED
    BY <2>1, <2>2
<1>4. CollectTypeOK'
  BY <1>3 DEF CollectIInv, CollectTypeOK, php_pcov_collect, Pointer, listVars
<1>5. CollectComplete'
  BY <1>3 DEF CollectComplete
<1> QED
  BY <1>1, <1>4, <1>5 DEF CollectIInv

(* The new record becomes the last of the list. *)
LEMMA CreateIInv ==
    ASSUME CollectIInv, NEW file \in Files, NEW line \in LineNumbers,
           php_pcov_create(file, line)
    PROVE  CollectIInv'
<1> DEFINE n == allocated + 1
           record == [file |-> file, line |-> line, next |-> NULL]
<1>1. /\ allocated \in Nat /\ n \in Nat /\ n > allocated /\ n # 0 /\ n <= MaxRecords
      /\ n \in Address /\ Used \subseteq Address /\ n \notin Used /\ MaxRecords \in Nat
  BY PcovCollectConstants
  DEF CollectIInv, CollectTypeOK, php_pcov_create, Address, Used
<1>2. /\ allocated' = n /\ next' = n /\ last' = last
      /\ start' = IF start = NULL THEN n ELSE start
      /\ cell' = Linked(n, record)
  BY DEF php_pcov_create
<1>3. Used' = Used \cup {n}
  BY <1>1, <1>2 DEF Used
<1>4. /\ next = allocated /\ start = (IF allocated = 0 THEN NULL ELSE 1)
      /\ \A a \in Used : cell[a].next = IF a = allocated THEN NULL ELSE a + 1
  BY DEF CollectIInv, ListShape
<1>5. \A a \in Used : cell[a] \in [file : Files, line : LineNumbers, next : 0 .. allocated]
  BY <1>1 DEF CollectIInv, CollectTypeOK, Pointer, Used, Address
<1>6. start # NULL <=> allocated \in Used
  BY <1>1, <1>4 DEF Used, NULL
<1> HIDE DEF n, record
\* The arena: the new record, the link to it, and nothing else.
<1>7. /\ cell'[n] = record
      /\ \A a \in Address \ {n} : cell'[a] = IF a = allocated
                                             THEN [cell[a] EXCEPT !.next = n] ELSE cell[a]
  <2>1. cell'[n] = record
    BY <1>1, <1>2 DEF Linked
  <2>2. ASSUME NEW a \in Address \ {n}
        PROVE  cell'[a] = IF a = allocated THEN [cell[a] EXCEPT !.next = n] ELSE cell[a]
    <3>1. cell'[a] = IF a = next /\ start # NULL THEN [cell[a] EXCEPT !.next = n] ELSE cell[a]
      BY <1>2, <2>2 DEF Linked
    <3>2. a = allocated => start # NULL
      BY <1>1, <1>4 DEF Address, NULL
    <3> QED
      BY <1>4, <3>1, <3>2
  <2> QED
    BY <2>1, <2>2
<1>8. \A a \in Used : /\ cell'[a].file = cell[a].file /\ cell'[a].line = cell[a].line
                      /\ cell'[a].next = a + 1
  <2> SUFFICES ASSUME NEW a \in Used
               PROVE  /\ cell'[a].file = cell[a].file /\ cell'[a].line = cell[a].line
                      /\ cell'[a].next = a + 1
    OBVIOUS
  <2>1. a \in Address \ {n} /\ a \in Nat
    BY <1>1 DEF Used
  <2>2. cell[a] \in [file : Files, line : LineNumbers, next : 0 .. allocated]
    BY <1>5
  <2>3. CASE a = allocated
    <3>1. cell'[a] = [cell[a] EXCEPT !.next = n]
      BY <1>7, <2>1, <2>3
    <3> QED
      BY <2>2, <2>3, <3>1 DEF n
  <2>4. CASE a # allocated
    BY <1>4, <1>7, <2>1, <2>4
  <2> QED
    BY <2>3, <2>4
<1>9. record.file = file /\ record.line = line /\ record.next = NULL
  BY DEF record
<1>10. ListShape'
  <2>1. cell' = [a \in Address |-> cell'[a]]
    BY <1>2 DEF Linked
  <2>2. start' = IF allocated' = 0 THEN NULL ELSE 1
    BY <1>1, <1>2, <1>4 DEF n, NULL
  <2>3. \A a \in Used' : cell'[a].next = IF a = n THEN NULL ELSE a + 1
    BY <1>1, <1>3, <1>7, <1>8, <1>9
  <2> QED
    BY <1>2, <2>1, <2>2, <2>3 DEF ListShape
<1>11. AllReached'
  <2> SUFFICES ASSUME NEW S \in SUBSET Address, Closed(S)'
               PROVE  Used' \subseteq S
    BY DEF AllReached, Address
  <2>1. (start' # NULL => start' \in S) /\ \A a \in S : cell'[a].next # NULL => cell'[a].next \in S
    BY DEF Closed
  <2>2. CASE start = NULL
    <3>1. Used = {} /\ n \in S
      BY <1>1, <1>2, <1>4, <2>1, <2>2 DEF Used, NULL
    <3> QED
      BY <1>3, <3>1
  <2>3. CASE start # NULL
    \* What S holds of the old records was closed before the step.
    <3>1. start \in S \cap Used
      BY <1>1, <1>2, <1>4, <2>1, <2>3 DEF Used, NULL
    <3>2. ASSUME NEW a \in S \cap Used, cell[a].next # NULL PROVE cell[a].next \in S \cap Used
      <4>1. a # allocated /\ cell[a].next = a + 1 /\ a \in Nat
        BY <1>4, <3>2 DEF Used
      <4>2. cell'[a].next = a + 1 /\ a + 1 # NULL
        BY <1>8, <4>1 DEF NULL
      <4>3. a + 1 \in Used
        BY <1>1, <4>1 DEF Used
      <4> QED
        BY <2>1, <4>1, <4>2, <4>3
    <3>3. Closed(S \cap Used)
      BY <3>1, <3>2 DEF Closed
    <3>4. Used \subseteq S
      BY <3>3, <1>1 DEF CollectIInv, AllReached
    <3>5. n \in S
      <4>1. allocated \in S /\ cell'[allocated].next = n
        BY <1>6, <1>8, <2>3, <3>4 DEF n
      <4> QED
        BY <1>1, <2>1, <4>1 DEF NULL
    <3> QED
      BY <1>3, <3>4, <3>5
  <2> QED
    BY <2>2, <2>3
<1>12. TraceInArena'
  <2>1. recorded' = recorded \cup {<<file, line>>} /\ waiting' = waiting \cup {file}
    BY DEF php_pcov_create
  <2>2. recorded = {<<cell[a].file, cell[a].line>> : a \in Used} /\ waiting = {t[1] : t \in recorded}
    BY DEF CollectIInv, TraceInArena
  <2>3. recorded' = {<<cell'[a].file, cell'[a].line>> : a \in Used'}
    BY <1>3, <1>7, <1>8, <1>9, <2>1, <2>2
  <2>4. waiting' = {t[1] : t \in recorded'}
    <3>1. <<file, line>>[1] = file
      OBVIOUS
    <3>2. {t[1] : t \in recorded \cup {<<file, line>>}}
            = {t[1] : t \in recorded} \cup {<<file, line>>[1]}
      OBVIOUS
    <3> QED
      BY <2>1, <2>2, <3>1, <3>2
  <2> QED
    BY <2>3, <2>4 DEF TraceInArena
<1>13. CollectTypeOK'
  <2>1. \A a \in Address : IF a > allocated' THEN cell'[a] = Free
                           ELSE cell'[a] \in [file : Files, line : LineNumbers, next : Pointer']
    <3> SUFFICES ASSUME NEW a \in Address
                 PROVE  IF a > n THEN cell'[a] = Free
                        ELSE cell'[a] \in [file : Files, line : LineNumbers, next : 0 .. n]
      BY <1>2 DEF Pointer
    <3>1. CASE a > n
      <4>1. a > allocated /\ a # allocated /\ a # n
        BY <1>1, <3>1 DEF Address
      <4>2. cell[a] = Free /\ cell'[a] = cell[a]
        BY <1>7, <4>1 DEF CollectIInv, CollectTypeOK
      <4> QED
        BY <3>1, <4>2
    <3>2. CASE a = n
      BY <1>1, <1>7, <3>2 DEF record, NULL
    <3>3. CASE a < n
      <4>1. a \in Used /\ a # n
        BY <1>1, <3>3 DEF Used, Address, n
      <4>2. cell[a] \in [file : Files, line : LineNumbers, next : 0 .. allocated]
        BY <1>5, <4>1
      <4>3. cell'[a] \in [file : Files, line : LineNumbers, next : 0 .. n]
        <5>1. n \in 0 .. n /\ 0 .. allocated \subseteq 0 .. n
          BY <1>1
        <5>2. CASE a = allocated
          <6>1. cell'[a] = [cell[a] EXCEPT !.next = n]
            BY <1>7, <4>1, <5>2
          <6> QED
            BY <4>2, <5>1, <6>1
        <5>3. CASE a # allocated
          <6>1. cell'[a] = cell[a]
            BY <1>7, <4>1, <5>3
          <6> QED
            BY <4>2, <5>1, <6>1
        <5> QED
          BY <5>2, <5>3
      <4> QED
        BY <1>1, <3>3, <4>3 DEF Address
    <3> QED
      BY <1>1, <3>1, <3>2, <3>3 DEF Address
  <2>2. /\ allocated' \in 0 .. MaxRecords
        /\ start' \in Pointer' /\ next' \in Pointer' /\ last' \in Pointer'
    BY <1>1, <1>2, <1>4 DEF CollectIInv, CollectTypeOK, Pointer, NULL
  <2> QED
    BY <2>1, <2>2 DEF CollectIInv, CollectTypeOK, php_pcov_create, tables
<1>14. CollectComplete'
  <2>1. fresh' = TRUE /\ returned' = returned
    BY DEF php_pcov_create
  <2>2. last' # next'
    BY <1>1, <1>2 DEF CollectIInv, CollectTypeOK, Pointer
  <2> QED
    BY <2>1, <2>2 DEF CollectIInv, CollectComplete
<1> QED
  BY <1>10, <1>11, <1>12, <1>13, <1>14 DEF CollectIInv

(* Every call preserves the invariant. *)
LEMMA CollectNextIInv == CollectIInv /\ [CollectNext]_collectVars => CollectIInv'
<1> SUFFICES ASSUME CollectIInv, [CollectNext]_collectVars PROVE CollectIInv'
  OBVIOUS
<1>0. files \subseteq Directory /\ enabled \in BOOLEAN /\ files \subseteq Files
  BY PcovCollectConstants DEF CollectIInv, CollectTypeOK
<1>1. CASE PHP_RINIT
  BY <1>1, RinitIInv
<1>2. ASSUME NEW file \in Files, php_pcov_compile_file(file) PROVE CollectIInv'
  BY <1>0, <1>2, FlagsIInv DEF php_pcov_compile_file, php_pcov_wants
<1>3. ASSUME NEW file \in Files, NEW line \in LineNumbers, php_pcov_create(file, line)
      PROVE  CollectIInv'
  BY <1>3, CreateIInv
<1>4. CASE php_pcov_start
  BY <1>0, <1>4, FlagsIInv DEF php_pcov_start, tables
<1>5. CASE php_pcov_stop
  BY <1>0, <1>5, FlagsIInv DEF php_pcov_stop, tables
<1>6. ASSUME NEW withFiles \in BOOLEAN, php_pcov_clear(withFiles) PROVE CollectIInv'
  BY <1>6, ClearIInv
<1>7. ASSUME NEW wanted \in SUBSET Files, php_pcov_collect(wanted) PROVE CollectIInv'
  BY <1>7, CollectStepIInv
<1>8. CASE UNCHANGED collectVars
  BY <1>0, <1>8, FlagsIInv DEF collectVars, tables
<1> QED
  BY <1>0, <1>1, <1>2, <1>3, <1>4, <1>5, <1>6, <1>7, <1>8 DEF CollectNext

(* The inductive invariant holds after any sequence of calls. *)
LEMMA CollectIInvInvariant == CollectSpec => []CollectIInv
  BY CollectInitIInv, CollectNextIInv, PTL DEF CollectSpec

(* No pointer of pcov leads outside the arena, whatever start, stop, clear *)
(* and collect are called and however often the arena is replaced.         *)
THEOREM CollectTypeCorrect == CollectSpec => []CollectTypeOK
  BY CollectIInvInvariant, PTL DEF CollectIInv

(* The list that php_pcov_report walks over ends and holds exactly what    *)
(* was recorded since the trace was cleared, however long it is.           *)
THEOREM ListIsTraceInvariant == CollectSpec => []ListIsTrace
<1>1. ASSUME CollectIInv PROVE ListIsTrace
  <2>1. Walked = Used
    BY <1>1, WalkedIsUsed
  <2>2. \A a \in Used : cell[a].next = NULL \/ cell[a].next > a
    BY <1>1 DEF CollectIInv, ListShape, Used
  <2> QED
    BY <1>1, <2>1, <2>2 DEF CollectIInv, TraceInArena, ListIsTrace
<1> QED
  BY <1>1, CollectIInvInvariant, PTL

(* Of the files it knows, collect reports exactly what was recorded (from  *)
(* the start of the module on, whether or not \pcov\start was called, and  *)
(* not between \pcov\stop and the next start), and it returns nothing only *)
(* if nothing was recorded since the last time.                            *)
THEOREM CollectCompleteInvariant == CollectSpec => []CollectComplete
  BY CollectIInvInvariant, PTL DEF CollectIInv

=============================================================================
