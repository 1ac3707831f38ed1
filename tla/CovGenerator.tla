---------------------------- MODULE CovGenerator ----------------------------
(***************************************************************************)
(* The coverage generator (src/fuzzer/cov_generator.py), which replays the *)
(* queue of a running fuzzer in a VM of its own and writes one .cov file   *)
(* per queue entry, and the coverage dump of the pcov extension that it    *)
(* reads (_cov_dump_payload in src/pcov-patched/pcov.c).  afl-fuzz goes on *)
(* writing to the queue meanwhile; the generator may end with an exception *)
(* or be killed, and be started again, which leaves the files where they   *)
(* are.                                                                    *)
(***************************************************************************)
EXTENDS Naturals, FiniteSets

CONSTANTS
    Seeds,          \* names of queue entries
    InstallSeeds,   \* those that request an install or setup script
    Shortened,      \* those that afl-fuzz trims with success
    Lines,          \* <<file, line>> pairs that PHP code executes
    RqDirExists,    \* whether there is a directory /dev/shm/rq for the .cov files
    Restarts,       \* how often the generator is started again
    MaxRuns         \* number of runs (a bound for TLC)

Default == "default_input"      \* what post_process makes of an unreadable entry
NoFile == {[run |-> 0, of |-> Default, line |-> <<>>]}     \* in place of the records of a file

ASSUME CovGeneratorConstants ==
    /\ InstallSeeds \subseteq Seeds /\ Shortened \subseteq Seeds /\ Default \notin Seeds
    /\ RqDirExists \in BOOLEAN
    /\ Restarts \in Nat /\ MaxRuns \in Nat

VARIABLES
    queue,          \* the entry files: what afl-fuzz has done with them
    cov,            \* the .cov files: the dump they were made of, by run
    dump,           \* dump/coverage_<core>: the records in it
    cov_init,       \* _cov_dump_payload's static of that name
    visited,        \* lines executed by the run in progress
    pc,             \* what the generator does next, "ended" after an exception
    todo,           \* entries of this round still to be looked at
    q,              \* the entry being looked at
    inp,            \* what was read of it: the entry, or the default input
    run,            \* number of runs so far
    kills           \* number of times it was started again

genVars == <<pc, todo, q, inp>>
vmVars == <<dump, cov_init, visited, run>>
vars == <<queue, cov, genVars, vmVars, kills>>

Init ==
    /\ queue \in [Seeds -> {"missing", "full"}]
    /\ cov = [s \in Seeds |-> NoFile]
    /\ dump = NoFile
    /\ cov_init = FALSE
    /\ visited = {}
    /\ pc = "glob"
    /\ todo = {}
    /\ q = Default
    /\ inp = Default
    /\ run = 0
    /\ kills = 0

-----------------------------------------------------------------------------
(* afl-fuzz adds an entry: the file exists before it is complete.  Once,   *)
(* if trimming it was a success, it removes the file and writes it again.  *)
Phases == {"missing", "partial", "full", "unlinked", "rewriting", "trimmed"}

Exists(s) == queue[s] \notin {"missing", "unlinked"}
Finished(s) == queue[s] \in {"full", "trimmed"}

CreateEntry(s) ==
    /\ ~Exists(s)
    /\ queue' = [queue EXCEPT ![s] = IF @ = "missing" THEN "partial" ELSE "rewriting"]
    /\ UNCHANGED <<cov, genVars, vmVars, kills>>

FillEntry(s) ==
    /\ Exists(s) /\ ~Finished(s)
    /\ queue' = [queue EXCEPT ![s] = IF @ = "partial" THEN "full" ELSE "trimmed"]
    /\ UNCHANGED <<cov, genVars, vmVars, kills>>

UnlinkEntry(s) ==
    /\ s \in Shortened /\ queue[s] = "full"
    /\ queue' = [queue EXCEPT ![s] = "unlinked"]
    /\ UNCHANGED <<cov, genVars, vmVars, kills>>

-----------------------------------------------------------------------------
(* A round: all entries there are, in random order. *)
Glob ==
    /\ pc = "glob"
    /\ todo' = {s \in Seeds : Exists(s)}
    /\ pc' = "next"
    /\ UNCHANGED <<queue, cov, q, inp, vmVars, kills>>

(* Mutant: entries that were done before are run again. *)
NextEntry_Again(s) ==
    /\ pc = "next"
    /\ s \in todo
    /\ todo' = todo \ {s}
    /\ q' = s
    /\ pc' = "read"
    /\ UNCHANGED <<queue, cov, inp, vmVars, kills>>

(* An entry that has its .cov file is skipped. *)
NextEntry(s) ==
    /\ pc = "next"
    /\ s \in todo
    /\ todo' = todo \ {s}
    /\ q' = s
    /\ pc' = IF cov[s] # NoFile THEN "next" ELSE "read"
    /\ UNCHANGED <<queue, cov, inp, vmVars, kills>>

(* Mutant: the generator does not come back from its first sleep. *)
Sleep_Stops ==
    /\ pc = "next"
    /\ todo = {}
    /\ UNCHANGED vars

(* "All files processed, sleeping 30s....", and the next round. *)
Sleep ==
    /\ pc = "next"
    /\ todo = {}
    /\ pc' = "glob"
    /\ UNCHANGED <<queue, cov, todo, q, inp, vmVars, kills>>

(* The entry is read and made a payload, unless it requests an installer.  *)
(* The pickle of a file that is still being written cannot be loaded:      *)
(* convert_input falls back to the default input.  An entry that is gone   *)
(* by now cannot be opened, which no one catches.                          *)
ReadEntry ==
    /\ pc = "read"
    /\ inp' = IF Finished(q) THEN q ELSE Default
    /\ pc' = CASE ~Exists(q) -> "ended"
               [] inp' \in InstallSeeds -> "next"
               [] OTHER -> "exec"
    /\ UNCHANGED <<queue, cov, todo, q, vmVars, kills>>

(* nyx_exec: the VM starts from its snapshot. *)
StartRun ==
    /\ pc = "exec"
    /\ run < MaxRuns
    /\ run' = run + 1
    /\ pc' = "run"
    /\ UNCHANGED <<queue, cov, todo, q, inp, dump, cov_init, visited, kills>>

(* Mutant: the dump is always appended to. *)
cov_dump_payload_Appends(record) ==
    /\ dump' = IF dump = NoFile THEN {record} ELSE dump \cup {record}
    /\ cov_init' = TRUE

(* The first record of a run truncates the dump. *)
cov_dump_payload(record) ==
    /\ dump' = IF cov_init /\ dump # NoFile THEN dump \cup {record} ELSE {record}
    /\ cov_init' = TRUE

(* An opcode of a line: whether its record is dumped depends on key_s,     *)
(* which is read before it is assigned.                                    *)
php_pcov_trace(line) ==
    /\ pc = "run"
    /\ visited' = visited \cup {line}
    /\ \/ cov_dump_payload([run |-> run, of |-> inp, line |-> line])
       \/ UNCHANGED <<dump, cov_init>>
    /\ UNCHANGED <<queue, cov, genVars, run, kills>>

(* A comparison, array access or custom feedback is dumped when its byte   *)
(* in the bitmap was not set before, also where no line was recorded.      *)
php_pcov_feedback(line) ==
    /\ pc = "run"
    /\ line \in visited
    /\ cov_dump_payload([run |-> run, of |-> inp, line |-> <<"feedback", line>>])
    /\ UNCHANGED <<queue, cov, genVars, visited, run, kills>>

(* nyx_exec returns: the run is over, or timed out after 150 seconds, and  *)
(* the VM is back at its snapshot.                                         *)
EndRun ==
    /\ pc = "run"
    /\ pc' = IF dump # NoFile THEN "trim" ELSE "next"
    /\ cov_init' = FALSE
    /\ visited' = {}
    /\ UNCHANGED <<queue, cov, todo, q, inp, dump, run, kills>>

(* open(cov_dst_filename, "w+") creates the file, or raises an exception   *)
(* that ends the loop, the dump staying behind, ...                        *)
OpenCov ==
    /\ pc = "trim"
    /\ cov' = IF RqDirExists THEN [cov EXCEPT ![q] = {}] ELSE cov
    /\ pc' = IF RqDirExists THEN "write" ELSE "ended"
    /\ UNCHANGED <<queue, todo, q, inp, dump, cov_init, visited, run, kills>>

(* ... the sorted set of records is written to it, ... *)
WriteCov ==
    /\ pc = "write"
    /\ cov' = [cov EXCEPT ![q] = dump]
    /\ pc' = "remove"
    /\ UNCHANGED <<queue, todo, q, inp, vmVars, kills>>

(* Mutant: the dump stays where it is. *)
RemoveDump_Keeps ==
    /\ pc = "remove"
    /\ pc' = "next"
    /\ UNCHANGED <<queue, cov, todo, q, inp, vmVars, kills>>

(* ... and the dump is removed. *)
RemoveDump ==
    /\ pc = "remove"
    /\ dump' = NoFile
    /\ pc' = "next"
    /\ UNCHANGED <<queue, cov, todo, q, inp, cov_init, visited, run, kills>>

(* The process is killed, or has ended, its VM with it, and is started     *)
(* again.                                                                  *)
Kill ==
    /\ kills < Restarts
    /\ kills' = kills + 1
    /\ pc' = "glob"
    /\ todo' = {}
    /\ cov_init' = FALSE
    /\ visited' = {}
    /\ UNCHANGED <<queue, cov, q, inp, dump, run>>

Generator ==
    \/ Glob
    \/ \E s \in Seeds : NextEntry(s)
    \/ Sleep
    \/ ReadEntry
    \/ StartRun
    \/ EndRun
    \/ OpenCov
    \/ WriteCov
    \/ RemoveDump

Next ==
    \/ \E s \in Seeds : CreateEntry(s) \/ FillEntry(s) \/ UnlinkEntry(s)
    \/ Generator
    \/ \E line \in Lines : php_pcov_trace(line) \/ php_pcov_feedback(line)
    \/ Kill

Spec == Init /\ [][Next]_vars

(* The generator is one loop, and nyx_exec returns after its timeout.  No  *)
(* one has to start it again, and afl-fuzz need not come back to an entry. *)
FairSpec == Spec /\ WF_vars(Generator)

-----------------------------------------------------------------------------
Records == [run : 1 .. MaxRuns, of : Seeds \cup {Default}, line : Lines \cup ({"feedback"} \X Lines)]

(* The variables have their types, and an entry is run only for want of    *)
(* its .cov file.                                                          *)
TypeOK ==
    /\ queue \in [Seeds -> Phases]
    /\ \A s \in Seeds : cov[s] = NoFile \/ cov[s] \subseteq Records
    /\ dump = NoFile \/ dump \subseteq Records
    /\ cov_init \in BOOLEAN /\ visited \subseteq Lines
    /\ pc \in {"glob", "next", "read", "exec", "run", "trim", "write", "remove", "ended"}
    /\ todo \subseteq Seeds
    /\ q \in Seeds \cup {Default} /\ inp \in Seeds \cup {Default}
    /\ pc \in {"read", "exec", "run", "trim"} => cov[q] = NoFile
    /\ run \in 0 .. MaxRuns /\ kills \in 0 .. Restarts

(* A .cov file never mixes the coverage of two runs, even when the         *)
(* generator dies between a run and the removal of its dump.               *)
CovOfOneRun ==
    \A s \in Seeds : cov[s] # NoFile => Cardinality({r.run : r \in cov[s]}) <= 1

(* As long as the generator is not started again, a .cov file is not the   *)
(* coverage of another entry: no dump outlives its run.  An entry that was *)
(* read while afl-fuzz was writing it gets, for good, the coverage of the  *)
(* default input.                                                          *)
CovOfItsEntry ==
    \A s \in Seeds : cov[s] # NoFile /\ kills = 0 => \A r \in cov[s] : r.of \in {s, Default}

(* Once written, a .cov file is final, the generator being killed and      *)
(* started again notwithstanding: what was measured is not measured again. *)
CovIsFinal == [][\A s \in Seeds : cov[s] \notin {NoFile, {}} => cov'[s] = cov[s]]_vars

(* An entry whose runs dump nothing is not given up: while it is in the    *)
(* queue it is run again and again until it has its .cov file, unless the  *)
(* generator ends with an exception.  It does so if an entry that it has   *)
(* listed is removed before it is read, and at the first dump if there is  *)
(* no /dev/shm/rq.                                                         *)
EntryIsRetried ==
    \A s \in Seeds \ InstallSeeds :
      [](Exists(s) => <>(\/ cov[s] # NoFile \/ (pc = "run" /\ q = s) \/ run = MaxRuns
                         \/ ~Exists(s) \/ pc = "ended"))
=============================================================================
