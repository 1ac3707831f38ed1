------------------------------ MODULE Parallel ------------------------------
(***************************************************************************)
(* Several fuzzers started by src/fuzzer/parallel_fuzz.py on one output    *)
(* directory, each with a core of its own: an afl-fuzz process with its    *)
(* custom mutator and a VM.  They share the directory workdir/dump, into   *)
(* which the VMs dump strings and pages and from which the mutators read.  *)
(* Unlike in Mutator, looking for a file, reading it and moving it away    *)
(* are steps of their own, and so are the hypercalls of a dump.            *)
(***************************************************************************)
EXTENDS Naturals, Sequences

CONSTANTS
    Cores,          \* PIN_CORE of the fuzzers; numbered from 0
    MaxRequests,    \* dumps requested per fuzzer (a bound for TLC)
    MaxChunks,      \* records or pages dumped by a run (a bound for TLC)
    RqDirExists     \* whether there is a directory /dev/shm/rq to move dumps to

ASSUME ParallelConstants ==
    /\ Cores \subseteq Nat /\ 0 \in Cores
    /\ MaxRequests \in Nat /\ MaxChunks \in Nat
    /\ RqDirExists \in BOOLEAN

VARIABLES
    pc,             \* what each fuzzer does next
    config,         \* the dumps asked of the run in progress
    requests,       \* number of dumps each fuzzer has asked for
    init,           \* the static of the guest that says whether the file was truncated
    chunks,         \* number of chunks dumped by the run in progress
    file,           \* contents of the dump directory
    got             \* history: the requests whose data was read last, by kind of dump

vars == <<pc, config, requests, init, chunks, file, got>>

Kinds == {"REDQUEEN", "HTML_DUMP"}
Names == Kinds \X Cores         \* strings_<core> and html_<core>
RequestIds == Cores \X (1 .. MaxRequests)
Absent == <<<<>>>>              \* no such file

Init ==
    /\ pc = [c \in Cores |-> "fuzz"]
    /\ config = [c \in Cores |-> {}]
    /\ requests = [c \in Cores |-> 0]
    /\ init = [c \in Cores |-> FALSE]
    /\ chunks = [c \in Cores |-> 0]
    /\ file = [name \in Names |-> Absent]
    /\ got = [c \in Cores |-> [kind \in Kinds |-> {}]]

Goto(c, from, to) ==
    /\ pc[c] = from
    /\ pc' = [pc EXCEPT ![c] = to]

(* The requests whose data is in a file. *)
Contents(name) ==
    IF file[name] = Absent THEN {} ELSE {file[name][i] : i \in DOMAIN file[name]}

-----------------------------------------------------------------------------
(* The mutator. *)

(* fuzz() returns the entry unchanged and post_process() asks for a dump,  *)
(* or for none.  The two dumps belong to different calls.                  *)
AskForDump(c, asked) ==
    /\ Goto(c, "fuzz", "run")
    /\ config' = [config EXCEPT ![c] = asked]
    /\ asked # {} => requests[c] < MaxRequests
    /\ requests' = IF asked = {} THEN requests ELSE [requests EXCEPT ![c] = @ + 1]
    /\ UNCHANGED <<init, chunks, file, got>>

(* Any other call first looks for its strings dump, then for its html dump. *)
LookForStrings(c) ==
    /\ Goto(c, "fuzz", IF file[<<"REDQUEEN", c>>] # Absent THEN "strings" ELSE "html?")
    /\ UNCHANGED <<config, requests, init, chunks, file, got>>

LookForHtml(c) ==
    /\ Goto(c, "html?", IF file[<<"HTML_DUMP", c>>] # Absent THEN "html" ELSE "mutate")
    /\ UNCHANGED <<config, requests, init, chunks, file, got>>

(* Reading a file that is gone by then would raise an exception. *)
Read(c, kind) ==
    /\ file[<<kind, c>>] # Absent
    /\ got' = [got EXCEPT ![c][kind] = Contents(<<kind, c>>)]
    /\ UNCHANGED <<config, requests, init, chunks, file>>

(* Mutant: the path to be moved lacks the core. *)
Move_AnyCore(c, kind) ==
    /\ file' = IF RqDirExists THEN [file EXCEPT ![<<kind, 0>>] = Absent] ELSE file
    /\ UNCHANGED <<requests, init, chunks, got>>

(* mv <dump> /dev/shm/rq/...: it fails without that directory, which       *)
(* nothing creates, and its result is not looked at.                       *)
Move(c, kind) ==
    /\ file' = IF RqDirExists THEN [file EXCEPT ![<<kind, c>>] = Absent] ELSE file
    /\ UNCHANGED <<requests, init, chunks, got>>

ReadStrings(c) == Goto(c, "strings", "mv strings") /\ Read(c, "REDQUEEN")
ReadHtml(c) == Goto(c, "html", "mv html") /\ Read(c, "HTML_DUMP")

(* After the strings dump the entry is run unchanged, after the html dump  *)
(* a mutation of it, both without a dump.                                  *)
MoveStrings(c) ==
    /\ Goto(c, "mv strings", "run")
    /\ config' = [config EXCEPT ![c] = {}]
    /\ Move(c, "REDQUEEN")

MoveHtml(c) ==
    /\ Goto(c, "mv html", "mutate")
    /\ Move(c, "HTML_DUMP")
    /\ UNCHANGED config

Mutate(c) ==
    /\ Goto(c, "mutate", "run")
    /\ config' = [config EXCEPT ![c] = {}]
    /\ UNCHANGED <<requests, init, chunks, file, got>>

-----------------------------------------------------------------------------
(* The VM. *)

(* Mutant: the payload does not say which core the dump is for. *)
redqueen_core_Zero(c) == 0

(* The core that the agent knows: it is sent with a redqueen request only. *)
redqueen_core(c) == IF "REDQUEEN" \in config[c] THEN c ELSE 0

(* The first hypercall of the first dump of a run truncates the file. *)
TruncateDump(c, kind) ==
    /\ pc[c] = "run" /\ kind \in config[c] /\ ~init[c]
    /\ init' = [init EXCEPT ![c] = TRUE]
    /\ file' = [file EXCEPT ![<<kind, redqueen_core(c)>>] = <<>>]
    /\ UNCHANGED <<pc, config, requests, chunks, got>>

(* Records and pages are appended one by one; a file that was moved away   *)
(* in the meantime is created again.                                       *)
AppendDump(c, kind) ==
    /\ pc[c] = "run" /\ kind \in config[c] /\ init[c]
    /\ chunks[c] < MaxChunks
    /\ chunks' = [chunks EXCEPT ![c] = @ + 1]
    /\ LET name == <<kind, redqueen_core(c)>> IN
       file' = [file EXCEPT ![name] =
                  Append(IF @ = Absent THEN <<>> ELSE @, <<c, requests[c]>>)]
    /\ UNCHANGED <<pc, config, requests, init, got>>

(* Mutant: the guest's static survives the run. *)
EndRun_KeepsInit(c) ==
    /\ Goto(c, "run", "fuzz")
    /\ chunks' = [chunks EXCEPT ![c] = 0]
    /\ config' = [config EXCEPT ![c] = {}]
    /\ UNCHANGED <<requests, init, file, got>>

(* The run ends, normally, with a crash report or by a timeout, and the VM *)
(* is back at its snapshot.                                                *)
EndRun(c) ==
    /\ Goto(c, "run", "fuzz")
    /\ init' = [init EXCEPT ![c] = FALSE]
    /\ chunks' = [chunks EXCEPT ![c] = 0]
    /\ config' = [config EXCEPT ![c] = {}]
    /\ UNCHANGED <<requests, file, got>>

Next == \E c \in Cores :
    \/ \E asked \in {{}} \cup {{kind} : kind \in Kinds} : AskForDump(c, asked)
    \/ LookForStrings(c)
    \/ LookForHtml(c)
    \/ ReadStrings(c)
    \/ ReadHtml(c)
    \/ MoveStrings(c)
    \/ MoveHtml(c)
    \/ Mutate(c)
    \/ \E kind \in Kinds : TruncateDump(c, kind) \/ AppendDump(c, kind)
    \/ EndRun(c)

Spec == Init /\ [][Next]_vars

-----------------------------------------------------------------------------
(* The variables have their types; only a run has a config and a guest in  *)
(* which a file was truncated.                                             *)
TypeOK ==
    /\ pc \in [Cores -> {"fuzz", "strings", "mv strings", "html?", "html", "mv html",
                         "mutate", "run"}]
    /\ config \in [Cores -> SUBSET Kinds]
    /\ requests \in [Cores -> 0 .. MaxRequests]
    /\ init \in [Cores -> BOOLEAN]
    /\ \A c \in Cores : pc[c] # "run" => config[c] = {} /\ ~init[c]
    /\ chunks \in [Cores -> 0 .. MaxChunks]
    /\ \A name \in Names : file[name] = Absent \/ file[name] \in Seq(RequestIds)
    /\ got \in [Cores -> [Kinds -> SUBSET RequestIds]]

(* What DumpRequest sees of the fuzzer on core c: the run in progress that *)
(* was asked for a dump, the data in the core's dump (less what is about   *)
(* to be moved away), and what was read last.                              *)
HasRead == [kind \in Kinds |-> IF kind = "REDQUEEN" THEN "mv strings" ELSE "mv html"]

Pending(kind, c) ==
    IF pc[c] = "run" /\ config[c] = {kind} THEN <<c, requests[c]>> ELSE Absent

Offered(kind, c) ==
    IF RqDirExists /\ pc[c] = HasRead[kind] THEN {} ELSE Contents(<<kind, c>>)

Used(kind, c) == got[c][kind]

StringsRequest == INSTANCE DumpRequest WITH
    Clients <- Cores,
    Requests <- [c \in Cores |-> {c} \X (1 .. MaxRequests)],
    NoRequest <- Absent,
    ReadOnce <- RqDirExists,
    pending <- [c \in Cores |-> Pending("REDQUEEN", c)],
    offered <- [c \in Cores |-> Offered("REDQUEEN", c)],
    used <- [c \in Cores |-> Used("REDQUEEN", c)]

(* Whatever the other fuzzers do in the shared directory, and wherever a   *)
(* run times out, each mutator's strings dumps work as DumpRequest says:   *)
(* apply_redqueen_dump reads the strings of one run of its own VM, and     *)
(* reads them once if mv can move the file away, that is if /dev/shm/rq    *)
(* exists.  Without that directory it reads the same dump in every call    *)
(* until a later run of its own VM replaces it.                            *)
StringsAsRequested == StringsRequest!Spec

(* A mutator never fails to open a dump it has just seen: isfile, open and *)
(* mv are three steps, but no one else moves html_<core> away.             *)
SeenIsReadable ==
    \A c \in Cores : /\ pc[c] = "strings" => file[<<"REDQUEEN", c>>] # Absent
                     /\ pc[c] = "html" => file[<<"HTML_DUMP", c>>] # Absent

(* A mutator reads pages that its own VM dumped.                           *)
(* (Not what the code does.)                                               *)
PagesOfOwnRun == \A c \in Cores : got[c]["HTML_DUMP"] \subseteq {c} \X (1 .. MaxRequests)
=============================================================================
