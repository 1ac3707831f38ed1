------------------------------- MODULE Mutator -------------------------------
(***************************************************************************)
(* The scheduling core of the custom mutator (src/fuzzer/atropos_fuzzer.py) *)
(* driven by AFL++: which buffer fuzz() returns next, when post_process()  *)
(* asks the agent for a redqueen or an html dump, and how the dumps find   *)
(* their way back.                                                         *)
(*                                                                         *)
(* AFL++ is external and modelled by the calls it makes: it visits a queue *)
(* entry (queue_get), may trim it, and then calls fuzz() again and again;  *)
(* each buffer goes through post_process() and is executed, possibly       *)
(* several times (calibration, retries after a hang), and a buffer that    *)
(* reached new code becomes a queue entry (queue_new_entry).  How often    *)
(* fuzz() is called per visit is AFL++'s decision.                         *)
(***************************************************************************)
EXTENDS Trim, FiniteSetsExt

CONSTANTS
    APPLY_REDQUEEN_AFTER,   \* call of fuzz() whose run dumps redqueen data
    MAX_CONCAT_FILES,       \* longest list of concatenated requests
    MAX_GLOBAL_TODO,        \* most test cases waiting in fuzz_todo_global
    Seeds,                  \* names of queue entries (a bound for TLC)
    FirstSeed,              \* the entry AFL++ starts with
    RqDirExists,            \* is there a directory /dev/shm/rq to move dumps to?
    HtmlForms,              \* what a page's form can be: the set of files it may target
    MaxExecutions           \* calls of fuzz() per visit (a bound for TLC)

APPLY_HTML_DUMP_AFTER == APPLY_REDQUEEN_AFTER + 1

ASSUME MutatorConstants ==
    /\ APPLY_REDQUEEN_AFTER \in Nat /\ APPLY_REDQUEEN_AFTER > 1
    /\ MAX_CONCAT_FILES \in Nat /\ MAX_CONCAT_FILES > 1
    /\ MAX_GLOBAL_TODO \in Nat
    /\ FirstSeed \in Seeds
    /\ RqDirExists \in BOOLEAN
    /\ IsFiniteSet(Files) /\ HtmlForms \subseteq SUBSET Files
    /\ MaxExecutions \in Nat

NONE == <<>>    \* Python's None where a test case is expected
NoSeed == "no seed"

VARIABLES
    current_seed, current_executions,
    redqueen_done, html_dump_done,
    initialized_files,
    fuzz_todo_single, fuzz_todo_concat, fuzz_todo_global,
    global_todo_already_added,
    redqueen_map,       \* the seeds whose dumps fill the redqueen maps now
    queue,              \* content of the queue entries, NONE where there is none yet
    strings_dump,       \* workdir/dump/strings_<core>: the seed it was dumped for
    html_dump,          \* workdir/dump/html_<core>: the seed it was dumped for
    stage,              \* what AFL++ does next
    trim_done,          \* the queue entries AFL++ has trimmed; it trims each once
    config,             \* the config part of the payload posted last
    rqRuns, htmlRuns    \* runs with a dump requested since queue_get (history)

fuzzVars == <<current_seed, current_executions, redqueen_done, html_dump_done,
              initialized_files, fuzz_todo_single, fuzz_todo_concat,
              fuzz_todo_global, global_todo_already_added, redqueen_map>>
dumpVars == <<strings_dump, html_dump>>
histVars == <<rqRuns, htmlRuns>>
vars == <<trimVars, buf, fuzzVars, dumpVars, queue, stage, trim_done, config, histVars>>

(* The entries the mutator knows of: AFL++ announces every one of them to  *)
(* queue_new_entry, the initial one included.                              *)
queue_files == {s \in Seeds : queue[s] # NONE}

Init ==
    /\ TrimInit
    /\ buf = NotAList
    /\ current_seed = NoSeed
    /\ current_executions = 0
    /\ redqueen_done = FALSE
    /\ html_dump_done = FALSE
    /\ initialized_files = {}
    /\ fuzz_todo_single = <<>>
    /\ fuzz_todo_concat = NONE
    /\ fuzz_todo_global = {}
    /\ global_todo_already_added = {}
    /\ redqueen_map = {}
    /\ queue = [s \in Seeds |-> IF s = FirstSeed THEN NotAList ELSE NONE]
    /\ strings_dump = NoSeed
    /\ html_dump = NoSeed
    /\ stage = "select"
    /\ trim_done = {}
    /\ config = {}
    /\ rqRuns = 0
    /\ htmlRuns = 0

-----------------------------------------------------------------------------
(* Mutant: current_seed still names the entry visited before. *)
queue_get_KeepsSeed(seed) ==
    /\ stage = "select"
    /\ queue[seed] # NONE
    /\ current_executions' = 0
    /\ redqueen_map' = {}
    /\ stage' = "visit"
    /\ rqRuns' = 0
    /\ htmlRuns' = 0
    /\ UNCHANGED <<trimVars, buf, redqueen_done, html_dump_done, initialized_files,
                   fuzz_todo_single, fuzz_todo_concat, fuzz_todo_global, current_seed,
                   global_todo_already_added, dumpVars, queue, trim_done, config>>

(* AFL++ picks a queue entry. *)
queue_get(seed) ==
    /\ stage = "select"
    /\ queue[seed] # NONE
    /\ current_seed' = seed
    /\ current_executions' = 0
    /\ redqueen_map' = {}
    /\ stage' = "visit"
    /\ rqRuns' = 0
    /\ htmlRuns' = 0
    /\ UNCHANGED <<trimVars, buf, redqueen_done, html_dump_done, initialized_files,
                   fuzz_todo_single, fuzz_todo_concat, fuzz_todo_global,
                   global_todo_already_added, dumpVars, queue, trim_done, config>>

(* AFL++ has called fuzz() as often as it wants to for this entry. *)
EndVisit ==
    /\ stage = "visit"
    /\ stage' = "select"
    /\ UNCHANGED <<trimVars, buf, fuzzVars, dumpVars, queue, trim_done, config, histVars>>

-----------------------------------------------------------------------------
(* fuzz(): the branches in the order the code tries them.                  *)

CallFuzz ==
    /\ stage = "visit"
    /\ current_executions < MaxExecutions
    /\ current_executions' = current_executions + 1
    /\ stage' = "run"

(* input_to_HashableBytearray: a pickle above max_size is replaced.        *)
Encoded(list) == {list, NotAList}

(* Mutant: the flag of an earlier redqueen dump is not taken back. *)
FuzzUnchanged_KeepsDone ==
    /\ CallFuzz
    /\ current_executions' \in {1, APPLY_REDQUEEN_AFTER, APPLY_HTML_DUMP_AFTER}
    /\ redqueen_done' = redqueen_done
    /\ html_dump_done' = (html_dump_done /\ current_executions' # APPLY_HTML_DUMP_AFTER)
    /\ buf' \in Encoded(queue[current_seed])
    /\ UNCHANGED <<trimVars, current_seed, initialized_files, fuzz_todo_single,
                   fuzz_todo_concat, fuzz_todo_global, global_todo_already_added,
                   redqueen_map, dumpVars, queue, trim_done, config, histVars>>

(* The first call, and the two that announce a dump, return the entry      *)
(* unchanged.                                                              *)
FuzzUnchanged ==
    /\ CallFuzz
    /\ current_executions' \in {1, APPLY_REDQUEEN_AFTER, APPLY_HTML_DUMP_AFTER}
    /\ redqueen_done' = (redqueen_done /\ current_executions' # APPLY_REDQUEEN_AFTER)
    /\ html_dump_done' = (html_dump_done /\ current_executions' # APPLY_HTML_DUMP_AFTER)
    /\ buf' \in Encoded(queue[current_seed])
    /\ UNCHANGED <<trimVars, current_seed, initialized_files, fuzz_todo_single,
                   fuzz_todo_concat, fuzz_todo_global, global_todo_already_added,
                   redqueen_map, dumpVars, queue, trim_done, config, histVars>>

FuzzOther ==
    /\ CallFuzz
    /\ current_executions' \notin {1, APPLY_REDQUEEN_AFTER, APPLY_HTML_DUMP_AFTER}
    /\ UNCHANGED <<trimVars, current_seed, redqueen_done, html_dump_done,
                   queue, trim_done, config, histVars>>

(* Mutant: the dump is read but not moved away. *)
FuzzRedqueen_LeavesDump ==
    /\ FuzzOther
    /\ strings_dump # NoSeed
    /\ redqueen_map' = {strings_dump}
    /\ buf' \in Encoded(queue[current_seed])
    /\ UNCHANGED <<initialized_files, fuzz_todo_single, fuzz_todo_concat,
                   fuzz_todo_global, global_todo_already_added, dumpVars>>

(* A dump after os.system("mv ..."), whose result is ignored. *)
Moved(dump) == IF RqDirExists THEN NoSeed ELSE dump

(* A strings dump is there: apply_redqueen_dump replaces the maps, the     *)
(* file is moved away and the entry is returned unchanged.                 *)
FuzzRedqueen ==
    /\ FuzzOther
    /\ strings_dump # NoSeed
    /\ redqueen_map' = {strings_dump}
    /\ strings_dump' = Moved(strings_dump)
    /\ buf' \in Encoded(queue[current_seed])
    /\ UNCHANGED <<initialized_files, fuzz_todo_single, fuzz_todo_concat,
                   fuzz_todo_global, global_todo_already_added, html_dump>>

(* The list that a suggested input is put on: alone, or before or after    *)
(* the input that produced the page.                                       *)
Shaped(shape, i, current) ==
    CASE shape = "single" -> <<i>>
      [] shape = "concat_before" -> <<i, current>>
      [] shape = "concat_after" -> <<current, i>>

(* Mutant: the list of waiting test cases is not cut. *)
Cut_Missing(todo) == {todo}

(* random.shuffle and the cut to MAX_GLOBAL_TODO.  The order of a list     *)
(* that is shuffled whenever it grows carries no information: it is a set. *)
Cut(todo) ==
    IF Cardinality(todo) <= MAX_GLOBAL_TODO
    THEN {todo}
    ELSE kSubset(MAX_GLOBAL_TODO, todo)

(* What html_inputs_to_seed may leave behind for a page whose links and    *)
(* forms target the given files.  The suggested inputs are copies of the   *)
(* empty, the default, the current or a random input with the fields of a  *)
(* form set, so their variables are arbitrary here.  An input that was     *)
(* suggested before, in any shape, is skipped.                             *)
html_inputs_to_seed(current, form) ==
    LET candidates == [file : form \cup {current.file}, vars : SUBSET Vars]
                        \ global_todo_already_added
        shapes == UNION {[new -> {"single", "concat_before", "concat_after"}]
                         : new \in SUBSET candidates}
    IN  UNION {{[added |-> global_todo_already_added \cup DOMAIN shape, todo |-> todo,
                 strings |-> redqueen_map \cup {html_dump}]
                : todo \in Cut(fuzz_todo_global \cup
                                {Shaped(shape[i], i, current) : i \in DOMAIN shape})}
               : shape \in shapes}

(* The global todo list and the redqueen maps after fuzz() looked for an   *)
(* html dump: unchanged without a dump, or when the dump cannot be read or *)
(* holds no form.  The fields of a form are appended to the maps.          *)
AfterHtmlDump ==
    {[added |-> global_todo_already_added, todo |-> fuzz_todo_global,
      strings |-> redqueen_map]} \cup
    IF html_dump = NoSeed
    THEN {}
    ELSE UNION {html_inputs_to_seed(queue[current_seed][1], form) : form \in HtmlForms}

(* Reading the html dump, which is then moved away, precedes every         *)
(* remaining branch.                                                       *)
FuzzFurther(html) ==
    /\ FuzzOther
    /\ strings_dump = NoSeed
    /\ global_todo_already_added' = html.added
    /\ redqueen_map' = html.strings
    /\ html_dump' = Moved(html_dump)
    /\ UNCHANGED strings_dump

NeedInitialization ==
    /\ Cardinality(initialized_files) < Cardinality(Files)
    /\ current_executions' > APPLY_HTML_DUMP_AFTER

(* Every file is requested once with the default input. *)
FuzzInitialize(html) ==
    /\ FuzzFurther(html)
    /\ NeedInitialization
    /\ \E f \in Files \ initialized_files :
         /\ initialized_files' = initialized_files \cup {f}
         /\ buf' \in Encoded(<<[default_input EXCEPT !.file = f]>>)
    /\ fuzz_todo_global' = html.todo
    /\ UNCHANGED <<fuzz_todo_single, fuzz_todo_concat>>

FuzzGlobalTodo(html) ==
    /\ FuzzFurther(html)
    /\ ~NeedInitialization
    /\ \E list \in html.todo :
         /\ fuzz_todo_global' = html.todo \ {list}
         /\ buf' \in Encoded(list)
    /\ UNCHANGED <<initialized_files, fuzz_todo_single, fuzz_todo_concat>>

FuzzSingleTodo(html) ==
    /\ FuzzFurther(html)
    /\ ~NeedInitialization
    /\ fuzz_todo_single # <<>>
    /\ LET n == Len(fuzz_todo_single) IN
       /\ buf' \in Encoded(<<fuzz_todo_single[n]>>)
       /\ fuzz_todo_single' = SubSeq(fuzz_todo_single, 1, n - 1)
    /\ fuzz_todo_global' = html.todo
    /\ UNCHANGED <<initialized_files, fuzz_todo_concat>>

(* Mutant: the whole is tried before its parts. *)
FuzzConcatTodo_First(html) ==
    /\ FuzzFurther(html)
    /\ ~NeedInitialization
    /\ fuzz_todo_concat # NONE
    /\ buf' \in Encoded(fuzz_todo_concat)
    /\ fuzz_todo_concat' = NONE
    /\ fuzz_todo_global' = html.todo
    /\ UNCHANGED <<initialized_files, fuzz_todo_single>>

FuzzConcatTodo(html) ==
    /\ FuzzFurther(html)
    /\ ~NeedInitialization
    /\ fuzz_todo_single = <<>>
    /\ fuzz_todo_concat # NONE
    /\ buf' \in Encoded(fuzz_todo_concat)
    /\ fuzz_todo_concat' = NONE
    /\ fuzz_todo_global' = html.todo
    /\ UNCHANGED <<initialized_files, fuzz_todo_single>>

(* The entry, or the entry with another one concatenated and shuffled in.  *)
Concatenated(list) ==
    {list} \cup
    IF Len(list) < MAX_CONCAT_FILES
    THEN UNION {Arrangements(list \o queue[s], Len(list) + Len(queue[s])) : s \in queue_files}
    ELSE {}

(* One or two rounds of mutation change the variables of one request each; *)
(* the requested files stay.                                               *)
MutatedLists(list) ==
    {[i \in DOMAIN list |-> [list[i] EXCEPT !.vars = v[i]]]
       : v \in {w \in [DOMAIN list -> SUBSET Vars] :
                  Cardinality({i \in DOMAIN list : w[i] # list[i].vars}) <= 2}}

(* Mutant: a list that grew too long is not cut. *)
Shortened_Missing(list) == {list}

(* A list that grew too long is shuffled and cut. *)
Shortened(list) ==
    IF Len(list) > MAX_CONCAT_FILES
    THEN Arrangements(list, MAX_CONCAT_FILES)
    ELSE {list}

(* Several requests are first tried one by one, the last one now, and then *)
(* as a whole.                                                             *)
Plan(list) ==
    /\ fuzz_todo_single' = SubSeq(list, 1, Len(list) - 1)
    /\ fuzz_todo_concat' = list
    /\ buf' \in Encoded(<<list[Len(list)]>>)

FuzzMutate(html) ==
    /\ FuzzFurther(html)
    /\ ~NeedInitialization
    /\ fuzz_todo_single = <<>>
    /\ fuzz_todo_concat = NONE
    /\ \E base \in Concatenated(queue[current_seed]) : \E list \in MutatedLists(base) :
         \/ /\ Len(list) > 1
            /\ \E short \in Shortened(list) : Plan(short)
         \/ /\ Len(list) = 1
            /\ buf' \in Encoded(list)
            /\ UNCHANGED <<fuzz_todo_single, fuzz_todo_concat>>
    /\ fuzz_todo_global' = html.todo
    /\ UNCHANGED initialized_files

fuzz ==
    \/ FuzzUnchanged
    \/ FuzzRedqueen
    \/ /\ stage = "visit"
       /\ \E html \in AfterHtmlDump :
            \/ FuzzInitialize(html)
            \/ FuzzGlobalTodo(html)
            \/ FuzzSingleTodo(html)
            \/ FuzzConcatTodo(html)
            \/ FuzzMutate(html)

-----------------------------------------------------------------------------
(* post_process(): the payload for one run, with the dumps to be made. *)

(* Mutant: a dump that was requested is not marked as done. *)
DumpDone_Forgotten(done, requested) == done

DumpDone(done, requested) == done \/ requested

DumpDue(after, done) ==
    /\ ~in_trimming_mode
    /\ current_executions = after
    /\ ~done

post_process ==
    LET redqueen == DumpDue(APPLY_REDQUEEN_AFTER, redqueen_done)
        html == DumpDue(APPLY_HTML_DUMP_AFTER, html_dump_done)
    IN  /\ \/ stage = "run" /\ stage' = "execute"
           \/ stage = "trimrun" /\ stage' = "trimexecute"
        /\ config' = {c \in {"REDQUEEN", "HTML_DUMP"} :
                        IF c = "REDQUEEN" THEN redqueen ELSE html}
        /\ redqueen_done' = DumpDone(redqueen_done, redqueen)
        /\ html_dump_done' = DumpDone(html_dump_done, html)
        /\ rqRuns' = IF redqueen THEN rqRuns + 1 ELSE rqRuns
        /\ htmlRuns' = IF html THEN htmlRuns + 1 ELSE htmlRuns
        /\ UNCHANGED <<trimVars, buf, current_seed, current_executions,
                       initialized_files, fuzz_todo_single, fuzz_todo_concat,
                       fuzz_todo_global, global_todo_already_added, redqueen_map,
                       dumpVars, queue, trim_done>>

(* The agent runs the payload.  A run may hang or log nothing, so a dump   *)
(* that was asked for may or may not appear.                               *)
Execute ==
    /\ \/ stage = "execute" /\ stage' = "judge"
       \/ stage = "trimexecute" /\ stage' = "trimjudge"
    /\ strings_dump' \in {strings_dump} \cup
                         (IF "REDQUEEN" \in config THEN {current_seed} ELSE {})
    /\ html_dump' \in {html_dump} \cup
                      (IF "HTML_DUMP" \in config THEN {current_seed} ELSE {})
    /\ UNCHANGED <<trimVars, buf, fuzzVars, queue, trim_done, config, histVars>>

(* AFL++ runs the same buffer again: calibration, or a retry after a hang. *)
Rerun ==
    /\ stage = "judge"
    /\ stage' = "run"
    /\ UNCHANGED <<trimVars, buf, fuzzVars, dumpVars, queue, trim_done, config, histVars>>

(* The buffer reached new code and becomes an entry of the queue. *)
queue_new_entry(seed) ==
    /\ stage = "judge"
    /\ queue[seed] = NONE
    /\ queue' = [queue EXCEPT ![seed] = buf]
    /\ UNCHANGED <<trimVars, buf, fuzzVars, dumpVars, stage, trim_done, config, histVars>>

RunDone ==
    /\ stage = "judge"
    /\ stage' = "visit"
    /\ UNCHANGED <<trimVars, buf, fuzzVars, dumpVars, queue, trim_done, config, histVars>>

-----------------------------------------------------------------------------
(* The trim stage of AFL++, as in TrimStage, on the entry being visited.   *)

StartTrim ==
    /\ stage = "visit"
    /\ current_seed \notin trim_done
    /\ trim_done' = trim_done \cup {current_seed}
    /\ init_trim(queue[current_seed])
    /\ stage' = IF num_trim_operations' > 0 THEN "trim" ELSE "visit"
    /\ UNCHANGED <<buf, fuzzVars, dumpVars, queue, config, histVars>>

CallTrim ==
    /\ stage = "trim"
    /\ trim
    /\ stage' = "trimrun"
    /\ UNCHANGED <<fuzzVars, dumpVars, queue, trim_done, config, histVars>>

Verdict(success) ==
    /\ stage = "trimjudge"
    /\ post_trim(success)
    /\ queue' = IF success THEN [queue EXCEPT ![current_seed] = buf] ELSE queue
    /\ stage' = IF trimming_operation_counter' < num_trim_operations THEN "trim" ELSE "visit"
    /\ UNCHANGED <<buf, fuzzVars, dumpVars, trim_done, config, histVars>>

Next ==
    \/ \E seed \in Seeds : queue_get(seed)
    \/ EndVisit
    \/ fuzz
    \/ post_process
    \/ Execute
    \/ Rerun
    \/ \E seed \in Seeds : queue_new_entry(seed)
    \/ RunDone
    \/ StartTrim
    \/ CallTrim
    \/ \E success \in BOOLEAN : Verdict(success)

Spec == Init /\ [][Next]_vars

-----------------------------------------------------------------------------
TestCases == {list \in InputList : Len(list) <= MAX_CONCAT_FILES}

TypeOK ==
    /\ TrimTypeOK
    /\ current_seed \in Seeds \cup {NoSeed}
    /\ stage # "select" => current_seed \in Seeds
    /\ current_executions \in 0 .. MaxExecutions
    /\ redqueen_done \in BOOLEAN /\ html_dump_done \in BOOLEAN
    /\ initialized_files \subseteq Files
    /\ fuzz_todo_single \in Seq(Input)
    /\ fuzz_todo_concat \in Seq(Input)
    /\ fuzz_todo_global \subseteq InputList
    /\ global_todo_already_added \subseteq Input
    /\ redqueen_map \subseteq Seeds
    /\ queue \in [Seeds -> Seq(Input)]
    /\ strings_dump \in Seeds \cup {NoSeed}
    /\ html_dump \in Seeds \cup {NoSeed}
    /\ stage \in {"select", "visit", "run", "execute", "judge",
                  "trim", "trimrun", "trimexecute", "trimjudge"}
    /\ trim_done \subseteq Seeds
    /\ config \subseteq {"REDQUEEN", "HTML_DUMP"}
    /\ rqRuns \in Nat /\ htmlRuns \in Nat

(* "make sure we don't do redqueen twice in a row to avoid looping": of    *)
(* all the runs of one visit, reruns and trim candidates included, at most *)
(* one dumps redqueen data and at most one dumps html.                     *)
DumpOncePerVisit == rqRuns <= 1 /\ htmlRuns <= 1

(* "at the 100th execution, dump redqueen data": the run at which fuzz()   *)
(* hands out the entry unchanged for the dump is one that asks for it, on  *)
(* whatever visit and after whatever trims.  The exception is what the     *)
(* code does: init_trim turns trimming mode on also where it announces no  *)
(* operations, and then nothing turns it off again.                        *)
RedqueenRequested ==
    stage = "execute" /\ current_executions = APPLY_REDQUEEN_AFTER =>
      rqRuns = 1 \/ (in_trimming_mode /\ num_trim_operations = 0)

(* A planned concatenation is carried out, whatever AFL++ does between its *)
(* steps: it changes only when its next part, counted from the end, or     *)
(* after the first part the whole is handed to AFL++.                      *)
PlanInOrder ==
    [][fuzz_todo_concat # NONE =>
         \/ UNCHANGED <<fuzz_todo_single, fuzz_todo_concat>>
         \/ LET n == Len(fuzz_todo_single) IN
            /\ n > 0
            /\ buf' \in Encoded(<<fuzz_todo_concat[n]>>)
            /\ fuzz_todo_single' = SubSeq(fuzz_todo_concat, 1, n - 1)
            /\ UNCHANGED fuzz_todo_concat
         \/ /\ fuzz_todo_single = <<>>
            /\ buf' \in Encoded(fuzz_todo_concat)
            /\ fuzz_todo_concat' = NONE
            /\ UNCHANGED fuzz_todo_single]_vars

(* No test case ever holds more than MAX_CONCAT_FILES requests or none:    *)
(* not in the queue, not planned, and not handed to AFL++.                 *)
ListsBounded ==
    /\ buf \in TestCases
    /\ fuzz_todo_concat \in TestCases \cup {NONE}
    /\ fuzz_todo_global \subseteq TestCases
    /\ \A s \in Seeds : queue[s] \in TestCases \cup {NONE}

(* The list of waiting test cases stays within its limit. *)
TodoBounded == Cardinality(fuzz_todo_global) <= MAX_GLOBAL_TODO

(* "first mode is to execute all PHP scripts at least once": as long as    *)
(* AFL++ keeps making visits that go past the two dumps, every file gets   *)
(* its turn, dumps left over from shorter visits notwithstanding.          *)
AllFilesInitialized ==
    []<>(current_executions = 0) /\ []<>(current_executions > APPLY_HTML_DUMP_AFTER + 1)
      => <>(initialized_files = Files)
=============================================================================
