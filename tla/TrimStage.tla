------------------------------ MODULE TrimStage ------------------------------
(***************************************************************************)
(* The trimming handlers driven by AFL++'s trim stage, which is external:  *)
(* for a queue entry it calls init_trim, and while the returned counter is *)
(* below the announced number of attempts it calls trim, runs the result   *)
(* and reports the verdict to post_trim.  A candidate that ran with        *)
(* unchanged coverage replaces the queue entry.                            *)
(***************************************************************************)
EXTENDS Trim

CONSTANT MAX_CONCAT_FILES   \* longest test case

ASSUME MaxConcatAssumption == MAX_CONCAT_FILES \in Nat \ {0}

VARIABLES
    stage,      \* AFL++: "idle", "trim" (about to call trim), "run" (candidate under test)
    entry,      \* the queue entry's content: the smallest test case AFL++ accepted
    original,   \* the content that init_trim was given (history)
    seenKeys    \* per file, the variables of the entries trimmed so far (history)

aflVars == <<stage, entry, original, seenKeys>>
vars == <<trimVars, buf, aflVars>>

(* The test cases in the queue. *)
QueueEntries == UNION {[1 .. n -> Input] : n \in 1 .. MAX_CONCAT_FILES}

(* The variables sent to file f by a test case. *)
VarsOf(list, f) ==
    {v \in Vars : \E i \in DOMAIN list : list[i].file = f /\ v \in list[i].vars}

Init ==
    /\ TrimInit
    /\ buf = NotAList
    /\ stage = "idle"
    /\ entry = NotAList
    /\ original = NotAList
    /\ seenKeys = [f \in Files |-> VarsOf(NotAList, f)]

StartTrim(list) ==
    /\ stage = "idle"
    /\ init_trim(list)
    /\ stage' = IF num_trim_operations' > 0 THEN "trim" ELSE "idle"
    /\ entry' = list
    /\ original' = list
    /\ seenKeys' = [f \in Files |-> seenKeys[f] \cup VarsOf(list, f)]
    /\ UNCHANGED buf

CallTrim ==
    /\ stage = "trim"
    /\ trim
    /\ stage' = "run"
    /\ UNCHANGED <<entry, original, seenKeys>>

Verdict(success) ==
    /\ stage = "run"
    /\ post_trim(success)
    /\ stage' = IF trimming_operation_counter' < num_trim_operations THEN "trim" ELSE "idle"
    /\ entry' = IF success THEN buf ELSE entry
    /\ UNCHANGED <<buf, original, seenKeys>>

Next ==
    \/ \E list \in QueueEntries : StartTrim(list)
    \/ CallTrim
    \/ \E success \in BOOLEAN : Verdict(success)

(* A stage that was started is carried on: AFL++ is one sequential loop. *)
Fairness == WF_vars(CallTrim) /\ WF_vars(\E success \in BOOLEAN : Verdict(success))

Spec == Init /\ [][Next]_vars /\ Fairness

-----------------------------------------------------------------------------
TypeOK ==
    /\ TrimTypeOK
    /\ stage \in {"idle", "trim", "run"}
    /\ entry \in InputList
    /\ original \in InputList
    /\ seenKeys \in [Files -> SUBSET Vars]

(* c can be obtained from l by leaving out requests, reordering them and   *)
(* removing variables.                                                     *)
Within(c, l) ==
    \E f \in [DOMAIN c -> DOMAIN l] :
      /\ \A i, j \in DOMAIN c : f[i] = f[j] => i = j
      /\ \A i \in DOMAIN c : /\ c[i].file = l[f[i]].file
                             /\ c[i].vars \subseteq l[f[i]].vars

(* Trimming only ever shrinks: after any sequence of attempts, successes   *)
(* and failures the stored candidate is a reduction of the last successful *)
(* one, and that is a reduction of the entry that init_trim was given,     *)
(* although post_trim can adopt a candidate that an earlier trim left.     *)
TrimOnlyShrinks ==
    /\ Within(current_trimmed_input, last_successful_trimmed_input)
    /\ Within(last_successful_trimmed_input, original)

(* input_key_map holds "keys seen in other seed files": whatever candidate *)
(* the last post_trim happens to record, its variables were in a seed.     *)
LearnedFromSeeds == \A f \in Files : input_key_map[f] \subseteq seenKeys[f]

(* As long as AFL++ is in the stage, post_process sees trimming mode on    *)
(* and there are attempts left: the two sides agree on when it ends.       *)
StageInTrimmingMode ==
    stage # "idle" =>
      /\ in_trimming_mode
      /\ trimming_operation_counter < num_trim_operations

(* How many calls of trim and post_trim are still to come in this stage. *)
Remaining ==
    2 * (num_trim_operations - trimming_operation_counter) - (IF stage = "run" THEN 1 ELSE 0)

(* A stage cannot go on for ever: whatever the verdicts are, every call    *)
(* either is the last one or leaves fewer calls to come, and some.         *)
StageShortens ==
    [][stage # "idle" => stage' = "idle" \/ (0 < Remaining' /\ Remaining' < Remaining)]_vars

(* Every trim stage ends, whatever the verdicts are. *)
TrimStageEnds == stage # "idle" ~> stage = "idle"
=============================================================================
