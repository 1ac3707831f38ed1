-------------------------------- MODULE Trim --------------------------------
(***************************************************************************)
(* The trimming handlers of the custom mutator: init_trim, trim and        *)
(* post_trim of src/fuzzer/atropos_fuzzer.py, and the globals they share.  *)
(*                                                                         *)
(* A test case is a list of concatenated requests.  A request is the PHP   *)
(* file it asks for and the set of its variables: how one trimming         *)
(* operation edits a single request is the subject of InputDict.           *)
(* A buffer handed over between AFL++ and the mutator is written as the    *)
(* list that convert_input reads from it.                                  *)
(***************************************************************************)
EXTENDS Naturals, Sequences, FiniteSets, Functions

CONSTANTS
    Files,                      \* php_filenames
    Vars,                       \* names of request variables
    default_input,              \* the input used when nothing else can be decoded
    NUM_TRIMMING_OPERATIONS     \* attempts per variable

Input == [file : Files, vars : SUBSET Vars]

ASSUME TrimConstants ==
    /\ IsFiniteSet(Vars)
    /\ default_input \in Input
    /\ NUM_TRIMMING_OPERATIONS \in Nat \ {0}

(* A test case: never empty. *)
InputList == Seq(Input) \ {<<>>}

VARIABLES
    last_successful_trimmed_input,
    current_trimmed_input,
    trimming_operation_counter,
    num_trim_operations,
    in_trimming_mode,
    first_trim,
    input_key_map,      \* per file, the variables seen in trimmed seeds
    buf                 \* the buffer that the mutator returned last

trimVars == <<last_successful_trimmed_input, current_trimmed_input,
              trimming_operation_counter, num_trim_operations,
              in_trimming_mode, first_trim, input_key_map>>

-----------------------------------------------------------------------------
(* sum of len(input_keys(x)) over the list *)
NumKeys(list) ==
    Cardinality({p \in (1 .. Len(list)) \X Vars : p[2] \in list[p[1]].vars})

(* random.shuffle and a cut to the first n. *)
Arrangements(list, n) ==
    {[i \in 1 .. n |-> list[f[i]]] : f \in Injection(1 .. n, 1 .. Len(list))}

(* What convert_input makes of a pickle that is not a list. *)
NotAList == <<default_input>>

TrimInit ==
    /\ last_successful_trimmed_input = NotAList   \* None in the code; read only after init_trim
    /\ current_trimmed_input = NotAList
    /\ trimming_operation_counter = 0
    /\ num_trim_operations = 0
    /\ in_trimming_mode = FALSE
    /\ first_trim = TRUE
    /\ input_key_map = [f \in Files |-> {}]

(* Mutant: current_trimmed_input is not reset for the new seed. *)
init_trim_KeepsCurrent(list) ==
    /\ last_successful_trimmed_input' = list
    /\ trimming_operation_counter' = 0
    /\ first_trim' = FALSE
    /\ in_trimming_mode' = ~first_trim
    /\ num_trim_operations' =
         IF first_trim THEN 0 ELSE NumKeys(list) * NUM_TRIMMING_OPERATIONS
    /\ UNCHANGED <<current_trimmed_input, input_key_map>>

(* The very first trim is refused (the code works around AFL++); after     *)
(* that the number of attempts is the number of variables times a factor,  *)
(* which is zero for a test case without variables: trimming mode is on    *)
(* all the same.  AFL++ queues no empty file, so len(buf) == 0 is left out. *)
init_trim(list) ==
    /\ last_successful_trimmed_input' = list
    /\ current_trimmed_input' = list
    /\ trimming_operation_counter' = 0
    /\ first_trim' = FALSE
    /\ in_trimming_mode' = ~first_trim
    /\ num_trim_operations' =
         IF first_trim THEN 0 ELSE NumKeys(list) * NUM_TRIMMING_OPERATIONS
    /\ UNCHANGED input_key_map

(* Mutant: the only request of a test case may be dropped too. *)
TrimConcat_Unguarded ==
    /\ buf' \in Arrangements(last_successful_trimmed_input,
                             Len(last_successful_trimmed_input) - 1)
    /\ UNCHANGED trimVars

(* Drop one of the concatenated requests.  current_trimmed_input is        *)
(* assigned only in the other branch of the code.                          *)
TrimConcat ==
    /\ Len(last_successful_trimmed_input) > 1
    /\ buf' \in Arrangements(last_successful_trimmed_input,
                             Len(last_successful_trimmed_input) - 1)
    /\ UNCHANGED trimVars

(* A request without variables is returned alone, as a dict and not as a   *)
(* list, and before current_trimmed_input is assigned.                     *)
TrimNothing ==
    /\ \E i \in DOMAIN last_successful_trimmed_input :
         last_successful_trimmed_input[i].vars = {}
    /\ buf' = NotAList
    /\ UNCHANGED trimVars

(* One operation on one variable of one request.  It may remove that       *)
(* variable with its array elements, or change a value and remove nothing. *)
TrimVariable ==
    /\ \E i \in DOMAIN last_successful_trimmed_input :
         LET request == last_successful_trimmed_input[i] IN
         /\ request.vars # {}
         /\ \E rest \in SUBSET request.vars :
              current_trimmed_input' =
                [last_successful_trimmed_input EXCEPT ![i].vars = rest]
    /\ buf' = current_trimmed_input'
    /\ UNCHANGED <<last_successful_trimmed_input, trimming_operation_counter,
                   num_trim_operations, in_trimming_mode, first_trim, input_key_map>>

trim == TrimConcat \/ TrimNothing \/ TrimVariable

(* Mutant: variables are recorded for files they were not sent to. *)
KeysFor_AnyFile(list, f) == UNION {list[i].vars : i \in DOMAIN list}

(* The variables of the requests for file f in a test case. *)
KeysFor(list, f) == UNION {list[i].vars : i \in {j \in DOMAIN list : list[j].file = f}}

(* Mutant: the step is not counted when it failed. *)
post_trim_CountsSuccesses(success) ==
    LET counter == IF success THEN trimming_operation_counter + 1
                              ELSE trimming_operation_counter
        done == counter >= num_trim_operations
    IN  /\ last_successful_trimmed_input' =
             IF success THEN current_trimmed_input ELSE last_successful_trimmed_input
        /\ trimming_operation_counter' = counter
        /\ in_trimming_mode' = (in_trimming_mode /\ ~done)
        /\ input_key_map' =
             IF done
             THEN [f \in Files |-> input_key_map[f] \cup KeysFor(current_trimmed_input, f)]
             ELSE input_key_map
        /\ UNCHANGED <<current_trimmed_input, num_trim_operations, first_trim>>

(* Mutant: trimming mode is left one attempt early. *)
post_trim_OffByOne(success) ==
    LET counter == trimming_operation_counter + 1
        done == counter + 1 >= num_trim_operations
    IN  /\ last_successful_trimmed_input' =
             IF success THEN current_trimmed_input ELSE last_successful_trimmed_input
        /\ trimming_operation_counter' = counter
        /\ in_trimming_mode' = (in_trimming_mode /\ ~done)
        /\ UNCHANGED <<current_trimmed_input, num_trim_operations, first_trim, input_key_map>>

(* A success makes the stored candidate the new starting point; the last   *)
(* attempt records the candidate's variables for its files and leaves      *)
(* trimming mode.  (filename_to_string_map is updated in the same way,     *)
(* with the values; it is left out together with the values.)              *)
post_trim(success) ==
    LET counter == trimming_operation_counter + 1
        done == counter >= num_trim_operations
    IN  /\ last_successful_trimmed_input' =
             IF success THEN current_trimmed_input ELSE last_successful_trimmed_input
        /\ trimming_operation_counter' = counter
        /\ in_trimming_mode' = (in_trimming_mode /\ ~done)
        /\ input_key_map' =
             IF done
             THEN [f \in Files |-> input_key_map[f] \cup KeysFor(current_trimmed_input, f)]
             ELSE input_key_map
        /\ UNCHANGED <<current_trimmed_input, num_trim_operations, first_trim>>

-----------------------------------------------------------------------------
TrimTypeOK ==
    /\ last_successful_trimmed_input \in InputList
    /\ current_trimmed_input \in InputList
    /\ trimming_operation_counter \in Nat
    /\ num_trim_operations \in Nat
    /\ in_trimming_mode \in BOOLEAN
    /\ first_trim \in BOOLEAN
    /\ input_key_map \in [Files -> SUBSET Vars]
    /\ buf \in InputList
=============================================================================
