-------------------------- MODULE TrimStage_proofs --------------------------
(***************************************************************************)
(* Proofs about TrimStage, for every set of files and variables, every     *)
(* number of attempts and every length of a test case.                     *)
(***************************************************************************)
EXTENDS TrimStage, FiniteSetTheorems, TLAPS

(* The number of attempts that init_trim announces is a number. *)
LEMMA NumKeysType ==
  ASSUME NEW list \in InputList
  PROVE  NumKeys(list) \in Nat
<1>0. Len(list) \in Int
  BY DEF InputList
<1>a. IsFiniteSet(1 .. Len(list))
  BY <1>0, FS_Interval
<1>1. IsFiniteSet((1 .. Len(list)) \X Vars)
  BY <1>a, FS_Product, TrimConstants
<1>2. {p \in (1 .. Len(list)) \X Vars : p[2] \in list[p[1]].vars}
        \subseteq (1 .. Len(list)) \X Vars
  OBVIOUS
<1> QED
  BY <1>1, <1>2, FS_Subset, FS_CardinalityType DEF NumKeys

(* convert_input's answer to a pickle that is no list is a test case. *)
LEMMA NotAListType == NotAList \in InputList
BY TrimConstants DEF NotAList, InputList

(* Every test case is a reduction of itself. *)
LEMMA WithinReflexive ==
  ASSUME NEW list
  PROVE  Within(list, list)
<1> DEFINE f == [i \in DOMAIN list |-> i]
<1>1. f \in [DOMAIN list -> DOMAIN list]
  OBVIOUS
<1> QED
  BY <1>1 DEF Within

(* A reduction of a reduction is a reduction. *)
LEMMA WithinTransitive ==
  ASSUME NEW a, NEW b, NEW c, Within(a, b), Within(b, c)
  PROVE  Within(a, c)
<1>1. PICK f \in [DOMAIN a -> DOMAIN b] :
        /\ \A i, j \in DOMAIN a : f[i] = f[j] => i = j
        /\ \A i \in DOMAIN a : a[i].file = b[f[i]].file /\ a[i].vars \subseteq b[f[i]].vars
  BY DEF Within
<1>2. PICK g \in [DOMAIN b -> DOMAIN c] :
        /\ \A i, j \in DOMAIN b : g[i] = g[j] => i = j
        /\ \A i \in DOMAIN b : b[i].file = c[g[i]].file /\ b[i].vars \subseteq c[g[i]].vars
  BY DEF Within
<1> DEFINE h == [i \in DOMAIN a |-> g[f[i]]]
<1>3. h \in [DOMAIN a -> DOMAIN c]
  BY <1>1, <1>2
<1>4. \A i, j \in DOMAIN a : h[i] = h[j] => i = j
  BY <1>1, <1>2
<1>5. \A i \in DOMAIN a : a[i].file = c[h[i]].file /\ a[i].vars \subseteq c[h[i]].vars
  BY <1>1, <1>2
<1> QED
  BY <1>3, <1>4, <1>5 DEF Within

(* A shuffled and cut test case that keeps a request is a test case. *)
LEMMA ArrangementType ==
  ASSUME NEW list \in InputList, NEW n \in Nat, n > 0, NEW c \in Arrangements(list, n)
  PROVE  c \in InputList
<1>1. PICK f \in Injection(1 .. n, 1 .. Len(list)) : c = [i \in 1 .. n |-> list[f[i]]]
  BY DEF Arrangements
<1>2. f \in [1 .. n -> 1 .. Len(list)]
  BY DEF Injection
<1>3. c \in [1 .. n -> Input]
  BY <1>1, <1>2 DEF InputList
<1>4. c \in Seq(Input)
  BY <1>3
<1>5. c # <<>>
  BY <1>3
<1> QED
  BY <1>4, <1>5 DEF InputList

(* Removing variables from one request yields a reduction. *)
LEMMA RestrictRequest ==
  ASSUME NEW list \in InputList, NEW i \in DOMAIN list, NEW rest \in SUBSET list[i].vars
  PROVE  LET c == [list EXCEPT ![i].vars = rest] IN c \in InputList /\ Within(c, list)
<1> DEFINE c == [list EXCEPT ![i].vars = rest]
<1> DEFINE f == [j \in DOMAIN list |-> j]
<1>1. list \in Seq(Input) /\ list # <<>> /\ list[i] \in Input
  BY DEF InputList
<1>2. [list[i] EXCEPT !.vars = rest] \in Input
  BY <1>1 DEF Input
<1>3. c \in InputList
  BY <1>1, <1>2 DEF InputList
<1>4. DOMAIN c = DOMAIN list
  OBVIOUS
<1>5. f \in [DOMAIN c -> DOMAIN list]
  BY <1>4
<1>6. \A j \in DOMAIN c : c[j].file = list[f[j]].file /\ c[j].vars \subseteq list[f[j]].vars
  BY <1>1, <1>4 DEF Input
<1>7. \A j, k \in DOMAIN c : f[j] = f[k] => j = k
  BY <1>4
<1> QED
  BY <1>3, <1>5, <1>6, <1>7 DEF Within

(* What post_trim records for a file was sent to that file by any test     *)
(* case that the recorded one is a reduction of.                           *)
LEMMA RecordedKeys ==
  ASSUME NEW c \in InputList, NEW list, Within(c, list), NEW f
  PROVE  KeysFor(c, f) \subseteq VarsOf(list, f)
<1>1. PICK g \in [DOMAIN c -> DOMAIN list] :
        \A i \in DOMAIN c : c[i].file = list[g[i]].file /\ c[i].vars \subseteq list[g[i]].vars
  BY DEF Within
<1>2. \A i \in DOMAIN c : c[i] \in Input
  BY DEF InputList
<1>3. \A i \in DOMAIN c : c[i].vars \subseteq Vars
  BY <1>2 DEF Input
<1> QED
  BY <1>1, <1>3 DEF KeysFor, VarsOf

-----------------------------------------------------------------------------
(* The strengthening that makes the invariants inductive: the entry being  *)
(* trimmed is among the seeds seen.                                        *)
OriginalSeen == \A f \in Files : VarsOf(original, f) \subseteq seenKeys[f]

IInv ==
    /\ TypeOK
    /\ TrimOnlyShrinks
    /\ LearnedFromSeeds
    /\ StageInTrimmingMode
    /\ OriginalSeen

(* The mutator's initial globals satisfy the invariant. *)
LEMMA InitIInv == Init => IInv
<1> SUFFICES ASSUME Init PROVE IInv
  OBVIOUS
<1> USE DEF Init, TrimInit
<1>1. TypeOK
  BY NotAListType DEF TypeOK, TrimTypeOK, VarsOf
<1>2. TrimOnlyShrinks
  BY WithinReflexive DEF TrimOnlyShrinks
<1>3. LearnedFromSeeds /\ StageInTrimmingMode /\ OriginalSeen
  BY DEF LearnedFromSeeds, StageInTrimmingMode, OriginalSeen
<1> QED
  BY <1>1, <1>2, <1>3 DEF IInv

(* A queue entry is a test case. *)
LEMMA QueueEntryType == QueueEntries \subseteq InputList
<1> SUFFICES ASSUME NEW n \in 1 .. MAX_CONCAT_FILES, NEW list \in [1 .. n -> Input]
             PROVE  list \in InputList
  BY DEF QueueEntries
<1>1. n \in Nat /\ n > 0
  BY MaxConcatAssumption
<1>2. list \in Seq(Input)
  BY <1>1
<1>3. list # <<>>
  BY <1>1
<1> QED
  BY <1>2, <1>3 DEF InputList

(* init_trim: everything starts from the new entry. *)
LEMMA StartTrimIInv ==
  ASSUME IInv, NEW list \in QueueEntries, StartTrim(list)
  PROVE  IInv'
<1> USE DEF StartTrim, init_trim
<1>1. list \in InputList
  BY QueueEntryType
<1>2. NumKeys(list) * NUM_TRIMMING_OPERATIONS \in Nat
  BY <1>1, NumKeysType, TrimConstants
<1>3. num_trim_operations' \in Nat
  BY <1>2
<1>4. seenKeys' \in [Files -> SUBSET Vars]
  BY DEF IInv, TypeOK, VarsOf
<1>5. TypeOK'
  BY <1>1, <1>3, <1>4 DEF IInv, TypeOK, TrimTypeOK
<1>6. TrimOnlyShrinks'
  BY WithinReflexive DEF TrimOnlyShrinks
<1>7. LearnedFromSeeds'
  BY DEF IInv, TypeOK, TrimTypeOK, LearnedFromSeeds
<1>8. StageInTrimmingMode'
  <2>1. num_trim_operations' > 0 => ~first_trim
    BY <1>3
  <2> QED
    BY <1>3, <2>1 DEF StageInTrimmingMode
<1>9. OriginalSeen'
  BY DEF OriginalSeen, VarsOf
<1> QED
  BY <1>5, <1>6, <1>7, <1>8, <1>9 DEF IInv

(* trim: the candidate is a reduction of the last successful test case,    *)
(* or current_trimmed_input stays what it was.                             *)
LEMMA CallTrimIInv ==
  ASSUME IInv, CallTrim
  PROVE  IInv'
<1>1. /\ UNCHANGED <<last_successful_trimmed_input, trimming_operation_counter,
                     num_trim_operations, in_trimming_mode, first_trim, input_key_map,
                     entry, original, seenKeys>>
      /\ stage = "trim" /\ stage' = "run"
  BY DEF CallTrim, trim, TrimConcat, TrimNothing, TrimVariable, trimVars
<1>2. /\ buf' \in InputList
      /\ current_trimmed_input' \in InputList
      /\ Within(current_trimmed_input', last_successful_trimmed_input)
  <2>1. CASE TrimConcat
    <3>1. /\ last_successful_trimmed_input \in InputList
          /\ Len(last_successful_trimmed_input) - 1 \in Nat
          /\ Len(last_successful_trimmed_input) - 1 > 0
      BY <2>1 DEF TrimConcat, IInv, TypeOK, TrimTypeOK, InputList
    <3>2. buf' \in InputList
      BY <2>1, <3>1, ArrangementType DEF TrimConcat
    <3> QED
      BY <2>1, <3>2 DEF TrimConcat, trimVars, IInv, TypeOK, TrimTypeOK, TrimOnlyShrinks
  <2>2. CASE TrimNothing
    BY <2>2, NotAListType DEF TrimNothing, trimVars, IInv, TypeOK, TrimTypeOK, TrimOnlyShrinks
  <2>3. CASE TrimVariable
    <3>0. PICK i \in DOMAIN last_successful_trimmed_input :
            \E rest \in SUBSET last_successful_trimmed_input[i].vars :
              current_trimmed_input' =
                [last_successful_trimmed_input EXCEPT ![i].vars = rest]
      BY <2>3 DEF TrimVariable
    <3>1. PICK rest \in SUBSET last_successful_trimmed_input[i].vars :
            current_trimmed_input' =
              [last_successful_trimmed_input EXCEPT ![i].vars = rest]
      BY <3>0
    <3>2. last_successful_trimmed_input \in InputList
      BY DEF IInv, TypeOK, TrimTypeOK
    <3>3. /\ current_trimmed_input' \in InputList
          /\ Within(current_trimmed_input', last_successful_trimmed_input)
      BY <3>1, <3>2, RestrictRequest
    <3> QED
      BY <2>3, <3>3 DEF TrimVariable
  <2> QED
    BY <2>1, <2>2, <2>3 DEF CallTrim, trim
<1>3. TypeOK'
  BY <1>1, <1>2 DEF IInv, TypeOK, TrimTypeOK
<1>4. TrimOnlyShrinks'
  BY <1>1, <1>2 DEF IInv, TrimOnlyShrinks
<1>5. LearnedFromSeeds' /\ StageInTrimmingMode' /\ OriginalSeen'
  BY <1>1 DEF IInv, LearnedFromSeeds, StageInTrimmingMode, OriginalSeen
<1> QED
  BY <1>3, <1>4, <1>5 DEF IInv

(* post_trim: a success adopts current_trimmed_input, whichever call of    *)
(* trim left it; the last attempt records its variables.                   *)
LEMMA VerdictIInv ==
  ASSUME IInv, NEW success \in BOOLEAN, Verdict(success)
  PROVE  IInv'
<1> DEFINE done == trimming_operation_counter + 1 >= num_trim_operations
<1>1. /\ last_successful_trimmed_input' =
           IF success THEN current_trimmed_input ELSE last_successful_trimmed_input
      /\ trimming_operation_counter' = trimming_operation_counter + 1
      /\ in_trimming_mode' = (in_trimming_mode /\ ~done)
      /\ input_key_map' =
           IF done
           THEN [f \in Files |-> input_key_map[f] \cup KeysFor(current_trimmed_input, f)]
           ELSE input_key_map
      /\ stage' = IF trimming_operation_counter' < num_trim_operations THEN "trim" ELSE "idle"
      /\ entry' = IF success THEN buf ELSE entry
      /\ UNCHANGED <<current_trimmed_input, num_trim_operations, first_trim,
                     buf, original, seenKeys>>
      /\ stage = "run"
  BY DEF Verdict, post_trim
<1>2. /\ current_trimmed_input \in InputList
      /\ Within(current_trimmed_input, original)
  BY WithinTransitive DEF IInv, TypeOK, TrimTypeOK, TrimOnlyShrinks
<1>3. \A f \in Files : KeysFor(current_trimmed_input, f) \subseteq VarsOf(original, f)
  BY <1>2, RecordedKeys
<1>4. /\ input_key_map' \in [Files -> SUBSET Vars]
      /\ \A f \in Files : input_key_map'[f] \subseteq seenKeys[f]
  <2>1. \A f \in Files : /\ input_key_map[f] \cup KeysFor(current_trimmed_input, f)
                                \subseteq seenKeys[f]
                         /\ seenKeys[f] \subseteq Vars
    BY <1>3 DEF IInv, TypeOK, LearnedFromSeeds, OriginalSeen
  <2>2. CASE done
    BY <1>1, <2>1, <2>2
  <2>3. CASE ~done
    BY <1>1, <2>3 DEF IInv, TypeOK, TrimTypeOK, LearnedFromSeeds
  <2> QED
    BY <2>2, <2>3
<1>5. TypeOK'
  <2>1. trimming_operation_counter' \in Nat /\ num_trim_operations' \in Nat
    BY <1>1 DEF IInv, TypeOK, TrimTypeOK
  <2>2. in_trimming_mode' \in BOOLEAN /\ first_trim' \in BOOLEAN
    BY <1>1 DEF IInv, TypeOK, TrimTypeOK
  <2>3. stage' \in {"idle", "trim", "run"}
    BY <1>1
  <2>4. /\ last_successful_trimmed_input' \in InputList
        /\ current_trimmed_input' \in InputList
        /\ buf' \in InputList
        /\ entry' \in InputList
        /\ original' \in InputList
        /\ seenKeys' \in [Files -> SUBSET Vars]
    BY <1>1 DEF IInv, TypeOK, TrimTypeOK
  <2> QED
    BY <1>4, <2>1, <2>2, <2>3, <2>4 DEF TypeOK, TrimTypeOK
<1>6. TrimOnlyShrinks'
  BY <1>1, <1>2, WithinReflexive DEF IInv, TrimOnlyShrinks
<1>7. LearnedFromSeeds'
  BY <1>1, <1>4 DEF LearnedFromSeeds
<1>8. StageInTrimmingMode'
  <2>1. in_trimming_mode
    BY <1>1 DEF IInv, StageInTrimmingMode
  <2>2. trimming_operation_counter' \in Nat /\ num_trim_operations \in Nat
    BY <1>1 DEF IInv, TypeOK, TrimTypeOK
  <2>3. stage' # "idle" => trimming_operation_counter' < num_trim_operations
    BY <1>1
  <2>4. stage' # "idle" => ~done
    BY <1>1, <2>2, <2>3
  <2>5. stage' # "idle" => in_trimming_mode'
    BY <1>1, <2>1, <2>4
  <2> QED
    BY <1>1, <2>3, <2>5 DEF StageInTrimmingMode
<1>9. OriginalSeen'
  BY <1>1 DEF IInv, OriginalSeen
<1> QED
  BY <1>5, <1>6, <1>7, <1>8, <1>9 DEF IInv

(* Every step of the trim stage preserves the invariant. *)
LEMMA NextIInv == IInv /\ [Next]_vars => IInv'
<1> SUFFICES ASSUME IInv, [Next]_vars PROVE IInv'
  OBVIOUS
<1>1. CASE \E list \in QueueEntries : StartTrim(list)
  BY <1>1, StartTrimIInv
<1>2. CASE CallTrim
  BY <1>2, CallTrimIInv
<1>3. CASE \E success \in BOOLEAN : Verdict(success)
  BY <1>3, VerdictIInv
<1>4. CASE UNCHANGED vars
  BY <1>4 DEF vars, trimVars, aflVars, IInv, TypeOK, TrimTypeOK, TrimOnlyShrinks,
              LearnedFromSeeds, StageInTrimmingMode, OriginalSeen
<1> QED
  BY <1>1, <1>2, <1>3, <1>4 DEF Next

(* The inductive invariant holds in every reachable state of the stage. *)
THEOREM IInvInvariant == Spec => []IInv
BY InitIInv, NextIInv, PTL DEF Spec

(* The mutator's trimming globals keep their types: above all, no test     *)
(* case that trim hands to AFL++ is ever empty.                            *)
THEOREM TypeCorrect == Spec => []TypeOK
<1>1. IInv => TypeOK
  BY DEF IInv
<1> QED
  BY <1>1, IInvInvariant, PTL

(* Whatever the verdicts are, and although post_trim may adopt a candidate *)
(* that an earlier trim left, trimming only ever shrinks the entry.        *)
THEOREM TrimOnlyShrinksInvariant == Spec => []TrimOnlyShrinks
<1>1. IInv => TrimOnlyShrinks
  BY DEF IInv
<1> QED
  BY <1>1, IInvInvariant, PTL

(* post_trim learns only variables that some trimmed seed sent to the file. *)
THEOREM LearnedFromSeedsInvariant == Spec => []LearnedFromSeeds
<1>1. IInv => LearnedFromSeeds
  BY DEF IInv
<1> QED
  BY <1>1, IInvInvariant, PTL

(* The mutator and AFL++ agree on when a trim stage ends. *)
THEOREM StageInTrimmingModeInvariant == Spec => []StageInTrimmingMode
<1>1. IInv => StageInTrimmingMode
  BY DEF IInv
<1> QED
  BY <1>1, IInvInvariant, PTL

(* Every call of the stage is the last one or leaves fewer to come, and    *)
(* some: with AFL++ carrying on the stage this is why every stage ends.    *)
THEOREM StageShortensAlways == Spec => StageShortens
<1>1. ASSUME IInv, IInv', [Next]_vars, stage # "idle", stage' # "idle", ~UNCHANGED vars
      PROVE  0 < Remaining' /\ Remaining' < Remaining
  <2> DEFINE c == trimming_operation_counter
             n == num_trim_operations
  <2>1. c \in Nat /\ n \in Nat /\ c < n /\ c' \in Nat /\ n' \in Nat /\ c' < n'
    BY <1>1 DEF IInv, TypeOK, TrimTypeOK, StageInTrimmingMode
  <2>2. CASE CallTrim
    <3>1. c' = c /\ n' = n /\ stage = "trim" /\ stage' = "run"
      BY <2>2 DEF CallTrim, trim, TrimConcat, TrimNothing, TrimVariable, trimVars
    <3> QED
      BY <2>1, <3>1 DEF Remaining
  <2>3. ASSUME NEW success \in BOOLEAN, Verdict(success)
        PROVE  0 < Remaining' /\ Remaining' < Remaining
    <3>1. c' = c + 1 /\ n' = n /\ stage = "run" /\ stage' = "trim"
      BY <1>1, <2>3 DEF Verdict, post_trim
    <3> QED
      BY <2>1, <3>1 DEF Remaining
  <2> QED
    BY <1>1, <2>2, <2>3 DEF Next, StartTrim
<1>2. IInv /\ IInv' /\ [Next]_vars =>
        [stage # "idle" => stage' = "idle" \/ (0 < Remaining' /\ Remaining' < Remaining)]_vars
  BY <1>1
<1> QED
  BY <1>2, IInvInvariant, PTL DEF Spec, StageShortens

=============================================================================
