--------------------------- MODULE Mutator_proofs ---------------------------
(***************************************************************************)
(* Proofs about Mutator, for every set of files, variables, seeds and      *)
(* forms, and every setting of the limits.                                 *)
(***************************************************************************)
EXTENDS Mutator, FiniteSetTheorems, TLAPS

(* The inductive invariant, part by part. *)

(* While an entry is being visited it is there. *)
EntryIsThere == stage # "select" => current_seed \in Seeds /\ queue[current_seed] # NONE

(* The test cases that the trimming handlers keep are within the limit. *)
TrimListsBounded ==
    /\ last_successful_trimmed_input \in TestCases
    /\ current_trimmed_input \in TestCases

(* What every variable holds. *)
DataInv ==
    /\ TypeOK
    /\ ListsBounded
    /\ TrimListsBounded
    /\ EntryIsThere

TrimStages == {"trim", "trimrun", "trimexecute", "trimjudge"}

(* Trimming mode is on throughout the trim stage, and after it only where  *)
(* no operation was announced.                                             *)
TrimmingMode ==
    IF stage \in TrimStages
    THEN in_trimming_mode /\ trimming_operation_counter < num_trim_operations
    ELSE in_trimming_mode => num_trim_operations = 0

(* A dump that is due after a number of calls is requested by one run of   *)
(* the visit at most, and a flag that is set at that call says that it     *)
(* was.                                                                    *)
RequestedOnce(runs, after, done) ==
    /\ runs <= 1
    /\ runs = 1 => current_executions >= after /\ (current_executions = after => done)
    /\ current_executions = after /\ done => runs = 1

DumpInv ==
    /\ TrimmingMode
    /\ RequestedOnce(rqRuns, APPLY_REDQUEEN_AFTER, redqueen_done)
    /\ RequestedOnce(htmlRuns, APPLY_HTML_DUMP_AFTER, html_dump_done)
    /\ RedqueenRequested

(* What is left to be tried on its own is a proper prefix of the planned   *)
(* concatenation, over any number of visits and of other work in between.  *)
ConcatPlan ==
    IF fuzz_todo_concat = NONE
    THEN fuzz_todo_single = <<>>
    ELSE /\ Len(fuzz_todo_single) < Len(fuzz_todo_concat)
         /\ \A i \in DOMAIN fuzz_todo_single : fuzz_todo_single[i] = fuzz_todo_concat[i]

TodoInv == IsFiniteSet(fuzz_todo_global) /\ TodoBounded

IInv ==
    /\ DataInv
    /\ DumpInv
    /\ ConcatPlan
    /\ TodoInv

-----------------------------------------------------------------------------
(* Test cases: what the operators on lists of requests yield.              *)

(* convert_input's answer to a pickle that is no list is a test case. *)
LEMMA NotAListType == NotAList \in TestCases
  BY TrimConstants, MutatorConstants DEF NotAList, TestCases, InputList

(* So is what a list is encoded to. *)
LEMMA EncodedType ==
    ASSUME NEW list \in TestCases, NEW b \in Encoded(list)
    PROVE  b \in TestCases
  BY NotAListType DEF Encoded

(* One request is a test case, and so are two. *)
LEMMA ShortLists ==
    ASSUME NEW i \in Input, NEW j \in Input
    PROVE  <<i>> \in TestCases /\ <<i, j>> \in TestCases
  BY MutatorConstants DEF TestCases, InputList

(* The number of attempts that init_trim announces is a number. *)
LEMMA NumKeysType ==
    ASSUME NEW list \in InputList
    PROVE  NumKeys(list) \in Nat
<1>1. Len(list) \in Int
  BY DEF InputList
<1>2. IsFiniteSet((1 .. Len(list)) \X Vars)
  <2>1. IsFiniteSet(1 .. Len(list))
    BY <1>1, FS_Interval
  <2> QED
    BY <2>1, FS_Product, TrimConstants
<1>3. {p \in (1 .. Len(list)) \X Vars : p[2] \in list[p[1]].vars}
        \subseteq (1 .. Len(list)) \X Vars
  OBVIOUS
<1> QED
  BY <1>2, <1>3, FS_Subset, FS_CardinalityType DEF NumKeys

(* Shuffling and cutting a test case. *)
LEMMA ArrangementType ==
    ASSUME NEW list \in InputList, NEW n \in Nat, n > 0, NEW c \in Arrangements(list, n)
    PROVE  c \in InputList /\ Len(c) = n
<1>1. PICK f \in Injection(1 .. n, 1 .. Len(list)) : c = [i \in 1 .. n |-> list[f[i]]]
  BY DEF Arrangements
<1>2. f \in [1 .. n -> 1 .. Len(list)]
  BY DEF Injection
<1>3. c \in [1 .. n -> Input]
  BY <1>1, <1>2 DEF InputList
<1>4. c \in Seq(Input) /\ Len(c) = n
  BY <1>3
<1>5. c # <<>>
  BY <1>4
<1> QED
  BY <1>4, <1>5 DEF InputList

(* Removing variables from one request. *)
LEMMA RestrictRequest ==
    ASSUME NEW list \in TestCases, NEW i \in DOMAIN list, NEW rest \in SUBSET list[i].vars
    PROVE  [list EXCEPT ![i].vars = rest] \in TestCases
<1> DEFINE c == [list EXCEPT ![i].vars = rest]
<1>1. list \in Seq(Input) /\ list # <<>> /\ list[i] \in Input /\ Len(list) <= MAX_CONCAT_FILES
  BY DEF TestCases, InputList
<1>2. [list[i] EXCEPT !.vars = rest] \in Input
  BY <1>1 DEF Input
<1>3. c \in Seq(Input) /\ Len(c) = Len(list) /\ c # <<>>
  BY <1>1, <1>2
<1> QED
  BY <1>1, <1>3 DEF TestCases, InputList

(* Mutation changes no number of requests. *)
LEMMA MutatedType ==
    ASSUME NEW list \in InputList, NEW c \in MutatedLists(list)
    PROVE  c \in InputList /\ Len(c) = Len(list)
<1>1. list \in Seq(Input) /\ Len(list) \in Nat /\ Len(list) > 0 /\ DOMAIN list = 1 .. Len(list)
  BY DEF InputList
<1>2. PICK v \in [DOMAIN list -> SUBSET Vars] :
        c = [i \in DOMAIN list |-> [list[i] EXCEPT !.vars = v[i]]]
  BY DEF MutatedLists
<1>3. \A i \in DOMAIN list : [list[i] EXCEPT !.vars = v[i]] \in Input
  <2> TAKE i \in DOMAIN list
  <2>1. list[i] \in Input /\ v[i] \in SUBSET Vars
    BY <1>1, <1>2
  <2> QED
    BY <2>1 DEF Input
<1>4. c \in [1 .. Len(list) -> Input]
  BY <1>1, <1>2, <1>3
<1>5. c \in Seq(Input) /\ Len(c) = Len(list)
  BY <1>1, <1>4
<1> QED
  BY <1>1, <1>5 DEF InputList

(* A list that grew too long is cut, and keeps more than one request. *)
LEMMA ShortenedType ==
    ASSUME NEW list \in InputList, Len(list) > 1, NEW short \in Shortened(list)
    PROVE  short \in TestCases /\ Len(short) > 1
<1>1. CASE Len(list) > MAX_CONCAT_FILES
  <2>1. short \in Arrangements(list, MAX_CONCAT_FILES)
    BY <1>1 DEF Shortened
  <2>2. short \in InputList /\ Len(short) = MAX_CONCAT_FILES
    BY <2>1, ArrangementType, MutatorConstants
  <2> QED
    BY <2>2, MutatorConstants DEF TestCases
<1>2. CASE ~(Len(list) > MAX_CONCAT_FILES)
  <2>1. short = list
    BY <1>2 DEF Shortened
  <2>2. Len(list) <= MAX_CONCAT_FILES
    BY <1>2, MutatorConstants DEF InputList
  <2> QED
    BY <2>1, <2>2 DEF TestCases
<1> QED
  BY <1>1, <1>2

(* All but the last of several requests. *)
LEMMA ProperPrefix ==
    ASSUME NEW list \in Seq(Input), list # <<>>
    PROVE  /\ SubSeq(list, 1, Len(list) - 1) \in Seq(Input)
           /\ Len(SubSeq(list, 1, Len(list) - 1)) = Len(list) - 1
           /\ \A i \in DOMAIN SubSeq(list, 1, Len(list) - 1) :
                i \in DOMAIN list /\ SubSeq(list, 1, Len(list) - 1)[i] = list[i]
<1> DEFINE n == Len(list) - 1
<1>1. n \in Nat /\ Len(list) = n + 1
  OBVIOUS
<1> HIDE DEF n
<1>2. SubSeq(list, 1, n) \in Seq(Input) /\ Len(SubSeq(list, 1, n)) = n
  BY <1>1
<1>3. \A i \in 1 .. n : i \in DOMAIN list /\ SubSeq(list, 1, n)[i] = list[i]
  BY <1>1
<1>4. DOMAIN SubSeq(list, 1, n) = 1 .. n
  BY <1>1, <1>2
<1> QED
  BY <1>2, <1>3, <1>4 DEF n

(* The entry, alone or with another one. *)
LEMMA ConcatenatedType ==
    ASSUME NEW list \in InputList, \A s \in Seeds : queue[s] \in TestCases \cup {NONE},
           NEW base \in Concatenated(list)
    PROVE  base \in InputList
<1>1. CASE base = list
  BY <1>1
<1>2. CASE base # list
  <2>1. PICK s \in queue_files :
          base \in Arrangements(list \o queue[s], Len(list) + Len(queue[s]))
    BY <1>2 DEF Concatenated
  <2>2. queue[s] \in InputList
    BY <2>1 DEF queue_files, TestCases
  <2>3. list \in Seq(Input) /\ queue[s] \in Seq(Input) /\ list # <<>>
    BY <2>2 DEF InputList
  <2>4. /\ list \o queue[s] \in Seq(Input)
        /\ Len(list) + Len(queue[s]) \in Nat /\ Len(list) + Len(queue[s]) > 0
    BY <2>3
  <2>5. list \o queue[s] # <<>>
    BY <2>3
  <2> QED
    BY <2>1, <2>4, <2>5, ArrangementType DEF InputList
<1> QED
  BY <1>1, <1>2

(* A suggested input in the shape it is put on the list. *)
LEMMA ShapedType ==
    ASSUME NEW i \in Input, NEW current \in Input,
           NEW shape \in {"single", "concat_before", "concat_after"}
    PROVE  Shaped(shape, i, current) \in TestCases
  BY ShortLists DEF Shaped

(* There are finitely many inputs. *)
LEMMA InputIsFinite == IsFiniteSet(Input)
<1> DEFINE P == Files \X SUBSET Vars
           f == [p \in P |-> [file |-> p[1], vars |-> p[2]]]
<1>1. IsFiniteSet(P)
  <2>1. IsFiniteSet(SUBSET Vars)
    BY FS_SUBSET, TrimConstants
  <2> QED
    BY <2>1, FS_Product, MutatorConstants
<1>2. f \in [P -> Input]
  BY DEF Input
<1>3. ASSUME NEW x \in Input PROVE \E p \in P : f[p] = x
  <2>1. x = [file |-> x.file, vars |-> x.vars] /\ x.file \in Files /\ x.vars \in SUBSET Vars
    BY <1>3 DEF Input
  <2>2. <<x.file, x.vars>> \in P
    BY <2>1
  <2>3. f[<<x.file, x.vars>>] = [file |-> x.file, vars |-> x.vars]
    BY <2>2
  <2> QED
    BY <2>1, <2>2, <2>3
<1> HIDE DEF P, f
<1>4. f \in Surjection(P, Input)
  BY <1>2, <1>3 DEF Surjection
<1> QED
  BY <1>1, <1>4, FS_Surjection

(* random.shuffle and the cut keep a part of the list, within the limit. *)
LEMMA CutType ==
    ASSUME NEW todo, IsFiniteSet(todo), NEW short \in Cut(todo)
    PROVE  short \subseteq todo /\ IsFiniteSet(short) /\ Cardinality(short) <= MAX_GLOBAL_TODO
<1>1. short \subseteq todo /\ Cardinality(short) <= MAX_GLOBAL_TODO
  <2>1. CASE Cardinality(todo) <= MAX_GLOBAL_TODO
    BY <2>1 DEF Cut
  <2>2. CASE ~(Cardinality(todo) <= MAX_GLOBAL_TODO)
    <3>1. short \in SUBSET todo /\ Cardinality(short) = MAX_GLOBAL_TODO
      BY <2>2 DEF Cut, kSubset
    <3> QED
      BY <3>1, MutatorConstants
  <2> QED
    BY <2>1, <2>2
<1> QED
  BY <1>1, FS_Subset

(* What fuzz() may find in an html dump. *)
LEMMA HtmlInputsType ==
    ASSUME global_todo_already_added \subseteq Input, fuzz_todo_global \subseteq TestCases,
           IsFiniteSet(fuzz_todo_global),
           NEW current \in Input, NEW form \in SUBSET Files,
           NEW html \in html_inputs_to_seed(current, form)
    PROVE  /\ html.added \subseteq Input
           /\ html.strings = redqueen_map \cup {html_dump}
           /\ html.todo \subseteq TestCases
           /\ IsFiniteSet(html.todo) /\ Cardinality(html.todo) <= MAX_GLOBAL_TODO
<1> DEFINE candidates == [file : form \cup {current.file}, vars : SUBSET Vars]
                           \ global_todo_already_added
           shapes == UNION {[new -> {"single", "concat_before", "concat_after"}]
                            : new \in SUBSET candidates}
           Suggested(shape) == {Shaped(shape[i], i, current) : i \in DOMAIN shape}
<1>1. candidates \subseteq Input
  BY DEF Input
<1> HIDE DEF candidates
<1>2. PICK shape \in shapes :
        html \in {[added |-> global_todo_already_added \cup DOMAIN shape, todo |-> todo,
                   strings |-> redqueen_map \cup {html_dump}]
                  : todo \in Cut(fuzz_todo_global \cup Suggested(shape))}
  BY DEF html_inputs_to_seed, candidates
<1>3. PICK todo \in Cut(fuzz_todo_global \cup Suggested(shape)) :
        html = [added |-> global_todo_already_added \cup DOMAIN shape, todo |-> todo,
                strings |-> redqueen_map \cup {html_dump}]
  BY <1>2
<1>4. PICK new \in SUBSET candidates :
        shape \in [new -> {"single", "concat_before", "concat_after"}]
  BY <1>2
<1>5. DOMAIN shape = new /\ new \subseteq Input
  BY <1>1, <1>4
<1>6. Suggested(shape) \subseteq TestCases
  BY <1>4, <1>5, ShapedType
<1>7. IsFiniteSet(Suggested(shape))
  <2> DEFINE f == [i \in new |-> Shaped(shape[i], i, current)]
  <2>1. IsFiniteSet(new)
    BY <1>5, InputIsFinite, FS_Subset
  <2>2. f \in Surjection(new, Suggested(shape))
    BY <1>5 DEF Surjection
  <2> QED
    BY <2>1, <2>2, FS_Surjection
<1> HIDE DEF Suggested, shapes
<1>8. IsFiniteSet(fuzz_todo_global \cup Suggested(shape))
  BY <1>7, FS_Union
<1>9. /\ todo \subseteq fuzz_todo_global \cup Suggested(shape)
      /\ IsFiniteSet(todo) /\ Cardinality(todo) <= MAX_GLOBAL_TODO
  BY <1>8, CutType
<1> QED
  BY <1>3, <1>5, <1>6, <1>9

(* Whatever fuzz() finds when it looks for an html dump. *)
LEMMA AfterHtmlDumpType ==
    ASSUME DataInv, TodoInv, stage # "select", NEW html \in AfterHtmlDump
    PROVE  /\ html.added \subseteq Input
           /\ html.strings \subseteq Seeds
           /\ html.todo \subseteq TestCases
           /\ IsFiniteSet(html.todo) /\ Cardinality(html.todo) <= MAX_GLOBAL_TODO
<1> DEFINE same == [added |-> global_todo_already_added, todo |-> fuzz_todo_global,
                    strings |-> redqueen_map]
<1>1. CASE html = same
  BY <1>1 DEF DataInv, TypeOK, ListsBounded, TodoInv, TodoBounded
<1>2. CASE html # same
  <2>1. html_dump # NoSeed
        /\ \E form \in HtmlForms : html \in html_inputs_to_seed(queue[current_seed][1], form)
    BY <1>2 DEF AfterHtmlDump
  <2>2. PICK form \in HtmlForms : html \in html_inputs_to_seed(queue[current_seed][1], form)
    BY <2>1
  <2>3. queue[current_seed][1] \in Input
    <3>1. queue[current_seed] \in Seq(Input) /\ queue[current_seed] # <<>>
      BY DEF DataInv, EntryIsThere, TypeOK, NONE
    <3> QED
      BY <3>1
  <2>4. form \in SUBSET Files
    BY MutatorConstants
  <2>5. redqueen_map \cup {html_dump} \subseteq Seeds
    BY <2>1 DEF DataInv, TypeOK
  <2> QED
    BY <2>2, <2>3, <2>4, <2>5, HtmlInputsType DEF DataInv, TypeOK, ListsBounded, TodoInv
<1> QED
  BY <1>1, <1>2

-----------------------------------------------------------------------------
(* The steps, one lemma per operation or group of operations.              *)

(* The mutator's globals before the first call. *)
LEMMA InitIInv == Init => IInv
<1> SUFFICES ASSUME Init PROVE IInv
  OBVIOUS
<1>1. NotAList \in TestCases /\ NotAList \in InputList /\ NotAList \in Seq(Input)
  BY NotAListType DEF TestCases, InputList
<1>2. queue \in [Seeds -> Seq(Input)] /\ \A s \in Seeds : queue[s] \in TestCases \cup {NONE}
  BY <1>1 DEF Init, NONE
<1>3. TypeOK
  <2>1. TrimTypeOK
    BY <1>1 DEF Init, TrimInit, TrimTypeOK
  <2>2. 0 \in 0 .. MaxExecutions
    BY MutatorConstants
  <2>3. redqueen_done \in BOOLEAN /\ html_dump_done \in BOOLEAN
    BY DEF Init
  <2>4. /\ fuzz_todo_single \in Seq(Input) /\ fuzz_todo_concat \in Seq(Input)
        /\ rqRuns \in Nat /\ htmlRuns \in Nat
    BY DEF Init, NONE
  <2>5. current_executions \in 0 .. MaxExecutions
    BY <2>2 DEF Init
  <2> QED
    BY <1>2, <2>1, <2>3, <2>4, <2>5 DEF Init, TypeOK
<1>4. ListsBounded
  BY <1>1, <1>2 DEF Init, ListsBounded
<1>5. TrimListsBounded /\ EntryIsThere
  BY <1>1 DEF Init, TrimInit, TrimListsBounded, EntryIsThere
<1>6. DumpInv
  <2>1. TrimmingMode /\ RedqueenRequested
    BY DEF Init, TrimInit, TrimmingMode, TrimStages, RedqueenRequested
  <2> QED
    BY <2>1, MutatorConstants DEF Init, DumpInv, RequestedOnce, APPLY_HTML_DUMP_AFTER
<1>7. ConcatPlan
  BY DEF Init, ConcatPlan
<1>8. TodoInv
  <2>1. IsFiniteSet({}) /\ Cardinality({}) = 0
    BY FS_EmptySet
  <2> QED
    BY <2>1, MutatorConstants DEF Init, TodoInv, TodoBounded
<1> QED
  BY <1>3, <1>4, <1>5, <1>6, <1>7, <1>8 DEF IInv, DataInv

(* Every call of fuzz() keeps the types when what it writes is well formed. *)
LEMMA FuzzData ==
    ASSUME DataInv, CallFuzz,
           UNCHANGED <<trimVars, current_seed, queue, trim_done, config, histVars>>,
           redqueen_done' \in BOOLEAN, html_dump_done' \in BOOLEAN,
           buf' \in TestCases,
           initialized_files' \subseteq Files,
           fuzz_todo_single' \in Seq(Input),
           fuzz_todo_concat' \in TestCases \cup {NONE},
           fuzz_todo_global' \subseteq TestCases,
           global_todo_already_added' \subseteq Input,
           redqueen_map' \subseteq Seeds,
           strings_dump' \in Seeds \cup {NoSeed}, html_dump' \in Seeds \cup {NoSeed}
    PROVE  DataInv'
<1>1. TestCases \subseteq InputList /\ InputList \subseteq Seq(Input) /\ NONE \in Seq(Input)
  BY DEF TestCases, InputList, NONE
<1>2. TrimTypeOK'
  BY <1>1 DEF DataInv, TypeOK, TrimTypeOK, trimVars
<1>3. current_executions' \in 0 .. MaxExecutions
  BY MutatorConstants DEF DataInv, TypeOK, CallFuzz
<1>4. stage = "visit" /\ stage' = "run"
  BY DEF CallFuzz
<1>5. fuzz_todo_concat' \in Seq(Input) /\ (fuzz_todo_global \subseteq InputList)'
  BY <1>1
<1>6. TypeOK'
  BY <1>2, <1>3, <1>4, <1>5 DEF DataInv, TypeOK, histVars
<1>7. ListsBounded'
  BY DEF DataInv, ListsBounded
<1>8. TrimListsBounded' /\ EntryIsThere'
  BY <1>4 DEF DataInv, TrimListsBounded, EntryIsThere, trimVars
<1> QED
  BY <1>6, <1>7, <1>8 DEF DataInv

(* A call of fuzz() that reaches the number of a dump leaves its flag      *)
(* clear, and no run of this visit has asked for that dump yet.            *)
LEMMA FuzzDump ==
    ASSUME DataInv, DumpInv, CallFuzz, UNCHANGED <<trimVars, histVars>>,
           current_executions' = APPLY_REDQUEEN_AFTER => ~redqueen_done',
           current_executions' = APPLY_HTML_DUMP_AFTER => ~html_dump_done'
    PROVE  DumpInv'
<1>1. /\ stage = "visit" /\ stage' = "run"
      /\ current_executions' = current_executions + 1
      /\ current_executions \in Int
  BY MutatorConstants DEF CallFuzz, DataInv, TypeOK
<1>2. TrimmingMode'
  BY <1>1 DEF DumpInv, TrimmingMode, TrimStages, trimVars
<1>3. RequestedOnce(rqRuns, APPLY_REDQUEEN_AFTER, redqueen_done)'
  BY <1>1, MutatorConstants DEF DumpInv, RequestedOnce, histVars
<1>4. RequestedOnce(htmlRuns, APPLY_HTML_DUMP_AFTER, html_dump_done)'
  BY <1>1, MutatorConstants DEF DumpInv, RequestedOnce, histVars, APPLY_HTML_DUMP_AFTER
<1>5. RedqueenRequested'
  BY <1>1 DEF RedqueenRequested
<1> QED
  BY <1>2, <1>3, <1>4, <1>5 DEF DumpInv

(* The calls that return the entry unchanged and announce a dump. *)
LEMMA FuzzUnchangedStep == ASSUME IInv, FuzzUnchanged PROVE IInv'
<1>1. /\ CallFuzz
      /\ UNCHANGED <<trimVars, current_seed, initialized_files, fuzz_todo_single,
                     fuzz_todo_concat, fuzz_todo_global, global_todo_already_added,
                     redqueen_map, dumpVars, queue, trim_done, config, histVars>>
      /\ buf' \in Encoded(queue[current_seed])
  BY DEF FuzzUnchanged
<1>2. /\ redqueen_done' \in BOOLEAN
      /\ html_dump_done' \in BOOLEAN
  BY DEF FuzzUnchanged
<1>3. /\ current_executions' = APPLY_REDQUEEN_AFTER => ~redqueen_done'
      /\ current_executions' = APPLY_HTML_DUMP_AFTER => ~html_dump_done'
  BY DEF FuzzUnchanged
<1>4. queue[current_seed] \in TestCases
  BY <1>1 DEF IInv, DataInv, EntryIsThere, ListsBounded, CallFuzz
<1>5. buf' \in TestCases
  BY <1>1, <1>4, EncodedType
<1>6. DataInv'
  BY <1>1, <1>2, <1>5, FuzzData DEF IInv, DataInv, TypeOK, ListsBounded, dumpVars
<1>7. DumpInv'
  BY <1>1, <1>3, FuzzDump DEF IInv
<1>8. ConcatPlan' /\ TodoInv'
  BY <1>1 DEF IInv, ConcatPlan, TodoInv, TodoBounded
<1> QED
  BY <1>6, <1>7, <1>8 DEF IInv

(* The call that picks up a strings dump. *)
LEMMA FuzzRedqueenStep == ASSUME IInv, FuzzRedqueen PROVE IInv'
<1>1. /\ CallFuzz
      /\ UNCHANGED <<trimVars, current_seed, redqueen_done, html_dump_done,
                     queue, trim_done, config, histVars>>
      /\ UNCHANGED <<initialized_files, fuzz_todo_single, fuzz_todo_concat,
                     fuzz_todo_global, global_todo_already_added, html_dump>>
      /\ buf' \in Encoded(queue[current_seed])
      /\ strings_dump # NoSeed
      /\ redqueen_map' = {strings_dump}
      /\ strings_dump' = Moved(strings_dump)
      /\ current_executions' # APPLY_REDQUEEN_AFTER
      /\ current_executions' # APPLY_HTML_DUMP_AFTER
  BY DEF FuzzRedqueen, FuzzOther
<1>2. /\ redqueen_done' \in BOOLEAN
      /\ html_dump_done' \in BOOLEAN
  BY <1>1 DEF IInv, DataInv, TypeOK
<1>3. queue[current_seed] \in TestCases
  BY <1>1 DEF IInv, DataInv, EntryIsThere, ListsBounded, CallFuzz
<1>4. buf' \in TestCases
  BY <1>1, <1>3, EncodedType
<1>5. redqueen_map' \subseteq Seeds /\ strings_dump' \in Seeds \cup {NoSeed}
  BY <1>1 DEF IInv, DataInv, TypeOK, Moved
<1>6. DataInv'
  BY <1>1, <1>2, <1>4, <1>5, FuzzData DEF IInv, DataInv, TypeOK, ListsBounded
<1>7. DumpInv'
  BY <1>1, FuzzDump DEF IInv
<1>8. ConcatPlan' /\ TodoInv'
  BY <1>1 DEF IInv, ConcatPlan, TodoInv, TodoBounded
<1> QED
  BY <1>6, <1>7, <1>8 DEF IInv

(* What all the calls that look for an html dump have in common. *)
LEMMA FuzzFurtherStep ==
    ASSUME IInv, NEW html \in AfterHtmlDump, FuzzFurther(html),
           buf' \in TestCases,
           initialized_files' \subseteq Files,
           fuzz_todo_single' \in Seq(Input),
           fuzz_todo_concat' \in TestCases \cup {NONE},
           fuzz_todo_global' \subseteq html.todo
    PROVE  DataInv' /\ DumpInv' /\ TodoInv'
<1>1. /\ CallFuzz
      /\ UNCHANGED <<trimVars, current_seed, redqueen_done, html_dump_done,
                     queue, trim_done, config, histVars>>
      /\ global_todo_already_added' = html.added
      /\ redqueen_map' = html.strings
      /\ html_dump' = Moved(html_dump)
      /\ strings_dump' = strings_dump
      /\ current_executions' # APPLY_REDQUEEN_AFTER
      /\ current_executions' # APPLY_HTML_DUMP_AFTER
      /\ stage = "visit"
  BY DEF FuzzFurther, FuzzOther, CallFuzz
<1>2. /\ redqueen_done' \in BOOLEAN
      /\ html_dump_done' \in BOOLEAN
  BY <1>1 DEF IInv, DataInv, TypeOK
<1>3. /\ html.added \subseteq Input
      /\ html.strings \subseteq Seeds
      /\ html.todo \subseteq TestCases
      /\ IsFiniteSet(html.todo)
      /\ Cardinality(html.todo) <= MAX_GLOBAL_TODO
  BY <1>1, AfterHtmlDumpType DEF IInv
<1>4. html_dump' \in Seeds \cup {NoSeed} /\ strings_dump' \in Seeds \cup {NoSeed}
  BY <1>1 DEF IInv, DataInv, TypeOK, Moved
<1>5. fuzz_todo_global' \subseteq TestCases
  BY <1>3
<1>6. DataInv'
  BY <1>1, <1>2, <1>3, <1>4, <1>5, FuzzData DEF IInv
<1>7. DumpInv'
  BY <1>1, FuzzDump DEF IInv
<1>8. TodoInv'
  <2>1. /\ IsFiniteSet(fuzz_todo_global')
        /\ Cardinality(fuzz_todo_global') <= Cardinality(html.todo)
        /\ Cardinality(fuzz_todo_global') \in Nat /\ Cardinality(html.todo) \in Nat
    BY <1>3, FS_Subset, FS_CardinalityType
  <2> QED
    BY <1>3, <2>1, MutatorConstants DEF TodoInv, TodoBounded
<1> QED
  BY <1>6, <1>7, <1>8

(* A file that was not requested yet is requested with the default input. *)
LEMMA FuzzInitializeStep ==
    ASSUME IInv, NEW html \in AfterHtmlDump, FuzzInitialize(html)
    PROVE  IInv'
<1>1. PICK f \in Files \ initialized_files :
        /\ initialized_files' = initialized_files \cup {f}
        /\ buf' \in Encoded(<<[default_input EXCEPT !.file = f]>>)
  BY DEF FuzzInitialize
<1>2. [default_input EXCEPT !.file = f] \in Input
  BY <1>1, TrimConstants DEF Input
<1>3. buf' \in TestCases
  BY <1>1, <1>2, ShortLists, EncodedType
<1>4. /\ FuzzFurther(html) /\ fuzz_todo_global' = html.todo
      /\ UNCHANGED <<fuzz_todo_single, fuzz_todo_concat>>
  BY DEF FuzzInitialize
<1>5. initialized_files' \subseteq Files
  BY <1>1 DEF IInv, DataInv, TypeOK
<1>6. fuzz_todo_single' \in Seq(Input) /\ fuzz_todo_concat' \in TestCases \cup {NONE}
  BY <1>4 DEF IInv, DataInv, TypeOK, ListsBounded
<1>7. DataInv' /\ DumpInv' /\ TodoInv'
  BY <1>3, <1>4, <1>5, <1>6, FuzzFurtherStep
<1>8. ConcatPlan'
  BY <1>4 DEF IInv, ConcatPlan
<1> QED
  BY <1>7, <1>8 DEF IInv

(* A test case that a page suggested. *)
LEMMA FuzzGlobalTodoStep ==
    ASSUME IInv, NEW html \in AfterHtmlDump, FuzzGlobalTodo(html)
    PROVE  IInv'
<1>1. PICK list \in html.todo :
        fuzz_todo_global' = html.todo \ {list} /\ buf' \in Encoded(list)
  BY DEF FuzzGlobalTodo
<1>2. /\ FuzzFurther(html)
      /\ UNCHANGED <<initialized_files, fuzz_todo_single, fuzz_todo_concat>>
  BY DEF FuzzGlobalTodo
<1>3. html.todo \subseteq TestCases
  <2>1. stage # "select"
    BY <1>2 DEF FuzzFurther, FuzzOther, CallFuzz
  <2> QED
    BY <2>1, AfterHtmlDumpType DEF IInv
<1>4. buf' \in TestCases
  BY <1>1, <1>3, EncodedType
<1>5. /\ initialized_files' \subseteq Files
      /\ fuzz_todo_single' \in Seq(Input) /\ fuzz_todo_concat' \in TestCases \cup {NONE}
  BY <1>2 DEF IInv, DataInv, TypeOK, ListsBounded
<1>6. DataInv' /\ DumpInv' /\ TodoInv'
  BY <1>1, <1>2, <1>4, <1>5, FuzzFurtherStep
<1>7. ConcatPlan'
  BY <1>2 DEF IInv, ConcatPlan
<1> QED
  BY <1>6, <1>7 DEF IInv

(* The next part of a planned concatenation, on its own. *)
LEMMA FuzzSingleTodoStep ==
    ASSUME IInv, NEW html \in AfterHtmlDump, FuzzSingleTodo(html)
    PROVE  IInv'
<1>1. /\ FuzzFurther(html) /\ fuzz_todo_single # <<>>
      /\ buf' \in Encoded(<<fuzz_todo_single[Len(fuzz_todo_single)]>>)
      /\ fuzz_todo_single' = SubSeq(fuzz_todo_single, 1, Len(fuzz_todo_single) - 1)
      /\ fuzz_todo_global' = html.todo
      /\ UNCHANGED <<initialized_files, fuzz_todo_concat>>
  BY DEF FuzzSingleTodo
<1>2. fuzz_todo_single \in Seq(Input) /\ fuzz_todo_single[Len(fuzz_todo_single)] \in Input
  BY <1>1 DEF IInv, DataInv, TypeOK
<1>3. buf' \in TestCases
  BY <1>1, <1>2, ShortLists, EncodedType
<1>4. /\ fuzz_todo_single' \in Seq(Input)
      /\ Len(fuzz_todo_single') = Len(fuzz_todo_single) - 1
      /\ \A i \in DOMAIN fuzz_todo_single' :
           i \in DOMAIN fuzz_todo_single /\ fuzz_todo_single'[i] = fuzz_todo_single[i]
  BY <1>1, <1>2, ProperPrefix
<1>5. initialized_files' \subseteq Files /\ fuzz_todo_concat' \in TestCases \cup {NONE}
  BY <1>1 DEF IInv, DataInv, TypeOK, ListsBounded
<1>6. DataInv' /\ DumpInv' /\ TodoInv'
  BY <1>1, <1>3, <1>4, <1>5, FuzzFurtherStep
<1>7. ConcatPlan'
  <2>1. fuzz_todo_concat # NONE
    BY <1>1 DEF IInv, ConcatPlan
  <2>2. Len(fuzz_todo_single) \in Nat /\ Len(fuzz_todo_concat) \in Nat
    BY DEF IInv, DataInv, TypeOK
  <2>3. Len(fuzz_todo_single) - 1 < Len(fuzz_todo_concat)
    BY <2>1, <2>2 DEF IInv, ConcatPlan
  <2> QED
    BY <1>1, <1>4, <2>1, <2>3 DEF IInv, ConcatPlan
<1> QED
  BY <1>6, <1>7 DEF IInv

(* The planned concatenation as a whole. *)
LEMMA FuzzConcatTodoStep ==
    ASSUME IInv, NEW html \in AfterHtmlDump, FuzzConcatTodo(html)
    PROVE  IInv'
<1>1. /\ FuzzFurther(html)
      /\ fuzz_todo_single = <<>> /\ fuzz_todo_concat # NONE
      /\ buf' \in Encoded(fuzz_todo_concat)
      /\ fuzz_todo_concat' = NONE
      /\ fuzz_todo_global' = html.todo
      /\ UNCHANGED <<initialized_files, fuzz_todo_single>>
  BY DEF FuzzConcatTodo
<1>2. buf' \in TestCases
  BY <1>1, EncodedType DEF IInv, DataInv, ListsBounded
<1>3. /\ initialized_files' \subseteq Files /\ fuzz_todo_single' \in Seq(Input)
      /\ fuzz_todo_concat' \in TestCases \cup {NONE}
  BY <1>1 DEF IInv, DataInv, TypeOK
<1>4. DataInv' /\ DumpInv' /\ TodoInv'
  BY <1>1, <1>2, <1>3, FuzzFurtherStep
<1>5. ConcatPlan'
  BY <1>1 DEF ConcatPlan
<1> QED
  BY <1>4, <1>5 DEF IInv

(* A plan: the parts before the last are a proper prefix of the whole. *)
LEMMA PlanType ==
    ASSUME NEW list \in TestCases, Plan(list)
    PROVE  /\ buf' \in TestCases
           /\ fuzz_todo_single' \in Seq(Input)
           /\ fuzz_todo_concat' \in TestCases
           /\ ConcatPlan'
<1>1. list \in Seq(Input) /\ list # <<>> /\ Len(list) \in Nat /\ list[Len(list)] \in Input
  BY DEF TestCases, InputList
<1>2. /\ fuzz_todo_single' = SubSeq(list, 1, Len(list) - 1)
      /\ fuzz_todo_concat' = list
      /\ buf' \in Encoded(<<list[Len(list)]>>)
  BY DEF Plan
<1>3. buf' \in TestCases
  BY <1>1, <1>2, ShortLists, EncodedType
<1>4. /\ fuzz_todo_single' \in Seq(Input)
      /\ Len(fuzz_todo_single') = Len(list) - 1
      /\ \A i \in DOMAIN fuzz_todo_single' : fuzz_todo_single'[i] = list[i]
  BY <1>1, <1>2, ProperPrefix
<1>5. ConcatPlan'
  BY <1>1, <1>2, <1>4 DEF ConcatPlan, NONE
<1> QED
  BY <1>2, <1>3, <1>4, <1>5

(* A mutation of the entry, alone or concatenated with another one. *)
LEMMA FuzzMutateStep ==
    ASSUME IInv, NEW html \in AfterHtmlDump, FuzzMutate(html)
    PROVE  IInv'
<1>1. /\ FuzzFurther(html)
      /\ fuzz_todo_global' = html.todo
      /\ UNCHANGED initialized_files
  BY DEF FuzzMutate
<1>2. PICK base \in Concatenated(queue[current_seed]) : \E list \in MutatedLists(base) :
        \/ Len(list) > 1 /\ \E short \in Shortened(list) : Plan(short)
        \/ /\ Len(list) = 1
           /\ buf' \in Encoded(list)
           /\ UNCHANGED <<fuzz_todo_single, fuzz_todo_concat>>
  BY DEF FuzzMutate
<1>3. PICK list \in MutatedLists(base) :
        \/ Len(list) > 1 /\ \E short \in Shortened(list) : Plan(short)
        \/ /\ Len(list) = 1
           /\ buf' \in Encoded(list)
           /\ UNCHANGED <<fuzz_todo_single, fuzz_todo_concat>>
  BY <1>2
<1>4. list \in InputList
  <2>1. queue[current_seed] \in InputList
    BY <1>1 DEF FuzzFurther, FuzzOther, CallFuzz, IInv, DataInv, EntryIsThere, ListsBounded,
                TestCases
  <2>2. base \in InputList
    BY <1>2, <2>1, ConcatenatedType DEF IInv, DataInv, ListsBounded
  <2> QED
    BY <1>3, <2>2, MutatedType
<1>5. /\ buf' \in TestCases
      /\ fuzz_todo_single' \in Seq(Input)
      /\ fuzz_todo_concat' \in TestCases \cup {NONE}
      /\ ConcatPlan'
  <2>1. CASE Len(list) > 1 /\ \E short \in Shortened(list) : Plan(short)
    <3>1. PICK short \in Shortened(list) : Plan(short)
      BY <2>1
    <3>2. short \in TestCases
      BY <1>4, <2>1, <3>1, ShortenedType
    <3> QED
      BY <3>1, <3>2, PlanType
  <2>2. CASE /\ Len(list) = 1
             /\ buf' \in Encoded(list)
             /\ UNCHANGED <<fuzz_todo_single, fuzz_todo_concat>>
    <3>0. Len(list) = 1
      BY <2>2
    <3>1. list \in TestCases
      <4>1. Len(list) <= MAX_CONCAT_FILES
        BY <3>0, MutatorConstants
      <4> QED
        BY <1>4, <4>1 DEF TestCases
    <3>2. buf' \in TestCases
      BY <2>2, <3>1, EncodedType
    <3>3. fuzz_todo_single' \in Seq(Input) /\ fuzz_todo_concat' \in TestCases \cup {NONE}
      BY <2>2 DEF IInv, DataInv, TypeOK, ListsBounded
    <3>4. ConcatPlan'
      BY <2>2 DEF IInv, ConcatPlan
    <3> QED
      BY <3>2, <3>3, <3>4
  <2> QED
    BY <1>3, <2>1, <2>2
<1>6. initialized_files' \subseteq Files
  BY <1>1 DEF IInv, DataInv, TypeOK
<1>7. DataInv' /\ DumpInv' /\ TodoInv'
  BY <1>1, <1>5, <1>6, FuzzFurtherStep
<1> QED
  BY <1>5, <1>7 DEF IInv

-----------------------------------------------------------------------------
(* The operations around fuzz() leave the waiting test cases alone.        *)

todoVars == <<fuzz_todo_single, fuzz_todo_concat, fuzz_todo_global>>

(* A plan and a limit do not change unless the lists do. *)
LEMMA TodoFrame == ASSUME IInv, UNCHANGED todoVars PROVE ConcatPlan' /\ TodoInv'
  BY DEF IInv, todoVars, ConcatPlan, TodoInv, TodoBounded

(* AFL++ picks an entry: the dumps of earlier visits no longer count. *)
LEMMA QueueGetStep == ASSUME IInv, NEW seed \in Seeds, queue_get(seed) PROVE IInv'
<1>1. ConcatPlan' /\ TodoInv'
  BY TodoFrame DEF queue_get, todoVars
<1>2. 0 \in 0 .. MaxExecutions
  BY MutatorConstants
<1>3. TrimTypeOK'
  BY DEF queue_get, trimVars, IInv, DataInv, TypeOK, TrimTypeOK
<1>4. redqueen_done' \in BOOLEAN /\ html_dump_done' \in BOOLEAN
  BY DEF queue_get, IInv, DataInv, TypeOK
<1>5. TypeOK'
  BY <1>2, <1>3, <1>4 DEF queue_get, IInv, DataInv, TypeOK, dumpVars
<1>6. ListsBounded' /\ TrimListsBounded' /\ EntryIsThere'
  BY DEF queue_get, trimVars, IInv, DataInv, ListsBounded, TrimListsBounded, EntryIsThere
<1>7. TrimmingMode' /\ RedqueenRequested'
  BY DEF queue_get, trimVars, IInv, DumpInv, TrimmingMode, TrimStages, RedqueenRequested
<1>8. DumpInv'
  BY <1>7, MutatorConstants DEF queue_get, DumpInv, RequestedOnce, APPLY_HTML_DUMP_AFTER
<1> QED
  BY <1>1, <1>5, <1>6, <1>8 DEF IInv, DataInv

(* AFL++ ends a visit, runs the buffer again, or goes on after a run: only *)
(* the stage changes, and no trim stage is entered or left.                *)
LEMMA StageOnlyStep == ASSUME IInv, EndVisit \/ Rerun \/ RunDone PROVE IInv'
<1>1. /\ UNCHANGED <<trimVars, buf, fuzzVars, dumpVars, queue, trim_done, config, histVars>>
      /\ stage \in {"visit", "judge"} /\ stage' \in {"select", "run", "visit"}
  BY DEF EndVisit, Rerun, RunDone
<1>2. ConcatPlan' /\ TodoInv'
  BY <1>1, TodoFrame DEF fuzzVars, todoVars
<1>3. TrimTypeOK'
  BY <1>1 DEF trimVars, IInv, DataInv, TypeOK, TrimTypeOK
<1>4. redqueen_done' \in BOOLEAN /\ html_dump_done' \in BOOLEAN
  BY <1>1 DEF fuzzVars, IInv, DataInv, TypeOK
<1>5. TypeOK'
  BY <1>1, <1>3, <1>4 DEF fuzzVars, dumpVars, histVars, IInv, DataInv, TypeOK
<1>6. ListsBounded' /\ TrimListsBounded' /\ EntryIsThere'
  BY <1>1 DEF fuzzVars, trimVars, IInv, DataInv, ListsBounded, TrimListsBounded, EntryIsThere
<1>7. TrimmingMode' /\ RedqueenRequested'
  BY <1>1 DEF trimVars, IInv, DumpInv, TrimmingMode, TrimStages, RedqueenRequested
<1>8. DumpInv'
  BY <1>1, <1>7 DEF fuzzVars, histVars, IInv, DumpInv, RequestedOnce
<1> QED
  BY <1>2, <1>5, <1>6, <1>8 DEF IInv, DataInv

(* post_process: a dump that is due is requested and marked as done.       *)
LEMMA PostProcessStep == ASSUME IInv, post_process PROVE IInv'
<1> DEFINE redqueen == DumpDue(APPLY_REDQUEEN_AFTER, redqueen_done)
           html == DumpDue(APPLY_HTML_DUMP_AFTER, html_dump_done)
<1>1. /\ \/ stage = "run" /\ stage' = "execute"
         \/ stage = "trimrun" /\ stage' = "trimexecute"
      /\ config' \subseteq {"REDQUEEN", "HTML_DUMP"}
      /\ UNCHANGED <<trimVars, buf, current_seed, current_executions,
                     initialized_files, fuzz_todo_single, fuzz_todo_concat,
                     fuzz_todo_global, global_todo_already_added, redqueen_map,
                     dumpVars, queue, trim_done>>
  BY DEF post_process
<1>2. /\ redqueen_done' = (redqueen_done \/ redqueen)
      /\ html_dump_done' = (html_dump_done \/ html)
  BY DEF post_process, DumpDone
<1>3. /\ rqRuns' = IF redqueen THEN rqRuns + 1 ELSE rqRuns
      /\ htmlRuns' = IF html THEN htmlRuns + 1 ELSE htmlRuns
  BY DEF post_process
<1>4. /\ redqueen <=> /\ ~in_trimming_mode
                      /\ current_executions = APPLY_REDQUEEN_AFTER
                      /\ ~redqueen_done
      /\ html <=> /\ ~in_trimming_mode
                  /\ current_executions = APPLY_HTML_DUMP_AFTER
                  /\ ~html_dump_done
  BY DEF DumpDue
<1> HIDE DEF redqueen, html
<1>5. ConcatPlan' /\ TodoInv'
  BY <1>1, TodoFrame DEF todoVars
<1>6. TrimTypeOK'
  BY <1>1 DEF trimVars, IInv, DataInv, TypeOK, TrimTypeOK
<1>7. redqueen_done' \in BOOLEAN /\ html_dump_done' \in BOOLEAN
  BY <1>2
<1>8. rqRuns \in Nat /\ htmlRuns \in Nat /\ rqRuns' \in Nat /\ htmlRuns' \in Nat
  BY <1>3 DEF IInv, DataInv, TypeOK
<1>9. TypeOK'
  BY <1>1, <1>6, <1>7, <1>8 DEF dumpVars, IInv, DataInv, TypeOK
<1>10. ListsBounded' /\ TrimListsBounded' /\ EntryIsThere'
  BY <1>1 DEF trimVars, IInv, DataInv, ListsBounded, TrimListsBounded, EntryIsThere
<1>11. TrimmingMode'
  BY <1>1 DEF trimVars, IInv, DumpInv, TrimmingMode, TrimStages
<1>12. RequestedOnce(rqRuns, APPLY_REDQUEEN_AFTER, redqueen_done)'
  <2>1. RequestedOnce(rqRuns, APPLY_REDQUEEN_AFTER, redqueen_done)
    BY DEF IInv, DumpInv
  <2>2. CASE redqueen
    <3>1. current_executions = APPLY_REDQUEEN_AFTER /\ ~redqueen_done /\ redqueen_done'
      BY <1>2, <1>4, <2>2
    <3>2. rqRuns # 1 /\ rqRuns <= 1
      BY <2>1, <3>1 DEF RequestedOnce
    <3>3. rqRuns' = 1
      BY <1>3, <1>8, <2>2, <3>2
    <3>4. APPLY_REDQUEEN_AFTER \in Int
      BY MutatorConstants
    <3>5. current_executions' = APPLY_REDQUEEN_AFTER
      BY <1>1, <3>1
    <3> QED
      BY <3>1, <3>3, <3>4, <3>5 DEF RequestedOnce
  <2>3. CASE ~redqueen
    BY <1>1, <1>2, <1>3, <2>1, <2>3 DEF RequestedOnce
  <2> QED
    BY <2>2, <2>3
<1>13. RequestedOnce(htmlRuns, APPLY_HTML_DUMP_AFTER, html_dump_done)'
  <2>1. RequestedOnce(htmlRuns, APPLY_HTML_DUMP_AFTER, html_dump_done)
    BY DEF IInv, DumpInv
  <2>2. CASE html
    <3>1. current_executions = APPLY_HTML_DUMP_AFTER /\ ~html_dump_done /\ html_dump_done'
      BY <1>2, <1>4, <2>2
    <3>2. htmlRuns # 1 /\ htmlRuns <= 1
      BY <2>1, <3>1 DEF RequestedOnce
    <3>3. htmlRuns' = 1
      BY <1>3, <1>8, <2>2, <3>2
    <3>4. APPLY_HTML_DUMP_AFTER \in Int
      BY MutatorConstants DEF APPLY_HTML_DUMP_AFTER
    <3>5. current_executions' = APPLY_HTML_DUMP_AFTER
      BY <1>1, <3>1
    <3> QED
      BY <3>1, <3>3, <3>4, <3>5 DEF RequestedOnce
  <2>3. CASE ~html
    BY <1>1, <1>2, <1>3, <2>1, <2>3 DEF RequestedOnce
  <2> QED
    BY <2>2, <2>3
<1>14. RedqueenRequested'
  <2> SUFFICES ASSUME stage = "run", stage' = "execute",
                      current_executions = APPLY_REDQUEEN_AFTER
               PROVE  rqRuns' = 1 \/ (in_trimming_mode /\ num_trim_operations = 0)'
    BY <1>1 DEF RedqueenRequested
  <2>1. in_trimming_mode => num_trim_operations = 0
    BY DEF IInv, DumpInv, TrimmingMode, TrimStages
  <2>2. CASE in_trimming_mode
    BY <1>1, <2>1, <2>2 DEF trimVars
  <2>3. CASE ~in_trimming_mode
    <3>1. redqueen_done'
      BY <1>2, <1>4, <2>3
    <3> QED
      BY <1>1, <1>12, <3>1 DEF RequestedOnce
  <2> QED
    BY <2>2, <2>3
<1>15. DumpInv'
  BY <1>11, <1>12, <1>13, <1>14 DEF DumpInv
<1> QED
  BY <1>5, <1>9, <1>10, <1>15 DEF IInv, DataInv

(* A run may leave dumps of the entry being visited.                       *)
LEMMA ExecuteStep == ASSUME IInv, Execute PROVE IInv'
<1>1. /\ \/ stage = "execute" /\ stage' = "judge"
         \/ stage = "trimexecute" /\ stage' = "trimjudge"
      /\ UNCHANGED <<trimVars, buf, fuzzVars, queue, trim_done, config, histVars>>
  BY DEF Execute
<1>2. strings_dump' \in Seeds \cup {NoSeed} /\ html_dump' \in Seeds \cup {NoSeed}
  <2>1. current_seed \in Seeds
    BY <1>1 DEF IInv, DataInv, TypeOK
  <2> QED
    BY <2>1 DEF Execute, IInv, DataInv, TypeOK
<1>3. ConcatPlan' /\ TodoInv'
  BY <1>1, TodoFrame DEF fuzzVars, todoVars
<1>4. TrimTypeOK'
  BY <1>1 DEF trimVars, IInv, DataInv, TypeOK, TrimTypeOK
<1>5. redqueen_done' \in BOOLEAN /\ html_dump_done' \in BOOLEAN
  BY <1>1 DEF fuzzVars, IInv, DataInv, TypeOK
<1>6. TypeOK'
  BY <1>1, <1>2, <1>4, <1>5 DEF fuzzVars, histVars, IInv, DataInv, TypeOK
<1>7. ListsBounded' /\ TrimListsBounded' /\ EntryIsThere'
  BY <1>1 DEF fuzzVars, trimVars, IInv, DataInv, ListsBounded, TrimListsBounded, EntryIsThere
<1>8. TrimmingMode' /\ RedqueenRequested'
  BY <1>1 DEF trimVars, IInv, DumpInv, TrimmingMode, TrimStages, RedqueenRequested
<1>9. DumpInv'
  BY <1>1, <1>8 DEF fuzzVars, histVars, IInv, DumpInv, RequestedOnce
<1> QED
  BY <1>3, <1>6, <1>7, <1>9 DEF IInv, DataInv

(* The buffer becomes an entry of the queue.                               *)
LEMMA QueueNewEntryStep ==
    ASSUME IInv, NEW seed \in Seeds, queue_new_entry(seed)
    PROVE  IInv'
<1>1. /\ queue' = [queue EXCEPT ![seed] = buf]
      /\ UNCHANGED <<trimVars, buf, fuzzVars, dumpVars, stage, trim_done, config, histVars>>
  BY DEF queue_new_entry
<1>2. buf \in TestCases /\ buf \in Seq(Input) /\ buf # NONE
  BY DEF IInv, DataInv, ListsBounded, TestCases, InputList, NONE
<1>3. /\ queue' \in [Seeds -> Seq(Input)]
      /\ \A s \in Seeds : queue'[s] \in TestCases \cup {NONE}
      /\ \A s \in Seeds : queue[s] # NONE => queue'[s] # NONE
  BY <1>1, <1>2 DEF IInv, DataInv, TypeOK, ListsBounded
<1>4. ConcatPlan' /\ TodoInv'
  BY <1>1, TodoFrame DEF fuzzVars, todoVars
<1>5. TrimTypeOK'
  BY <1>1 DEF trimVars, IInv, DataInv, TypeOK, TrimTypeOK
<1>6. redqueen_done' \in BOOLEAN /\ html_dump_done' \in BOOLEAN
  BY <1>1 DEF fuzzVars, IInv, DataInv, TypeOK
<1>7. TypeOK'
  BY <1>1, <1>3, <1>5, <1>6 DEF fuzzVars, dumpVars, histVars, IInv, DataInv, TypeOK
<1>8. ListsBounded' /\ TrimListsBounded' /\ EntryIsThere'
  BY <1>1, <1>3 DEF fuzzVars, trimVars, IInv, DataInv, ListsBounded, TrimListsBounded,
                    EntryIsThere
<1>9. TrimmingMode' /\ RedqueenRequested'
  BY <1>1 DEF fuzzVars, histVars, trimVars, IInv, DumpInv, TrimmingMode, TrimStages,
              RedqueenRequested
<1>10. DumpInv'
  BY <1>1, <1>9 DEF fuzzVars, histVars, IInv, DumpInv, RequestedOnce
<1> QED
  BY <1>4, <1>7, <1>8, <1>10 DEF IInv, DataInv

(* init_trim: the trim stage is entered exactly when there are operations. *)
LEMMA StartTrimStep == ASSUME IInv, StartTrim PROVE IInv'
<1>1. /\ stage = "visit"
      /\ trim_done' = trim_done \cup {current_seed}
      /\ stage' = IF num_trim_operations' > 0 THEN "trim" ELSE "visit"
      /\ UNCHANGED <<buf, fuzzVars, dumpVars, queue, config, histVars>>
  BY DEF StartTrim
<1>2. /\ last_successful_trimmed_input' = queue[current_seed]
      /\ current_trimmed_input' = queue[current_seed]
      /\ trimming_operation_counter' = 0
      /\ first_trim' = FALSE
      /\ num_trim_operations' =
           IF first_trim THEN 0 ELSE NumKeys(queue[current_seed]) * NUM_TRIMMING_OPERATIONS
      /\ UNCHANGED input_key_map
  BY DEF StartTrim, init_trim
<1>3. in_trimming_mode' = ~first_trim
  BY DEF StartTrim, init_trim
<1>4. current_seed \in Seeds /\ queue[current_seed] \in TestCases
  BY <1>1 DEF IInv, DataInv, EntryIsThere, ListsBounded
<1>5. queue[current_seed] \in InputList /\ TestCases \subseteq InputList
  BY <1>4 DEF TestCases
<1>6. num_trim_operations' \in Nat
  BY <1>2, <1>5, NumKeysType, TrimConstants
<1>7. TrimTypeOK'
  <2>1. first_trim' \in BOOLEAN /\ in_trimming_mode' \in BOOLEAN
    BY <1>2, <1>3
  <2> QED
    BY <1>1, <1>2, <1>5, <1>6, <2>1 DEF IInv, DataInv, TypeOK, TrimTypeOK
<1>8. redqueen_done' \in BOOLEAN /\ html_dump_done' \in BOOLEAN
  BY <1>1 DEF fuzzVars, IInv, DataInv, TypeOK
<1>9. TypeOK'
  BY <1>1, <1>4, <1>7, <1>8 DEF fuzzVars, dumpVars, histVars, IInv, DataInv, TypeOK
<1>10. ListsBounded' /\ TrimListsBounded' /\ EntryIsThere'
  BY <1>1, <1>2, <1>4 DEF fuzzVars, IInv, DataInv, ListsBounded, TrimListsBounded, EntryIsThere
<1>11. TrimmingMode'
  <2>1. CASE num_trim_operations' > 0
    <3>1. ~first_trim
      BY <1>2, <2>1
    <3>2. in_trimming_mode'
      BY <1>3, <3>1
    <3> QED
      BY <1>1, <1>2, <2>1, <3>2 DEF TrimmingMode, TrimStages
  <2>2. CASE ~(num_trim_operations' > 0)
    <3>1. num_trim_operations' = 0
      BY <1>6, <2>2
    <3> QED
      BY <1>1, <3>1 DEF TrimmingMode, TrimStages
  <2> QED
    BY <2>1, <2>2
<1>12. DumpInv'
  BY <1>1, <1>11 DEF fuzzVars, histVars, IInv, DumpInv, RequestedOnce, RedqueenRequested
<1>13. ConcatPlan' /\ TodoInv'
  BY <1>1, TodoFrame DEF fuzzVars, todoVars
<1> QED
  BY <1>9, <1>10, <1>12, <1>13 DEF IInv, DataInv

(* trim: every candidate is a test case within the limit.                  *)
LEMMA CallTrimStep == ASSUME IInv, CallTrim PROVE IInv'
<1>1. /\ stage = "trim" /\ stage' = "trimrun"
      /\ UNCHANGED <<last_successful_trimmed_input, trimming_operation_counter,
                     num_trim_operations, in_trimming_mode, first_trim, input_key_map>>
      /\ UNCHANGED <<fuzzVars, dumpVars, queue, trim_done, config, histVars>>
  BY DEF CallTrim, trim, TrimConcat, TrimNothing, TrimVariable, trimVars
<1>2. last_successful_trimmed_input \in TestCases /\ current_trimmed_input \in TestCases
  BY DEF IInv, DataInv, TrimListsBounded
<1>3. buf' \in TestCases /\ current_trimmed_input' \in TestCases
  <2>1. CASE TrimConcat
    <3> DEFINE n == Len(last_successful_trimmed_input) - 1
    <3>1. /\ last_successful_trimmed_input \in InputList
          /\ n \in Nat /\ n > 0 /\ n <= MAX_CONCAT_FILES
      BY <1>2, <2>1, MutatorConstants DEF TrimConcat, TestCases, InputList
    <3>2. buf' \in Arrangements(last_successful_trimmed_input, n)
      BY <2>1 DEF TrimConcat
    <3> HIDE DEF n
    <3>3. buf' \in InputList /\ Len(buf') = n
      BY <3>1, <3>2, ArrangementType
    <3>4. buf' \in TestCases
      BY <3>1, <3>3 DEF TestCases
    <3> QED
      BY <1>2, <2>1, <3>4 DEF TrimConcat, trimVars
  <2>2. CASE TrimNothing
    BY <1>2, <2>2, NotAListType DEF TrimNothing, trimVars
  <2>3. CASE TrimVariable
    <3>1. PICK i \in DOMAIN last_successful_trimmed_input :
            \E rest \in SUBSET last_successful_trimmed_input[i].vars :
              current_trimmed_input' =
                [last_successful_trimmed_input EXCEPT ![i].vars = rest]
      BY <2>3 DEF TrimVariable
    <3>2. PICK rest \in SUBSET last_successful_trimmed_input[i].vars :
            current_trimmed_input' = [last_successful_trimmed_input EXCEPT ![i].vars = rest]
      BY <3>1
    <3>3. [last_successful_trimmed_input EXCEPT ![i].vars = rest] \in TestCases
      BY <1>2, RestrictRequest
    <3> QED
      BY <2>3, <3>2, <3>3 DEF TrimVariable
  <2> QED
    BY <2>1, <2>2, <2>3 DEF CallTrim, trim
<1>4. buf' \in InputList /\ current_trimmed_input' \in InputList
  BY <1>3 DEF TestCases
<1>5. TrimTypeOK'
  <2>1. first_trim' \in BOOLEAN /\ in_trimming_mode' \in BOOLEAN
    BY <1>1 DEF IInv, DataInv, TypeOK, TrimTypeOK
  <2> QED
    BY <1>1, <1>4, <2>1 DEF IInv, DataInv, TypeOK, TrimTypeOK
<1>6. redqueen_done' \in BOOLEAN /\ html_dump_done' \in BOOLEAN
  BY <1>1 DEF fuzzVars, IInv, DataInv, TypeOK
<1>7. TypeOK'
  BY <1>1, <1>5, <1>6 DEF fuzzVars, dumpVars, histVars, IInv, DataInv, TypeOK
<1>8. ListsBounded' /\ TrimListsBounded' /\ EntryIsThere'
  BY <1>1, <1>2, <1>3 DEF fuzzVars, IInv, DataInv, ListsBounded, TrimListsBounded, EntryIsThere
<1>9. TrimmingMode' /\ RedqueenRequested'
  BY <1>1 DEF IInv, DumpInv, TrimmingMode, TrimStages, RedqueenRequested
<1>10. DumpInv'
  BY <1>1, <1>9 DEF fuzzVars, histVars, IInv, DumpInv, RequestedOnce
<1>11. ConcatPlan' /\ TodoInv'
  BY <1>1, TodoFrame DEF fuzzVars, todoVars
<1> QED
  BY <1>7, <1>8, <1>10, <1>11 DEF IInv, DataInv

(* The variables that post_trim records are names of variables. *)
LEMMA KeysForType ==
    ASSUME NEW list \in InputList, NEW f
    PROVE  KeysFor(list, f) \in SUBSET Vars
<1>1. \A i \in DOMAIN list : list[i] \in Input
  BY DEF InputList
<1>2. \A i \in DOMAIN list : list[i].vars \in SUBSET Vars
  BY <1>1 DEF Input
<1> QED
  BY <1>2 DEF KeysFor

(* post_trim: the stage is left with the last operation, and trimming mode *)
(* with it.                                                                *)
LEMMA VerdictStep == ASSUME IInv, NEW success \in BOOLEAN, Verdict(success) PROVE IInv'
<1> DEFINE done == trimming_operation_counter + 1 >= num_trim_operations
<1>1. /\ stage = "trimjudge"
      /\ queue' = IF success THEN [queue EXCEPT ![current_seed] = buf] ELSE queue
      /\ stage' = IF trimming_operation_counter' < num_trim_operations THEN "trim" ELSE "visit"
      /\ UNCHANGED <<buf, fuzzVars, dumpVars, trim_done, config, histVars>>
  BY DEF Verdict
<1>2. /\ last_successful_trimmed_input' =
           IF success THEN current_trimmed_input ELSE last_successful_trimmed_input
      /\ trimming_operation_counter' = trimming_operation_counter + 1
      /\ input_key_map' =
           IF done
           THEN [f \in Files |-> input_key_map[f] \cup KeysFor(current_trimmed_input, f)]
           ELSE input_key_map
      /\ UNCHANGED <<current_trimmed_input, num_trim_operations, first_trim>>
  BY DEF Verdict, post_trim
<1>3. in_trimming_mode' = (in_trimming_mode /\ ~done)
  BY DEF Verdict, post_trim
<1>4. trimming_operation_counter \in Nat /\ num_trim_operations \in Nat
  BY DEF IInv, DataInv, TypeOK, TrimTypeOK
<1>5. done <=> ~(trimming_operation_counter' < num_trim_operations)
  BY <1>2, <1>4
<1>6. input_key_map' \in [Files -> SUBSET Vars]
  <2>1. current_trimmed_input \in InputList /\ input_key_map \in [Files -> SUBSET Vars]
    BY DEF IInv, DataInv, TypeOK, TrimTypeOK
  <2>2. \A f \in Files : KeysFor(current_trimmed_input, f) \in SUBSET Vars
    BY <2>1, KeysForType
  <2> QED
    BY <1>2, <2>1, <2>2
<1> HIDE DEF done
<1>7. TrimTypeOK'
  <2>1. in_trimming_mode' \in BOOLEAN
    BY <1>3
  <2>2. first_trim' \in BOOLEAN
    BY <1>2 DEF IInv, DataInv, TypeOK, TrimTypeOK
  <2>3. last_successful_trimmed_input' \in InputList
    BY <1>2 DEF IInv, DataInv, TypeOK, TrimTypeOK
  <2> QED
    BY <1>1, <1>2, <1>4, <1>6, <2>1, <2>2, <2>3 DEF IInv, DataInv, TypeOK, TrimTypeOK
<1>8. current_seed \in Seeds /\ buf \in TestCases /\ buf \in Seq(Input) /\ buf # NONE
  BY <1>1 DEF IInv, DataInv, EntryIsThere, ListsBounded, TestCases, InputList, NONE
<1>9. /\ queue' \in [Seeds -> Seq(Input)]
      /\ \A s \in Seeds : queue'[s] \in TestCases \cup {NONE}
      /\ \A s \in Seeds : queue[s] # NONE => queue'[s] # NONE
  BY <1>1, <1>8 DEF IInv, DataInv, TypeOK, ListsBounded
<1>10. redqueen_done' \in BOOLEAN /\ html_dump_done' \in BOOLEAN
  BY <1>1 DEF fuzzVars, IInv, DataInv, TypeOK
<1>11. stage' \in {"trim", "visit"}
  BY <1>1
<1>12. TypeOK'
  BY <1>1, <1>7, <1>9, <1>10, <1>11 DEF fuzzVars, dumpVars, histVars, IInv, DataInv, TypeOK
<1>13. ListsBounded'
  BY <1>1, <1>9 DEF fuzzVars, IInv, DataInv, ListsBounded
<1>14. TrimListsBounded'
  BY <1>2 DEF IInv, DataInv, TrimListsBounded
<1>15. EntryIsThere'
  BY <1>1, <1>9 DEF fuzzVars, IInv, DataInv, EntryIsThere
<1>16. TrimmingMode'
  <2>1. in_trimming_mode
    BY <1>1 DEF IInv, DumpInv, TrimmingMode, TrimStages
  <2>2. CASE done
    BY <1>1, <1>3, <1>5, <2>2 DEF TrimmingMode, TrimStages
  <2>3. CASE ~done
    <3>1. stage' = "trim" /\ trimming_operation_counter' < num_trim_operations'
      BY <1>1, <1>2, <1>5, <2>3
    <3>2. in_trimming_mode'
      BY <1>3, <2>1, <2>3
    <3> QED
      BY <3>1, <3>2 DEF TrimmingMode, TrimStages
  <2> QED
    BY <2>2, <2>3
<1>17. DumpInv'
  BY <1>1, <1>11, <1>16
     DEF fuzzVars, histVars, IInv, DumpInv, RequestedOnce, RedqueenRequested
<1>18. ConcatPlan' /\ TodoInv'
  BY <1>1, TodoFrame DEF fuzzVars, todoVars
<1> QED
  BY <1>12, <1>13, <1>14, <1>15, <1>17, <1>18 DEF IInv, DataInv

(* A stuttering step. *)
LEMMA StutterStep == ASSUME IInv, UNCHANGED vars PROVE IInv'
<1> USE DEF vars, trimVars, fuzzVars, dumpVars, histVars
<1>1. TrimTypeOK'
  BY DEF IInv, DataInv, TypeOK, TrimTypeOK
<1>2. TypeOK'
  BY <1>1 DEF IInv, DataInv, TypeOK
<1>3. ListsBounded' /\ TrimListsBounded' /\ EntryIsThere'
  BY DEF IInv, DataInv, ListsBounded, TrimListsBounded, EntryIsThere
<1>4. DumpInv'
  BY DEF IInv, DumpInv, TrimmingMode, RequestedOnce, RedqueenRequested
<1>5. ConcatPlan' /\ TodoInv'
  BY TodoFrame DEF todoVars
<1> QED
  BY <1>2, <1>3, <1>4, <1>5 DEF IInv, DataInv

-----------------------------------------------------------------------------
(* Every step of AFL++ and of the mutator preserves the invariant. *)
LEMMA NextIInv == IInv /\ [Next]_vars => IInv'
<1> SUFFICES ASSUME IInv, [Next]_vars PROVE IInv'
  OBVIOUS
<1>1. ASSUME NEW seed \in Seeds, queue_get(seed) PROVE IInv'
  BY <1>1, QueueGetStep
<1>2. CASE EndVisit \/ Rerun \/ RunDone
  BY <1>2, StageOnlyStep
<1>3. CASE fuzz
  <2>1. CASE FuzzUnchanged
    BY <2>1, FuzzUnchangedStep
  <2>2. CASE FuzzRedqueen
    BY <2>2, FuzzRedqueenStep
  <2>3. ASSUME NEW html \in AfterHtmlDump,
               \/ FuzzInitialize(html)
               \/ FuzzGlobalTodo(html)
               \/ FuzzSingleTodo(html)
               \/ FuzzConcatTodo(html)
               \/ FuzzMutate(html)
        PROVE  IInv'
    BY <2>3, FuzzInitializeStep, FuzzGlobalTodoStep, FuzzSingleTodoStep,
       FuzzConcatTodoStep, FuzzMutateStep
  <2> QED
    BY <1>3, <2>1, <2>2, <2>3 DEF fuzz
<1>4. CASE post_process
  BY <1>4, PostProcessStep
<1>5. CASE Execute
  BY <1>5, ExecuteStep
<1>6. ASSUME NEW seed \in Seeds, queue_new_entry(seed) PROVE IInv'
  BY <1>6, QueueNewEntryStep
<1>7. CASE StartTrim
  BY <1>7, StartTrimStep
<1>8. CASE CallTrim
  BY <1>8, CallTrimStep
<1>9. ASSUME NEW success \in BOOLEAN, Verdict(success) PROVE IInv'
  BY <1>9, VerdictStep
<1>10. CASE UNCHANGED vars
  BY <1>10, StutterStep
<1> QED
  BY <1>1, <1>2, <1>3, <1>4, <1>5, <1>6, <1>7, <1>8, <1>9, <1>10 DEF Next

(* The inductive invariant holds throughout. *)
THEOREM IInvInvariant == Spec => []IInv
  BY InitIInv, NextIInv, PTL DEF Spec

(* Every global of the mutator keeps its type, and an entry that is being  *)
(* visited is one of the queue.                                            *)
THEOREM TypeCorrect == Spec => []TypeOK
<1>1. IInv => TypeOK
  BY DEF IInv, DataInv
<1> QED
  BY <1>1, IInvInvariant, PTL

(* "make sure we don't do redqueen twice in a row to avoid looping": of    *)
(* all the runs of one visit, reruns and trim candidates included, at most *)
(* one asks for redqueen data and at most one for html.                    *)
THEOREM DumpOncePerVisitInvariant == Spec => []DumpOncePerVisit
<1>1. IInv => DumpOncePerVisit
  BY DEF IInv, DumpInv, RequestedOnce, DumpOncePerVisit
<1> QED
  BY <1>1, IInvInvariant, PTL

(* "at the 100th execution, dump redqueen data": the run that is meant to  *)
(* dump asks for it, unless init_trim left trimming mode on because it had *)
(* nothing to trim.                                                        *)
THEOREM RedqueenRequestedInvariant == Spec => []RedqueenRequested
<1>1. IInv => RedqueenRequested
  BY DEF IInv, DumpInv
<1> QED
  BY <1>1, IInvInvariant, PTL

(* What fuzz() still has to try alone is a proper prefix of the planned    *)
(* concatenation, over any number of visits.                               *)
THEOREM ConcatPlanInvariant == Spec => []ConcatPlan
<1>1. IInv => ConcatPlan
  BY DEF IInv
<1> QED
  BY <1>1, IInvInvariant, PTL

(* A planned concatenation is carried out part by part from its end, then  *)
(* as a whole, and nothing in between changes it: not another visit, a     *)
(* trim stage, a dump or a suggested test case.                            *)
THEOREM PlanInOrderAlways == Spec => PlanInOrder
<1> DEFINE n == Len(fuzz_todo_single)
           Part == /\ n > 0
                   /\ buf' \in Encoded(<<fuzz_todo_concat[n]>>)
                   /\ fuzz_todo_single' = SubSeq(fuzz_todo_concat, 1, n - 1)
                   /\ UNCHANGED fuzz_todo_concat
           Whole == /\ fuzz_todo_single = <<>>
                    /\ buf' \in Encoded(fuzz_todo_concat)
                    /\ fuzz_todo_concat' = NONE
                    /\ UNCHANGED fuzz_todo_single
           Same == UNCHANGED <<fuzz_todo_single, fuzz_todo_concat>>
<1>1. ASSUME IInv, fuzz, fuzz_todo_concat # NONE
      PROVE  Same \/ Part \/ Whole
  <2>1. CASE FuzzUnchanged \/ FuzzRedqueen
    BY <2>1 DEF FuzzUnchanged, FuzzRedqueen
  <2>2. ASSUME NEW html \in AfterHtmlDump, FuzzInitialize(html) \/ FuzzGlobalTodo(html)
        PROVE  Same
    BY <2>2 DEF FuzzInitialize, FuzzGlobalTodo
  <2>3. ASSUME NEW html \in AfterHtmlDump, FuzzSingleTodo(html)
        PROVE  Part
    <3>1. /\ fuzz_todo_single # <<>>
          /\ buf' \in Encoded(<<fuzz_todo_single[n]>>)
          /\ fuzz_todo_single' = SubSeq(fuzz_todo_single, 1, n - 1)
          /\ UNCHANGED fuzz_todo_concat
      BY <2>3 DEF FuzzSingleTodo
    <3>2. /\ fuzz_todo_single \in Seq(Input) /\ fuzz_todo_concat \in Seq(Input)
          /\ n \in Nat /\ n > 0 /\ n < Len(fuzz_todo_concat)
          /\ \A i \in 1 .. n : fuzz_todo_single[i] = fuzz_todo_concat[i]
      BY <1>1, <3>1 DEF IInv, DataInv, TypeOK, ConcatPlan
    <3>3. SubSeq(fuzz_todo_single, 1, n - 1) = SubSeq(fuzz_todo_concat, 1, n - 1)
      BY <3>2
    <3>4. fuzz_todo_single[n] = fuzz_todo_concat[n]
      BY <3>2
    <3> QED
      BY <3>1, <3>2, <3>3, <3>4
  <2>4. ASSUME NEW html \in AfterHtmlDump, FuzzConcatTodo(html)
        PROVE  Whole
    BY <2>4 DEF FuzzConcatTodo
  <2>5. ASSUME NEW html \in AfterHtmlDump, FuzzMutate(html)
        PROVE  FALSE
    BY <1>1, <2>5 DEF FuzzMutate
  <2> QED
    BY <1>1, <2>1, <2>2, <2>3, <2>4, <2>5 DEF fuzz
<1>2. ASSUME [Next]_vars, ~fuzz
      PROVE  Same
  BY <1>2 DEF Next, queue_get, EndVisit, post_process, Execute, Rerun, queue_new_entry, RunDone,
              StartTrim, CallTrim, Verdict, fuzzVars, vars
<1>3. IInv /\ [Next]_vars => [fuzz_todo_concat # NONE => Same \/ Part \/ Whole]_vars
  BY <1>1, <1>2
<1> QED
  BY <1>3, IInvInvariant, PTL DEF Spec, PlanInOrder

(* No test case is empty or longer than MAX_CONCAT_FILES: not in the       *)
(* queue, not planned, and not handed to AFL++ by fuzz() or trim().        *)
THEOREM ListsBoundedInvariant == Spec => []ListsBounded
<1>1. IInv => ListsBounded
  BY DEF IInv, DataInv
<1> QED
  BY <1>1, IInvInvariant, PTL

(* The test cases that pages suggest never exceed MAX_GLOBAL_TODO.         *)
THEOREM TodoBoundedInvariant == Spec => []TodoBounded
<1>1. IInv => TodoBounded
  BY DEF IInv, TodoInv
<1> QED
  BY <1>1, IInvInvariant, PTL

=============================================================================
