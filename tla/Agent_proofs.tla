---------------------------- MODULE Agent_proofs ----------------------------
(***************************************************************************)
(* Proofs about Agent, for every set of files and lines, every limit,      *)
(* nesting depth, number of requests and number of runs.                   *)
(***************************************************************************)
EXTENDS Agent, TLAPS

(* The inductive invariant, part by part: first what holds of the          *)
(* interpreter, then what holds of the agent that drives it.               *)

(* An activation of execute_ex exists exactly while one is in its loop. *)
StackShape == stack = <<>> <=> mode \notin {"op", "handler", "next", "return"}

(* A context that the hooks would use, or that php_pcov_trace would keep,  *)
(* names a file.                                                           *)
Named(context) ==
    context.current_lineno > 0 \/ context.current_relative_filename # NoFile
      => context.current_filename \in Files

(* A request executes under the limit of the payload, and so did all that  *)
(* was counted before.                                                     *)
LimitOfPayload ==
    /\ limit_file = NoLimitFile => execution_limit = 0
    /\ limit_file # NoLimitFile /\ (mode # "idle" \/ executed_opcodes > 0)
         => execution_limit = limit_file

(* The strings dump is of one run, and of this one once it is appended to. *)
StringsOfOneRun ==
    /\ \A r, s \in strings : r = s
    /\ dump_init => strings \subseteq {run}

PhpInv ==
    /\ PcovTypeOK
    /\ StackShape
    /\ Named(cov)
    /\ LimitOfPayload
    /\ StringsOfOneRun
    /\ FeedbackNamesAFile
    /\ LimitIsFinal

(* The interpreter is busy exactly while the agent waits for it. *)
Handshake ==
    /\ agent \in {"preloading", "wait"} <=> mode # "idle"
    /\ agent = "wait" => requests > 0

(* Nothing that a run leaves behind in the guest. *)
Fresh(guest) ==
    /\ ~guest.redqueen_mode_enabled
    /\ guest.execution_limit = 0 /\ guest.executed_opcodes = 0
    /\ ~guest.dump_init /\ ~guest.html_dump_init
    /\ guest.tmp \subseteq {"bug_oracle_enabled"}
    /\ guest.limit_file = NoLimitFile
    /\ ~guest.crash_log

GuestType ==
    [cov : Context, hooks : BOOLEAN, redqueen_mode_enabled : BOOLEAN,
     execution_limit : Nat, executed_opcodes : Nat, dump_init : BOOLEAN,
     stack : {<<>>}, mode : {"idle"},
     tmp : SUBSET {"bug_oracle_enabled", "bug_triggered", "redqueen_mode_enabled",
                   "limit_reached"},
     limit_file : Nat \cup {NoLimitFile}, crash_log : BOOLEAN, html_dump_init : BOOLEAN]

(* The snapshot is fresh, with an idle interpreter. *)
SnapshotFresh == snapshot \in GuestType /\ Fresh(snapshot) /\ Named(snapshot.cov)

(* Between runs the guest is fresh, and while preloading no oracle is      *)
(* enabled.                                                                *)
FreshBetweenRuns ==
    /\ agent \notin {"send", "wait"} => Fresh(Guest)
    /\ agent \in {"preload", "preloading"} => tmp = {}

(* Within a run, the logs say what the oracles found. *)
FiredIsLogged ==
    agent \in {"send", "wait"} => (fired <=> crash_log \/ "bug_triggered" \in tmp)

(* The html dump is of one run, and of this one once it is appended to. *)
PagesOfOneRun ==
    /\ \A r, s \in html : r = s
    /\ html_dump_init => html \subseteq {run}

IInv ==
    /\ TypeOK
    /\ PhpInv
    /\ Handshake
    /\ SnapshotFresh
    /\ FreshBetweenRuns
    /\ FiredIsLogged
    /\ PagesOfOneRun
    /\ CrashMeansBug
    /\ BugIsReported

-----------------------------------------------------------------------------
(* The coverage context: what the functions of pcov make of it.            *)

(* A reset context names no file, and the hooks write nothing under it. *)
LEMMA ResetContext == reset_cov_context \in Context /\ Named(reset_cov_context)
  BY PcovConstants DEF reset_cov_context, Context, Named

(* The compile hook leaves a context that names a file, or none. *)
LEMMA CompileContext ==
    ASSUME cov \in Context, Named(cov), NEW file \in Files \cup {NoFile}
    PROVE  php_pcov_compile_file(file) \in Context /\ Named(php_pcov_compile_file(file))
<1>1. CASE file \in Files
  BY <1>1 DEF php_pcov_compile_file, Context, Named
<1>2. CASE file \notin Files
  BY <1>2, ResetContext DEF php_pcov_compile_file
<1> QED
  BY <1>1, <1>2

(* Before an opcode of a file the context names a file: the one that is    *)
(* executing, or the one that the compile hook saw last.                   *)
LEMMA TraceContext ==
    ASSUME cov \in Context, Named(cov), NEW code \in Files, NEW line \in Lines
    PROVE  /\ Advanced(Located(code, line), line) \in Context
           /\ Advanced(Located(code, line), line).current_filename \in Files
<1> DEFINE c == Located(code, line)
<1>1. c \in Context /\ c.current_filename \in Files
  <2>1. CASE cov.current_relative_filename = code
    BY <2>1, PcovConstants DEF Located, Named, Context
  <2>2. CASE cov.current_relative_filename # code /\ cov.current_filename = code
    BY <2>2 DEF Located, Context
  <2>3. CASE cov.current_relative_filename # code /\ cov.current_filename # code
    BY <2>3, PcovConstants DEF Located, Context
  <2> QED
    BY <2>1, <2>2, <2>3
<1> HIDE DEF c
<1> DEFINE pos == IF c.current_lineno = line THEN c.current_opcode_pos ELSE 0
           next == IF pos < MAX_OPCODE_POS THEN pos + 1 ELSE MAX_OPCODE_POS
<1>2. pos \in 0 .. MAX_OPCODE_POS
  BY <1>1, PcovConstants DEF Context
<1> HIDE DEF pos
<1>3. next \in 0 .. MAX_OPCODE_POS
  BY <1>2, PcovConstants
<1>4. Advanced(c, line) = [c EXCEPT !.current_lineno = line, !.current_opcode_pos = next]
  BY DEF Advanced, pos
<1> HIDE DEF next
<1> QED
  BY <1>1, <1>3, <1>4 DEF Context, c

-----------------------------------------------------------------------------
(* The steps of the interpreter.                                           *)

(* What a step of a request leaves alone, and what it does to the flag     *)
(* files.                                                                  *)
Busy ==
    /\ mode # "idle" /\ mode' # "idle"
    /\ UNCHANGED <<execution_limit, redqueen_mode_enabled, limit_file, run>>
    /\ tmp \subseteq tmp' /\ tmp' \subseteq tmp \cup {"bug_triggered", "limit_reached"}
    /\ "bug_triggered" \in tmp' \ tmp => "bug_oracle_enabled" \in tmp
    /\ "limit_reached" \in tmp' \ tmp => execution_limit > 0
    /\ executed_opcodes' # executed_opcodes => execution_limit > 0
    /\ dump_init' # dump_init => redqueen_mode_enabled

(* Entering execute_ex pushes an activation, unless the limit is exceeded. *)
LEMMA ExecuteEx ==
    ASSUME PhpInv, mode # "idle", NEW code \in Code, php_pcov_execute_ex(code),
           Len(stack) < MaxDepth, mode \in {"main", "handler", "end"},
           UNCHANGED <<executed_opcodes, execution_limit>>
    PROVE  /\ stack' \in Seq(Code) /\ Len(stack') <= MaxDepth
           /\ mode' \in {"op", "handler", "end"}
           /\ StackShape'
           /\ LimitIsFinal'
<1> USE PcovConstants DEF PhpInv, PcovTypeOK, StackShape, LimitIsFinal, LimitExceeded
<1>1. CASE LimitExceeded
  BY <1>1 DEF php_pcov_execute_ex
<1>2. CASE ~LimitExceeded
  <2>1. stack' = Append(stack, code) /\ mode' = "op"
    BY <1>2 DEF php_pcov_execute_ex
  <2>2. stack' \in Seq(Code) /\ Len(stack') = Len(stack) + 1 /\ stack' # <<>>
    BY <2>1
  <2> QED
    BY <1>2, <2>1, <2>2
<1> QED
  BY <1>1, <1>2

(* Leaving an activation. *)
LEMMA Popped ==
    ASSUME NEW s \in Seq(Code), s # <<>>
    PROVE  /\ SubSeq(s, 1, Len(s) - 1) \in Seq(Code)
           /\ Len(SubSeq(s, 1, Len(s) - 1)) = Len(s) - 1
<1> DEFINE n == Len(s) - 1
<1>1. n \in Nat
  OBVIOUS
<1> HIDE DEF n
<1>2. Len(SubSeq(s, 1, n)) = n
  BY <1>1
<1> QED
  BY <1>2 DEF n

(* The hooks write feedback under the name of a file, if at all. *)
LEMMA HookFeedback ==
    ASSUME PhpInv, mode = "handler",
           fed' = IF cov.current_lineno > 0 THEN Feedback(cov, running, FALSE) ELSE NoFeedback
    PROVE  /\ fed' \in {NoFeedback} \cup [file : Files \cup {NoFile}, code : Code, edge : BOOLEAN]
           /\ FeedbackNamesAFile'
<1>1. running \in Code
  BY DEF PhpInv, PcovTypeOK, StackShape, running
<1>2. cov.current_lineno > 0 => cov.current_filename \in Files
  BY DEF PhpInv, Named
<1> QED
  BY <1>1, <1>2 DEF Feedback, FeedbackNamesAFile

(* A step of the interpreter keeps its invariant. *)
LEMMA PhpPreserves == PhpInv /\ Php => PhpInv' /\ Busy
<1> SUFFICES ASSUME PhpInv, Php PROVE PhpInv' /\ Busy
  OBVIOUS
<1> USE PcovConstants
<1> USE DEF HandlerUnchanged
<1>1. CASE PHP_RSHUTDOWN
  <2> USE <1>1 DEF PHP_RSHUTDOWN
  <2>1. PcovTypeOK'
    BY ResetContext DEF PhpInv, PcovTypeOK
  <2> QED
    BY <2>1, ResetContext DEF PhpInv, PcovTypeOK, StackShape, LimitOfPayload, StringsOfOneRun,
       FeedbackNamesAFile, LimitIsFinal, LimitExceeded, Busy
<1>2. CASE PhpCrash
  <2> USE <1>2 DEF PhpCrash, covVars
  <2>1. PcovTypeOK'
    BY DEF PhpInv, PcovTypeOK
  <2> QED
    BY <2>1 DEF PhpInv, PcovTypeOK, StackShape, Named, LimitOfPayload, StringsOfOneRun,
       FeedbackNamesAFile, LimitIsFinal, LimitExceeded, Busy
<1>3. CASE ExecuteScript
  <2>1. PICK file \in Files :
          /\ cov' = php_pcov_compile_file(file)
          /\ php_pcov_execute_ex(file) \/ (mode' = "end" /\ UNCHANGED stack)
    BY <1>3 DEF ExecuteScript
  <2> USE <1>3 DEF ExecuteScript
  <2>2. cov' \in Context /\ Named(cov)'
    BY <2>1, CompileContext DEF PhpInv, PcovTypeOK, Named
  <2>3. /\ stack' \in Seq(Code) /\ Len(stack') <= MaxDepth
        /\ mode' \in {"op", "handler", "end"}
        /\ StackShape' /\ LimitIsFinal'
    <3>1. stack = <<>> /\ Len(stack) < MaxDepth /\ file \in Code
      BY DEF PhpInv, StackShape, Code
    <3>2. CASE php_pcov_execute_ex(file)
      BY <3>1, <3>2, ExecuteEx
    <3>3. CASE mode' = "end" /\ UNCHANGED stack
      BY <3>1, <3>3 DEF PhpInv, PcovTypeOK, StackShape, LimitIsFinal, LimitExceeded
    <3> QED
      BY <2>1, <3>2, <3>3
  <2>4. PcovTypeOK'
    BY <2>2, <2>3 DEF PhpInv, PcovTypeOK
  <2> QED
    BY <2>2, <2>3, <2>4
    DEF PhpInv, LimitOfPayload, StringsOfOneRun, FeedbackNamesAFile, Busy
<1>4. CASE \E line \in Lines, ignored \in BOOLEAN : php_pcov_trace(line, ignored)
  <2>1. PICK line \in Lines, ignored \in BOOLEAN : php_pcov_trace(line, ignored)
    BY <1>4
  <2> DEFINE context == Advanced(Located(running, line), line)
             feeds == running \in Files /\ ~ignored /\ context.current_lineno > 0
  <2>2. /\ mode = "op" /\ mode' = "handler"
        /\ cov' = IF running \in Files /\ (ignored \/ feeds) THEN context ELSE reset_cov_context
        /\ fed' = IF feeds THEN Feedback(context, running, TRUE) ELSE NoFeedback
        /\ UNCHANGED <<hooks, redqueen_mode_enabled, execution_limit, executed_opcodes,
                       dump_init, stack, tmp, limit_file, run, strings>>
    BY <2>1 DEF php_pcov_trace
  <2>3. running \in Files => context \in Context /\ context.current_filename \in Files
    BY TraceContext DEF PhpInv, PcovTypeOK
  <2> HIDE DEF context
  <2>4. cov' \in Context /\ Named(cov)'
    BY <2>2, <2>3, ResetContext DEF Named
  <2>5. fed' # NoFeedback => fed' = [file |-> context.current_filename, code |-> running,
                                     edge |-> TRUE] /\ running \in Files
    BY <2>2 DEF Feedback
  <2>6. /\ fed' \in {NoFeedback} \cup [file : Files \cup {NoFile}, code : Code, edge : BOOLEAN]
        /\ FeedbackNamesAFile'
    <3>1. CASE fed' = NoFeedback
      BY <3>1 DEF FeedbackNamesAFile
    <3>2. CASE fed' # NoFeedback
      <4>1. fed' = [file |-> context.current_filename, code |-> running, edge |-> TRUE]
        BY <3>2, <2>5
      <4>2. context.current_filename \in Files /\ running \in Code
        BY <3>2, <2>3, <2>5 DEF Code
      <4> QED
        BY <4>1, <4>2 DEF FeedbackNamesAFile
    <3> QED
      BY <3>1, <3>2
  <2> HIDE DEF feeds
  <2>7. PcovTypeOK'
    BY <2>2, <2>4, <2>6 DEF PhpInv, PcovTypeOK
  <2> QED
    BY <2>2, <2>4, <2>6, <2>7
    DEF PhpInv, StackShape, LimitOfPayload, StringsOfOneRun, LimitIsFinal, LimitExceeded, Busy
<1>5. CASE php_pcov_positive_feedback
  <2> USE <1>5 DEF php_pcov_positive_feedback
  <2>1. /\ fed' \in {NoFeedback} \cup [file : Files \cup {NoFile}, code : Code, edge : BOOLEAN]
        /\ FeedbackNamesAFile'
    BY HookFeedback
  <2>2. PcovTypeOK'
    BY <2>1 DEF PhpInv, PcovTypeOK
  <2> QED
    BY <2>1, <2>2
    DEF PhpInv, StackShape, Named, LimitOfPayload, StringsOfOneRun, LimitIsFinal,
        LimitExceeded, Busy
<1>6. CASE php_pcov_redqueen
  <2> USE <1>6 DEF php_pcov_redqueen
  <2>1. StringsOfOneRun' /\ strings' \subseteq Nat
    BY DEF PhpInv, PcovTypeOK, StringsOfOneRun, dump_payload
  <2>2. PcovTypeOK'
    BY <2>1 DEF PhpInv, PcovTypeOK
  <2> QED
    BY <2>1, <2>2
    DEF PhpInv, StackShape, Named, LimitOfPayload, FeedbackNamesAFile, LimitIsFinal,
        LimitExceeded, Busy
<1>7. CASE php_pcov_bug_oracle
  <2> USE <1>7 DEF php_pcov_bug_oracle
  <2>1. /\ fed' \in {NoFeedback} \cup [file : Files \cup {NoFile}, code : Code, edge : BOOLEAN]
        /\ FeedbackNamesAFile'
    BY HookFeedback
  <2>2. PcovTypeOK'
    BY <2>1 DEF PhpInv, PcovTypeOK
  <2> QED
    BY <2>1, <2>2
    DEF PhpInv, StackShape, Named, LimitOfPayload, StringsOfOneRun, LimitIsFinal,
        LimitExceeded, Busy
<1>8. CASE Include
  <2>1. PICK file \in Files, named \in Files \cup {NoFile} :
          /\ cov' = php_pcov_compile_file(named)
          /\ php_pcov_execute_ex(file) \/ UNCHANGED <<stack, mode>>
    BY <1>8 DEF Include
  <2> USE <1>8 DEF Include
  <2>2. cov' \in Context /\ Named(cov)'
    BY <2>1, CompileContext DEF PhpInv, PcovTypeOK, Named
  <2>3. /\ stack' \in Seq(Code) /\ Len(stack') <= MaxDepth
        /\ mode' \in {"op", "handler", "end"}
        /\ StackShape' /\ LimitIsFinal'
    <3>1. CASE php_pcov_execute_ex(file)
      BY <3>1, ExecuteEx DEF Code
    <3>2. CASE UNCHANGED <<stack, mode>>
      BY <3>2 DEF PhpInv, PcovTypeOK, StackShape, LimitIsFinal, LimitExceeded
    <3> QED
      BY <2>1, <3>1, <3>2
  <2>4. PcovTypeOK'
    BY <2>2, <2>3 DEF PhpInv, PcovTypeOK
  <2> QED
    BY <2>2, <2>3, <2>4
    DEF PhpInv, LimitOfPayload, StringsOfOneRun, FeedbackNamesAFile, Busy
<1>9. CASE Call
  <2> USE <1>9 DEF Call
  <2>1. /\ stack' \in Seq(Code) /\ Len(stack') <= MaxDepth
        /\ mode' \in {"op", "handler", "end"}
        /\ StackShape' /\ LimitIsFinal'
    BY ExecuteEx
  <2>2. PcovTypeOK'
    BY <2>1 DEF PhpInv, PcovTypeOK
  <2> QED
    BY <2>1, <2>2
    DEF PhpInv, Named, LimitOfPayload, StringsOfOneRun, FeedbackNamesAFile, Busy
<1>10. CASE zend_vm_call_opcode_handler
  <2> USE <1>10 DEF zend_vm_call_opcode_handler
  <2>1. PcovTypeOK'
    BY DEF PhpInv, PcovTypeOK
  <2> QED
    BY <2>1
    DEF PhpInv, StackShape, Named, LimitOfPayload, StringsOfOneRun, FeedbackNamesAFile,
        LimitIsFinal, LimitExceeded, Busy
<1>11. CASE Bailout
  <2> USE <1>11 DEF Bailout
  <2>1. PcovTypeOK'
    BY DEF PhpInv, PcovTypeOK
  <2> QED
    BY <2>1
    DEF PhpInv, PcovTypeOK, StackShape, Named, LimitOfPayload, StringsOfOneRun,
        FeedbackNamesAFile, LimitIsFinal, LimitExceeded, Busy
<1>12. CASE ShutdownFunction
  <2> USE <1>12 DEF ShutdownFunction
  <2>1. /\ stack' \in Seq(Code) /\ Len(stack') <= MaxDepth
        /\ mode' \in {"op", "handler", "end"}
        /\ StackShape' /\ LimitIsFinal'
    <3>1. stack = <<>> /\ Len(stack) < MaxDepth
      BY DEF PhpInv, StackShape
    <3> QED
      BY <3>1, ExecuteEx
  <2>2. PcovTypeOK'
    BY <2>1 DEF PhpInv, PcovTypeOK
  <2> QED
    BY <2>1, <2>2
    DEF PhpInv, Named, LimitOfPayload, StringsOfOneRun, FeedbackNamesAFile, Busy
<1>13. CASE AfterOpcode
  <2> DEFINE count == IF execution_limit > 0 THEN executed_opcodes + 1 ELSE executed_opcodes
             stop == execution_limit > 0 /\ count > execution_limit
  <2>1. /\ mode \in {"next", "return"}
        /\ executed_opcodes' = count
        /\ tmp' = IF stop THEN tmp \cup {"limit_reached"} ELSE tmp
        /\ cov' = IF stop THEN reset_cov_context ELSE cov
        /\ IF stop \/ mode = "return"
           THEN /\ stack' = SubSeq(stack, 1, Len(stack) - 1)
                /\ mode' = IF Len(stack) = 1 THEN "end" ELSE "handler"
           ELSE mode' = "op" /\ UNCHANGED stack
        /\ fed' = NoFeedback
        /\ UNCHANGED <<hooks, redqueen_mode_enabled, execution_limit, dump_init,
                       limit_file, run, strings>>
    BY <1>13 DEF AfterOpcode
  <2>2. stack \in Seq(Code) /\ Len(stack) \in 1 .. MaxDepth
    BY <2>1 DEF PhpInv, PcovTypeOK, StackShape
  <2>3. /\ SubSeq(stack, 1, Len(stack) - 1) \in Seq(Code)
        /\ Len(SubSeq(stack, 1, Len(stack) - 1)) = Len(stack) - 1
    BY <2>2, Popped
  <2>4. cov' \in Context /\ Named(cov)'
    BY <2>1, ResetContext DEF PhpInv, PcovTypeOK, Named
  <2>5. PcovTypeOK'
    BY <2>1, <2>2, <2>3, <2>4 DEF PhpInv, PcovTypeOK
  <2>6. StackShape'
    BY <2>1, <2>2, <2>3 DEF StackShape
  <2>7. LimitIsFinal'
    BY <2>1, <2>2, <2>3 DEF PhpInv, PcovTypeOK, LimitIsFinal, LimitExceeded
  <2>8. Busy
    BY <2>1 DEF Busy
  <2> QED
    BY <2>1, <2>4, <2>5, <2>6, <2>7, <2>8
    DEF PhpInv, LimitOfPayload, StringsOfOneRun, FeedbackNamesAFile
<1> QED
  BY <1>1, <1>2, <1>3, <1>4, <1>5, <1>6, <1>7, <1>8, <1>9, <1>10, <1>11, <1>12, <1>13 DEF Php

-----------------------------------------------------------------------------
(* The steps of the agent.                                                 *)

(* The VM boots in a state of the invariant. *)
LEMMA InitIInv == Init => IInv
<1> SUFFICES ASSUME Init PROVE IInv
  OBVIOUS
<1> USE PcovConstants, AgentConstants DEF Init
<1>1. /\ hooks \in BOOLEAN /\ redqueen_mode_enabled \in BOOLEAN /\ dump_init \in BOOLEAN
      /\ html_dump_mode \in BOOLEAN /\ crash_log \in BOOLEAN /\ html_dump_init \in BOOLEAN
      /\ fired \in BOOLEAN /\ failed \in BOOLEAN
  OBVIOUS
<1>2. PcovTypeOK
  BY <1>1, ResetContext DEF PcovTypeOK
<1>3. outcome \in [kind : {"none", "crash", "release", "timeout"},
                   fired : BOOLEAN, failed : BOOLEAN]
  OBVIOUS
<1>4. TypeOK
  <2>1. agent = "preload" /\ preload = Files /\ requests = 0 /\ html = {}
    OBVIOUS
  <2> HIDE DEF Init
  <2> QED
    BY <1>1, <1>2, <1>3, <2>1 DEF TypeOK
<1>5. PhpInv
  BY <1>2, ResetContext
  DEF PhpInv, StackShape, LimitOfPayload, StringsOfOneRun, FeedbackNamesAFile, LimitIsFinal,
      LimitExceeded
<1>6. Handshake /\ PagesOfOneRun /\ FiredIsLogged
  BY DEF Handshake, PagesOfOneRun, FiredIsLogged
<1>7. FreshBetweenRuns
  BY DEF FreshBetweenRuns, Fresh, Guest
<1>8. SnapshotFresh
  BY <1>2, <1>5, <1>7
  DEF SnapshotFresh, GuestType, Guest, PhpInv, FreshBetweenRuns, Fresh, PcovTypeOK
<1>9. CrashMeansBug /\ BugIsReported
  BY DEF CrashMeansBug, BugIsReported
<1> QED
  BY <1>4, <1>5, <1>6, <1>7, <1>8, <1>9 DEF IInv

(* The invariant of the interpreter when a step does not concern it. *)
LEMMA PhpUntouched == PhpInv /\ UNCHANGED pcovVars => PhpInv'
  BY DEF pcovVars, phpVars, covVars, PhpInv, PcovTypeOK, StackShape, Named, LimitOfPayload,
         StringsOfOneRun, FeedbackNamesAFile, LimitIsFinal, LimitExceeded

(* A request arrives at the interpreter. *)
LEMMA RequestArrives == PhpInv /\ PHP_RINIT => PhpInv'
<1> SUFFICES ASSUME PhpInv, PHP_RINIT PROVE PhpInv'
  OBVIOUS
<1> USE PcovConstants DEF PHP_RINIT, PhpInv
<1>1. PcovTypeOK'
  BY ResetContext DEF PcovTypeOK
<1>2. LimitOfPayload' /\ LimitIsFinal'
  BY DEF PcovTypeOK, LimitOfPayload, LimitIsFinal, LimitExceeded
<1> QED
  BY <1>1, <1>2, ResetContext DEF StackShape, StringsOfOneRun, FeedbackNamesAFile

(* The end of a run takes the guest back to a fresh snapshot, whatever the *)
(* run has done.                                                           *)
LEMMA RunEnds ==
    ASSUME IInv, NEW kind \in {"crash", "release", "timeout"}, EndRun(kind),
           fired' \in BOOLEAN, failed' \in BOOLEAN,
           html' \subseteq Nat, \A r, s \in html' : r = s,
           kind = "crash" => fired',
           kind = "release" /\ ~failed' => ~fired'
    PROVE  IInv'
<1> USE PcovConstants, AgentConstants
<1>1. /\ snapshot \in GuestType /\ Fresh(snapshot) /\ Named(snapshot.cov)
      /\ snapshot.stack = <<>> /\ snapshot.mode = "idle"
  BY DEF IInv, SnapshotFresh, GuestType
<1>2. Guest' = snapshot
  BY <1>1 DEF EndRun, Restore, Guest, GuestType
<1>3. PcovTypeOK'
  BY <1>1 DEF EndRun, Restore, GuestType, PcovTypeOK, IInv, PhpInv
<1>4. outcome' \in [kind : {"none", "crash", "release", "timeout"},
                    fired : BOOLEAN, failed : BOOLEAN]
  BY DEF EndRun
<1>5. TypeOK'
  <2>1. crash_log' \in BOOLEAN /\ html_dump_init' \in BOOLEAN
    BY <1>1 DEF EndRun, Restore, GuestType
  <2>2. html_dump_mode' \in BOOLEAN
    BY DEF EndRun
  <2>3. agent' = "start" /\ preload' = preload /\ requests' = 0
    BY DEF EndRun
  <2> QED
    BY <1>3, <1>4, <2>1, <2>2, <2>3 DEF TypeOK, IInv
<1>6. PhpInv'
  BY <1>1, <1>3 DEF EndRun, Restore, Fresh, PhpInv, StackShape, LimitOfPayload, StringsOfOneRun,
         FeedbackNamesAFile, LimitIsFinal, LimitExceeded, IInv, Named
<1>7. Handshake' /\ PagesOfOneRun' /\ FiredIsLogged'
  BY <1>1 DEF EndRun, Restore, Fresh, Handshake, PagesOfOneRun, FiredIsLogged
<1>8. FreshBetweenRuns' /\ SnapshotFresh'
  BY <1>1, <1>2 DEF EndRun, FreshBetweenRuns, SnapshotFresh
<1>9. CrashMeansBug' /\ BugIsReported'
  BY DEF EndRun, CrashMeansBug, BugIsReported
<1> QED
  BY <1>5, <1>6, <1>7, <1>8, <1>9 DEF IInv

(* The agent's steps between two runs, and those that give work to the     *)
(* interpreter.                                                            *)
LEMMA AgentPreserves ==
    IInv /\ (\/ PreloadRequest \/ PreloadResponse \/ start_php_interpreter \/ EnableOracles
             \/ nyx_create_snapshot \/ ReadPayload \/ sendRequest)
      => IInv'
<1> USE PcovConstants, AgentConstants DEF IInv
<1>1. ASSUME IInv, PreloadRequest PROVE IInv'
  <2> USE <1>1 DEF PreloadRequest, histVars
  <2>1. PhpInv'
    BY RequestArrives
  <2>2. TypeOK'
    BY <2>1 DEF PhpInv, TypeOK
  <2>3. FreshBetweenRuns'
    BY DEF FreshBetweenRuns, Fresh, Guest, PHP_RINIT, LimitOfPayload, PhpInv
  <2> QED
    BY <2>1, <2>2, <2>3
    DEF PHP_RINIT, Handshake, SnapshotFresh, FiredIsLogged, PagesOfOneRun, CrashMeansBug,
        BugIsReported
<1>2. ASSUME IInv, PreloadResponse PROVE IInv'
  <2> USE <1>2 DEF PreloadResponse, histVars, covVars
  <2>1. PcovTypeOK'
    BY DEF PhpInv, PcovTypeOK
  <2>2. PhpInv'
    BY <2>1 DEF PhpInv, StackShape, Named, LimitOfPayload,
         StringsOfOneRun, FeedbackNamesAFile, LimitIsFinal, LimitExceeded
  <2>3. TypeOK'
    BY <2>1 DEF TypeOK
  <2>4. FreshBetweenRuns'
    BY DEF FreshBetweenRuns, Fresh, Guest
  <2> QED
    BY <2>2, <2>3, <2>4
    DEF Handshake, SnapshotFresh, FiredIsLogged, PagesOfOneRun, CrashMeansBug, BugIsReported
<1>3. ASSUME IInv, start_php_interpreter PROVE IInv'
  <2> USE <1>3 DEF start_php_interpreter, PHP_MINIT, histVars
  <2>0. hooks' \in BOOLEAN /\ redqueen_mode_enabled' \in BOOLEAN /\ dump_init' \in BOOLEAN
    OBVIOUS
  <2>1. PcovTypeOK'
    BY <2>0, ResetContext DEF PhpInv, PcovTypeOK
  <2>2. PhpInv'
    BY <2>1, ResetContext DEF PhpInv, StackShape, LimitOfPayload, FreshBetweenRuns, Fresh, Guest,
         StringsOfOneRun, FeedbackNamesAFile, LimitIsFinal, LimitExceeded
  <2>3. TypeOK'
    BY <2>1 DEF TypeOK
  <2>4. FreshBetweenRuns'
    BY DEF FreshBetweenRuns, Fresh, Guest
  <2> QED
    BY <2>2, <2>3, <2>4
    DEF Handshake, SnapshotFresh, FiredIsLogged, PagesOfOneRun, CrashMeansBug, BugIsReported
<1>4. ASSUME IInv, EnableOracles PROVE IInv'
  <2> USE <1>4 DEF EnableOracles, phpVars, covVars, histVars
  <2>1. PcovTypeOK'
    BY DEF PhpInv, PcovTypeOK
  <2>2. PhpInv'
    BY <2>1 DEF PhpInv, StackShape, Named, LimitOfPayload,
         StringsOfOneRun, FeedbackNamesAFile, LimitIsFinal, LimitExceeded
  <2>3. TypeOK'
    BY <2>1 DEF TypeOK
  <2>4. FreshBetweenRuns'
    BY DEF FreshBetweenRuns, Fresh, Guest
  <2> QED
    BY <2>2, <2>3, <2>4
    DEF Handshake, SnapshotFresh, FiredIsLogged, PagesOfOneRun, CrashMeansBug, BugIsReported
<1>5. ASSUME IInv, nyx_create_snapshot PROVE IInv'
  <2> USE <1>5 DEF nyx_create_snapshot, histVars
  <2>1. PhpInv'
    BY PhpUntouched
  <2>2. TypeOK'
    BY <2>1 DEF PhpInv, TypeOK
  <2> USE DEF pcovVars, phpVars, covVars
  <2>3. SnapshotFresh'
    <3>1. mode = "idle" /\ stack = <<>>
      BY DEF Handshake, PhpInv, StackShape
    <3>2. Guest \in GuestType
      BY <3>1 DEF Guest, GuestType, TypeOK, PcovTypeOK
    <3>3. Fresh(Guest) /\ Named(Guest.cov)
      BY DEF FreshBetweenRuns, PhpInv, Guest
    <3> QED
      BY <3>2, <3>3 DEF SnapshotFresh
  <2>4. FreshBetweenRuns'
    BY DEF FreshBetweenRuns, Fresh, Guest
  <2> QED
    BY <2>1, <2>2, <2>3, <2>4
    DEF Handshake, FiredIsLogged, PagesOfOneRun, CrashMeansBug, BugIsReported
<1>6. ASSUME IInv, ReadPayload PROVE IInv'
  <2>1. PICK limit \in Limits, n \in 0 .. MaxRequests, redqueen \in BOOLEAN, html_dump \in BOOLEAN :
         /\ limit_file' = limit
         /\ tmp' = IF redqueen THEN tmp \cup {"redqueen_mode_enabled"} ELSE tmp
         /\ html_dump_mode' = html_dump
         /\ requests' = n
    BY <1>6 DEF ReadPayload
  <2> USE <1>6 DEF ReadPayload, phpVars, covVars
  <2>2. mode = "idle" /\ Fresh(Guest)
    BY DEF Handshake, FreshBetweenRuns
  <2>3. PcovTypeOK'
    BY <2>1 DEF PhpInv, PcovTypeOK, NoLimitFile
  <2>4. PhpInv'
    BY <2>1, <2>2, <2>3 DEF PhpInv, PcovTypeOK, StackShape, Named, LimitOfPayload, NoLimitFile,
         StringsOfOneRun, FeedbackNamesAFile, LimitIsFinal, LimitExceeded, Fresh, Guest
  <2>5. TypeOK'
    <3>1. fired' \in BOOLEAN /\ failed' \in BOOLEAN
      OBVIOUS
    <3>2. agent' = "send" /\ UNCHANGED <<preload, crash_log, html_dump_init, html, outcome>>
      OBVIOUS
    <3> HIDE DEF ReadPayload
    <3> QED
      BY <2>1, <2>3, <3>1, <3>2 DEF TypeOK
  <2>6. FiredIsLogged' /\ PagesOfOneRun' /\ FreshBetweenRuns'
    BY <2>1, <2>2 DEF FiredIsLogged, PagesOfOneRun, FreshBetweenRuns, Fresh, Guest
  <2> QED
    BY <2>2, <2>4, <2>5, <2>6
    DEF Handshake, SnapshotFresh, CrashMeansBug, BugIsReported
<1>7. ASSUME IInv, sendRequest PROVE IInv'
  <2> USE <1>7 DEF sendRequest, histVars
  <2>1. PhpInv'
    BY RequestArrives
  <2>2. TypeOK'
    BY <2>1 DEF PhpInv, TypeOK
  <2> QED
    BY <2>1, <2>2
    DEF PHP_RINIT, Handshake, SnapshotFresh, FreshBetweenRuns, FiredIsLogged, PagesOfOneRun,
        CrashMeansBug, BugIsReported
<1> QED
  BY <1>1, <1>2, <1>3, <1>4, <1>5, <1>6, <1>7

(* The steps that end a request or a run. *)
LEMMA EndsPreserve ==
    IInv /\ (RequestFailed \/ Timeout \/ Response \/ Finish) => IInv'
<1> USE AgentConstants
<1>1. ASSUME IInv, RequestFailed PROVE IInv'
  <2>1. fired' \in BOOLEAN /\ failed' \in BOOLEAN /\ failed'
    BY <1>1 DEF RequestFailed, IInv, TypeOK
  <2> QED
    BY <1>1, <2>1, RunEnds DEF RequestFailed, IInv, TypeOK, PagesOfOneRun
<1>2. ASSUME IInv, Timeout PROVE IInv'
  BY <1>2, RunEnds DEF Timeout, IInv, TypeOK, PagesOfOneRun, histVars
<1>3. ASSUME IInv, Response PROVE IInv'
  <2>1. PICK bug \in BOOLEAN, page \in BOOLEAN :
         LET log == crash_log \/ bug
             dump == html_dump_mode /\ page
         IN  /\ html' = IF dump THEN nyx_html_dump ELSE html
             /\ fired' = (fired \/ bug)
             /\ UNCHANGED failed
             /\ IF "limit_reached" \in tmp
                THEN EndRun(report_crashes_if_necessary(log))
                ELSE /\ crash_log' = log
                     /\ html_dump_init' = (html_dump_init \/ dump)
                     /\ requests' = requests - 1
                     /\ mode' = "idle"
                     /\ agent' = "send"
                     /\ UNCHANGED <<covVars, stack, fed, tmp, limit_file, run, strings,
                                    preload, html_dump_mode, snapshot, outcome>>
    BY <1>3 DEF Response
  <2> DEFINE log == crash_log \/ bug
             dump == html_dump_mode /\ page
  <2>2. agent = "wait" /\ mode = "response"
    BY <1>3 DEF Response
  <2>3. fired' \in BOOLEAN /\ failed' \in BOOLEAN
    BY <1>3, <2>1 DEF IInv, TypeOK
  <2>4. html' \subseteq Nat /\ \A r, s \in html' : r = s
    BY <1>3, <2>1 DEF IInv, TypeOK, PcovTypeOK, PagesOfOneRun, nyx_html_dump
  <2>5. fired' <=> log \/ "bug_triggered" \in tmp
    BY <1>3, <2>1, <2>2 DEF IInv, FiredIsLogged
  <2>6. CASE "limit_reached" \in tmp
    BY <1>3, <2>1, <2>3, <2>4, <2>5, <2>6, RunEnds DEF report_crashes_if_necessary
  <2>7. CASE "limit_reached" \notin tmp
    <3>1. /\ crash_log' = log
          /\ html_dump_init' = (html_dump_init \/ dump)
          /\ requests' = requests - 1
          /\ mode' = "idle"
          /\ agent' = "send"
          /\ UNCHANGED <<covVars, stack, fed, tmp, limit_file, run, strings,
                         preload, html_dump_mode, snapshot, outcome>>
      BY <2>1, <2>7
    <3>2. PcovTypeOK'
      BY <1>3, <3>1 DEF IInv, PhpInv, PcovTypeOK, covVars
    <3>3. PhpInv'
      BY <1>3, <2>2, <3>1, <3>2 DEF IInv, PhpInv, StackShape, Named, LimitOfPayload,
         StringsOfOneRun, FeedbackNamesAFile, LimitIsFinal, LimitExceeded, covVars
    <3>4. TypeOK'
      <4>1. crash_log' \in BOOLEAN /\ html_dump_init' \in BOOLEAN
        BY <1>3, <3>1 DEF IInv, TypeOK
      <4>2. requests' \in 0 .. MaxRequests
        BY <1>3, <2>2, <3>1 DEF IInv, TypeOK, Handshake
      <4> QED
        BY <1>3, <2>3, <2>4, <3>1, <3>2, <4>1, <4>2 DEF IInv, TypeOK
    <3>5. PagesOfOneRun'
      BY <1>3, <2>1, <2>4, <3>1 DEF IInv, PagesOfOneRun, nyx_html_dump
    <3>6. FiredIsLogged' /\ Handshake' /\ FreshBetweenRuns'
      BY <2>5, <3>1 DEF FiredIsLogged, Handshake, FreshBetweenRuns
    <3> QED
      BY <1>3, <3>1, <3>3, <3>4, <3>5, <3>6
      DEF IInv, SnapshotFresh, CrashMeansBug, BugIsReported
  <2> QED
    BY <2>6, <2>7
<1>4. ASSUME IInv, Finish PROVE IInv'
  <2>1. fired <=> crash_log \/ "bug_triggered" \in tmp
    BY <1>4 DEF Finish, IInv, FiredIsLogged
  <2> QED
    BY <1>4, <2>1, RunEnds DEF Finish, IInv, TypeOK, PagesOfOneRun, histVars,
       report_crashes_if_necessary
<1> QED
  BY <1>1, <1>2, <1>3, <1>4

(* A step of the interpreter keeps what holds of the agent. *)
LEMMA PhpStepPreserves == IInv /\ PhpStep => IInv'
<1> SUFFICES ASSUME IInv, PhpStep PROVE IInv'
  OBVIOUS
<1> USE DEF PhpStep, agentVars, IInv
<1>1. PhpInv' /\ Busy
  BY PhpPreserves
<1>2. agent \in {"preloading", "wait"}
  BY <1>1 DEF Handshake, Busy
<1>3. fired' \in BOOLEAN
  BY DEF TypeOK
<1>4. TypeOK'
  BY <1>1, <1>3 DEF PhpInv, TypeOK
<1>5. Handshake' /\ SnapshotFresh' /\ PagesOfOneRun' /\ CrashMeansBug' /\ BugIsReported'
  BY <1>1 DEF Busy, Handshake, SnapshotFresh, PagesOfOneRun, CrashMeansBug, BugIsReported
<1>6. FiredIsLogged'
  BY <1>1 DEF Busy, FiredIsLogged
<1>7. FreshBetweenRuns'
  <2>1. CASE agent = "wait"
    BY <2>1 DEF FreshBetweenRuns
  <2>2. CASE agent = "preloading"
    <3>1. tmp = {} /\ Fresh(Guest)
      BY <2>2 DEF FreshBetweenRuns
    <3>2. tmp' = {}
      BY <1>1, <3>1 DEF Busy, Fresh, Guest
    <3>3. executed_opcodes' = executed_opcodes /\ dump_init' = dump_init
      BY <1>1, <3>1 DEF Busy, Fresh, Guest
    <3> QED
      BY <1>1, <2>2, <3>1, <3>2, <3>3 DEF Busy, FreshBetweenRuns, Fresh, Guest
  <2> QED
    BY <1>2, <2>1, <2>2
<1> QED
  BY <1>1, <1>4, <1>5, <1>6, <1>7

(* Every step keeps the inductive invariant. *)
LEMMA StepIInv == IInv /\ [Next]_vars => IInv'
<1> SUFFICES ASSUME IInv, [Next]_vars PROVE IInv'
  OBVIOUS
<1>1. CASE UNCHANGED vars
  <2> USE <1>1 DEF vars, agentVars, histVars
  <2>1. PhpInv'
    BY PhpUntouched DEF IInv
  <2>2. UNCHANGED Guest
    BY DEF Guest, pcovVars, phpVars, covVars
  <2>3. TypeOK'
    BY <2>1 DEF IInv, PhpInv, TypeOK
  <2> QED
    BY <2>1, <2>2, <2>3
    DEF IInv, Handshake, SnapshotFresh, FreshBetweenRuns, FiredIsLogged, PagesOfOneRun,
        CrashMeansBug, BugIsReported, pcovVars, phpVars, covVars
<1>2. CASE Next
  BY <1>1, <1>2, AgentPreserves, EndsPreserve, PhpStepPreserves DEF Next, Stopped
<1> QED
  BY <1>1, <1>2

(* The inductive invariant holds in every state of every behaviour. *)
LEMMA IInvInvariant == Spec => []IInv
  BY InitIInv, StepIInv, PTL DEF Spec

-----------------------------------------------------------------------------
(* Every variable keeps its type: in particular the position within a line *)
(* never exceeds MAX_OPCODE_POS, the stack never MaxDepth, and the agent   *)
(* never sends more requests than the payload has.                         *)
THEOREM TypeCorrect == Spec => []TypeOK
  BY IInvInvariant, PTL DEF IInv

(* A run is reported as a crash only for what an oracle saw in this run:   *)
(* the snapshot is taken with empty logs, and every run starts from it.    *)
THEOREM CrashMeansBugInvariant == Spec => []CrashMeansBug
  BY IInvInvariant, PTL DEF IInv

(* A run that ends with all its requests answered, or that the execution   *)
(* limit stops, is never released with a bug that an oracle has found.     *)
THEOREM BugIsReportedInvariant == Spec => []BugIsReported
  BY IInvInvariant, PTL DEF IInv

(* Neither dump on the host ever holds the data of two runs.               *)
THEOREM DumpsOfOneRunInvariant == Spec => []DumpsOfOneRun
<1>1. IInv => DumpsOfOneRun
  BY DEF IInv, PhpInv, StringsOfOneRun, PagesOfOneRun, DumpsOfOneRun
<1> QED
  BY <1>1, IInvInvariant, PTL

(* Feedback is written under the name of some file, although the hooks     *)
(* look at the line number only.  Which code writes it is not said: eval'd *)
(* code may, under the name of a file that it called.                      *)
THEOREM FeedbackNamesAFileInvariant == Spec => []FeedbackNamesAFile
<1>1. IInv => FeedbackNamesAFile
  BY DEF IInv, PhpInv
<1> QED
  BY <1>1, IInvInvariant, PTL

(* Nothing is executed any more once the limit is exceeded, and it is      *)
(* exceeded by no more than the number of nested activations.              *)
THEOREM LimitIsFinalInvariant == Spec => []LimitIsFinal
<1>1. IInv => LimitIsFinal
  BY DEF IInv, PhpInv
<1> QED
  BY <1>1, IInvInvariant, PTL
=============================================================================
