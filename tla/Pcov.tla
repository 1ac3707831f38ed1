-------------------------------- MODULE Pcov --------------------------------
(***************************************************************************)
(* The pcov extension inside the PHP interpreter that runs in the VM       *)
(* (src/pcov-patched/pcov.c): the coverage context it keeps while a        *)
(* request executes, the feedback and the redqueen strings it emits, the   *)
(* bug oracle and the execution limit.                                     *)
(*                                                                         *)
(* Which opcodes a script executes is arbitrary.  The interpreter          *)
(* (src/php-7.4-patched) is modelled by its stack, one entry per           *)
(* activation of execute_ex: the code it executes.  Since pcov replaces    *)
(* zend_execute_ex, every call, include, eval and callback is an           *)
(* activation of its own, nested in the opcode handler that makes it.      *)
(* Bitmap indices are hashes and left out.  Whether feedback is written is *)
(* kept, and which file the context names then, which is what coverage     *)
(* dumps and bug reports say.                                              *)
(***************************************************************************)
EXTENDS Integers, Sequences

CONSTANTS
    Files,              \* paths of the PHP files that exist
    Lines,              \* line numbers of opcodes; 0 for generated ones
    MAX_OPCODE_POS,     \* highest opcode position within a line
    MaxDepth            \* nested activations of execute_ex (a bound on the C stack)

Eval == "eval()'d code"     \* code whose file name realpath cannot resolve
Code == Files \cup {Eval}
NoFile == ""

ASSUME PcovConstants ==
    /\ Eval \notin Files /\ NoFile \notin Files
    /\ Lines \subseteq Nat
    /\ MAX_OPCODE_POS \in Nat \ {0}
    /\ MaxDepth \in Nat \ {0}

VARIABLES
    cov,                    \* the coverage context
    hooks,                  \* custom feedback functions and compile hook installed
    redqueen_mode_enabled,
    execution_limit, executed_opcodes,
    dump_init,              \* _dump_payload's static init
    stack,
    mode,                   \* what the interpreter does next
    fed,                    \* the feedback written by the last step, if any
    tmp,                    \* the flag files in the VM's /tmp
    limit_file,             \* content of /tmp/execution_limit, or NoLimitFile
    run,                    \* number of the run, counted by the host
    strings                 \* the runs whose strings are in the strings dump on the host

covVars == <<cov, hooks, redqueen_mode_enabled, execution_limit, executed_opcodes, dump_init>>
phpVars == <<covVars, stack, mode, fed>>
pcovVars == <<phpVars, tmp, limit_file, run, strings>>

NoLimitFile == -1
NoFeedback == <<>>

-----------------------------------------------------------------------------
(* The context after reset_cov_context. *)
reset_cov_context ==
    [current_filename |-> NoFile, current_relative_filename |-> NoFile,
     current_lineno |-> 0, current_opcode_pos |-> 0]

(* A freshly started interpreter. *)
PHP_MINIT ==
    /\ cov' = reset_cov_context
    /\ hooks' = TRUE
    /\ redqueen_mode_enabled' = FALSE
    /\ execution_limit' = 0
    /\ executed_opcodes' = 0
    /\ dump_init' = FALSE
    /\ stack' = <<>>
    /\ mode' = "idle"
    /\ fed' = NoFeedback

(* A request arrives: the flag files say what to do for it.  The opcode    *)
(* counter goes on, and so does the limit when there is no file.           *)
PHP_RINIT ==
    /\ mode = "idle"
    /\ mode' = "main"
    /\ cov' = reset_cov_context
    /\ hooks' = TRUE
    /\ redqueen_mode_enabled' = ("redqueen_mode_enabled" \in tmp)
    /\ execution_limit' = IF limit_file = NoLimitFile THEN execution_limit ELSE limit_file
    /\ fed' = NoFeedback
    /\ UNCHANGED <<executed_opcodes, dump_init, stack, tmp, limit_file, run, strings>>

(* The request is over. *)
PHP_RSHUTDOWN ==
    /\ mode = "end"
    /\ mode' = "response"
    /\ cov' = reset_cov_context
    /\ hooks' = FALSE
    /\ fed' = NoFeedback
    /\ UNCHANGED <<redqueen_mode_enabled, execution_limit, executed_opcodes, dump_init,
                   stack, tmp, limit_file, run, strings>>

(* The interpreter dies in the middle of a request. *)
PhpCrash ==
    /\ mode \notin {"idle", "response", "dead"}
    /\ mode' = "dead"
    /\ stack' = <<>>
    /\ fed' = NoFeedback
    /\ UNCHANGED <<covVars, tmp, limit_file, run, strings>>

-----------------------------------------------------------------------------
LimitExceeded == execution_limit > 0 /\ executed_opcodes > execution_limit

running == stack[Len(stack)]

(* Mutant: the limit is checked after each opcode only. *)
php_pcov_execute_ex_Unguarded(code) ==
    /\ stack' = Append(stack, code)
    /\ mode' = "op"

(* Entering execute_ex: nothing is executed once the limit is exceeded. *)
php_pcov_execute_ex(code) ==
    IF LimitExceeded
    THEN /\ stack' = stack
         /\ mode' = IF stack = <<>> THEN "end" ELSE "handler"
    ELSE /\ stack' = Append(stack, code)
         /\ mode' = "op"

(* The context after the compile hook saw a file: current_relative_filename *)
(* keeps naming the file that is executing.                                 *)
php_pcov_compile_file(file) ==
    IF file \in Files
    THEN [cov EXCEPT !.current_filename = file]
    ELSE reset_cov_context

(* The requested script is compiled and executed, if it can be compiled. *)
ExecuteScript ==
    /\ mode = "main"
    /\ \E file \in Files :
         /\ cov' = php_pcov_compile_file(file)
         /\ \/ php_pcov_execute_ex(file)
            \/ mode' = "end" /\ UNCHANGED stack
    /\ fed' = NoFeedback
    /\ UNCHANGED <<hooks, redqueen_mode_enabled, execution_limit, executed_opcodes,
                   dump_init, tmp, limit_file, run, strings>>

(* The context once the executing file is looked at: it changes only when  *)
(* both names differ.                                                      *)
Located(code, line) ==
    CASE cov.current_relative_filename = code -> cov
      [] cov.current_relative_filename # code /\ cov.current_filename = code ->
           [cov EXCEPT !.current_relative_filename = code]
      [] OTHER ->
           [current_filename |-> code, current_relative_filename |-> code,
            current_lineno |-> line, current_opcode_pos |-> 0]

(* Mutant: the position within a line is not limited. *)
Advanced_Unlimited(context, line) ==
    [context EXCEPT
       !.current_lineno = line,
       !.current_opcode_pos = IF context.current_lineno = line THEN @ + 1 ELSE 1]

(* One opcode further, on the same line or on another one. *)
Advanced(context, line) ==
    LET pos == IF context.current_lineno = line THEN context.current_opcode_pos ELSE 0 IN
    [context EXCEPT
       !.current_lineno = line,
       !.current_opcode_pos = IF pos < MAX_OPCODE_POS THEN pos + 1 ELSE MAX_OPCODE_POS]

(* Feedback for what code does, under the name that the context holds: an  *)
(* edge, or written by a hook.                                             *)
Feedback(context, code, edge) ==
    [file |-> context.current_filename, code |-> code, edge |-> edge]

(* Mutant: code that cannot be resolved keeps the context it finds. *)
php_pcov_trace_KeepsContext(line, ignored) ==
    LET context == IF running \in Files
                   THEN Advanced(Located(running, line), line)
                   ELSE Advanced(cov, line)
        feeds == ~ignored /\ context.current_lineno > 0
    IN  /\ mode = "op"
        /\ mode' = "handler"
        /\ cov' = IF feeds \/ ignored THEN context ELSE reset_cov_context
        /\ fed' = IF feeds THEN Feedback(context, running, TRUE) ELSE NoFeedback
        /\ UNCHANGED <<hooks, redqueen_mode_enabled, execution_limit, executed_opcodes,
                       dump_init, stack, tmp, limit_file, run, strings>>

(* Before an opcode is handled the context is brought up to date and, for  *)
(* the opcodes that matter, an edge is written to the bitmap.  Eval'd code *)
(* has no file: the context is reset.                                      *)
php_pcov_trace(line, ignored) ==
    LET context == Advanced(Located(running, line), line)
        feeds == running \in Files /\ ~ignored /\ context.current_lineno > 0
    IN  /\ mode = "op"
        /\ mode' = "handler"
        /\ cov' = IF running \in Files /\ (ignored \/ feeds) THEN context ELSE reset_cov_context
        /\ fed' = IF feeds THEN Feedback(context, running, TRUE) ELSE NoFeedback
        /\ UNCHANGED <<hooks, redqueen_mode_enabled, execution_limit, executed_opcodes,
                       dump_init, stack, tmp, limit_file, run, strings>>

-----------------------------------------------------------------------------
(* What the handler of an opcode may do, and the hooks it may call. *)

HandlerUnchanged ==
    /\ UNCHANGED <<hooks, redqueen_mode_enabled, execution_limit, executed_opcodes>>
    /\ UNCHANGED <<limit_file, run>>

(* Feedback on string comparisons, array accesses and the like. *)
php_pcov_positive_feedback ==
    /\ mode = "handler" /\ hooks
    /\ fed' = IF cov.current_lineno > 0 THEN Feedback(cov, running, FALSE) ELSE NoFeedback
    /\ HandlerUnchanged
    /\ UNCHANGED <<cov, dump_init, stack, mode, tmp, strings>>

(* Mutant: the dump file is never truncated. *)
dump_payload_Appends == strings \cup {run}

(* The strings dump after _dump_payload: the first record of an            *)
(* interpreter's life truncates the file, the others are appended.         *)
dump_payload == IF dump_init THEN strings \cup {run} ELSE {run}

(* A string, array key, unmatched pair or regular expression is dumped;    *)
(* longer ones are not.                                                    *)
php_pcov_redqueen ==
    /\ mode = "handler" /\ hooks
    /\ redqueen_mode_enabled
    /\ strings' = dump_payload
    /\ dump_init' = TRUE
    /\ fed' = NoFeedback
    /\ HandlerUnchanged
    /\ UNCHANGED <<cov, stack, mode, tmp>>

(* An error that one of the oracles takes for a bug is logged if the       *)
(* oracles are enabled; any error gives feedback.                          *)
php_pcov_bug_oracle ==
    /\ mode = "handler" /\ hooks
    /\ fed' = IF cov.current_lineno > 0 THEN Feedback(cov, running, FALSE) ELSE NoFeedback
    /\ tmp' = IF "bug_oracle_enabled" \in tmp THEN tmp \cup {"bug_triggered"} ELSE tmp
    /\ HandlerUnchanged
    /\ UNCHANGED <<cov, dump_init, stack, mode, strings>>

(* include and require: the file may be missing or fail to compile, and    *)
(* the compile hook may not be able to resolve the name it was given.      *)
Include ==
    /\ mode = "handler"
    /\ Len(stack) < MaxDepth
    /\ \E file \in Files, named \in Files \cup {NoFile} :
         /\ named \in {file, NoFile}
         /\ cov' = php_pcov_compile_file(named)
         /\ \/ php_pcov_execute_ex(file)
            \/ UNCHANGED <<stack, mode>>
    /\ fed' = NoFeedback
    /\ HandlerUnchanged
    /\ UNCHANGED <<dump_init, tmp, strings>>

(* A call of a PHP function, an eval, or an internal function that calls   *)
(* back.                                                                   *)
Call ==
    /\ mode = "handler"
    /\ Len(stack) < MaxDepth
    /\ \E code \in Code : php_pcov_execute_ex(code)
    /\ fed' = NoFeedback
    /\ HandlerUnchanged
    /\ UNCHANGED <<cov, dump_init, tmp, strings>>

(* The handler ends; it may have returned from the activation. *)
zend_vm_call_opcode_handler ==
    /\ mode = "handler"
    /\ mode' \in {"next", "return"}
    /\ fed' = NoFeedback
    /\ HandlerUnchanged
    /\ UNCHANGED <<cov, dump_init, stack, tmp, strings>>

(* exit, or a fatal error: zend_bailout leaves all activations at once. *)
Bailout ==
    /\ mode = "handler"
    /\ mode' = "end"
    /\ stack' = <<>>
    /\ fed' = NoFeedback
    /\ HandlerUnchanged
    /\ UNCHANGED <<cov, dump_init, tmp, strings>>

(* Shutdown functions and destructors run after the script. *)
ShutdownFunction ==
    /\ mode = "end"
    /\ \E code \in Code : php_pcov_execute_ex(code)
    /\ fed' = NoFeedback
    /\ HandlerUnchanged
    /\ UNCHANGED <<cov, dump_init, tmp, strings>>

(* The loop of execute_ex after an opcode: count it, stop at the limit,    *)
(* leave, or go on.                                                        *)
AfterOpcode ==
    LET count == IF execution_limit > 0 THEN executed_opcodes + 1 ELSE executed_opcodes
        stop == execution_limit > 0 /\ count > execution_limit
    IN  /\ mode \in {"next", "return"}
        /\ executed_opcodes' = count
        /\ tmp' = IF stop THEN tmp \cup {"limit_reached"} ELSE tmp
        /\ cov' = IF stop THEN reset_cov_context ELSE cov
        /\ IF stop \/ mode = "return"
           THEN /\ stack' = SubSeq(stack, 1, Len(stack) - 1)
                /\ mode' = IF Len(stack) = 1 THEN "end" ELSE "handler"
           ELSE mode' = "op" /\ UNCHANGED stack
        /\ fed' = NoFeedback
        /\ UNCHANGED <<hooks, redqueen_mode_enabled, execution_limit, dump_init,
                       limit_file, run, strings>>

Php ==
    \/ PHP_RSHUTDOWN
    \/ PhpCrash
    \/ ExecuteScript
    \/ \E line \in Lines, ignored \in BOOLEAN : php_pcov_trace(line, ignored)
    \/ php_pcov_positive_feedback
    \/ php_pcov_redqueen
    \/ php_pcov_bug_oracle
    \/ Include
    \/ Call
    \/ zend_vm_call_opcode_handler
    \/ Bailout
    \/ ShutdownFunction
    \/ AfterOpcode

-----------------------------------------------------------------------------
Context ==
    [current_filename : Files \cup {NoFile}, current_relative_filename : Files \cup {NoFile},
     current_lineno : Lines \cup {0}, current_opcode_pos : 0 .. MAX_OPCODE_POS]

PcovTypeOK ==
    /\ cov \in Context
    /\ hooks \in BOOLEAN
    /\ redqueen_mode_enabled \in BOOLEAN
    /\ execution_limit \in Nat /\ executed_opcodes \in Nat
    /\ dump_init \in BOOLEAN
    /\ stack \in Seq(Code) /\ Len(stack) <= MaxDepth
    /\ mode \in {"idle", "main", "op", "handler", "next", "return", "end", "response", "dead"}
    /\ fed \in {NoFeedback} \cup [file : Files \cup {NoFile}, code : Code, edge : BOOLEAN]
    /\ tmp \subseteq {"bug_oracle_enabled", "bug_triggered", "redqueen_mode_enabled",
                      "limit_reached"}
    /\ limit_file \in Nat \cup {NoLimitFile}
    /\ run \in Nat
    /\ strings \subseteq Nat
=============================================================================
