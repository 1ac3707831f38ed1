-------------------------------- MODULE Agent --------------------------------
(***************************************************************************)
(* The agent in the VM (src/fuzzer/atropos_agent.nim and nyx.c), driving   *)
(* the PHP interpreter of Pcov: it preloads the application, takes the     *)
(* snapshot, and then serves one payload per run.  Nyx is external: a run  *)
(* ends with a hypercall, which reports a crash or releases the VM, and    *)
(* takes the whole guest back to the snapshot; only what was dumped to the *)
(* host survives.                                                          *)
(***************************************************************************)
EXTENDS Pcov

CONSTANTS
    Limits,         \* EXEC_LIMIT values of payloads
    MaxRequests,    \* longest list of concatenated requests
    MaxRuns         \* number of runs (a bound for TLC)

ASSUME AgentConstants ==
    /\ Limits \subseteq Nat
    /\ MaxRequests \in Nat \ {0}
    /\ MaxRuns \in Nat

VARIABLES
    agent,          \* what the agent does next
    preload,        \* files still to be preloaded
    requests,       \* requests of the payload still to be sent
    html_dump_mode,
    crash_log,      \* does crash_log hold anything?
    html_dump_init, \* nyx_html_dump's static html_dump_init
    html,           \* the runs whose pages are in the html dump on the host
    snapshot,       \* the guest's state at the snapshot (at boot, until it is taken)
    outcome,        \* how the last run ended, as the host sees it
    fired, failed   \* in this run: did an oracle find a bug, did a request fail (history)

agentVars == <<agent, preload, requests, html_dump_mode, crash_log, html_dump_init>>
histVars == <<fired, failed>>
vars == <<pcovVars, agentVars, html, snapshot, outcome, histVars>>

(* What the snapshot covers: the guest's memory and files. *)
Guest ==
    [cov |-> cov, hooks |-> hooks, redqueen_mode_enabled |-> redqueen_mode_enabled,
     execution_limit |-> execution_limit, executed_opcodes |-> executed_opcodes,
     dump_init |-> dump_init, stack |-> stack, mode |-> mode, tmp |-> tmp,
     limit_file |-> limit_file, crash_log |-> crash_log, html_dump_init |-> html_dump_init]

Restore(guest) ==
    /\ cov' = guest.cov
    /\ hooks' = guest.hooks
    /\ redqueen_mode_enabled' = guest.redqueen_mode_enabled
    /\ execution_limit' = guest.execution_limit
    /\ executed_opcodes' = guest.executed_opcodes
    /\ dump_init' = guest.dump_init
    /\ stack' = guest.stack
    /\ mode' = guest.mode
    /\ tmp' = guest.tmp
    /\ limit_file' = guest.limit_file
    /\ crash_log' = guest.crash_log
    /\ html_dump_init' = guest.html_dump_init

Init ==
    /\ cov = reset_cov_context
    /\ hooks = TRUE
    /\ redqueen_mode_enabled = FALSE
    /\ execution_limit = 0
    /\ executed_opcodes = 0
    /\ dump_init = FALSE
    /\ stack = <<>>
    /\ mode = "idle"
    /\ fed = NoFeedback
    /\ tmp = {}
    /\ limit_file = NoLimitFile
    /\ run = 0
    /\ strings = {}
    /\ agent = "preload"
    /\ preload = Files
    /\ requests = 0
    /\ html_dump_mode = FALSE
    /\ crash_log = FALSE
    /\ html_dump_init = FALSE
    /\ html = {}
    /\ snapshot = Guest
    /\ outcome = [kind |-> "none", fired |-> FALSE, failed |-> FALSE]
    /\ fired = FALSE
    /\ failed = FALSE

-----------------------------------------------------------------------------
(* Preloading: one request per PHP file, the oracles active in the         *)
(* interpreter but not yet enabled.                                        *)
PreloadRequest ==
    /\ agent = "preload"
    /\ \E file \in preload : preload' = preload \ {file}
    /\ PHP_RINIT
    /\ agent' = "preloading"
    /\ UNCHANGED <<requests, html_dump_mode, crash_log, html_dump_init, html, snapshot,
                   outcome, histVars>>

PreloadResponse ==
    /\ agent = "preloading"
    /\ mode = "response"
    /\ mode' = "idle"
    /\ agent' = "preload"
    /\ UNCHANGED <<covVars, stack, fed, tmp, limit_file, run, strings, preload, requests,
                   html_dump_mode, crash_log, html_dump_init, html, snapshot, outcome, histVars>>

(* PHP crashed while preloading: it is started again. *)
start_php_interpreter ==
    /\ agent = "preloading"
    /\ mode = "dead"
    /\ PHP_MINIT
    /\ agent' = "preload"
    /\ UNCHANGED <<tmp, limit_file, run, strings, preload, requests,
                   html_dump_mode, crash_log, html_dump_init, html, snapshot, outcome, histVars>>

(* Mutant: the oracles are enabled at once, not after preloading. *)
EnableOracles_Early ==
    /\ agent = "preload"
    /\ tmp' = tmp \cup {"bug_oracle_enabled"}
    /\ agent' = IF preload = {} THEN "snapshot" ELSE "preload"
    /\ UNCHANGED <<phpVars, limit_file, run, strings, preload, requests,
                   html_dump_mode, crash_log, html_dump_init, html, snapshot, outcome, histVars>>

(* "enable bug oracle reporting after cache is loaded" *)
EnableOracles ==
    /\ agent = "preload"
    /\ preload = {}
    /\ tmp' = tmp \cup {"bug_oracle_enabled"}
    /\ agent' = "snapshot"
    /\ UNCHANGED <<phpVars, limit_file, run, strings, preload, requests,
                   html_dump_mode, crash_log, html_dump_init, html, snapshot, outcome, histVars>>

nyx_create_snapshot ==
    /\ agent = "snapshot"
    /\ snapshot' = Guest
    /\ agent' = "start"
    /\ UNCHANGED <<pcovVars, preload, requests, html_dump_mode, crash_log, html_dump_init,
                   html, outcome, histVars>>

-----------------------------------------------------------------------------
(* A payload arrives, possibly an empty one: its config is written to flag *)
(* files.                                                                  *)
ReadPayload ==
    /\ agent = "start"
    /\ run < MaxRuns
    /\ run' = run + 1
    /\ \E limit \in Limits, n \in 0 .. MaxRequests, redqueen, html_dump \in BOOLEAN :
         /\ limit_file' = limit
         /\ tmp' = IF redqueen THEN tmp \cup {"redqueen_mode_enabled"} ELSE tmp
         /\ html_dump_mode' = html_dump
         /\ requests' = n
    /\ agent' = "send"
    /\ fired' = FALSE
    /\ failed' = FALSE
    /\ UNCHANGED <<phpVars, strings, preload, crash_log, html_dump_init, html, snapshot, outcome>>

sendRequest ==
    /\ agent = "send"
    /\ requests > 0
    /\ PHP_RINIT
    /\ agent' = "wait"
    /\ UNCHANGED <<preload, requests, html_dump_mode, crash_log, html_dump_init, html,
                   snapshot, outcome, histVars>>

(* A run ends: the host notes how, and the guest is back at the snapshot. *)
EndRun(kind) ==
    /\ outcome' = [kind |-> kind, fired |-> fired', failed |-> failed']
    /\ agent' = "start"
    /\ Restore(snapshot)
    /\ fed' = NoFeedback
    /\ requests' = 0
    /\ html_dump_mode' = FALSE
    /\ UNCHANGED <<preload, snapshot, run, strings>>

(* No answer from the interpreter: release without looking any further. *)
RequestFailed ==
    /\ agent = "wait"
    /\ mode = "dead"
    /\ failed' = TRUE
    /\ UNCHANGED <<fired, html>>
    /\ EndRun("release")

(* The run takes too long (afl-fuzz -t): Nyx ends it, at any point, also   *)
(* between two records or pages of a dump, and with a bug not reported.    *)
Timeout ==
    /\ agent \in {"send", "wait"}
    /\ UNCHANGED <<html, histVars>>
    /\ EndRun("timeout")

(* Mutant: only the agent's own oracles are looked at. *)
report_crashes_if_necessary_LogOnly(log) == IF log THEN "crash" ELSE "release"

(* How a run ends for a given crash_log: a report does not return. *)
report_crashes_if_necessary(log) ==
    IF log \/ "bug_triggered" \in tmp THEN "crash" ELSE "release"

(* The html dump after a page was dumped. *)
nyx_html_dump == IF html_dump_init THEN html \cup {run} ELSE {run}

(* An answer: the agent's own oracles look at the page and at crash.php,   *)
(* the page is dumped if it is not empty, and the limit ends the run.      *)
Response ==
    /\ agent = "wait"
    /\ mode = "response"
    /\ \E bug, page \in BOOLEAN :
         LET log == crash_log \/ bug
             dump == html_dump_mode /\ page
         IN  /\ html' = IF dump THEN nyx_html_dump ELSE html
             /\ fired' = (fired \/ bug)
             /\ UNCHANGED failed
             /\ IF "limit_reached" \in tmp
                THEN EndRun(report_crashes_if_necessary(log))
                ELSE /\ crash_log' = log
                     /\ html_dump_init' = (html_dump_init \/ dump)
                     /\ requests' = requests - 1
                     /\ mode' = "idle"
                     /\ agent' = "send"
                     /\ UNCHANGED <<covVars, stack, fed, tmp, limit_file, run, strings,
                                    preload, html_dump_mode, snapshot, outcome>>

(* All requests are answered. *)
Finish ==
    /\ agent = "send"
    /\ requests = 0
    /\ UNCHANGED <<html, histVars>>
    /\ EndRun(report_crashes_if_necessary(crash_log))

(* A step of the interpreter, while the agent waits for it. *)
PhpStep ==
    /\ Php
    /\ fired' = (fired \/ ("bug_triggered" \in tmp' \ tmp))
    /\ UNCHANGED <<agentVars, html, snapshot, outcome, failed>>

(* The host has no more payloads: a bound, not a state of the system. *)
Stopped ==
    /\ agent = "start"
    /\ run = MaxRuns
    /\ UNCHANGED vars

Next ==
    \/ PreloadRequest
    \/ PreloadResponse
    \/ start_php_interpreter
    \/ EnableOracles
    \/ nyx_create_snapshot
    \/ ReadPayload
    \/ sendRequest
    \/ RequestFailed
    \/ Timeout
    \/ Response
    \/ Finish
    \/ PhpStep
    \/ Stopped

Spec == Init /\ [][Next]_vars

-----------------------------------------------------------------------------
TypeOK ==
    /\ PcovTypeOK
    /\ agent \in {"preload", "preloading", "snapshot", "start", "send", "wait"}
    /\ preload \subseteq Files
    /\ requests \in 0 .. MaxRequests
    /\ html_dump_mode \in BOOLEAN
    /\ crash_log \in BOOLEAN
    /\ html_dump_init \in BOOLEAN
    /\ html \subseteq Nat
    /\ outcome \in [kind : {"none", "crash", "release", "timeout"}, fired : BOOLEAN, failed : BOOLEAN]
    /\ fired \in BOOLEAN /\ failed \in BOOLEAN

(* A crash is reported only for what the run itself did: whatever the      *)
(* oracles saw while the application was preloaded is forgotten, or every  *)
(* run from that snapshot would be a crash.                                *)
CrashMeansBug == outcome.kind = "crash" => outcome.fired

(* A bug that an oracle found is reported, however the run ends (last      *)
(* request answered, or stopped by the execution limit), unless the        *)
(* interpreter died or the run timed out: then the log is lost with the VM. *)
BugIsReported ==
    outcome.kind = "release" /\ ~outcome.failed => ~outcome.fired

(* A dump on the host never mixes the data of two runs, although each      *)
(* record and each page is appended: the statics that decide about         *)
(* truncation are back at their snapshot values in every run.              *)
DumpsOfOneRun ==
    /\ \A r, s \in strings : r = s
    /\ \A r, s \in html : r = s

(* Whenever feedback is written the context names a file: after a reset    *)
(* (unresolvable code, a missing include, the end of a request, the limit) *)
(* there is none until an opcode of a file has been executed again,        *)
(* although the hooks look at the line number only.  The code that writes  *)
(* the feedback need not be of that file, nor of any (see NoEvalFeedback). *)
FeedbackNamesAFile == fed # NoFeedback => fed.file \in Files

(* Once the execution limit is exceeded no opcode is executed any more, on *)
(* no level of nested calls, by no callback and in no later request, and   *)
(* what the nested activations still count while they return exceeds the   *)
(* limit by no more than their number.                                     *)
LimitIsFinal ==
    LimitExceeded =>
      /\ mode # "op"
      /\ executed_opcodes + Len(stack) <= execution_limit + MaxDepth

(* Code without a file, such as eval'd code, gives no feedback.            *)
(* (Not what the code does: a callback into a file leaves its context.)    *)
NoEvalFeedback == fed # NoFeedback => fed.code \in Files
=============================================================================
