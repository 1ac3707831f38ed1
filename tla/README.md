# A TLA+ development of Atropos

Atropos fuzzes PHP web applications. A custom mutator for AFL++ (Python, on the
host) makes up requests; an agent (Nim, in a Nyx virtual machine) sends them to a
PHP interpreter over FastCGI; a patched pcov extension in that interpreter writes
coverage and other feedback, dumps the strings that the application compares
(redqueen) and detects bugs; after each run Nyx takes the VM back to a snapshot.

This directory holds TLA+ modules for these parts, TLC runs on small instances,
and TLAPS proofs. `PROJECT.json` maps each definition to the lines it models.

## Inventory

| Part | State | Operations | Interacts with |
| --- | --- | --- | --- |
| Input editing (`atropos_fuzzer.py`, `misc.py`) | an input: per method GET, POST, COOKIE, SERVER a dict of variables | set_input, delete_input_key, the four fuzz operations, merge, the three trim operations | called by fuzz() and trim(); read by input_to_env |
| Trimming (`init_trim`, `trim`, `post_trim`) | last successful and current candidate, counter, number of attempts, trimming mode, first_trim, input_key_map | one handler each | AFL++'s trim stage; trimming mode is read by post_process |
| Scheduling (`queue_get`, `fuzz`, `post_process`, `queue_new_entry`) | current seed and call counter, dump-done flags, initialized files, todo lists, redqueen maps, known queue files | one handler each | AFL++; the agent through the payload's config; the agent's dumps through files in the work directory |
| Agent (`atropos_agent.nim`, `nyx.c`) | crash log, config of the payload, statics of the dumps, flag files in /tmp | preload, snapshot, read payload, send request, look at the answer, report or release | PHP over FastCGI, pcov through flag files, the host through hypercalls |
| pcov (`pcov.c`) | coverage context, mode flags, execution limit and counter, static of the dump | MINIT, RINIT, RSHUTDOWN, compile hook, execute_ex, trace, the feedback hooks, bug oracle | the interpreter's hooks, flag files, the bitmap, the host |
| AFL++, Nyx | queue; snapshot | external | drive everything above |
| pcov's trace and its API (`pcov.c`) | linked trace in an arena, tables of files, discovered lines and waiting files | start, stop, clear, collect, waiting | PHP code; the compile hook and execute_ex fill it |
| Redqueen file (`pcov.c`, `misc.py`) | bytes of the dump; position and results of the parser | the record writers, parse_redqueen_file | pcov in the VM, the mutator on the host |
| Requests (`input_to_env`) | none | a function from an input to CGI variables | input editing, the agent |
| Dictionary (`get_from_dictionary`) | strings of the source, of the entry's dumps, and per file | filled by apply_redqueen_dump, html dumps and post_trim, cleared by queue_get; looked up | fuzz() |
| Byte mutations (`mutate`) | a value | eight methods | fuzz(); the dictionary |
| Parallel instances (`parallel_fuzz.py`) | a shared dump directory | start | several mutators and agents |
| Coverage generator (`cov_generator.py`) | its round, .cov files, the coverage dump | glob, skip, run, trim, write, remove, sleep | the queue of a running afl-fuzz; a VM of its own |
| HTML parsing (`html_parse.py`) | none | a parser on top of BeautifulSoup | fuzz() |
| Tooling, evaluation | none | offline scripts | not modelled |

What is hard here:

- *Protocol of callbacks.* The mutator is a set of handlers around global
  variables. AFL++ decides the order: entries are left at any point, buffers are
  run again, the trim stage may announce zero steps.
- *Files as messages.* A dump appears some time after it was asked for, or never,
  and is found by whichever call of fuzz() looks next.
- *Snapshots.* Everything in the guest is reset after a run, statics included,
  while dumped files stay on the host.
- *Reentrancy.* With pcov's execute_ex installed, every call, include and eval
  nests another activation inside an opcode handler; the one coverage context is
  shared by all of them.
- *Failures.* The interpreter dies during preloading or in a run; a run hangs or times
  out between two hypercalls; the execution limit stops a run half way; a file cannot be
  moved or created; the coverage generator is killed, or ends with an exception, and is
  started again.
- *Sharing.* Fuzzers on one directory look for, read and move files while other VMs
  write to it; the coverage generator reads queue files that are being written, or removed
  to be written again.
- *Encodings.* Lengths are written unsigned and read signed; a length read wrong makes
  contents look like records.

What makes the parts correct: an input stays one that PHP reads the way it was
written; trimming only shrinks and ends; a dump is requested once and used for
the entry it belongs to, by the fuzzer that asked; the parser stays in step with the
writer; the strings that are kept can be drawn and no others; plans made by one call are
carried out by later ones; a body is sent with a method that has one; collect misses
nothing that was recorded; coverage files hold their own entry's coverage; bugs are
reported if and only if the run had one; dumps do not mix runs; the limit is final;
feedback is written under the name of a file.

## Modules

| Module | Models | Extends |
| --- | --- | --- |
| `InputDict` | one input and every edit of it | |
| `Trim` | the three trimming handlers | |
| `TrimStage` | AFL++'s trim stage driving them | `Trim` |
| `TrimStage_proofs` | theorems about `TrimStage` | `TrimStage` |
| `Mutator` | scheduling core, AFL++'s visits and trim stage | `Trim` |
| `Pcov` | the pcov extension in the interpreter | |
| `Agent` | the agent, its interpreter and Nyx's snapshots | `Pcov` |
| `RedqueenFile` | bytes of the strings dump, writer and parser | |
| `DumpRequest` | abstract: what a mutator is promised about its dumps | |
| `Parallel` | fuzzers that share a dump directory; implements `DumpRequest` | |
| `CovGenerator` | the coverage generator and pcov's coverage dump | |
| `PcovCollect` | pcov's trace and the functions that read it | |
| `Request` | input_to_env | `InputDict` |
| `Dictionary` | the strings to draw from | |
| `Request_proofs` | theorems about `InputDict` and `Request` | `Request` |
| `Coverage_proofs` | theorems about `CovGenerator` and `PcovCollect` | both |
| `Agent_proofs`, `Dictionary_proofs`, `Mutator_proofs`, `Parallel_proofs`, `RedqueenFile_proofs` | theorems about the module they are named after | that module |
| `MC*` | constants for TLC | the module they are named after |

`MCRequest` is also the instance of `InputDict`, which `Request` extends.

Definitions ending in `_<Word>` and commented as mutants are wrong variants of the
definition that follows them; no specification uses them. They show that each
property fails when the code is changed in that way.

### InputDict

`inp` is the input; `merge` holds what a running merge loop still has to set. A
name is the sequence of its segments between `[`, because the code only cuts names
at `[` and compares prefixes up to one. A value is its length. Random choices are
existential quantifiers; a method tried "in random order until one matches" is any
matching method. What mutate(), get_base() and the dictionary return is arbitrary.
The SERVER whitelist is the set `ServerNames` of accepted first segments.

`NoShadowing` says that no variable is present together with the array it is
*directly* an element of. The code makes no stronger promise: `a` and `a[i][j]` may
coexist, since delete_input_key cuts a name at its last `[` only. `ServerWhitelisted`
covers UPLOAD, which writes past set_input. `TrimShrinks` is an action property of
the trimming operations, with the upload variables as the delicate case.

### Trim and TrimStage

A test case is a list of requests, a request its file and its set of variables. The
handlers are actions' bodies; `TrimStage` adds AFL++'s loop (`stage`), the queue
entry it keeps and two history variables. A buffer is written as the list that
convert_input reads from it; `NotAList` is what it makes of anything else, such as
the bare dict that trim() returns for a request without variables. `StageShortens` is an
action property: what `Remaining` counts, the calls that the stage still has to make,
gets less with every one of them. `TrimStageEnds` is its consequence if AFL++ goes on.

### Mutator

`stage` is AFL++'s position: between entries, visiting one, running a buffer of
fuzz() or a trim candidate, judging it. fuzz() is split by its returns, in the order
the code tries them: `FuzzUnchanged`, `FuzzRedqueen`, then (after reading an html
dump) `FuzzInitialize`, `FuzzGlobalTodo`, `FuzzSingleTodo`, `FuzzConcatTodo`,
`FuzzMutate`. Every returned buffer goes through `Encoded`, since a pickle above
max_size is replaced by the default input. Dump files and redqueen maps are
represented by the entry they come from. `Execute` is one run: it writes the dumps
its config asks for, or not, if it hangs or logs nothing. `global_todo_already_added`
and the shapes of suggestions are kept; which variables a form has is arbitrary. The
code hashes a suggestion without its shape, so the shapes after "single" are only
reached by inputs drawn at random: the model allows any shape for any new input.

`Moved` is the file after `mv`, whose result the code ignores; `RqDirExists` says whether
the directory it moves to exists, and is TRUE in the runs (see the disagreements below).
`RedqueenRequested` names the one state in which the announced dump is not requested.
`PlanInOrder` is about the plan that one call of fuzz() makes for later ones: it names the
steps that may change it.

Assumed of AFL++: it announces every entry to queue_new_entry, calls queue_get before
fuzz, and trims an entry at most once.

### Pcov and Agent

The interpreter's state is its `stack` of execute_ex activations, each the code it
executes: a file or `Eval`, which stands for every op array whose name realpath does
not resolve. Within an opcode's handler the hooks, includes and calls may happen any
number of times in any order; then the handler ends (`zend_vm_call_opcode_handler`) and
the loop of execute_ex goes on (`AfterOpcode`). exit and fatal errors leave all
activations (`Bailout`), shutdown functions and destructors enter new ones. `fed` is
the feedback written by the last step. An error that is no bug gives the feedback of
`php_pcov_positive_feedback`; `php_pcov_bug_oracle` is one that is. The coverage dump
mode only makes ignored opcodes count as others, which `ignored` covers.

`Agent` adds the agent's position, the flag files, the crash log, and the snapshot:
`EndRun` restores the guest from it. `strings` and `html` are the dump files on the
host, as the set of runs whose data they hold. An empty payload is one without
requests: both are released at once. `Timeout` ends a run at any point after the snapshot
(afl-fuzz is started with `-t 5000`).

### RedqueenFile

The only module that keeps bytes: a byte has `BYTE` values, a length two bytes, so that
with six values lengths up to 35 can be written and up to 17 can be read without a sign.
`dump_payload` may time out between truncating the file and appending to it. The parser
is one step per record; a record that does not fit, the end of the file and an unknown
type end it. The ASSUME is the relation of the code's constants that makes it work: twice
the limit of 1000 is less than 2^16.

### Parallel and DumpRequest

Per core, the position of the mutator between looking for a dump, reading it and moving
it, and the two hypercalls of a dump. File contents are the requests whose data they hold.
`Move` leaves the file where it is if there is no /dev/shm/rq (`RqDirExists`): the code
ignores the result of mv. `DumpRequest` says that a mutator reads what one of its own runs
dumped, the latest that dumped anything, and each dump once if a dump that was read is put
away (`ReadOnce`); otherwise it may read the same dump again until the next one replaces it.
`StringsRequest` maps `Parallel` to it: `ReadOnce` is `RqDirExists`, `Pending` is the run in
progress if it was asked for strings, `Offered` is the content of strings_<core>, less what
was read and is about to be moved, `Used` what was read last. Under the same mapping the html dumps
implement `DumpRequest` only if there is one fuzzer (a theorem, below): they are named
after a core that is sent with redqueen requests only (`parallel_html`).

### CovGenerator

`queue` is afl-fuzz's directory: a file exists before it is complete, and an incomplete
pickle loads as the default input (`inp`). An entry that trimming has shortened
(`Shortened`) is removed and written again, once. This is AFL++, which is not under `src/`
and modelled as external. The generator ends (`pc = "ended"`) at the two places where it
opens a file and nobody catches the exception: an entry that was removed after it was
listed (`cov_generator.py:57`), and the .cov file if there is no /dev/shm/rq (`:78`,
`RqDirExists`). `Kill` stands for a kill and for such an end, each followed by another
start; `kills` counts the starts. Opening, writing and removing are steps, so that it
happens between any two of them. Whether php_pcov_trace dumps a line is a
nondeterministic choice: it reads an uninitialised pointer. `visited` and `run` identify the
lines and the run that records belong to. `CovIsFinal` excepts a file that is empty: it may
be the one that was just opened. `EntryIsRetried` excepts a generator that has ended:
nothing starts it again.

### PcovCollect

`cell` is the arena by address; clear and RINIT start again at address 1, which is the worst
case for the comparison of `last` with `next`. PCG(next) points to the link of the last
record and is written as that record's address. `recorded` and `fresh` are history: what ran
while recording was on, since the trace was cleared, and whether any of it is new since the
last collect. Recording is on from MINIT to `\pcov\stop`, and again from `\pcov\start`;
what runs while it is off leaves no trace, so the properties are about what was recorded
and not about all that was executed. A file's discoverable lines are constant.
`\pcov\waiting` only reads `waiting`, which collect does not empty. The loop
of php_pcov_report, which follows the links, is one step: the records that it meets are
`Walked`, the least set that holds the first one and is closed under the links. That its
links lead forward, so that the loop ends, is a part of `ListIsTrace`.

### Request and Dictionary

`Request` evaluates input_to_env on the states of `InputDict`, so its properties are about
inputs that edits really produce. A CGI variable is the place its value comes from and
its length; one value stands for "GET". An instance may leave out methods: their
variables are then none.

`Dictionary` keeps each list as a set. `learned` is history: the strings read since
queue_get and since the last strings dump, that dump included. It starts anew with a strings
dump because the code does: apply_redqueen_dump replaces the maps, and what a page had added
earlier in the same visit is lost (see the disagreements below). And it holds whatever was
*read* in the visit: a dump that an earlier visit asked for and left unread is read in
this one, which neither the code nor the property tells apart. `choose_from` follows the code
in which list it looks at before it drops one. The result of a lookup is the set of what it
can return.

## Runs

| Run | Shows | Bounds |
| --- | --- | --- |
| `request` | TypeOK, NoShadowing, ServerWhitelisted, TrimShrinks of `InputDict`; BodyIsRead | a name, its element and that one's element, two upload variables, REQUEST_METHOD; values of length 0 and 1; POST and SERVER; two seeds to merge |
| `trim_stage` | TypeOK, TrimOnlyShrinks, LearnedFromSeeds, StageInTrimmingMode, StageShortens, TrimStageEnds | two files, one variable, lists of two, two attempts per variable |
| `mutator_queue` | TypeOK, DumpOncePerVisit, RedqueenRequested, PlanInOrder, ListsBounded | two entries, two files, one variable, five calls per visit, dumps at calls 2 and 3 |
| `mutator_html` | TodoBounded, AllFilesInitialized | one entry, a form that targets the other file, a limit of two |
| `agent` | TypeOK, CrashMeansBug, BugIsReported, DumpsOfOneRun, FeedbackNamesAFile, LimitIsFinal | two files and eval'd code, lines 0 and 1, nesting of two, limits 0 and 2, two requests per payload, two runs |
| `agent_eval` | NoEvalFeedback fails | as above, one run of one request |
| `redqueen_file` | TypeOK, InStep, ParsesAll, LearnsWhatWasDumped | contents of 0, 1, 7 (the limit), 8 and 18 bytes (read as negative), three records, two runs |
| `parallel` | TypeOK, SeenIsReadable, StringsAsRequested | two cores, two requests each, two records per run; /dev/shm/rq exists |
| `parallel_html` | PagesOfOwnRun fails | as `parallel`, without /dev/shm/rq |
| `cov_generator` | CovOfOneRun, CovOfItsEntry, CovIsFinal, EntryIsRetried | three entries, one an installer's, one rewritten after a trim, two runs, one restart; /dev/shm/rq exists |
| `pcov_collect` | CollectTypeOK, ListIsTrace, CollectComplete | one file in the directory and one outside, two lines, an arena of four records |
| `dictionary` | NothingOutOfReach, OnlyWhatIsKnown | three strings, two files, one string of each kind per dump |

Why the bounds are enough: the constants that the code compares with (calls before a
dump, list and todo limits, the execution limit, attempts per variable) are kept as
constants and made small, so that every comparison goes both ways within a few steps.
Two entries, two runs, two files and two levels of nesting are what it takes for
state of one to reach another. Five calls per visit reach two calls past both dumps.
`MaxExecutions`, `MaxRuns`, `MaxDepth`, `MaxRequests`, `Seeds` are bounds of the models and
not of the code.

`RqDirExists` is a fact about the machine: nothing in the repository creates /dev/shm/rq.
The runs have it exist where what they ask is of interest only then; the theorems of
`Parallel_proofs` and `Coverage_proofs` cover both cases, and TLC agrees on these instances
without the directory as well.

The two failing runs show disagreements between the code and its own comments or
declarations; `PROJECT.json` quotes them under "findings":

1. Eval'd code gives feedback through the hooks after a nested call has returned
   (`agent_eval`).
2. All fuzzers dump pages to html_0; the mutator on core 0 reads the pages of the others
   (`parallel_html`).

Further disagreements were met while modelling. The modules contain the behaviour; no
property claims the contrary:

- a successful trim that dropped a request is not remembered: current_trimmed_input is
  only assigned at `atropos_fuzzer.py:938`, so that post_trim adopts the candidate of an
  earlier call (`TrimOnlyShrinks` shows that it is still a reduction of the entry);
- an entry without variables leaves trimming mode on (`:873`, `:882`), so that the redqueen
  dump that fuzz() announces next is not requested: the exception in `RedqueenRequested`;
- a strings dump left behind by one entry is applied to the next (`:670`), since queue_get
  clears the maps and not the file; `OnlyWhatIsKnown` counts its strings as read in the
  visit that reads them;
- a strings dump replaces redqueen_map and redqueen_key_map (`:633`), so that a page read
  earlier in the same visit is forgotten, although it may name what the entry could send:
  `NothingOutOfReach` only speaks of what was read since;
- without /dev/shm/rq, which nothing creates, the strings dump stays (`:673`) and fuzz()
  returns entries unchanged for ever: with `RqDirExists = FALSE` AllFilesInitialized fails,
  and StringsAsRequested allows a dump to be read again;
- without /dev/shm/rq the coverage generator ends at its first dump (`cov_generator.py:78`),
  and it ends when an entry that it has listed is removed before it is read (`:57`);
- after an include that does not compile, coverage records and bug reports name the
  included file (`pcov.c:916` and `:620`);
- whether a line is in the coverage dump depends on an uninitialised pointer (`pcov.c:660`);
- pcov records from MINIT on (`pcov.c:1053`, "already enable the module"), while
  `tests/001.phpt` (also 002, 005 and 007) expects the line of `\pcov\start` itself not to be
  covered: `CollectComplete` says that collect reports what was recorded, and so that
  it reports this line. Files that were collected stay in the list that pcov's README
  (51-54) describes as "waiting to be collected", as `ListIsTrace` says;
- the SERVER blacklist is not applied (`misc.py:255`): HTTP_COOKIE replaces the COOKIE
  variables; and an empty REQUEST_URI replaces the default computed for it (`misc.py:257`).

## Fairness

`TrimStageEnds` needs weak fairness of AFL++'s two trim steps: afl-fuzz is one
sequential loop and a run ends by a timeout at the latest. Nothing is assumed about
verdicts. `EntryIsRetried` needs weak fairness of the coverage generator's loop: it is one
process, and nyx_exec returns after 150 seconds at the latest. A generator that has ended
has no step of this loop to take, and the property says nothing of it; nothing is assumed
about what runs dump, about afl-fuzz, which may leave an entry half-written or removed, or
about anyone starting the generator again. `AllFilesInitialized` needs no fairness of the specification: it states as its premise that
AFL++ keeps starting visits and that visits longer than the dump calls keep happening,
which is up to AFL++'s energy assignment. The agent runs check no liveness: whether a PHP script
ends is up to the application.

## Proofs

The proof modules prove their theorems for all values of the constants that satisfy the
named assumptions: TLC's bounds (numbers of runs, requests, files, strings) are arbitrary
natural numbers there. For each specification there is one inductive invariant `IInv`
(`CollectIInv` for `PcovCollect`), a conjunction of named parts; `Init => IInv`, one lemma or step per action for `IInv /\ [Next]_vars => IInv'`,
and the theorems are its consequences. Every `IInv` was also model-checked on the
instances of the runs.

`Request_proofs`, about `InputDict` and `Request` (assumptions: names are non-empty
sequences of strings, SERVER is not among the plain methods, upload variables are
whitelisted plain names, the value lengths are downward closed, seeds are well-formed
inputs, "GET" is one of the values). The inductive invariant is
TypeOK, NoShadowing and ServerWhitelisted together: that set_input keeps a dict free of
shadowing needs the name to be a key of its type, and UPLOAD keeps it because SERVER
names are `[`-free, which is ServerWhitelisted. Lemmas say what delete_input_key and
set_input do to domain, values and shadowing; then there is one step per operation.
`TrimShrinksAlways` follows from the same invariant, step by step. `BodyIsReadInvariant`
needs no invariant: it holds of every input, because the method is settled last and
settling it changes nothing but the method.

`TrimStage_proofs` (assumptions: finitely many variables, a well-formed default input, a
positive number of attempts, lists of at least one request). The inductive invariant
adds `OriginalSeen` to TypeOK, TrimOnlyShrinks, LearnedFromSeeds and StageInTrimmingMode:
the variables of the entry that was given to init_trim are among those seen, which
together with TrimOnlyShrinks bounds what post_trim may learn. That `Within` (reduction
of test cases) is reflexive and transitive are the two lemmas it rests on.
`StageShortensAlways` is the safety part of the argument that the stage ends: whatever the
verdicts, every call leaves fewer to be made, because post_trim counts each attempt and
StageInTrimmingMode says that some are left. What TLC adds in `TrimStageEnds` is fairness.

`Mutator_proofs` (further assumptions: finitely many files, of which the forms consist,
at least two executions before the dump, test cases of up to at least two requests).
The invariant has four groups. `DataInv`: types, the bounds on lists, also on those the
trimming handlers keep, and that the entry being visited exists. `DumpInv`: trimming mode
is on throughout the trim stage and afterwards only where nothing was announced
(`TrimmingMode`), and the number of runs that asked for a dump is tied to
current_executions and the `_done` flags (`RequestedOnce`); DumpOncePerVisit alone is not
inductive, since nothing in it says that the counter has passed the point at which the
dump is due. `ConcatPlan`, that what is left to be tried on its own is a proper prefix
of the planned concatenation, is inductive given DataInv; `PlanInOrderAlways` follows
from it, step by step: the part that FuzzSingleTodo takes off its own list is the next
one of the whole, since the list is a prefix of it. `TodoInv` adds that the list is
finite, without which its cardinality says nothing.

`Agent_proofs` (limits are natural numbers, a payload has at least one request). `PhpInv`
is about the interpreter with pcov and is proved for every step of `Pcov` on its own: the
stack is empty exactly outside of execute_ex, a context with a line number names a file
(`Named`, which gives FeedbackNamesAFile: some file is named, which need not be the one
whose code writes the feedback), the strings in the file are of this run once
the static says that it was truncated. The rest is about the agent: the interpreter is
busy exactly while the agent waits for it, the snapshot and the state between runs are
`Fresh` (empty logs, cleared statics), and what an oracle saw in this run is in a log
(`FiredIsLogged`). CrashMeansBug needs Fresh, BugIsReported needs FiredIsLogged, and
LimitIsFinal needs the stack shape, since what the nested activations still count as they
return is bounded by their number.

`RedqueenFile_proofs` (twice MAX_PAYLOAD is less than BYTE squared, at least one run). `Layout` says
that the file is the dumped records one after the other, each at the position that
`bounds` notes; `ReadSoFar` that the parser has read a prefix of them and stands at the
next. The key lemma, `Uint16`, is that a length within MAX_PAYLOAD survives being split
into two bytes and read back as a signed number; were the limit any larger, a length
would be read as a negative number. `Learned` relates the parser's results to
the records read so far.

`Parallel_proofs` (core 0 exists). Besides TypeOK and SeenIsReadable the invariant says
that a run is asked for at most one dump and that, once its VM has truncated a core's
dump, only this run has written to it (`OwnDumps`). The latter is claimed of the kinds of
dumps in `Own`: the strings, and the pages if 0 is the only core. For these kinds the
refinement of `DumpRequest` is proved once, with the kind as a parameter (`Dumps`): the
initial states map to initial states and every action to an action of `DumpRequest` or a
stutter, one step per action, for both values of `RqDirExists`. `StringsAsRequestedTheorem` is the instance for the strings and
any set of cores, `PagesAsRequestedTheorem` the one for the pages of a single fuzzer (TLC
agrees for four requests of three pages). For more than one fuzzer it is false (run
`parallel_html`).

`Dictionary_proofs` (the strings of the source are strings). `LearnedIsHeld`: what was
read since the last strings dump of the visit is what the maps hold; `NoMapNoDump`: get_from_dictionary may take an empty
redqueen_map for no dump; `KeysAreStrings`: a key that worked for a file is among its
strings, which is why hiding it does no harm.

`Coverage_proofs`, about `CovGenerator` (the default input is not a queue entry). The
invariant ties the static `cov_init` to the run whose records the dump holds
(`DumpOfThisRun`), so that the first record of a run truncates what a generator that died
left; until it is started again no dump outlives its entry (`DumpOfItsEntry`). `CovIsFinalAlways`
needs two of its parts: an entry is run only for want of its .cov file, and what is about
to be written goes into a file that was just opened (`WrittenOnce`).

`Coverage_proofs`, about `PcovCollect` (the directory's files are files, every file has a
set of discoverable lines; any size of the arena). `ListShape`: the records lie one after
the other, each linked to the next, and PCG(next) is the last one, so that addresses
grow with every record until clear resets PCG(last) with them. `AllReached`: every set
that is closed under the links holds all records in use. It stands for the induction
along the list that the provers cannot do: it is kept by php_pcov_create because a set
that is closed now, without the new record, was closed before, and the link of the last
record leads to the new one. `WalkedIsUsed` follows, and with `TraceInArena` the
theorem that nothing that was recorded is lost. `CollectComplete` is inductive given these.

Only model-checked: liveness (TrimStageEnds, AllFilesInitialized, EntryIsRetried), because
the prover handles neither fairness nor ENABLED. Every invariant, every action property
and the refinement that a passing run checks is a theorem.

## Not modelled

HTML parsing (a library's parse tree), the byte mutations of mutate() (pure functions on
one value, whose results are arbitrary here), bitmap hashing and the levenshtein distance,
execution limits of inputs (the increment is 0 in the code), what get_base and
mutation_string return, `\pcov\memory`, `\pcov\inclusive` without a filter, tooling and
evaluation. `PROJECT.json` gives the reason for each.

Nearly all of the repository's lines are a vendored PHP 7.4 in which a few hooks were
added; the program's own code is about 3000 lines in `src/fuzzer` and
`src/pcov-patched/pcov.c`. The share of the repository that the map covers is therefore
tiny, and modelling more of PHP would say nothing about Atropos.

Known and not covered by a property:

- `modified_files` in the agent is never filled, so that oracle never fires;
- `random.choice(list(queue_files))` in html_inputs_to_seed needs a known entry;
- suggestions cut by MAX_GLOBAL_TODO are never made again;
- an entry that the coverage generator reads half-written gets the default input's
  coverage for good, and one whose .cov file was opened but not written when the
  generator died keeps an empty one;
- the lines discovered for a file are cached, so that functions declared later are
  missing from later collects;
- CONTENT_LENGTH counts characters, the body is sent as bytes;
- RINIT does not reset PCG(enabled): a request that calls `\pcov\stop` switches recording
  off for those after it, until the snapshot is restored;
- find_all stops after ten occurrences (`atropos_fuzzer.py:175`) and SPLIT_REPLACE takes the
  last of its results for the last occurrence; `b[0] == '-'` (`:400`) compares an int with a
  string, so that negative numbers are not recognised;
- nyx_get_payload_len subtracts from a size that may be 0.

## Plan

Every component that the inventory lists with state of its own is modelled, and all
safety properties are proved. Possible extensions, in order of what they would say:

1. `Mutator` with `Dictionary`: which entry's strings a lookup can return, over visits that
   are left right after a dump.
2. `PcovCollect`: lines that a file declares later, with the cache of discovered lines,
   once it is settled what collect should report for them.
3. `Agent`: an action property that the execution limit is counted once per opcode.
