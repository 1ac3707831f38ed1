----------------------------- MODULE PcovCollect -----------------------------
(***************************************************************************)
(* The trace that the pcov extension keeps in memory and the functions by  *)
(* which PHP code reads it (src/pcov-patched/pcov.c): \pcov\start, stop,   *)
(* collect, clear and waiting.  The records of a trace are linked by       *)
(* pointers and live in an arena, which clear destroys: an address that is *)
(* used again is the worst case and the one modelled here.  Every pointer  *)
(* is an address, 0 is NULL; PCG(next), which points to the link of the    *)
(* last record, is that record's address.                                  *)
(***************************************************************************)
EXTENDS Naturals, FiniteSets

CONSTANTS
    Files,          \* PHP files
    LineNumbers,    \* the lines of a file
    Directory,      \* the files under pcov.directory
    Discoverable,   \* the lines of a file that hold an opcode which is not ignored
    MaxRecords      \* records in one arena (a bound for TLC)

NULL == 0
Address == 1 .. MaxRecords

ASSUME PcovCollectConstants ==
    /\ Directory \subseteq Files
    /\ Discoverable \in [Files -> SUBSET LineNumbers]
    /\ MaxRecords \in Nat

VARIABLES
    enabled,                \* PCG(enabled)
    cell,                   \* the arena, by address
    allocated,              \* highest address in use
    start, next, last,      \* PCG(start), PCG(next), PCG(last)
    files, discovered, waiting,     \* the tables of these names
    returned,               \* what collect returned last
    recorded,               \* history: what ran since the trace was cleared, and ran
                            \* while recording was on ...
    fresh                   \* ... and did any of it run after the last collect

listVars == <<cell, allocated, start, next>>
tables == <<files, discovered>>
collectVars == <<enabled, listVars, last, tables, waiting, returned, recorded, fresh>>

Free == [file |-> NULL, line |-> NULL, next |-> NULL]
Nothing == [tables |-> {}, covered |-> {}, expected |-> {}]

CollectInit ==
    /\ enabled = TRUE       \* "already enable the module", in MINIT
    /\ cell = [a \in Address |-> Free]
    /\ allocated = 0
    /\ start = NULL /\ next = NULL /\ last = NULL
    /\ files = {} /\ discovered = {} /\ waiting = {}
    /\ returned = Nothing
    /\ recorded = {} /\ fresh = FALSE

(* A new arena and empty tables; whether recording is on is not changed. *)
PHP_RINIT ==
    /\ cell' = [a \in Address |-> Free]
    /\ allocated' = 0
    /\ start' = NULL /\ next' = NULL /\ last' = NULL
    /\ files' = {} /\ discovered' = {} /\ waiting' = {}
    /\ recorded' = {} /\ fresh' = FALSE
    /\ UNCHANGED <<enabled, returned>>

(* Only files under pcov.directory can be collected. *)
php_pcov_wants(file) == file \in Directory

php_pcov_compile_file(file) ==
    /\ php_pcov_wants(file)
    /\ files' = files \cup {file}
    /\ UNCHANGED <<enabled, listVars, last, discovered, waiting, returned, recorded, fresh>>

(* Mutant: the new record is only linked when it is the first. *)
Linked_First(a, record) == [cell EXCEPT ![a] = record]

(* The arena with a new record at a, to which the last one points. *)
Linked(a, record) ==
    [b \in Address |-> IF b = a THEN record
                       ELSE IF b = next /\ start # NULL THEN [cell[b] EXCEPT !.next = a]
                       ELSE cell[b]]

(* An opcode is about to be executed: php_pcov_trace creates a record and  *)
(* links it.  While recording is off it leaves no trace.                   *)
php_pcov_create(file, line) ==
    /\ enabled
    /\ allocated < MaxRecords
    /\ LET a == allocated + 1 IN
       /\ allocated' = a
       /\ cell' = Linked(a, [file |-> file, line |-> line, next |-> NULL])
       /\ start' = IF start = NULL THEN a ELSE start
       /\ next' = a
    /\ waiting' = waiting \cup {file}
    /\ recorded' = recorded \cup {<<file, line>>}
    /\ fresh' = TRUE
    /\ UNCHANGED <<enabled, last, tables, returned>>

php_pcov_start ==
    /\ enabled' = TRUE
    /\ UNCHANGED <<listVars, last, tables, waiting, returned, recorded, fresh>>

php_pcov_stop ==
    /\ enabled' = FALSE
    /\ UNCHANGED <<listVars, last, tables, waiting, returned, recorded, fresh>>

(* Mutant: PCG(last) is not reset. *)
php_pcov_clear_KeepsLast(withFiles) ==
    /\ files' = IF withFiles THEN {} ELSE files
    /\ discovered' = IF withFiles THEN {} ELSE discovered
    /\ cell' = [a \in Address |-> Free]
    /\ allocated' = 0
    /\ start' = NULL /\ next' = NULL
    /\ waiting' = {}
    /\ recorded' = {} /\ fresh' = FALSE
    /\ UNCHANGED <<enabled, last, returned>>

php_pcov_clear(withFiles) ==
    /\ files' = IF withFiles THEN {} ELSE files
    /\ discovered' = IF withFiles THEN {} ELSE discovered
    /\ cell' = [a \in Address |-> Free]
    /\ allocated' = 0
    /\ start' = NULL /\ next' = NULL /\ last' = NULL
    /\ waiting' = {}
    /\ recorded' = {} /\ fresh' = FALSE
    /\ UNCHANGED <<enabled, returned>>

-----------------------------------------------------------------------------
(* The records that php_pcov_report walks over: those in every set that    *)
(* holds the first one and, with each, the one it points to.               *)
Closed(S) ==
    /\ start # NULL => start \in S
    /\ \A a \in S : cell[a].next # NULL => cell[a].next \in S

Walked == {a \in Address : \A S \in SUBSET Address : Closed(S) => a \in S}

(* The files whose lines php_pcov_discover_file finds: from the cache, or  *)
(* from the code that was compiled.                                        *)
Found(wanted) == wanted \cap (discovered \cup files)

(* Those of the lines found that are in the trace. *)
php_pcov_report(found) ==
    LET hits == {<<cell[a].file, cell[a].line>> : a \in Walked}
    IN  {t \in hits : t[1] \in found /\ t[2] \in Discoverable[t[1]]}

(* collect with \pcov\all, or with \pcov\inclusive and a filter: nothing   *)
(* if the trace has not grown since the last time.                         *)
php_pcov_collect(wanted) ==
    /\ IF last = next
       THEN /\ returned' = [Nothing EXCEPT !.expected = IF fresh THEN recorded ELSE {}]
            /\ UNCHANGED <<last, discovered>>
       ELSE LET found == Found(wanted) IN
            /\ returned' = [tables |-> found, covered |-> php_pcov_report(found),
                            expected |-> recorded]
            /\ last' = next
            /\ discovered' = discovered \cup found
    /\ fresh' = FALSE
    /\ UNCHANGED <<enabled, listVars, files, waiting, recorded>>

CollectNext ==
    \/ PHP_RINIT
    \/ \E file \in Files : php_pcov_compile_file(file)
    \/ \E file \in Files, line \in LineNumbers : php_pcov_create(file, line)
    \/ php_pcov_start
    \/ php_pcov_stop
    \/ \E withFiles \in BOOLEAN : php_pcov_clear(withFiles)
    \/ php_pcov_collect(files)
    \/ \E filter \in SUBSET Files : php_pcov_collect(filter)

CollectSpec == CollectInit /\ [][CollectNext]_collectVars

-----------------------------------------------------------------------------
Pointer == 0 .. allocated

(* The variables have their types; no pointer leads outside the arena. *)
CollectTypeOK ==
    /\ enabled \in BOOLEAN
    /\ allocated \in 0 .. MaxRecords
    /\ start \in Pointer /\ next \in Pointer /\ last \in Pointer
    /\ \A a \in Address : IF a > allocated THEN cell[a] = Free
                          ELSE cell[a] \in [file : Files, line : LineNumbers, next : Pointer]
    /\ files \subseteq Directory /\ discovered \subseteq Files /\ waiting \subseteq Files
    /\ returned \in [tables : SUBSET Files, covered : SUBSET (Files \X LineNumbers),
                     expected : SUBSET (Files \X LineNumbers)]
    /\ recorded \subseteq Files \X LineNumbers
    /\ fresh \in BOOLEAN

(* Nothing of a trace is lost in its list: it holds exactly what was       *)
(* recorded since the trace was cleared.  Its links only lead forward, so  *)
(* that the walk over it ends.  The table waiting holds the files of it,   *)
(* those that were collected already included: \pcov\waiting returns more  *)
(* than the "list of files waiting to be collected" of pcov's README.      *)
ListIsTrace ==
    /\ {<<cell[a].file, cell[a].line>> : a \in Walked} = recorded
    /\ waiting = {t[1] : t \in recorded}
    /\ \A a \in Walked : cell[a].next = NULL \/ cell[a].next > a

(* Of the files it knows, collect reports every line that was recorded and *)
(* no other, and it returns nothing only if nothing was recorded since the *)
(* last time, although the two are told apart by comparing addresses that  *)
(* the arena may use again.  What runs after \pcov\stop is not recorded,   *)
(* but all that runs before it is, from the start of the module: also what *)
(* runs before \pcov\start, of which tests/001.phpt expects a -1.          *)
CollectComplete ==
    /\ returned.covered = {t \in returned.expected : t[1] \in returned.tables
                                                    /\ t[2] \in Discoverable[t[1]]}
    /\ fresh <=> last # next
=============================================================================
