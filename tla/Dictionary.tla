----------------------------- MODULE Dictionary -----------------------------
(***************************************************************************)
(* The strings that the mutator knows and draws names and values from      *)
(* (src/fuzzer/atropos_fuzzer.py): the ones extracted from the source, the *)
(* ones of the redqueen and html dumps read during the visit to an entry,  *)
(* and the ones that worked before for the requested file.  get_from_dictionary first drops  *)
(* the lists that it takes to be empty, looking at some of them only, then *)
(* chooses a list and a string of it.  Lists are sets here: neither order  *)
(* nor duplicates matter to a random choice.                               *)
(***************************************************************************)
EXTENDS Naturals, FiniteSetsExt

CONSTANTS
    Strings,                \* non-empty strings that occur in dumps, pages and entries
    Files,                  \* PHP files
    php_strings,            \* strings of extract.json
    php_keyable_strings,    \* those of them that look like a key
    MaxLearned              \* strings of a kind in one dump (a bound for TLC)

ASSUME DictionaryConstants ==
    /\ php_strings \subseteq Strings
    /\ php_keyable_strings \subseteq php_strings
    /\ MaxLearned \in Nat

VARIABLES
    redqueen_map, redqueen_key_map,     \* strings and keys of dumps
    redqueen_unmatched_map,             \* pairs of strings that did not match
    input_key_map,                      \* per file: the keys of trimmed entries ...
    filename_to_string_map,             \* ... and their keys and values
    learned         \* history: the strings read since queue_get and since the last
                    \* strings dump, which is included

redqueenMaps == <<redqueen_map, redqueen_key_map, redqueen_unmatched_map>>
fileMaps == <<input_key_map, filename_to_string_map>>
vars == <<redqueenMaps, fileMaps, learned>>

Init ==
    /\ redqueen_map = {} /\ redqueen_key_map = {} /\ redqueen_unmatched_map = {}
    /\ input_key_map = [f \in Files |-> {}]
    /\ filename_to_string_map = [f \in Files |-> {}]
    /\ learned = {}

(* Mutant: the pairs of the previous entry are kept. *)
queue_get_KeepsPairs ==
    /\ redqueen_map' = {} /\ redqueen_key_map' = {}
    /\ learned' = {}
    /\ UNCHANGED <<redqueen_unmatched_map, fileMaps>>

(* AFL++ goes to another entry. *)
queue_get ==
    /\ redqueen_map' = {} /\ redqueen_key_map' = {} /\ redqueen_unmatched_map' = {}
    /\ learned' = {}
    /\ UNCHANGED fileMaps

(* The two halves of a set of pairs. *)
Firsts(pairs) == {p[1] : p \in pairs}
Seconds(pairs) == {p[2] : p \in pairs}
Both(pairs) == Firsts(pairs) \cup Seconds(pairs)

(* A strings dump is read: the one that this visit asked for, or one that  *)
(* an earlier visit left behind, which nothing tells apart.  It replaces   *)
(* all that was read before, also the strings of a page that was read in   *)
(* this visit: the history starts anew.  The parser puts keys and both     *)
(* strings of a pair into strings too.                                     *)
apply_redqueen_dump(strings, keys, pairs) ==
    LET all == strings \cup keys \cup Both(pairs) IN
    /\ redqueen_map' = all
    /\ redqueen_key_map' = keys
    /\ redqueen_unmatched_map' = pairs
    /\ learned' = all
    /\ UNCHANGED fileMaps

(* A link or a form of the html dump adds its target and its variables. *)
HtmlDump(target, variables) ==
    /\ redqueen_map' = redqueen_map \cup {target} \cup Seconds(variables)
    /\ redqueen_key_map' = redqueen_key_map \cup Firsts(variables)
    /\ learned' = learned \cup {target} \cup Both(variables)
    /\ UNCHANGED <<redqueen_unmatched_map, fileMaps>>

(* Mutant: the values are remembered, the names only as names. *)
post_trim_ValuesOnly(filename, variables) ==
    /\ input_key_map' = [input_key_map EXCEPT ![filename] = @ \cup Firsts(variables)]
    /\ filename_to_string_map' =
         [filename_to_string_map EXCEPT ![filename] = @ \cup Seconds(variables)]
    /\ UNCHANGED <<redqueenMaps, learned>>

(* The end of a trim stage: the variables of the entry worked for its file. *)
post_trim(filename, variables) ==
    /\ input_key_map' = [input_key_map EXCEPT ![filename] = @ \cup Firsts(variables)]
    /\ filename_to_string_map' =
         [filename_to_string_map EXCEPT ![filename] = @ \cup Both(variables)]
    /\ UNCHANGED <<redqueenMaps, learned>>

-----------------------------------------------------------------------------
(* get_from_dictionary *)

STATIC == "STATIC"
RUNTIME == "RUNTIME"
KEYABLE == "KEYABLE"
UNMATCHED == "UNMATCHED"
WORKED_BEFORE == "WORKED_BEFORE"

keyable(filename) == php_keyable_strings \cup input_key_map[filename]

(* The lists.  A pair yields one of its strings after ten attempts to      *)
(* replace a part of the input that matches; a replaced part of the input  *)
(* is no result of the dictionary's own.                                   *)
m(filename) ==
    [list \in {STATIC, RUNTIME, KEYABLE, UNMATCHED, WORKED_BEFORE} |->
       CASE list = STATIC -> php_strings
         [] list = RUNTIME -> redqueen_map
         [] list = KEYABLE -> IF redqueen_map # {} /\ redqueen_key_map # {}
                              THEN redqueen_key_map ELSE keyable(filename)
         [] list = UNMATCHED -> IF redqueen_map = {} THEN {}
                                ELSE Both(redqueen_unmatched_map)
         [] list = WORKED_BEFORE -> filename_to_string_map[filename]]

(* The lists that are not dropped.  Without a dump nobody looks whether    *)
(* KEYABLE is empty, and with one without keys nobody looks at             *)
(* input_key_map.                                                          *)
choose_from(filename) ==
    {list \in DOMAIN m(filename) :
       CASE list = STATIC -> php_strings # {}
         [] list = RUNTIME -> redqueen_map # {}
         [] list = KEYABLE -> redqueen_map # {} =>
                                redqueen_key_map # {} \/ php_keyable_strings # {}
         [] list = UNMATCHED -> redqueen_map # {} /\ redqueen_unmatched_map # {}
         [] list = WORKED_BEFORE -> filename_to_string_map[filename] # {}}

Random == "random_bytestring"

(* The possible results of a lookup. *)
get_from_dictionary(filename) ==
    IF choose_from(filename) = {} THEN {Random}
    ELSE UNION {IF m(filename)[list] = {} THEN {Random} ELSE m(filename)[list]
                : list \in choose_from(filename)}

-----------------------------------------------------------------------------
Some(S) == UNION {kSubset(n, S) : n \in 0 .. MaxLearned}

Next ==
    \/ queue_get
    \/ \E strings, keys \in Some(Strings), pairs \in Some(Strings \X Strings) :
         apply_redqueen_dump(strings, keys, pairs)
    \/ \E target \in Strings, variables \in Some(Strings \X Strings) :
         HtmlDump(target, variables)
    \/ \E filename \in Files, variables \in Some(Strings \X Strings) :
         post_trim(filename, variables)

Spec == Init /\ [][Next]_vars

-----------------------------------------------------------------------------
(* The maps hold strings. *)
TypeOK ==
    /\ redqueen_map \subseteq Strings /\ redqueen_key_map \subseteq Strings
    /\ redqueen_unmatched_map \subseteq Strings \X Strings
    /\ input_key_map \in [Files -> SUBSET Strings]
    /\ filename_to_string_map \in [Files -> SUBSET Strings]
    /\ learned \subseteq Strings

(* Nothing that is still kept is out of reach, although lists hide one     *)
(* another and are dropped for the emptiness of other lists: the last      *)
(* strings dump of the visit and the pages read after it, what worked for  *)
(* the file and the strings of the source are all possible results of a    *)
(* lookup.  The pages read before that strings dump are not: it replaced   *)
(* them.                                                                   *)
NothingOutOfReach ==
    \A f \in Files :
      learned \cup php_strings \cup input_key_map[f] \cup filename_to_string_map[f]
        \subseteq get_from_dictionary(f)

(* A result that is not random is a string of the source, of this file, or *)
(* was read in this visit and not replaced by a later strings dump:        *)
(* nothing that was read before queue_get remains, not even in a list that *)
(* is hidden at first.  A dump that an earlier visit asked for and left    *)
(* unread is read in this visit, and its strings are offered.              *)
OnlyWhatIsKnown ==
    /\ Both(redqueen_unmatched_map) \subseteq learned
    /\ \A f \in Files :
         get_from_dictionary(f) \subseteq
           {Random} \cup php_strings \cup learned \cup input_key_map[f]
             \cup filename_to_string_map[f]
=============================================================================
