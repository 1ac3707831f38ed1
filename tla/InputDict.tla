------------------------------ MODULE InputDict ------------------------------
(***************************************************************************)
(* One fuzzing input of the custom mutator: the variables of a request,    *)
(* per input method, and every operation of fuzz() and trim() that edits   *)
(* them (src/fuzzer/atropos_fuzzer.py).                                    *)
(*                                                                         *)
(* A variable name is a byte string.  The code only ever looks at its "["  *)
(* characters, so a key is the sequence of its "["-free segments: a is     *)
(* <<"a">> and a[i][j] is <<"a", "i]", "j]">>.  Cutting a key at its last  *)
(* "[" is then dropping the last segment, and k.startswith(key + "[") says *)
(* that key is a proper prefix of k, segment by segment.                   *)
(*                                                                         *)
(* A value is abstracted to its length: trimming shortens values, fuzzing  *)
(* replaces them by values of any length.                                  *)
(***************************************************************************)
EXTENDS Integers, Sequences, Functions

CONSTANTS
    Keys,           \* the variable names that occur (a bound for TLC)
    PlainMethods,   \* the input methods other than "SERVER"
    ServerNames,    \* first segments that are whitelisted or start with HTTP_
    UploadVars,     \* the SERVER keys that describe a file upload
    Values,         \* value lengths (a bound for TLC)
    KnownKeys,      \* input_key_map of the requested file: keys seen in other seeds
    Seeds           \* the inputs stored in the queue, to merge with

UPLOAD_KEY == <<"UPLOAD_KEY">>

input_methods == PlainMethods \cup {"SERVER"}

(* The variables of one method: a Python dict, here a partial function. *)
Dict == UNION {[S -> Values] : S \in SUBSET Keys}

Input == [input_methods -> Dict]

ASSUME KeysAssumption ==
    \A k \in Keys : k \in Seq(STRING) /\ Len(k) > 0

ASSUME MethodsAssumption == "SERVER" \notin PlainMethods

ASSUME UploadAssumption ==
    /\ UPLOAD_KEY \in UploadVars
    /\ UploadVars \subseteq Keys
    /\ \A k \in UploadVars : Len(k) = 1 /\ k[1] \in ServerNames

ASSUME ValuesAssumption ==
    /\ Values \subseteq Nat
    /\ 0 \in Values
    /\ \A v \in Values : 0 .. v \subseteq Values

ASSUME SeedsAssumption == Seeds \subseteq Input /\ KnownKeys \subseteq Keys

VARIABLES
    inp,    \* the input under mutation or trimming
    merge   \* the variables of another seed still to be merged: <<method, key, value>>

vars == <<inp, merge>>

-----------------------------------------------------------------------------
(* Helpers on keys and dictionaries. *)

(* key[:key.rindex("[")], or the key itself when it holds no "[". *)
key_without_parenthesis(key) ==
    IF Len(key) > 1 THEN SubSeq(key, 1, Len(key) - 1) ELSE key

(* k.startswith(key + "["): k names an element of the array key. *)
IsElementOf(k, key) ==
    /\ Len(k) > Len(key)
    /\ SubSeq(k, 1, Len(key)) = key

(* Mutant: the key that an array element belongs to is left in place. *)
delete_input_key_KeepsParent(d, key) ==
    Restrict(d, {k \in DOMAIN d : k # key /\ ~IsElementOf(k, key)})

(* The dict after delete_input_key: the key, the key it is an element of,  *)
(* and every element of the key are popped.                                *)
delete_input_key(d, key) ==
    Restrict(d, {k \in DOMAIN d : /\ k # key
                                  /\ k # key_without_parenthesis(key)
                                  /\ ~IsElementOf(k, key)})

(* The result of delete_input_key: was anything popped? *)
removed(d, key) == DOMAIN delete_input_key(d, key) # DOMAIN d

(* set_input lets only whitelisted, "["-free names into SERVER. *)
ServerAccepts(key) == Len(key) = 1 /\ key[1] \in ServerNames

Assign(d, key, value) ==
    [k \in DOMAIN d \cup {key} |-> IF k = key THEN value ELSE d[k]]

(* Mutant: SERVER takes any name. *)
set_input_NoWhitelist(d, method, key, value) ==
    Assign(delete_input_key(d, key), key, value)

set_input(d, method, key, value) ==
    IF method = "SERVER" /\ ~ServerAccepts(key)
    THEN d
    ELSE Assign(delete_input_key(d, key), key, value)

input_keys(i) == UNION {DOMAIN i[m] : m \in input_methods}

is_upload_mode(i) == UPLOAD_KEY \in DOMAIN i["SERVER"]

(* Whatever mutate() and get_base() return is some value. *)
mutate == Values

get_base == Values

(* Names come from a dictionary lookup, or turn a name that is already    *)
(* used into an array element; mutate() may then change them again.       *)
new_variable_name == Keys

-----------------------------------------------------------------------------
(* The initial input: empty_input, or default_input with the browser's     *)
(* cookies, whose names hold no "[", and an empty REQUEST_URI.             *)
Init ==
    /\ \E cookies \in Dict, uri \in SUBSET {<<"REQUEST_URI">>} :
         /\ \A k \in DOMAIN cookies : Len(k) = 1
         /\ uri \subseteq Keys
         /\ \A k \in uri : ServerAccepts(k)
         /\ inp = [m \in input_methods |->
                     CASE m = "COOKIE" -> cookies
                       [] m = "SERVER" -> [k \in uri |-> 0]
                       [] OTHER -> [k \in {} |-> 0]]
    /\ merge = {}

Idle == merge = {}

INSERT_NEW_KEY ==
    /\ Idle
    /\ \E key \in new_variable_name, value \in get_base :
         inp' = [m \in input_methods |-> set_input(inp[m], m, key, value)]
    /\ UNCHANGED merge

(* The methods are tried in random order and the first one that loses a    *)
(* variable ends the loop: any method that would lose one may be it.       *)
DELETE_KEY ==
    /\ Idle
    /\ \E key \in input_keys(inp), m \in input_methods :
         /\ removed(inp[m], key)
         /\ inp' = [inp EXCEPT ![m] = delete_input_key(inp[m], key)]
    /\ UNCHANGED merge

(* Mutate the value where the chosen name is present (a name from          *)
(* input_key_map that is absent everywhere leaves the input as it is)...   *)
MUTATE_VALUE_InPlace ==
    /\ Idle
    /\ input_keys(inp) # {}
    /\ \E m \in input_methods : \E key \in DOMAIN inp[m], value \in mutate :
         inp' = [inp EXCEPT ![m] = set_input(inp[m], m, key, value)]
    /\ UNCHANGED merge

(* ... or set it to a new base value in any one method. *)
MUTATE_VALUE_NewBase ==
    /\ Idle
    /\ input_keys(inp) # {}
    /\ \E key \in input_keys(inp) \cup KnownKeys,
          m \in input_methods, value \in get_base :
         inp' = [inp EXCEPT ![m] = set_input(inp[m], m, key, value)]
    /\ UNCHANGED merge

(* Complete the upload description; written directly, past set_input. *)
UPLOAD ==
    /\ Idle
    /\ input_keys(inp) # {}
    /\ LET d == inp["SERVER"] IN
       \E fresh \in [UploadVars \ DOMAIN d -> Values] :
         inp' = [inp EXCEPT !["SERVER"] =
                   [k \in DOMAIN d \cup UploadVars |->
                      IF k \in DOMAIN d THEN d[k] ELSE fresh[k]]]
    /\ UNCHANGED merge

(* Merge another seed: a loop of set_input calls, one step per call.  The  *)
(* order is the insertion order of the other dict, which is arbitrary.     *)
MergeStart ==
    /\ Idle
    /\ \E add_inp \in Seeds :
         merge' = UNION {{<<m, k, add_inp[m][k]>> : k \in DOMAIN add_inp[m]}
                         : m \in input_methods}
    /\ UNCHANGED inp

MergeStep ==
    \E t \in merge :
      /\ inp' = [inp EXCEPT ![t[1]] = set_input(inp[t[1]], t[1], t[2], t[3])]
      /\ merge' = merge \ {t}

fuzz ==
    \/ INSERT_NEW_KEY
    \/ DELETE_KEY
    \/ MUTATE_VALUE_InPlace
    \/ MUTATE_VALUE_NewBase
    \/ UPLOAD
    \/ MergeStart
    \/ MergeStep

-----------------------------------------------------------------------------
(* The three trimming operations on one chosen variable. *)

(* Mutant: the variable goes whether the upload needs it or not. *)
DELETE_VARIABLE_Always ==
    /\ Idle
    /\ \E m \in input_methods : \E key \in DOMAIN inp[m] :
         inp' = [inp EXCEPT ![m] = delete_input_key(inp[m], key)]
    /\ UNCHANGED merge

(* What an upload needs is kept, whatever method the name was found in. *)
server_keep_after_trimming == UploadVars \ {UPLOAD_KEY}

DELETE_VARIABLE ==
    /\ Idle
    /\ \E m \in input_methods : \E key \in DOMAIN inp[m] :
         /\ is_upload_mode(inp) => key \notin server_keep_after_trimming
         /\ inp' = [inp EXCEPT ![m] = delete_input_key(inp[m], key)]
    /\ UNCHANGED merge

EMPTY_VALUE ==
    /\ Idle
    /\ \E m \in input_methods : \E key \in DOMAIN inp[m] :
         inp' = [inp EXCEPT ![m] = set_input(inp[m], m, key, 0)]
    /\ UNCHANGED merge

(* Mutant: the "is there anything to cut" check is missing. *)
TRIM_VALUE_Unguarded ==
    /\ Idle
    /\ \E m \in input_methods : \E key \in DOMAIN inp[m] :
         inp' = [inp EXCEPT ![m] = set_input(inp[m], m, key, inp[m][key] - 1)]
    /\ UNCHANGED merge

(* Cut at least one byte out of a non-empty value. *)
TRIM_VALUE ==
    /\ Idle
    /\ \E m \in input_methods : \E key \in DOMAIN inp[m] :
         \E rest \in Values :
           /\ rest < inp[m][key]
           /\ inp' = [inp EXCEPT ![m] = set_input(inp[m], m, key, rest)]
    /\ UNCHANGED merge

trim == DELETE_VARIABLE \/ EMPTY_VALUE \/ TRIM_VALUE

Next == fuzz \/ trim

Spec == Init /\ [][Next]_vars

-----------------------------------------------------------------------------
(* The input is a dict of dicts over the known names, and what is left to  *)
(* merge is a set of single assignments.                                   *)
TypeOK ==
    /\ inp \in Input
    /\ merge \subseteq input_methods \X Keys \X Values

(* No variable is present next to the array it is an element of: PHP       *)
(* would let one of a=1 and a[i]=2 silently replace the other.  Several    *)
(* set_input, merge and trim steps, in any order, never produce the pair.  *)
NoShadowing ==
    \A m \in input_methods : \A k \in DOMAIN inp[m] :
      Len(k) > 1 => key_without_parenthesis(k) \notin DOMAIN inp[m]

(* Every SERVER variable is one that input_to_env passes on to PHP: no     *)
(* array and nothing outside the whitelist, also for the variables that    *)
(* UPLOAD writes past set_input's check.                                   *)
ServerWhitelisted ==
    \A k \in DOMAIN inp["SERVER"] : Len(k) = 1 /\ k[1] \in ServerNames

UploadComplete(i) == UploadVars \subseteq DOMAIN i["SERVER"]

(* No sequence of trimming operations turns a complete upload into a       *)
(* broken one: as long as UPLOAD_KEY selects the multipart body, all the   *)
(* variables that describe it stay, and trimming never adds a variable or  *)
(* lengthens a value.                                                      *)
TrimShrinks ==
    [][trim =>
         /\ \A m \in input_methods :
              /\ DOMAIN inp'[m] \subseteq DOMAIN inp[m]
              /\ \A k \in DOMAIN inp'[m] : inp'[m][k] <= inp[m][k]
         /\ UploadComplete(inp) /\ is_upload_mode(inp)' => UploadComplete(inp)']_vars
=============================================================================
