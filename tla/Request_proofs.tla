---------------------------- MODULE Request_proofs ----------------------------
(***************************************************************************)
(* Proofs about InputDict, for every set of keys, methods, values, seeds,  *)
(* and about the request that Request makes of what InputDict produces.    *)
(***************************************************************************)
EXTENDS Request, TLAPS

(* A dict of one method in which no key stands next to its own array. *)
Unshadowed(d) ==
    \A k \in DOMAIN d : Len(k) > 1 => key_without_parenthesis(k) \notin DOMAIN d

(* delete_input_key only removes variables. *)
LEMMA DeleteRestricts ==
    ASSUME NEW d \in Dict, NEW key
    PROVE  /\ delete_input_key(d, key) \in Dict
           /\ DOMAIN delete_input_key(d, key) \subseteq DOMAIN d
           /\ \A k \in DOMAIN delete_input_key(d, key) :
                delete_input_key(d, key)[k] = d[k]
<1> DEFINE kept == {k \in DOMAIN d : /\ k # key
                                    /\ k # key_without_parenthesis(key)
                                    /\ ~IsElementOf(k, key)}
<1>1. PICK S \in SUBSET Keys : d \in [S -> Values]
  BY DEF Dict
<1>2. delete_input_key(d, key) = [k \in kept |-> d[k]]
  BY DEF delete_input_key, Restrict
<1>3. kept \subseteq S
  BY <1>1
<1> HIDE DEF kept
<1>4. [k \in kept |-> d[k]] \in [kept -> Values]
  BY <1>1, <1>3
<1>5. kept \in SUBSET Keys
  BY <1>1, <1>3
<1>6. delete_input_key(d, key) \in Dict
  BY <1>2, <1>4, <1>5 DEF Dict
<1> QED
  BY <1>1, <1>2, <1>3, <1>6

(* set_input leaves a dict over the known names, and writes nothing but    *)
(* the key it is given.                                                    *)
LEMMA SetInputType ==
    ASSUME NEW d \in Dict, NEW m, NEW key \in Keys, NEW value \in Values
    PROVE  /\ set_input(d, m, key, value) \in Dict
           /\ DOMAIN set_input(d, m, key, value) \subseteq DOMAIN d \cup {key}
           /\ \A k \in DOMAIN set_input(d, m, key, value) :
                \/ k = key /\ set_input(d, m, key, value)[k] \in {value, d[k]}
                \/ k \in DOMAIN d /\ set_input(d, m, key, value)[k] = d[k]
<1> DEFINE e == delete_input_key(d, key)
<1>1. /\ e \in Dict
      /\ DOMAIN e \subseteq DOMAIN d
      /\ \A k \in DOMAIN e : e[k] = d[k]
  BY DeleteRestricts
<1>2. PICK S \in SUBSET Keys : e \in [S -> Values]
  BY <1>1 DEF Dict
<1> HIDE DEF e
<1>3. Assign(e, key, value) \in [S \cup {key} -> Values]
  BY <1>2 DEF Assign
<1>4. Assign(e, key, value) \in Dict
  BY <1>3 DEF Dict
<1>5. CASE m = "SERVER" /\ ~ServerAccepts(key)
  BY <1>5 DEF set_input
<1>6. CASE ~(m = "SERVER" /\ ~ServerAccepts(key))
  <2>1. set_input(d, m, key, value) = Assign(e, key, value)
    BY <1>6 DEF set_input, e
  <2> QED
    BY <2>1, <1>1, <1>2, <1>4 DEF Assign
<1> QED
  BY <1>5, <1>6

(* The array a key belongs to is one segment shorter. *)
LEMMA ParentShorter ==
    ASSUME NEW k \in Keys, Len(k) > 1
    PROVE  /\ key_without_parenthesis(k) = SubSeq(k, 1, Len(k) - 1)
           /\ Len(key_without_parenthesis(k)) = Len(k) - 1
           /\ key_without_parenthesis(k) # k
<1>1. k \in Seq(STRING)
  BY KeysAssumption
<1>2. key_without_parenthesis(k) = SubSeq(k, 1, Len(k) - 1)
  BY DEF key_without_parenthesis
<1>3. Len(SubSeq(k, 1, Len(k) - 1)) = Len(k) - 1 /\ Len(k) \in Nat
  BY <1>1
<1> QED
  BY <1>2, <1>3

(* What set_input does when it does not refuse the key: neither the array  *)
(* the key belongs to nor an element of the key is left.                   *)
LEMMA AssignUnshadowed ==
    ASSUME NEW d \in Dict, NEW key \in Keys, NEW value \in Values, Unshadowed(d)
    PROVE  Unshadowed(Assign(delete_input_key(d, key), key, value))
<1> DEFINE e == delete_input_key(d, key)
           f == Assign(e, key, value)
<1>1. /\ DOMAIN e \subseteq DOMAIN d
      /\ DOMAIN d \subseteq Keys
  BY DeleteRestricts DEF Dict
<1>2. DOMAIN f = DOMAIN e \cup {key}
  BY DEF Assign
<1>3. \A k \in DOMAIN e : /\ k # key_without_parenthesis(key)
                          /\ ~IsElementOf(k, key)
  BY DEF delete_input_key, Restrict
<1> HIDE DEF e, f
<1> SUFFICES ASSUME NEW k \in DOMAIN f, Len(k) > 1,
                    key_without_parenthesis(k) \in DOMAIN f
             PROVE  FALSE
  BY DEF Unshadowed, f, e
<1>4. k \in Keys
  BY <1>1, <1>2
<1>5. CASE k = key
  BY <1>2, <1>3, <1>4, <1>5, ParentShorter
<1>6. CASE k # key /\ key_without_parenthesis(k) = key
  <2>1. Len(key) = Len(k) - 1 /\ SubSeq(k, 1, Len(key)) = key /\ Len(k) \in Nat
    BY <1>4, <1>6, ParentShorter, KeysAssumption
  <2>2. IsElementOf(k, key)
    BY <2>1 DEF IsElementOf
  <2> QED
    BY <1>2, <1>3, <1>6, <2>2
<1>7. CASE k # key /\ key_without_parenthesis(k) # key
  BY <1>1, <1>2, <1>7 DEF Unshadowed
<1> QED
  BY <1>5, <1>6, <1>7

(* set_input never creates a variable next to its own array. *)
LEMMA SetInputUnshadowed ==
    ASSUME NEW d \in Dict, NEW m, NEW key \in Keys, NEW value \in Values,
           Unshadowed(d)
    PROVE  Unshadowed(set_input(d, m, key, value))
BY AssignUnshadowed DEF set_input

(* A dict that only loses variables stays unshadowed. *)
LEMMA DeleteUnshadowed ==
    ASSUME NEW d \in Dict, NEW key, Unshadowed(d)
    PROVE  Unshadowed(delete_input_key(d, key))
BY DeleteRestricts DEF Unshadowed

-----------------------------------------------------------------------------
(* A key of one segment is no array element. *)
LEMMA ScalarKey ==
    ASSUME NEW k \in Keys, Len(k) = 1
    PROVE  ~(Len(k) > 1)
<1>1. k \in Seq(STRING)
  BY KeysAssumption
<1> QED
  BY <1>1

(* What every dict of an input satisfies, method by method. *)
Good(m, d) ==
    /\ d \in Dict
    /\ Unshadowed(d)
    /\ m = "SERVER" => \A k \in DOMAIN d : ServerAccepts(k)

(* The inductive invariant: the three invariants together.  NoShadowing    *)
(* alone is not inductive, since the lemmas above need to know that a key  *)
(* is a non-empty sequence.                                                *)
IInv == TypeOK /\ NoShadowing /\ ServerWhitelisted

(* The invariant, restated method by method. *)
LEMMA IInvGood ==
    IInv <=> /\ inp \in Input
             /\ \A m \in input_methods : Good(m, inp[m])
             /\ merge \subseteq input_methods \X Keys \X Values
BY DEF IInv, TypeOK, NoShadowing, ServerWhitelisted, ServerAccepts, Good, Unshadowed, Input,
       input_methods

(* set_input keeps a dict good, for whatever name and value. *)
LEMMA SetInputGood ==
    ASSUME NEW m, NEW d, Good(m, d), NEW key \in Keys, NEW value \in Values
    PROVE  Good(m, set_input(d, m, key, value))
<1>1. set_input(d, m, key, value) \in Dict /\ Unshadowed(set_input(d, m, key, value))
  BY SetInputType, SetInputUnshadowed DEF Good
<1>2. CASE m = "SERVER" /\ ServerAccepts(key)
  BY <1>1, <1>2, SetInputType DEF Good
<1>3. CASE ~(m = "SERVER" /\ ServerAccepts(key))
  BY <1>1, <1>3 DEF Good, set_input
<1> QED
  BY <1>2, <1>3

(* delete_input_key keeps a dict good. *)
LEMMA DeleteGood ==
    ASSUME NEW m, NEW d, Good(m, d), NEW key
    PROVE  Good(m, delete_input_key(d, key))
BY DeleteRestricts, DeleteUnshadowed DEF Good

(* UPLOAD writes past set_input, but only "["-free names of the whitelist. *)
LEMMA UploadGood ==
    ASSUME NEW d, Good("SERVER", d), NEW fresh \in [UploadVars \ DOMAIN d -> Values]
    PROVE  Good("SERVER", [k \in DOMAIN d \cup UploadVars |->
                             IF k \in DOMAIN d THEN d[k] ELSE fresh[k]])
<1> DEFINE e == [k \in DOMAIN d \cup UploadVars |->
                   IF k \in DOMAIN d THEN d[k] ELSE fresh[k]]
<1>1. PICK S \in SUBSET Keys : d \in [S -> Values]
  BY DEF Good, Dict
<1>2. e \in [S \cup UploadVars -> Values] /\ S \cup UploadVars \in SUBSET Keys
  BY <1>1, UploadAssumption
<1>3. e \in Dict
  BY <1>2 DEF Dict
<1>4. \A k \in DOMAIN e : ServerAccepts(k)
  BY UploadAssumption DEF Good, ServerAccepts
<1> HIDE DEF e
<1>5. Unshadowed(e)
  <2>1. \A k \in DOMAIN e : Len(k) = 1
    BY <1>4 DEF ServerAccepts
  <2> QED
    BY <1>3, <2>1, ScalarKey DEF Unshadowed, Dict
<1> QED
  BY <1>3, <1>4, <1>5 DEF Good, e

(* Editing the dict of one method keeps the invariant. *)
LEMMA EditOneMethod ==
    ASSUME IInv, NEW m \in input_methods, NEW d, Good(m, d),
           inp' = [inp EXCEPT ![m] = d],
           merge' \subseteq input_methods \X Keys \X Values
    PROVE  IInv'
<1>1. inp \in Input /\ \A n \in input_methods : Good(n, inp[n])
  BY IInvGood
<1>2. inp' \in Input /\ \A n \in input_methods : Good(n, inp'[n])
  BY <1>1 DEF Input, Good
<1> QED
  BY <1>2 DEF IInv, TypeOK, NoShadowing, ServerWhitelisted, ServerAccepts, Good, Unshadowed,
              Input, input_methods

(* empty_input and default_input satisfy the invariant. *)
LEMMA InitIInv == Init => IInv
<1> SUFFICES ASSUME Init PROVE IInv
  OBVIOUS
<1>1. PICK cookies \in Dict, uri \in SUBSET {<<"REQUEST_URI">>} :
         /\ \A k \in DOMAIN cookies : Len(k) = 1
         /\ uri \subseteq Keys
         /\ \A k \in uri : ServerAccepts(k)
         /\ inp = [m \in input_methods |->
                     CASE m = "COOKIE" -> cookies
                       [] m = "SERVER" -> [k \in uri |-> 0]
                       [] OTHER -> [k \in {} |-> 0]]
  BY DEF Init
<1>2. [k \in uri |-> 0] \in Dict /\ [k \in {} |-> 0] \in Dict
  <2>1. [k \in uri |-> 0] \in [uri -> Values] /\ [k \in {} |-> 0] \in [{} -> Values]
    BY ValuesAssumption
  <2> QED
    BY <1>1, <2>1 DEF Dict
<1>3. \A m \in input_methods : inp[m] \in {cookies, [k \in uri |-> 0], [k \in {} |-> 0]}
  BY <1>1
<1>4. inp["SERVER"] = [k \in uri |-> 0]
  BY <1>1 DEF input_methods
<1>5. inp \in Input
  BY <1>1, <1>2 DEF Input
<1>6. \A m \in input_methods : \A k \in DOMAIN inp[m] : Len(k) = 1
  BY <1>1, <1>3
<1>7. ServerWhitelisted
  BY <1>1, <1>4 DEF ServerWhitelisted, ServerAccepts
<1>8. NoShadowing
  <2>1. \A m \in input_methods : \A k \in DOMAIN inp[m] : ~(Len(k) > 1)
    BY <1>5, <1>6, ScalarKey DEF Input, Dict
  <2> QED
    BY <2>1 DEF NoShadowing
<1> QED
  BY <1>5, <1>7, <1>8 DEF IInv, TypeOK, Init

(* Every fuzzing and trimming operation preserves the invariant. *)
LEMMA NextIInv == IInv /\ [Next]_vars => IInv'
<1> SUFFICES ASSUME IInv, [Next]_vars PROVE IInv'
  OBVIOUS
<1> USE DEF mutate, get_base, new_variable_name
<1>0. /\ inp \in Input
      /\ \A m \in input_methods : Good(m, inp[m])
      /\ merge \subseteq input_methods \X Keys \X Values
      /\ \A m \in input_methods : DOMAIN inp[m] \subseteq Keys
  BY IInvGood DEF Good, Dict
<1>1. CASE INSERT_NEW_KEY
  <2>1. PICK key \in Keys, value \in Values :
          inp' = [m \in input_methods |-> set_input(inp[m], m, key, value)]
    BY <1>1 DEF INSERT_NEW_KEY
  <2>2. \A m \in input_methods : Good(m, inp'[m])
    BY <1>0, <2>1, SetInputGood
  <2>3. inp' \in Input
    BY <2>1, <2>2 DEF Good, Input
  <2> QED
    BY <1>0, <1>1, <2>2, <2>3
    DEF INSERT_NEW_KEY, IInv, TypeOK, NoShadowing, ServerWhitelisted, ServerAccepts, Good,
        Unshadowed, input_methods
<1>2. CASE DELETE_KEY
  BY <1>0, <1>2, DeleteGood, EditOneMethod DEF DELETE_KEY
<1>3. CASE MUTATE_VALUE_InPlace
  BY <1>0, <1>3, SetInputGood, EditOneMethod DEF MUTATE_VALUE_InPlace
<1>4. CASE MUTATE_VALUE_NewBase
  <2>1. PICK key \in input_keys(inp) \cup KnownKeys, m \in input_methods, value \in Values :
          inp' = [inp EXCEPT ![m] = set_input(inp[m], m, key, value)]
    BY <1>4 DEF MUTATE_VALUE_NewBase
  <2>2. key \in Keys
    BY <1>0, SeedsAssumption DEF input_keys
  <2> QED
    BY <1>0, <1>4, <2>1, <2>2, SetInputGood, EditOneMethod DEF MUTATE_VALUE_NewBase
<1>5. CASE UPLOAD
  <2>1. "SERVER" \in input_methods
    BY DEF input_methods
  <2>2. PICK fresh \in [UploadVars \ DOMAIN inp["SERVER"] -> Values] :
          inp' = [inp EXCEPT !["SERVER"] =
                    [k \in DOMAIN inp["SERVER"] \cup UploadVars |->
                       IF k \in DOMAIN inp["SERVER"] THEN inp["SERVER"][k] ELSE fresh[k]]]
    BY <1>5 DEF UPLOAD
  <2>3. Good("SERVER", [k \in DOMAIN inp["SERVER"] \cup UploadVars |->
                          IF k \in DOMAIN inp["SERVER"] THEN inp["SERVER"][k] ELSE fresh[k]])
    BY <1>0, <2>1, UploadGood
  <2> QED
    BY <1>0, <1>5, <2>1, <2>2, <2>3, EditOneMethod DEF UPLOAD
<1>6. CASE MergeStart
  <2>1. PICK add_inp \in Seeds :
          merge' = UNION {{<<m, k, add_inp[m][k]>> : k \in DOMAIN add_inp[m]}
                          : m \in input_methods}
    BY <1>6 DEF MergeStart
  <2>2. \A m \in input_methods : add_inp[m] \in Dict
    BY SeedsAssumption DEF Input
  <2>3. \A m \in input_methods : \A k \in DOMAIN add_inp[m] :
          k \in Keys /\ add_inp[m][k] \in Values
    BY <2>2 DEF Dict
  <2>4. merge' \subseteq input_methods \X Keys \X Values
    BY <2>1, <2>3
  <2> QED
    BY <1>6, <2>4 DEF MergeStart, IInv, TypeOK, NoShadowing, ServerWhitelisted
<1>7. CASE MergeStep
  <2>1. PICK t \in merge :
          /\ inp' = [inp EXCEPT ![t[1]] = set_input(inp[t[1]], t[1], t[2], t[3])]
          /\ merge' = merge \ {t}
    BY <1>7 DEF MergeStep
  <2>2. t[1] \in input_methods /\ t[2] \in Keys /\ t[3] \in Values
    BY <1>0
  <2>3. Good(t[1], set_input(inp[t[1]], t[1], t[2], t[3]))
    BY <1>0, <2>2, SetInputGood
  <2> QED
    BY <1>0, <2>1, <2>2, <2>3, EditOneMethod
<1>8. CASE DELETE_VARIABLE
  BY <1>0, <1>8, DeleteGood, EditOneMethod DEF DELETE_VARIABLE
<1>9. CASE EMPTY_VALUE
  BY <1>0, <1>9, SetInputGood, EditOneMethod, ValuesAssumption DEF EMPTY_VALUE
<1>10. CASE TRIM_VALUE
  BY <1>0, <1>10, SetInputGood, EditOneMethod DEF TRIM_VALUE
<1>11. CASE UNCHANGED vars
  BY <1>11 DEF vars, IInv, TypeOK, NoShadowing, ServerWhitelisted
<1> QED
  BY <1>1, <1>2, <1>3, <1>4, <1>5, <1>6, <1>7, <1>8, <1>9, <1>10, <1>11
  DEF Next, fuzz, trim

(* The inductive invariant holds after any sequence of operations. *)
THEOREM IInvInvariant == Spec => []IInv
BY InitIInv, NextIInv, PTL DEF Spec

(* The input stays a dict of dicts over the known names. *)
THEOREM TypeCorrect == Spec => []TypeOK
<1>1. IInv => TypeOK
  BY DEF IInv
<1> QED
  BY <1>1, IInvInvariant, PTL

(* set_input, delete_input_key, UPLOAD, merging and trimming never leave   *)
(* a variable next to the array it is directly an element of.              *)
THEOREM NoShadowingInvariant == Spec => []NoShadowing
<1>1. IInv => NoShadowing
  BY DEF IInv
<1> QED
  BY <1>1, IInvInvariant, PTL

(* Only whitelisted, "["-free names ever reach the SERVER variables. *)
THEOREM ServerWhitelistedInvariant == Spec => []ServerWhitelisted
<1>1. IInv => ServerWhitelisted
  BY DEF IInv
<1> QED
  BY <1>1, IInvInvariant, PTL
-----------------------------------------------------------------------------
(* Trimming. *)

(* Each variable of e is one of d, with a value that is not longer. *)
Smaller(e, d) ==
    /\ DOMAIN e \subseteq DOMAIN d
    /\ \A k \in DOMAIN e : e[k] <= d[k]

(* Value lengths are numbers. *)
LEMMA DictValues ==
    ASSUME NEW d \in Dict, NEW k \in DOMAIN d
    PROVE  d[k] \in Nat
BY ValuesAssumption, ZenonT(30) DEF Dict

(* Every dict is as small as itself. *)
LEMMA SmallerReflexive ==
    ASSUME NEW d \in Dict
    PROVE  Smaller(d, d)
<1>1. \A k \in DOMAIN d : d[k] \in Nat
  BY DictValues
<1> QED
  BY <1>1 DEF Smaller

(* delete_input_key lengthens no value. *)
LEMMA DeleteSmaller ==
    ASSUME NEW d \in Dict, NEW key
    PROVE  Smaller(delete_input_key(d, key), d)
BY SmallerReflexive, DeleteRestricts DEF Smaller

(* set_input with a value that is not longer lengthens no value. *)
LEMMA SetInputSmaller ==
    ASSUME NEW d \in Dict, NEW m, NEW key \in DOMAIN d, NEW value \in Values,
           value <= d[key]
    PROVE  Smaller(set_input(d, m, key, value), d)
<1>1. key \in Keys
  BY DEF Dict
<1>2. /\ DOMAIN set_input(d, m, key, value) \subseteq DOMAIN d \cup {key}
      /\ \A k \in DOMAIN set_input(d, m, key, value) :
           \/ k = key /\ set_input(d, m, key, value)[k] \in {value, d[k]}
           \/ k \in DOMAIN d /\ set_input(d, m, key, value)[k] = d[k]
  BY <1>1, SetInputType
<1>3. \A k \in DOMAIN d : d[k] <= d[k]
  BY SmallerReflexive DEF Smaller
<1> QED
  BY <1>2, <1>3 DEF Smaller

(* Deleting a "["-free key leaves every other "["-free key in place. *)
LEMMA DeleteScalar ==
    ASSUME NEW d, NEW key \in Keys, Len(key) = 1,
           NEW k \in Keys, Len(k) = 1, k \in DOMAIN d, k # key
    PROVE  k \in DOMAIN delete_input_key(d, key)
<1>1. key_without_parenthesis(key) = key
  BY ScalarKey DEF key_without_parenthesis
<1>2. ~IsElementOf(k, key)
  BY DEF IsElementOf
<1> QED
  BY <1>1, <1>2 DEF delete_input_key, Restrict

(* set_input on a "["-free key loses no other "["-free key. *)
LEMMA SetInputKeepsScalars ==
    ASSUME NEW d, NEW m, NEW key \in Keys, Len(key) = 1, NEW value,
           NEW k \in Keys, Len(k) = 1, k \in DOMAIN d
    PROVE  k \in DOMAIN set_input(d, m, key, value)
BY DeleteScalar DEF set_input, Assign

(* What TrimShrinks says of one step. *)
Shrinks ==
    /\ \A m \in input_methods : Smaller(inp'[m], inp[m])
    /\ UploadComplete(inp) /\ is_upload_mode(inp)' => UploadComplete(inp)'

(* Writing a value that is not longer to a variable that is there. *)
LEMMA SetShrinks ==
    ASSUME IInv, NEW m \in input_methods, NEW key \in DOMAIN inp[m],
           NEW value \in Values, value <= inp[m][key],
           inp' = [inp EXCEPT ![m] = set_input(inp[m], m, key, value)]
    PROVE  Shrinks
<1>0. /\ inp \in [input_methods -> Dict]
      /\ \A n \in input_methods : Good(n, inp[n])
  BY IInvGood DEF Input
<1>1. /\ inp'[m] = set_input(inp[m], m, key, value)
      /\ \A n \in input_methods : n # m => inp'[n] = inp[n]
  BY <1>0
<1>2. \A n \in input_methods : Smaller(inp'[n], inp[n])
  BY <1>0, <1>1, SetInputSmaller, SmallerReflexive
<1>3. ASSUME UploadComplete(inp) PROVE UploadComplete(inp)'
  <2>0. "SERVER" \in input_methods
    BY DEF input_methods
  <2>1. CASE m = "SERVER"
    <3>1. key \in Keys /\ Len(key) = 1
      BY <1>0, <2>1 DEF Good, ServerAccepts, Dict
    <3>2. \A k \in UploadVars : k \in Keys /\ Len(k) = 1
      BY UploadAssumption
    <3> QED
      BY <1>1, <1>3, <2>1, <3>1, <3>2, SetInputKeepsScalars DEF UploadComplete
  <2>2. CASE m # "SERVER"
    BY <1>1, <1>3, <2>0, <2>2 DEF UploadComplete
  <2> QED
    BY <2>1, <2>2
<1> QED
  BY <1>2, <1>3 DEF Shrinks

(* Deleting a variable that the upload does not need. *)
LEMMA DeleteShrinks ==
    ASSUME IInv, NEW m \in input_methods, NEW key \in DOMAIN inp[m],
           is_upload_mode(inp) => key \notin server_keep_after_trimming,
           inp' = [inp EXCEPT ![m] = delete_input_key(inp[m], key)]
    PROVE  Shrinks
<1>0. /\ inp \in [input_methods -> Dict]
      /\ \A n \in input_methods : Good(n, inp[n])
  BY IInvGood DEF Input
<1>1. /\ inp'[m] = delete_input_key(inp[m], key)
      /\ \A n \in input_methods : n # m => inp'[n] = inp[n]
  BY <1>0
<1>2. \A n \in input_methods : Smaller(inp'[n], inp[n])
  BY <1>0, <1>1, DeleteSmaller, SmallerReflexive
<1>3. ASSUME UploadComplete(inp), is_upload_mode(inp)' PROVE UploadComplete(inp)'
  <2>0. "SERVER" \in input_methods
    BY DEF input_methods
  <2>1. CASE m = "SERVER"
    <3>1. key \in Keys /\ Len(key) = 1
      BY <1>0, <2>1 DEF Good, ServerAccepts, Dict
    <3>2. UPLOAD_KEY \in DOMAIN delete_input_key(inp["SERVER"], key)
      BY <1>1, <1>3, <2>1 DEF is_upload_mode
    <3>3. key # UPLOAD_KEY
      BY <3>2 DEF delete_input_key, Restrict
    <3>4. is_upload_mode(inp)
      BY <1>3, UploadAssumption DEF UploadComplete, is_upload_mode
    <3>5. key \notin UploadVars
      BY <3>3, <3>4 DEF server_keep_after_trimming
    <3>6. \A k \in UploadVars : k \in Keys /\ Len(k) = 1 /\ k # key
      BY <3>5, UploadAssumption
    <3> QED
      BY <1>1, <1>3, <2>1, <3>1, <3>6, DeleteScalar DEF UploadComplete
  <2>2. CASE m # "SERVER"
    BY <1>1, <1>3, <2>0, <2>2 DEF UploadComplete
  <2> QED
    BY <2>1, <2>2
<1> QED
  BY <1>2, <1>3 DEF Shrinks

(* No sequence of fuzzing and trimming operations reaches a state in which *)
(* a trimming operation of trim() adds a variable, lengthens a value, or   *)
(* breaks an upload that was complete.                                     *)
THEOREM TrimShrinksAlways == Spec => TrimShrinks
<1>1. ASSUME IInv, trim PROVE Shrinks
  <2>0. \A m \in input_methods : inp[m] \in Dict
    BY <1>1 DEF IInv, TypeOK, Input
  <2>1. CASE DELETE_VARIABLE
    BY <1>1, <2>1, DeleteShrinks DEF DELETE_VARIABLE
  <2>2. CASE EMPTY_VALUE
    <3>1. PICK m \in input_methods : \E key \in DOMAIN inp[m] :
            inp' = [inp EXCEPT ![m] = set_input(inp[m], m, key, 0)]
      BY <2>2 DEF EMPTY_VALUE
    <3>2. PICK key \in DOMAIN inp[m] :
            inp' = [inp EXCEPT ![m] = set_input(inp[m], m, key, 0)]
      BY <3>1
    <3>3. inp[m][key] \in Nat
      BY <2>0, DictValues
    <3>4. 0 <= inp[m][key]
      BY <3>3
    <3> QED
      BY <1>1, <3>2, <3>4, SetShrinks, ValuesAssumption
  <2>3. CASE TRIM_VALUE
    <3>1. PICK m \in input_methods : \E key \in DOMAIN inp[m] : \E rest \in Values :
            /\ rest < inp[m][key]
            /\ inp' = [inp EXCEPT ![m] = set_input(inp[m], m, key, rest)]
      BY <2>3 DEF TRIM_VALUE
    <3>2. PICK key \in DOMAIN inp[m] : \E rest \in Values :
            /\ rest < inp[m][key]
            /\ inp' = [inp EXCEPT ![m] = set_input(inp[m], m, key, rest)]
      BY <3>1
    <3>3. PICK rest \in Values :
            /\ rest < inp[m][key]
            /\ inp' = [inp EXCEPT ![m] = set_input(inp[m], m, key, rest)]
      BY <3>2
    <3>4. rest \in Nat /\ inp[m][key] \in Nat
      BY <2>0, DictValues, ValuesAssumption
    <3>5. rest <= inp[m][key]
      BY <3>3, <3>4
    <3> QED
      BY <1>1, <3>3, <3>5, SetShrinks
  <2> QED
    BY <1>1, <2>1, <2>2, <2>3 DEF trim
<1>2. IInv /\ [Next]_vars =>
        [trim => /\ \A m \in input_methods :
                      /\ DOMAIN inp'[m] \subseteq DOMAIN inp[m]
                      /\ \A k \in DOMAIN inp'[m] : inp'[m][k] <= inp[m][k]
                 /\ UploadComplete(inp) /\ is_upload_mode(inp)' => UploadComplete(inp)']_vars
  BY <1>1 DEF Shrinks, Smaller
<1> QED
  BY <1>2, IInvInvariant, PTL DEF Spec, TrimShrinks
-----------------------------------------------------------------------------
(* dict.update: the new variables win, the others stay. *)
LEMMA UpdateOf ==
    ASSUME NEW env, NEW new
    PROVE  /\ DOMAIN Update(env, new) = DOMAIN env \cup DOMAIN new
           /\ \A n \in DOMAIN new : Update(env, new)[n] = new[n]
           /\ \A n \in DOMAIN env \ DOMAIN new : Update(env, new)[n] = env[n]
BY DEF Update

(* Settling the method leaves the other variables alone, and a request     *)
(* with a body does not leave it as a GET.                                 *)
LEMMA MethodFitsBody ==
    ASSUME NEW env
    PROVE  /\ DOMAIN WithMethod(env) = DOMAIN env \cup {"REQUEST_METHOD"}
           /\ "POST_DATA" \in DOMAIN env =>
                /\ WithMethod(env)["POST_DATA"] = env["POST_DATA"]
                /\ env["POST_DATA"].value > 0 =>
                     WithMethod(env)["REQUEST_METHOD"].value # GET
<1> DEFINE method == IF "REQUEST_METHOD" \in DOMAIN env THEN env["REQUEST_METHOD"]
                     ELSE From("fixed", GET)
           final == IF method.value = GET /\ env["POST_DATA"].value > 0
                    THEN From("fixed", GET + 1) ELSE method
           new == [n \in {"REQUEST_METHOD"} |-> final]
<1>1. WithMethod(env) = Update(env, new)
  BY DEF WithMethod
<1>2. GET \in Nat
  BY RequestConstants, ValuesAssumption
<1>3. env["POST_DATA"].value > 0 => final.value # GET
  <2>1. From("fixed", GET + 1).value = GET + 1
    BY DEF From
  <2>2. GET + 1 # GET
    BY <1>2
  <2> QED
    BY <2>1, <2>2
<1>4. DOMAIN new = {"REQUEST_METHOD"} /\ new["REQUEST_METHOD"] = final
  OBVIOUS
<1> HIDE DEF method, final, new
<1>5. "POST_DATA" # "REQUEST_METHOD"
  OBVIOUS
<1>6. /\ DOMAIN Update(env, new) = DOMAIN env \cup DOMAIN new
      /\ \A n \in DOMAIN new : Update(env, new)[n] = new[n]
      /\ \A n \in DOMAIN env \ DOMAIN new : Update(env, new)[n] = env[n]
  BY UpdateOf
<1> QED
  BY <1>1, <1>3, <1>4, <1>5, <1>6

(* The body that input_to_env settles the method for is the one that is    *)
(* sent, also when the input brings SERVER variables of its own, and every *)
(* request has a method and a content type.  No invariant is needed: it is *)
(* so for every input.                                                     *)
THEOREM BodyIsReadInvariant == Spec => []BodyIsRead
<1> DEFINE base == Update(DefaultEnv, RequestEnv(inp))
           set == Update(set_if_not_set, base)
           env == Update(set, ServerEnv(inp))
<1>1. input_to_env(inp) = WithMethod(env)
  BY DEF input_to_env
<1>2. "POST_DATA" \in DOMAIN RequestEnv(inp)
  BY DEF RequestEnv
<1>3. "CONTENT_TYPE" \in DOMAIN set_if_not_set
  BY DEF set_if_not_set
<1>4. "POST_DATA" \in DOMAIN env /\ "CONTENT_TYPE" \in DOMAIN env
  <2>1. DOMAIN base = DOMAIN DefaultEnv \cup DOMAIN RequestEnv(inp)
    BY UpdateOf
  <2>2. DOMAIN set = DOMAIN set_if_not_set \cup DOMAIN base
    BY UpdateOf
  <2>3. DOMAIN env = DOMAIN set \cup DOMAIN ServerEnv(inp)
    BY UpdateOf
  <2> HIDE DEF base, set, env
  <2> QED
    BY <1>2, <1>3, <2>1, <2>2, <2>3
<1> HIDE DEF env
<1>5. BodyIsRead
  BY <1>1, <1>4, MethodFitsBody, ZenonT(30) DEF BodyIsRead
<1> QED
  BY <1>5, PTL

=============================================================================
