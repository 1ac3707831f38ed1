------------------------- MODULE Dictionary_proofs -------------------------
(***************************************************************************)
(* Proofs about Dictionary, for every set of strings and files, whatever   *)
(* was extracted from the source.                                          *)
(***************************************************************************)
EXTENDS Dictionary, TLAPS

(* The inductive invariant, part by part. *)

(* What was learned in this visit is what the maps of the entry hold. *)
LearnedIsHeld == learned = redqueen_map \cup redqueen_key_map \cup Both(redqueen_unmatched_map)

(* get_from_dictionary takes an empty redqueen_map for no dump at all. *)
NoMapNoDump == redqueen_map = {} => redqueen_key_map = {} /\ redqueen_unmatched_map = {}

(* A key that worked for a file is also one of its strings. *)
KeysAreStrings == \A f \in Files : input_key_map[f] \subseteq filename_to_string_map[f]

IInv ==
    /\ TypeOK
    /\ LearnedIsHeld
    /\ NoMapNoDump
    /\ KeysAreStrings

-----------------------------------------------------------------------------
(* The halves of pairs of strings are strings. *)
LEMMA Halves ==
    ASSUME NEW pairs, pairs \subseteq Strings \X Strings
    PROVE  /\ Firsts(pairs) \subseteq Strings
           /\ Seconds(pairs) \subseteq Strings
           /\ Both(pairs) = Firsts(pairs) \cup Seconds(pairs)
           /\ pairs # {} => Firsts(pairs) # {} /\ Seconds(pairs) # {}
  BY DEF Firsts, Seconds, Both

(* A dump holds a subset of what there is. *)
LEMMA SomeIsSubset ==
    ASSUME NEW S, NEW T \in Some(S)
    PROVE  T \subseteq S
  BY DEF Some, kSubset

(* The mutator starts with empty maps. *)
LEMMA InitIInv == Init => IInv
  BY DEF Init, IInv, TypeOK, LearnedIsHeld, NoMapNoDump, KeysAreStrings, Both, Firsts, Seconds

(* Every step keeps the inductive invariant. *)
LEMMA StepIInv == IInv /\ [Next]_vars => IInv'
<1> SUFFICES ASSUME IInv, [Next]_vars PROVE IInv'
  OBVIOUS
<1> USE DEF IInv, vars, redqueenMaps, fileMaps
<1>1. CASE queue_get
  BY <1>1 DEF queue_get, TypeOK, LearnedIsHeld, NoMapNoDump, KeysAreStrings, Both, Firsts, Seconds
<1>2. ASSUME NEW strings \in Some(Strings), NEW keys \in Some(Strings),
             NEW pairs \in Some(Strings \X Strings),
             apply_redqueen_dump(strings, keys, pairs)
      PROVE  IInv'
  <2>1. strings \subseteq Strings /\ keys \subseteq Strings /\ pairs \subseteq Strings \X Strings
    BY SomeIsSubset
  <2>2. /\ redqueen_map' = strings \cup keys \cup Both(pairs)
        /\ redqueen_key_map' = keys
        /\ redqueen_unmatched_map' = pairs
        /\ learned' = strings \cup keys \cup Both(pairs)
        /\ UNCHANGED fileMaps
    BY <1>2 DEF apply_redqueen_dump
  <2>3. Both(pairs) \subseteq Strings /\ (pairs # {} => Both(pairs) # {})
    BY <2>1, Halves
  <2>4. TypeOK'
    BY <2>1, <2>2, <2>3 DEF TypeOK
  <2>5. Both(redqueen_unmatched_map)' = Both(pairs)
    BY <2>2 DEF Both, Firsts, Seconds
  <2> QED
    BY <2>2, <2>3, <2>4, <2>5 DEF LearnedIsHeld, NoMapNoDump, KeysAreStrings
<1>3. ASSUME NEW target \in Strings, NEW variables \in Some(Strings \X Strings),
             HtmlDump(target, variables)
      PROVE  IInv'
  <2>1. variables \subseteq Strings \X Strings
    BY SomeIsSubset
  <2>2. /\ Firsts(variables) \subseteq Strings /\ Seconds(variables) \subseteq Strings
        /\ Both(variables) = Firsts(variables) \cup Seconds(variables)
    BY <2>1, Halves
  <2>3. Both(redqueen_unmatched_map)' = Both(redqueen_unmatched_map)
    BY <1>3 DEF HtmlDump, Both, Firsts, Seconds
  <2>4. TypeOK'
    BY <1>3, <2>2 DEF HtmlDump, TypeOK
  <2> QED
    BY <1>3, <2>2, <2>3, <2>4 DEF HtmlDump, LearnedIsHeld, NoMapNoDump, KeysAreStrings
<1>4. ASSUME NEW filename \in Files, NEW variables \in Some(Strings \X Strings),
             post_trim(filename, variables)
      PROVE  IInv'
  <2>1. variables \subseteq Strings \X Strings
    BY SomeIsSubset
  <2>2. /\ Firsts(variables) \subseteq Strings /\ Seconds(variables) \subseteq Strings
        /\ Both(variables) = Firsts(variables) \cup Seconds(variables)
    BY <2>1, Halves
  <2>3. TypeOK'
    BY <1>4, <2>2 DEF post_trim, TypeOK
  <2>4. KeysAreStrings'
    BY <1>4, <2>2 DEF post_trim, TypeOK, KeysAreStrings
  <2> QED
    BY <1>4, <2>3, <2>4 DEF post_trim, LearnedIsHeld, NoMapNoDump, Both, Firsts, Seconds
<1>5. CASE UNCHANGED vars
  BY <1>5 DEF TypeOK, LearnedIsHeld, NoMapNoDump, KeysAreStrings, Both, Firsts, Seconds
<1> QED
  BY <1>1, <1>2, <1>3, <1>4, <1>5 DEF Next

(* The inductive invariant holds in every state of every behaviour. *)
LEMMA IInvInvariant == Spec => []IInv
  BY InitIInv, StepIInv, PTL DEF Spec

-----------------------------------------------------------------------------
(* The lookup. *)

Lists == {STATIC, RUNTIME, KEYABLE, UNMATCHED, WORKED_BEFORE}

(* Each list is what its name says. *)
LEMMA ListContents ==
    ASSUME NEW f
    PROVE  /\ DOMAIN m(f) = Lists
           /\ m(f)[STATIC] = php_strings
           /\ m(f)[RUNTIME] = redqueen_map
           /\ m(f)[KEYABLE] = IF redqueen_map # {} /\ redqueen_key_map # {}
                              THEN redqueen_key_map ELSE keyable(f)
           /\ m(f)[UNMATCHED] = IF redqueen_map = {} THEN {} ELSE Both(redqueen_unmatched_map)
           /\ m(f)[WORKED_BEFORE] = filename_to_string_map[f]
  BY DEF m, Lists, STATIC, RUNTIME, KEYABLE, UNMATCHED, WORKED_BEFORE

(* Which lists are not dropped. *)
LEMMA ListsChosen ==
    ASSUME NEW f
    PROVE  /\ choose_from(f) \subseteq Lists
           /\ STATIC \in choose_from(f) <=> php_strings # {}
           /\ RUNTIME \in choose_from(f) <=> redqueen_map # {}
           /\ KEYABLE \in choose_from(f) <=>
                (redqueen_map # {} => redqueen_key_map # {} \/ php_keyable_strings # {})
           /\ UNMATCHED \in choose_from(f) <=>
                redqueen_map # {} /\ redqueen_unmatched_map # {}
           /\ WORKED_BEFORE \in choose_from(f) <=> filename_to_string_map[f] # {}
<1>1. DOMAIN m(f) = Lists
  BY ListContents
<1> QED
  BY <1>1 DEF choose_from, Lists, STATIC, RUNTIME, KEYABLE, UNMATCHED, WORKED_BEFORE

(* A string of a list that is not dropped is a possible result. *)
LEMMA Reached ==
    ASSUME NEW f, NEW list \in choose_from(f), NEW x \in m(f)[list]
    PROVE  x \in get_from_dictionary(f)
  BY DEF get_from_dictionary

(* Each string that was learned is in a list that is not dropped. *)
LEMMA NothingOutOfReachIInv == IInv => NothingOutOfReach
<1> SUFFICES ASSUME IInv, NEW f \in Files,
                    NEW x \in learned \cup php_strings \cup input_key_map[f]
                                \cup filename_to_string_map[f]
             PROVE  x \in get_from_dictionary(f)
  BY DEF NothingOutOfReach
<1>1. CASE x \in php_strings
  BY <1>1, ListContents, ListsChosen, Reached
<1>2. CASE x \in input_key_map[f] \cup filename_to_string_map[f]
  <2>1. x \in filename_to_string_map[f]
    BY <1>2 DEF IInv, KeysAreStrings
  <2> QED
    BY <2>1, ListContents, ListsChosen, Reached
<1>3. CASE x \in redqueen_map
  BY <1>3, ListContents, ListsChosen, Reached
<1>4. CASE x \in redqueen_key_map
  <2>1. redqueen_map # {}
    BY <1>4 DEF IInv, NoMapNoDump
  <2> QED
    BY <1>4, <2>1, ListContents, ListsChosen, Reached
<1>5. CASE x \in Both(redqueen_unmatched_map)
  <2>1. redqueen_unmatched_map # {}
    BY <1>5 DEF Both, Firsts, Seconds
  <2>2. redqueen_map # {}
    BY <2>1 DEF IInv, NoMapNoDump
  <2> QED
    BY <1>5, <2>1, <2>2, ListContents, ListsChosen, Reached
<1> QED
  BY <1>1, <1>2, <1>3, <1>4, <1>5 DEF IInv, LearnedIsHeld

(* Each string of a list is known from somewhere. *)
LEMMA OnlyWhatIsKnownIInv == IInv => OnlyWhatIsKnown
<1> SUFFICES ASSUME IInv PROVE OnlyWhatIsKnown
  OBVIOUS
<1>1. Both(redqueen_unmatched_map) \subseteq learned
  BY DEF IInv, LearnedIsHeld
<1>2. ASSUME NEW f \in Files, NEW x \in get_from_dictionary(f), x # Random
      PROVE  x \in php_strings \cup learned \cup input_key_map[f] \cup filename_to_string_map[f]
  <2>1. PICK list \in choose_from(f) : x \in m(f)[list]
    BY <1>2 DEF get_from_dictionary
  <2>2. list \in Lists
    BY <2>1, ListsChosen
  <2>3. CASE list = STATIC
    BY <2>1, <2>3, ListContents
  <2>4. CASE list = RUNTIME
    BY <2>1, <2>4, ListContents DEF IInv, LearnedIsHeld
  <2>5. CASE list = KEYABLE
    BY <2>1, <2>5, ListContents, DictionaryConstants DEF IInv, LearnedIsHeld, keyable
  <2>6. CASE list = UNMATCHED
    BY <2>1, <2>6, <1>1, ListContents
  <2>7. CASE list = WORKED_BEFORE
    BY <2>1, <2>7, ListContents
  <2> QED
    BY <2>2, <2>3, <2>4, <2>5, <2>6, <2>7 DEF Lists
<1> QED
  BY <1>1, <1>2 DEF OnlyWhatIsKnown

-----------------------------------------------------------------------------
(* The maps hold strings. *)
THEOREM TypeCorrect == Spec => []TypeOK
  BY IInvInvariant, PTL DEF IInv

(* What was read since the last strings dump of the visit, and whatever is *)
(* known of the file or of the source, can be drawn: no list hides another *)
(* one for good, and none is dropped while it is the only one with a       *)
(* string.                                                                 *)
THEOREM NothingOutOfReachInvariant == Spec => []NothingOutOfReach
  BY IInvInvariant, NothingOutOfReachIInv, PTL

(* Whatever is drawn is random, of the source, of the requested file, or   *)
(* was read since queue_get and since the last strings dump: what an       *)
(* earlier visit read is gone, also from the lists that are hidden (what   *)
(* it asked for and left unread is not).                                   *)
THEOREM OnlyWhatIsKnownInvariant == Spec => []OnlyWhatIsKnown
  BY IInvInvariant, OnlyWhatIsKnownIInv, PTL
=============================================================================
