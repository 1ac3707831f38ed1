---------------------------- MODULE RedqueenFile ----------------------------
(***************************************************************************)
(* The strings dump between the pcov extension, which writes it record by  *)
(* record from within the VM (src/pcov-patched/pcov.c), and the mutator,   *)
(* which parses it on the host (parse_redqueen_file in                     *)
(* src/fuzzer/misc.py).  A record is [type][len][s] for a string or an     *)
(* array key and [type][len1][s1][len2][s2] for an unmatched comparison or *)
(* a regular expression.  Lengths take two bytes, are written unsigned and *)
(* read signed.  A byte has BYTE values instead of 256.                    *)
(***************************************************************************)
EXTENDS Integers, Sequences, Functions

CONSTANTS
    BYTE,               \* number of values of a byte
    MAX_PAYLOAD,        \* longest content of a record (1000 in the code)
    Strings,            \* strings that PHP code compares and uses as keys
    MaxRecords,         \* records of one run (a bound for TLC)
    MaxRuns             \* runs before the file is parsed (a bound for TLC)

REDQUEEN_STRING == 0
REDQUEEN_ARRAY_KEY == 1
REDQUEEN_UNMATCHED == 2
REDQUEEN_PREG_MATCH == 3

ASSUME RedqueenFileConstants ==
    /\ BYTE \in Nat /\ BYTE > REDQUEEN_PREG_MATCH
    /\ MAX_PAYLOAD \in Nat /\ 2 * MAX_PAYLOAD < BYTE * BYTE
    /\ Strings \subseteq Seq(0 .. BYTE - 1)
    /\ MaxRecords \in Nat /\ MaxRuns \in Nat \ {0}

VARIABLES
    file,                   \* bytes of the dump on the host
    redqueen_mode_enabled,
    init,                   \* _dump_payload's static init
    runs,                   \* number of runs so far
    status,                 \* of the run, then of the parser
    tell,                   \* position of the parser in the file
    strings, key_strings, unmatched_strings, preg_matches,
    preg_match_cache,
    dumped,                 \* history: the records in the file
    bounds,                 \* history: the position at which each of them starts
    decoded                 \* history: the records the parser has read

results == <<strings, key_strings, unmatched_strings, preg_matches, preg_match_cache>>
hostVars == <<status, tell, results, decoded>>
vars == <<file, redqueen_mode_enabled, init, runs, dumped, bounds, hostVars>>

Record == [type : {REDQUEEN_STRING, REDQUEEN_ARRAY_KEY}, s : Seq(0 .. BYTE - 1)] \cup
          [type : {REDQUEEN_UNMATCHED, REDQUEEN_PREG_MATCH},
           s1 : Seq(0 .. BYTE - 1), s2 : Seq(0 .. BYTE - 1)]

EmptyCache == [regexp \in {} |-> <<>>]

Init ==
    /\ file = <<>>
    /\ redqueen_mode_enabled \in BOOLEAN
    /\ init = FALSE
    /\ runs = 1
    /\ status = "running"
    /\ tell = 0
    /\ strings = <<>> /\ key_strings = <<>> /\ unmatched_strings = <<>> /\ preg_matches = <<>>
    /\ preg_match_cache = EmptyCache
    /\ dumped = <<>> /\ bounds = <<>> /\ decoded = <<>>

-----------------------------------------------------------------------------
(* The writer. *)

(* Mutant: the length is stored as one byte, the other one is 0. *)
uint16_OneByte(n) == <<n, 0>>

(* A uint16_t in memory, low byte first. *)
uint16(n) == <<n % BYTE, (n \div BYTE) % BYTE>>

(* The bytes of a record. *)
Bytes(rec) ==
    IF rec.type \in {REDQUEEN_STRING, REDQUEEN_ARRAY_KEY}
    THEN <<rec.type>> \o uint16(Len(rec.s)) \o rec.s
    ELSE <<rec.type>> \o uint16(Len(rec.s1)) \o rec.s1 \o uint16(Len(rec.s2)) \o rec.s2

(* The first record of a run truncates the file, each one is appended by a *)
(* hypercall of its own.  The run may time out between the two hypercalls. *)
dump_payload(rec) ==
    /\ status = "running"
    /\ redqueen_mode_enabled
    /\ init => Len(dumped) < MaxRecords
    /\ LET old == IF init THEN file ELSE <<>>
           recs == IF init THEN dumped ELSE <<>>
           starts == IF init THEN bounds ELSE <<>>
       IN  \/ /\ file' = old \o Bytes(rec)
              /\ dumped' = Append(recs, rec)
              /\ bounds' = Append(starts, Len(old))
              /\ UNCHANGED hostVars
           \/ /\ ~init
              /\ file' = old /\ dumped' = recs /\ bounds' = starts
              /\ status' = "ended"
              /\ UNCHANGED <<tell, results, decoded>>
    /\ init' = TRUE
    /\ UNCHANGED <<redqueen_mode_enabled, runs>>

(* Mutant: the length of the content is not limited. *)
dump_redqueen_payload_Unlimited(s, type) ==
    dump_payload([type |-> type, s |-> s])

(* php_pcov_redqueen: a compared string or a missing array key. *)
dump_redqueen_payload(s, type) ==
    /\ Len(s) <= MAX_PAYLOAD
    /\ dump_payload([type |-> type, s |-> s])

(* php_pcov_redqueen_unmatched and php_pcov_redqueen_preg_match. *)
php_pcov_redqueen_pair(s1, s2, type) ==
    /\ Len(s1) + Len(s2) <= MAX_PAYLOAD
    /\ dump_payload([type |-> type, s1 |-> s1, s2 |-> s2])

(* A run ends: released, crashed or timed out. *)
EndRun ==
    /\ status = "running"
    /\ status' = "ended"
    /\ UNCHANGED <<file, redqueen_mode_enabled, init, runs, tell, results, dumped, bounds, decoded>>

(* The VM is back at the snapshot, init with it, and the next run starts;  *)
(* the file stays on the host.                                             *)
StartRun ==
    /\ status = "ended"
    /\ runs < MaxRuns
    /\ runs' = runs + 1
    /\ status' = "running"
    /\ redqueen_mode_enabled' \in BOOLEAN
    /\ init' = FALSE
    /\ UNCHANGED <<file, tell, results, dumped, bounds, decoded>>

-----------------------------------------------------------------------------
(* The parser. *)

Parse ==
    /\ status = "ended"
    /\ status' = "parsing"
    /\ UNCHANGED <<file, redqueen_mode_enabled, init, runs, tell, results, dumped, bounds, decoded>>

(* Mutant: the length takes one byte. *)
unpack_h_OneByte(p) == file[p + 1]

(* struct.unpack('h', ...) of the two bytes at p. *)
unpack_h(p) ==
    LET n == file[p + 1] + BYTE * file[p + 2] IN
    IF 2 * n < BYTE * BYTE THEN n ELSE n - BYTE * BYTE

(* Number of content bytes of the field at p: none for a negative length. *)
ContentLen(p) == IF unpack_h(p) > 0 THEN unpack_h(p) ELSE 0

(* read_bytes does not raise ReadBeyondEnd for the length and the content. *)
FieldFits(p) == p + 2 <= Len(file) /\ p + 2 + ContentLen(p) <= Len(file)
Field(p) == SubSeq(file, p + 3, p + 2 + ContentLen(p))
FieldEnd(p) == p + 2 + ContentLen(p)

s_type == file[tell + 1]

(* The parser can read a whole record. *)
RecordFits ==
    \/ s_type \in {REDQUEEN_STRING, REDQUEEN_ARRAY_KEY} /\ FieldFits(tell + 1)
    \/ /\ s_type \in {REDQUEEN_UNMATCHED, REDQUEEN_PREG_MATCH}
       /\ FieldFits(tell + 1) /\ FieldFits(FieldEnd(tell + 1))

ParserUnchanged == UNCHANGED <<file, redqueen_mode_enabled, init, runs, dumped, bounds>>

(* A string, also a key if it was used as one. *)
ReadString ==
    /\ status = "parsing"
    /\ tell < Len(file)
    /\ s_type \in {REDQUEEN_STRING, REDQUEEN_ARRAY_KEY}
    /\ RecordFits
    /\ LET content == Field(tell + 1) IN
         /\ strings' = Append(strings, content)
         /\ key_strings' = IF s_type = REDQUEEN_ARRAY_KEY
                           THEN Append(key_strings, content) ELSE key_strings
         /\ decoded' = Append(decoded, [type |-> s_type, s |-> content])
    /\ tell' = FieldEnd(tell + 1)
    /\ UNCHANGED <<status, unmatched_strings, preg_matches, preg_match_cache>>
    /\ ParserUnchanged

(* Mutant: the reversal is what is replaced. *)
Replacements_Swapped(cmp_str, revs) == [i \in 1 .. Len(revs) |-> <<revs[i], cmp_str>>]

(* The pairs by which every part of cmp_str that does not match can be     *)
(* replaced.                                                               *)
Replacements(cmp_str, revs) == [i \in 1 .. Len(revs) |-> <<cmp_str, revs[i]>>]

(* shortest_reverse_regexp and reverse_regexp_count, from the exrex        *)
(* library: strings that match; both may time out or raise.  They are told *)
(* apart from the dumped strings by their first character.                 *)
shortest_reverse_regexp(regexp) == <<BYTE>> \o regexp
reverse_regexp_count(regexp) == <<<<BYTE + 1>> \o regexp>>

(* A pair of strings that were compared, or a regular expression and its   *)
(* subject.  An expression is reversed once and remembered; a failure to   *)
(* reverse it is not.                                                      *)
ReadPair ==
    /\ status = "parsing"
    /\ tell < Len(file)
    /\ s_type \in {REDQUEEN_UNMATCHED, REDQUEEN_PREG_MATCH}
    /\ RecordFits
    /\ LET str1 == Field(tell + 1)
           str2 == Field(FieldEnd(tell + 1))
           both == strings \o <<str1, str2>>
           shortest == shortest_reverse_regexp(str1)
           additional == reverse_regexp_count(str1)
       IN  /\ decoded' = Append(decoded, [type |-> s_type, s1 |-> str1, s2 |-> str2])
           /\ \/ /\ s_type = REDQUEEN_UNMATCHED
                 /\ strings' = both
                 /\ unmatched_strings' = Append(unmatched_strings, <<str1, str2>>)
                 /\ UNCHANGED <<preg_matches, preg_match_cache>>
              \/ /\ s_type = REDQUEEN_PREG_MATCH /\ str1 \in DOMAIN preg_match_cache
                 /\ strings' = both \o preg_match_cache[str1]
                 /\ preg_matches' = preg_matches \o preg_match_cache[str1]
                 /\ unmatched_strings' = unmatched_strings \o
                                           Replacements(str2, preg_match_cache[str1])
                 /\ UNCHANGED preg_match_cache
              \/ /\ s_type = REDQUEEN_PREG_MATCH /\ str1 \notin DOMAIN preg_match_cache
                 /\ strings' = both
                 /\ UNCHANGED <<unmatched_strings, preg_matches, preg_match_cache>>
              \/ /\ s_type = REDQUEEN_PREG_MATCH /\ str1 \notin DOMAIN preg_match_cache
                 /\ strings' = both \o <<shortest>> \o additional
                 /\ preg_matches' = preg_matches \o <<shortest>> \o additional
                 /\ unmatched_strings' = unmatched_strings \o
                                           Replacements(str2, Append(additional, shortest))
                 /\ preg_match_cache' = [regexp \in DOMAIN preg_match_cache \cup {str1} |->
                      IF regexp = str1 THEN Append(additional, shortest)
                                       ELSE preg_match_cache[regexp]]
    /\ tell' = FieldEnd(FieldEnd(tell + 1))
    /\ UNCHANGED <<status, key_strings>>
    /\ ParserUnchanged

(* The loop ends: at the end of the file, by ReadBeyondEnd, or because the *)
(* assertion on s_type fails, an exception that is not caught.             *)
StopParsing ==
    /\ status = "parsing"
    /\ ~(tell < Len(file) /\ RecordFits)
    /\ status' = IF tell < Len(file) /\ s_type \notin REDQUEEN_STRING .. REDQUEEN_PREG_MATCH
                 THEN "failed" ELSE "done"
    /\ UNCHANGED <<tell, results, decoded>>
    /\ ParserUnchanged

Next ==
    \/ \E s \in Strings, type \in {REDQUEEN_STRING, REDQUEEN_ARRAY_KEY} :
         dump_redqueen_payload(s, type)
    \/ \E s1, s2 \in Strings, type \in {REDQUEEN_UNMATCHED, REDQUEEN_PREG_MATCH} :
         php_pcov_redqueen_pair(s1, s2, type)
    \/ EndRun
    \/ StartRun
    \/ Parse
    \/ ReadString
    \/ ReadPair
    \/ StopParsing

Spec == Init /\ [][Next]_vars

-----------------------------------------------------------------------------
Byte == 0 .. BYTE - 1
Char == 0 .. BYTE + 1

(* The variables have their types. *)
TypeOK ==
    /\ file \in Seq(Byte)
    /\ redqueen_mode_enabled \in BOOLEAN /\ init \in BOOLEAN
    /\ runs \in 1 .. MaxRuns
    /\ status \in {"running", "ended", "parsing", "done", "failed"}
    /\ tell \in 0 .. Len(file)
    /\ strings \in Seq(Seq(Char)) /\ key_strings \in Seq(Seq(Byte))
    /\ unmatched_strings \in Seq(Seq(Byte) \X Seq(Char)) /\ preg_matches \in Seq(Seq(Char))
    /\ \A regexp \in DOMAIN preg_match_cache : preg_match_cache[regexp] \in Seq(Seq(Char))
    /\ dumped \in Seq(Record) /\ decoded \in Seq(Record)
    /\ bounds \in [1 .. Len(dumped) -> 0 .. Len(file)]

(* The parser never loses step with the writer: what it has decoded are    *)
(* the records that were dumped, in order, and it stands at the start of   *)
(* the next one, though neither the type nor the contents of a record can  *)
(* be told apart from a length (the 1000 of dump_redqueen_payload against  *)
(* the signed 'h' of parse_redqueen_file).                                 *)
InStep ==
    /\ Len(decoded) <= Len(dumped)
    /\ decoded = SubSeq(dumped, 1, Len(decoded))
    /\ tell = IF Len(decoded) < Len(dumped) /\ decoded # <<>>
              THEN bounds[Len(decoded) + 1]
              ELSE IF decoded = <<>> THEN 0 ELSE Len(file)

(* Parsing a dump, whichever run left it and wherever that run ended,      *)
(* raises nothing but the end of the file and reads every record.          *)
ParsesAll ==
    /\ status # "failed"
    /\ status = "done" => decoded = dumped

(* What the mutator learns is what the run did: the keys are the array     *)
(* keys it looked up, every string it dumped is there, and a replacement   *)
(* is a comparison that failed or a reversal of a regular expression for   *)
(* the very subject that was matched against it.                           *)
LearnsWhatWasDumped ==
    status = "done" =>
      LET recs == Range(dumped)
          pairs == {r \in recs : r.type \in {REDQUEEN_UNMATCHED, REDQUEEN_PREG_MATCH}}
      IN  /\ Range(key_strings) = {r.s : r \in {q \in recs : q.type = REDQUEEN_ARRAY_KEY}}
          /\ {r.s : r \in recs \ pairs} \cup UNION {{r.s1, r.s2} : r \in pairs}
               \subseteq Range(strings)
          /\ \A u \in Range(unmatched_strings) : \E r \in pairs :
               IF r.type = REDQUEEN_UNMATCHED THEN u = <<r.s1, r.s2>>
               ELSE u[1] = r.s2 /\ u[2] \in {shortest_reverse_regexp(r.s1)} \cup
                                            Range(reverse_regexp_count(r.s1))
=============================================================================
