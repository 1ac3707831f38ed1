------------------------- MODULE RedqueenFile_proofs -------------------------
(***************************************************************************)
(* Proofs about RedqueenFile, for every number of values of a byte, every  *)
(* limit on the contents that a signed length can hold, and any strings.   *)
(***************************************************************************)
EXTENDS RedqueenFile, SequenceTheorems, TLAPS

(* The inductive invariant, part by part. *)

Single == {REDQUEEN_STRING, REDQUEEN_ARRAY_KEY}
Pair == {REDQUEEN_UNMATCHED, REDQUEEN_PREG_MATCH}

(* A record that the writer lets through. *)
Dumpable(rec) ==
    \/ rec \in [type : Single, s : Seq(Byte)] /\ Len(rec.s) <= MAX_PAYLOAD
    \/ rec \in [type : Pair, s1 : Seq(Byte), s2 : Seq(Byte)]
       /\ Len(rec.s1) <= MAX_PAYLOAD /\ Len(rec.s2) <= MAX_PAYLOAD

(* At position p of f there are the length and the bytes of s. *)
HasField(f, p, s) ==
    /\ p + 2 + Len(s) <= Len(f)
    /\ f[p + 1] = Len(s) % BYTE
    /\ f[p + 2] = (Len(s) \div BYTE) % BYTE
    /\ \A j \in 1 .. Len(s) : f[p + 2 + j] = s[j]

(* At position p of f there is the record rec. *)
HasRecord(f, p, rec) ==
    /\ p < Len(f) /\ f[p + 1] = rec.type
    /\ IF rec.type \in Single
       THEN HasField(f, p + 1, rec.s)
       ELSE HasField(f, p + 1, rec.s1) /\ HasField(f, p + 3 + Len(rec.s1), rec.s2)

(* Where a record at p ends. *)
RecordEnd(p, rec) ==
    IF rec.type \in Single
    THEN p + 3 + Len(rec.s)
    ELSE p + 5 + Len(rec.s1) + Len(rec.s2)

(* f is the records recs one after the other, starting at the positions    *)
(* starts.                                                                 *)
LayoutOf(f, recs, starts) ==
    /\ f \in Seq(Byte) /\ recs \in Seq(Record)
    /\ starts \in [1 .. Len(recs) -> 0 .. Len(f)]
    /\ recs = <<>> => f = <<>>
    /\ recs # <<>> => starts[1] = 0
    /\ \A k \in 1 .. Len(recs) :
         /\ Dumpable(recs[k])
         /\ HasRecord(f, starts[k], recs[k])
         /\ RecordEnd(starts[k], recs[k]) = IF k < Len(recs) THEN starts[k + 1] ELSE Len(f)

Layout == LayoutOf(file, dumped, bounds)

(* Before parsing, the parser's variables are what they are initially. *)
NothingParsed ==
    status \in {"running", "ended"} =>
      /\ tell = 0
      /\ strings = <<>> /\ key_strings = <<>> /\ unmatched_strings = <<>> /\ preg_matches = <<>>
      /\ preg_match_cache = EmptyCache
      /\ decoded = <<>>

(* The records read are the first ones of the file, and the parser stands  *)
(* at the next one or at the end.                                          *)
ReadSoFar ==
    /\ Len(decoded) <= Len(dumped)
    /\ \A i \in 1 .. Len(decoded) : decoded[i] = dumped[i]
    /\ tell = IF Len(decoded) < Len(dumped) THEN bounds[Len(decoded) + 1] ELSE Len(file)

Reversals(regexp) == {shortest_reverse_regexp(regexp)} \cup Range(reverse_regexp_count(regexp))

(* The record r is the reason for the replacement u. *)
Explains(r, u) ==
    /\ r.type \in Pair
    /\ IF r.type = REDQUEEN_UNMATCHED THEN u = <<r.s1, r.s2>>
       ELSE u[1] = r.s2 /\ u[2] \in Reversals(r.s1)

(* What a record contributes is in the results. *)
Contributed(r) ==
    IF r.type \in Single THEN r.s \in Range(strings)
    ELSE r.s1 \in Range(strings) /\ r.s2 \in Range(strings)

(* What the mutator has learned is what the records read so far say, and   *)
(* the cache holds reversals of the very expression.                       *)
Learned ==
    /\ Range(key_strings) = {r.s : r \in {q \in Range(decoded) : q.type = REDQUEEN_ARRAY_KEY}}
    /\ \A r \in Range(decoded) : Contributed(r)
    /\ \A u \in Range(unmatched_strings) : \E r \in Range(decoded) : Explains(r, u)
    /\ \A regexp \in DOMAIN preg_match_cache :
         Range(preg_match_cache[regexp]) \subseteq Reversals(regexp)

IInv ==
    /\ TypeOK
    /\ Layout
    /\ NothingParsed
    /\ ReadSoFar
    /\ Learned
    /\ ParsesAll

-----------------------------------------------------------------------------
(* Lengths. *)

(* A length that the writer lets through survives the two bytes. *)
LEMMA Uint16 ==
    ASSUME NEW n \in 0 .. MAX_PAYLOAD
    PROVE  /\ n % BYTE \in Byte /\ (n \div BYTE) % BYTE \in Byte
           /\ (n % BYTE) + BYTE * ((n \div BYTE) % BYTE) = n
           /\ 2 * n < BYTE * BYTE
<1> DEFINE q == n \div BYTE
           r == n % BYTE
<1>1. n \in Nat /\ BYTE \in Nat /\ BYTE > 0
  BY RedqueenFileConstants DEF REDQUEEN_PREG_MATCH
<1>2. 2 * n < BYTE * BYTE
  <2>1. BYTE * BYTE \in Nat /\ MAX_PAYLOAD \in Nat /\ 2 * MAX_PAYLOAD < BYTE * BYTE
    BY RedqueenFileConstants
  <2> QED
    BY <1>1, <2>1
<1>3. q \in Nat
  BY <1>1
<1>4. r \in 0 .. BYTE - 1
  BY <1>1
<1>5. n = BYTE * q + r
  BY <1>1
<1> HIDE DEF q, r
<1>6. q < BYTE
  <2> SUFFICES ASSUME q >= BYTE PROVE FALSE
    BY <1>1, <1>3
  <2>1. BYTE * q >= BYTE * BYTE
    BY <1>1, <1>3
  <2>2. BYTE * BYTE \in Nat /\ BYTE * q \in Nat
    BY <1>1, <1>3
  <2> QED
    BY <1>1, <1>2, <1>4, <1>5, <2>1, <2>2
<1>7. q % BYTE = q
  BY <1>1, <1>3, <1>6
<1>8. BYTE * q \in Nat
  BY <1>1, <1>3
<1>9. r + BYTE * q = n
  BY <1>4, <1>5, <1>8
<1>10. (n \div BYTE) % BYTE = q
  BY <1>7 DEF q
<1>11. r \in Byte /\ q \in Byte
  BY <1>1, <1>3, <1>4, <1>6 DEF Byte
<1> QED
  BY <1>2, <1>9, <1>10, <1>11 DEF r

(* A part of a sequence of bytes. *)
LEMMA SubSeqAt ==
    ASSUME NEW f \in Seq(Byte), NEW a \in Nat, NEW n \in Nat, a + n <= Len(f)
    PROVE  /\ SubSeq(f, a + 1, a + n) \in Seq(Byte)
           /\ Len(SubSeq(f, a + 1, a + n)) = n
           /\ \A i \in 1 .. n : SubSeq(f, a + 1, a + n)[i] = f[a + i]
BY SMTT(30)

(* The parser reads a field as it was written. *)
LEMMA ReadField ==
    ASSUME file \in Seq(Byte), NEW p \in Nat, NEW s \in Seq(Byte), Len(s) <= MAX_PAYLOAD,
           HasField(file, p, s)
    PROVE  FieldFits(p) /\ Field(p) = s /\ FieldEnd(p) = p + 2 + Len(s)
<1> DEFINE n == Len(s)
<1>1. n \in 0 .. MAX_PAYLOAD /\ n \in Nat
  BY RedqueenFileConstants
<1>2. unpack_h(p) = n
  BY <1>1, Uint16 DEF unpack_h, HasField
<1>3. ContentLen(p) = n
  BY <1>1, <1>2 DEF ContentLen
<1>4. p + 2 + n <= Len(file) /\ Len(file) \in Nat
  BY DEF HasField
<1>5. FieldFits(p) /\ FieldEnd(p) = p + 2 + n
  BY <1>1, <1>3, <1>4 DEF FieldFits, FieldEnd
<1>6. Field(p) = s
  <2> DEFINE c == SubSeq(file, p + 2 + 1, p + 2 + n)
  <2>1. Field(p) = c
    BY <1>3 DEF Field
  <2>2. p + 2 \in Nat
    OBVIOUS
  <2> HIDE DEF n
  <2>3. c \in Seq(Byte) /\ Len(c) = n /\ \A i \in 1 .. n : c[i] = file[p + 2 + i]
    BY <1>1, <1>4, <2>2, SubSeqAt
  <2> HIDE DEF c
  <2>4. \A i \in 1 .. n : c[i] = s[i]
    BY <2>3 DEF HasField, n
  <2>5. c = s
    BY <2>3, <2>4, SeqEqual DEF n
  <2> QED
    BY <2>1, <2>5
<1> QED
  BY <1>5, <1>6

-----------------------------------------------------------------------------
(* Records. *)

(* c is f followed by g. *)
Glued(c, f, g) ==
    /\ c \in Seq(Byte)
    /\ Len(c) = Len(f) + Len(g)
    /\ \A i \in 1 .. Len(f) : c[i] = f[i]
    /\ \A i \in 1 .. Len(g) : c[Len(f) + i] = g[i]

(* Reading from a concatenation. *)
LEMMA Concat ==
    ASSUME NEW f \in Seq(Byte), NEW g \in Seq(Byte)
    PROVE  Glued(f \o g, f, g)
  BY DEF Glued

(* A record that goes through is one whose bytes are those of its fields. *)
LEMMA BytesType ==
    ASSUME NEW rec, Dumpable(rec)
    PROVE  /\ rec \in Record /\ Bytes(rec) \in Seq(Byte)
           /\ HasRecord(Bytes(rec), 0, rec) /\ RecordEnd(0, rec) = Len(Bytes(rec))
<1> DEFINE t == <<rec.type>>
           U(n) == <<n % BYTE, (n \div BYTE) % BYTE>>
<1>1. ASSUME NEW s \in Seq(Byte), Len(s) <= MAX_PAYLOAD
      PROVE  /\ Len(s) \in Nat
             /\ U(Len(s)) \in Seq(Byte) /\ Len(U(Len(s))) = 2
             /\ U(Len(s))[1] = Len(s) % BYTE
             /\ U(Len(s))[2] = (Len(s) \div BYTE) % BYTE
  <2>1. Len(s) \in 0 .. MAX_PAYLOAD
    BY <1>1, RedqueenFileConstants
  <2> QED
    BY <2>1, Uint16
<1>2. rec.type \in Byte
  <2>1. 0 \in Byte /\ 1 \in Byte /\ 2 \in Byte /\ 3 \in Byte
    BY RedqueenFileConstants DEF Byte, REDQUEEN_PREG_MATCH
  <2> QED
    BY <2>1 DEF Dumpable, Single, Pair, REDQUEEN_STRING, REDQUEEN_ARRAY_KEY,
                REDQUEEN_UNMATCHED, REDQUEEN_PREG_MATCH
<1>3. t \in Seq(Byte) /\ Len(t) = 1 /\ t[1] = rec.type
  BY <1>2
<1> HIDE DEF t
<1>4. ASSUME NEW u \in Seq(Byte), Len(u) = 2, NEW h, Glued(h, t, u)
      PROVE  h \in Seq(Byte) /\ Len(h) = 3 /\ h[1] = rec.type /\ h[2] = u[1] /\ h[3] = u[2]
  BY <1>3, <1>4 DEF Glued
<1>5. CASE rec \in [type : Single, s : Seq(Byte)] /\ Len(rec.s) <= MAX_PAYLOAD
  <2> DEFINE s == rec.s
             u == U(Len(s))
             h == t \o u
             b == h \o s
  <2>1. rec.type \in Single /\ s \in Seq(Byte) /\ Len(s) <= MAX_PAYLOAD
    BY <1>5
  <2>2. rec \in Record
    BY <1>5 DEF Record, Single, Byte
  <2>3. Bytes(rec) = b
    BY <2>1 DEF Bytes, Single, uint16, t
  <2>4. /\ Len(s) \in Nat /\ u \in Seq(Byte) /\ Len(u) = 2
        /\ u[1] = Len(s) % BYTE /\ u[2] = (Len(s) \div BYTE) % BYTE
    BY <1>1, <2>1
  <2> HIDE DEF s, u
  <2>5. Glued(h, t, u)
    BY <1>3, <2>4, Concat
  <2> HIDE DEF h
  <2>6. h \in Seq(Byte) /\ Len(h) = 3 /\ h[1] = rec.type /\ h[2] = u[1] /\ h[3] = u[2]
    BY <1>4, <2>4, <2>5
  <2>7. Glued(b, h, s)
    BY <2>1, <2>6, Concat
  <2> HIDE DEF b
  <2>8. /\ b \in Seq(Byte) /\ Len(b) = 3 + Len(s)
        /\ b[1] = h[1] /\ b[2] = h[2] /\ b[3] = h[3]
        /\ \A j \in 1 .. Len(s) : b[3 + j] = s[j]
    BY <2>6, <2>7 DEF Glued
  <2>9. HasField(b, 1, s)
    BY <2>4, <2>6, <2>8 DEF HasField
  <2>10. HasRecord(b, 0, rec)
    <3>1. 0 < Len(b) /\ b[0 + 1] = rec.type /\ HasField(b, 0 + 1, s)
      BY <2>4, <2>6, <2>8, <2>9
    <3> QED
      BY <2>1, <3>1 DEF HasRecord, s
  <2>11. RecordEnd(0, rec) = Len(b)
    <3>1. RecordEnd(0, rec) = 0 + 3 + Len(s)
      BY <2>1 DEF RecordEnd, s
    <3> QED
      BY <2>4, <2>8, <3>1
  <2> QED
    BY <2>2, <2>3, <2>8, <2>10, <2>11
<1>6. CASE /\ rec \in [type : Pair, s1 : Seq(Byte), s2 : Seq(Byte)]
           /\ Len(rec.s1) <= MAX_PAYLOAD /\ Len(rec.s2) <= MAX_PAYLOAD
  <2> DEFINE s1 == rec.s1
             s2 == rec.s2
             u1 == U(Len(s1))
             u2 == U(Len(s2))
             h == t \o u1
             b1 == h \o s1
             b2 == b1 \o u2
             b == b2 \o s2
  <2>1. /\ rec.type \in Pair /\ rec.type \notin Single
        /\ s1 \in Seq(Byte) /\ Len(s1) <= MAX_PAYLOAD
        /\ s2 \in Seq(Byte) /\ Len(s2) <= MAX_PAYLOAD
    BY <1>6 DEF Pair, REDQUEEN_UNMATCHED, REDQUEEN_PREG_MATCH,
                Single, REDQUEEN_STRING, REDQUEEN_ARRAY_KEY
  <2>2. rec \in Record
    BY <1>6 DEF Record, Pair, Byte
  <2>3. Bytes(rec) = b
    BY <2>1 DEF Bytes, Single, uint16, t
  <2>4. /\ Len(s1) \in Nat /\ u1 \in Seq(Byte) /\ Len(u1) = 2
        /\ u1[1] = Len(s1) % BYTE /\ u1[2] = (Len(s1) \div BYTE) % BYTE
    BY <1>1, <2>1
  <2>5. /\ Len(s2) \in Nat /\ u2 \in Seq(Byte) /\ Len(u2) = 2
        /\ u2[1] = Len(s2) % BYTE /\ u2[2] = (Len(s2) \div BYTE) % BYTE
    BY <1>1, <2>1
  <2> HIDE DEF s1, s2, u1, u2
  <2>6. Glued(h, t, u1)
    BY <1>3, <2>4, Concat
  <2> HIDE DEF h
  <2>7. h \in Seq(Byte) /\ Len(h) = 3 /\ h[1] = rec.type /\ h[2] = u1[1] /\ h[3] = u1[2]
    BY <1>4, <2>4, <2>6
  <2>8. Glued(b1, h, s1)
    BY <2>1, <2>7, Concat
  <2> HIDE DEF b1
  <2>9. /\ b1 \in Seq(Byte) /\ Len(b1) = 3 + Len(s1)
        /\ b1[1] = h[1] /\ b1[2] = h[2] /\ b1[3] = h[3]
        /\ \A j \in 1 .. Len(s1) : b1[3 + j] = s1[j]
    BY <2>7, <2>8 DEF Glued
  <2>10. Glued(b2, b1, u2)
    BY <2>5, <2>9, Concat
  <2> HIDE DEF b2
  <2>11. /\ b2 \in Seq(Byte) /\ Len(b2) = 5 + Len(s1)
         /\ \A j \in 1 .. 3 + Len(s1) : b2[j] = b1[j]
         /\ b2[4 + Len(s1)] = u2[1] /\ b2[5 + Len(s1)] = u2[2]
    BY <2>4, <2>5, <2>9, <2>10 DEF Glued
  <2>12. Glued(b, b2, s2)
    BY <2>1, <2>11, Concat
  <2> HIDE DEF b
  <2>13. /\ b \in Seq(Byte) /\ Len(b) = 5 + Len(s1) + Len(s2)
         /\ \A j \in 1 .. 5 + Len(s1) : b[j] = b2[j]
         /\ \A j \in 1 .. Len(s2) : b[5 + Len(s1) + j] = s2[j]
    BY <2>11, <2>12 DEF Glued
  <2>14. HasField(b, 1, s1) /\ b[1] = rec.type
    <3>1. \A j \in 1 .. 3 + Len(s1) : b[j] = b1[j]
      BY <2>4, <2>11, <2>13
    <3>2. b[1] = b1[1] /\ b[2] = b1[2] /\ b[3] = b1[3]
      BY <2>4, <3>1
    <3>3. \A j \in 1 .. Len(s1) : b[3 + j] = s1[j]
      BY <2>4, <2>9, <3>1
    <3> QED
      BY <2>4, <2>5, <2>7, <2>9, <2>13, <3>2, <3>3 DEF HasField
  <2>15. HasField(b, 3 + Len(s1), s2)
    BY <2>4, <2>5, <2>11, <2>13 DEF HasField
  <2>16. HasRecord(b, 0, rec)
    <3>1. 0 + 1 = 1 /\ 0 + 3 + Len(s1) = 3 + Len(s1) /\ 0 < Len(b)
      BY <2>4, <2>5, <2>13
    <3> QED
      BY <2>1, <2>14, <2>15, <3>1 DEF HasRecord, s1, s2
  <2>17. RecordEnd(0, rec) = Len(b)
    <3>1. RecordEnd(0, rec) = 0 + 5 + Len(s1) + Len(s2)
      BY <2>1 DEF RecordEnd, s1, s2
    <3> QED
      BY <2>4, <2>5, <2>13, <3>1
  <2> QED
    BY <2>2, <2>3, <2>13, <2>16, <2>17
<1> QED
  BY <1>5, <1>6 DEF Dumpable

(* A field stays where it is when the file grows ... *)
LEMMA FieldKept ==
    ASSUME NEW f \in Seq(Byte), NEW g \in Seq(Byte), NEW p \in Nat, NEW s \in Seq(Byte),
           HasField(f, p, s)
    PROVE  HasField(f \o g, p, s)
  BY DEF HasField

(* ... and one of the part that is appended is found behind the old end. *)
LEMMA FieldAppended ==
    ASSUME NEW f \in Seq(Byte), NEW g \in Seq(Byte), NEW p \in Nat, NEW s \in Seq(Byte),
           HasField(g, p, s)
    PROVE  HasField(f \o g, Len(f) + p, s)
  BY DEF HasField

(* So do the records. *)
LEMMA RecordKept ==
    ASSUME NEW f \in Seq(Byte), NEW g \in Seq(Byte), NEW p \in Nat, NEW rec, Dumpable(rec),
           HasRecord(f, p, rec)
    PROVE  HasRecord(f \o g, p, rec)
<1>1. p < Len(f \o g) /\ (f \o g)[p + 1] = rec.type
  BY DEF HasRecord
<1>2. CASE rec.type \in Single
  <2>1. rec.s \in Seq(Byte)
    BY <1>2 DEF Dumpable, Single, Pair, REDQUEEN_STRING, REDQUEEN_ARRAY_KEY,
                REDQUEEN_UNMATCHED, REDQUEEN_PREG_MATCH
  <2>2. HasField(f, p + 1, rec.s) /\ p + 1 \in Nat
    BY <1>2 DEF HasRecord
  <2> QED
    BY <1>1, <1>2, <2>1, <2>2, FieldKept DEF HasRecord
<1>3. CASE rec.type \notin Single
  <2>1. rec.s1 \in Seq(Byte) /\ rec.s2 \in Seq(Byte)
    BY <1>3 DEF Dumpable
  <2>2. /\ HasField(f, p + 1, rec.s1) /\ p + 1 \in Nat
        /\ HasField(f, p + 3 + Len(rec.s1), rec.s2) /\ p + 3 + Len(rec.s1) \in Nat
    BY <1>3, <2>1 DEF HasRecord
  <2> QED
    BY <1>1, <1>3, <2>1, <2>2, FieldKept DEF HasRecord
<1> QED
  BY <1>2, <1>3

(* A record that is appended is found at the old end. *)
LEMMA RecordAppended ==
    ASSUME NEW f \in Seq(Byte), NEW rec, Dumpable(rec)
    PROVE  /\ HasRecord(f \o Bytes(rec), Len(f), rec)
           /\ RecordEnd(Len(f), rec) = Len(f \o Bytes(rec))
<1> DEFINE g == Bytes(rec)
<1>1. g \in Seq(Byte) /\ HasRecord(g, 0, rec) /\ RecordEnd(0, rec) = Len(g)
  BY BytesType
<1> HIDE DEF g
<1>2. Len(f) \in Nat /\ Len(g) \in Nat /\ Len(f \o g) = Len(f) + Len(g)
  BY <1>1
<1>3. Len(f) < Len(f \o g) /\ (f \o g)[Len(f) + 1] = rec.type
  BY <1>1, <1>2 DEF HasRecord
<1>4. CASE rec.type \in Single
  <2> DEFINE s == rec.s
  <2>1. s \in Seq(Byte) /\ Len(s) \in Nat
    BY <1>4 DEF Dumpable, Single, Pair, REDQUEEN_STRING, REDQUEEN_ARRAY_KEY,
                REDQUEEN_UNMATCHED, REDQUEEN_PREG_MATCH
  <2>2. HasField(g, 0 + 1, s) /\ 0 + 3 + Len(s) = Len(g)
    BY <1>1, <1>4 DEF HasRecord, RecordEnd
  <2>3. HasRecord(f \o g, Len(f), rec) <=> HasField(f \o g, Len(f) + 1, s)
    BY <1>3, <1>4 DEF HasRecord
  <2>4. RecordEnd(Len(f), rec) = Len(f) + 3 + Len(s)
    BY <1>4 DEF RecordEnd
  <2> HIDE DEF s
  <2>5. HasField(f \o g, Len(f) + 1, s)
    BY <1>1, <2>1, <2>2, FieldAppended
  <2> QED
    BY <1>2, <2>1, <2>2, <2>3, <2>4, <2>5 DEF g
<1>5. CASE rec.type \notin Single
  <2> DEFINE s1 == rec.s1
             s2 == rec.s2
  <2>1. s1 \in Seq(Byte) /\ s2 \in Seq(Byte) /\ Len(s1) \in Nat /\ Len(s2) \in Nat
    BY <1>5 DEF Dumpable
  <2>2. /\ HasField(g, 0 + 1, s1) /\ HasField(g, 0 + 3 + Len(s1), s2)
        /\ 0 + 5 + Len(s1) + Len(s2) = Len(g)
    BY <1>1, <1>5 DEF HasRecord, RecordEnd
  <2>3. HasRecord(f \o g, Len(f), rec) <=>
          HasField(f \o g, Len(f) + 1, s1) /\ HasField(f \o g, Len(f) + 3 + Len(s1), s2)
    BY <1>3, <1>5 DEF HasRecord
  <2>4. RecordEnd(Len(f), rec) = Len(f) + 5 + Len(s1) + Len(s2)
    BY <1>5 DEF RecordEnd
  <2> HIDE DEF s1, s2
  <2>5. HasField(f \o g, Len(f) + 1, s1)
    BY <1>1, <2>1, <2>2, FieldAppended
  <2>6. HasField(f \o g, Len(f) + 3 + Len(s1), s2)
    <3>1. 0 + 3 + Len(s1) \in Nat /\ Len(f) + (0 + 3 + Len(s1)) = Len(f) + 3 + Len(s1)
      BY <1>2, <2>1
    <3> QED
      BY <1>1, <2>1, <2>2, <3>1, FieldAppended
  <2> QED
    BY <1>2, <2>1, <2>2, <2>3, <2>4, <2>5, <2>6 DEF g
<1> QED
  BY <1>4, <1>5

(* One more record at the end of the file. *)
LEMMA LayoutAppend ==
    ASSUME NEW f, NEW recs, NEW starts, LayoutOf(f, recs, starts), NEW rec, Dumpable(rec)
    PROVE  LayoutOf(f \o Bytes(rec), Append(recs, rec), Append(starts, Len(f)))
<1> DEFINE n == Len(recs)
           f2 == f \o Bytes(rec)
           recs2 == Append(recs, rec)
           starts2 == Append(starts, Len(f))
<1>1. f \in Seq(Byte) /\ recs \in Seq(Record) /\ starts \in [1 .. n -> 0 .. Len(f)]
  BY DEF LayoutOf
<1>2. n \in Nat /\ Len(f) \in Nat
  BY <1>1
<1>3. \A k \in 1 .. n : starts[k] \in 0 .. Len(f)
  BY <1>1
<1>4. starts \in [1 .. n -> Nat]
  <2>1. \A k \in 1 .. n : starts[k] \in Nat
    BY <1>2, <1>3
  <2> QED
    BY <1>1, <2>1
<1>5. /\ n \in Nat /\ Len(f) \in Nat
      /\ starts \in [1 .. n -> Nat] /\ \A k \in 1 .. n : starts[k] \in 0 .. Len(f)
  BY <1>2, <1>3, <1>4
<1>6. rec \in Record /\ Bytes(rec) \in Seq(Byte)
  BY BytesType
<1>7. f2 \in Seq(Byte) /\ Len(f2) \in Nat /\ Len(f) <= Len(f2)
  BY <1>1, <1>6
<1>8. /\ recs2 \in Seq(Record) /\ Len(recs2) = n + 1 /\ recs2[n + 1] = rec
      /\ \A k \in 1 .. n : recs2[k] = recs[k]
  BY <1>1, <1>6, AppendProperties
<1>9. /\ starts2 \in Seq(Nat) /\ Len(starts2) = n + 1 /\ starts2[n + 1] = Len(f)
      /\ \A k \in 1 .. n : starts2[k] = starts[k]
  <2> HIDE DEF n
  <2>1. starts \in Seq(Nat) /\ Len(starts) = n
    BY <1>5
  <2> QED
    BY <1>5, <2>1, AppendProperties
<1>10. starts2 \in [1 .. n + 1 -> 0 .. Len(f2)]
  <2>1. \A k \in 1 .. n + 1 : starts2[k] \in 0 .. Len(f2)
    <3> TAKE k \in 1 .. n + 1
    <3>1. CASE k = n + 1
      BY <1>5, <1>7, <1>9, <3>1
    <3>2. CASE k # n + 1
      <4>1. k \in 1 .. n
        BY <1>5, <3>2
      <4>2. starts[k] \in 0 .. Len(f)
        BY <1>5, <4>1
      <4> QED
        BY <1>5, <1>7, <1>9, <4>1, <4>2
    <3> QED
      BY <3>1, <3>2
  <2>2. starts2 \in [1 .. Len(starts2) -> Nat]
    BY <1>9, LenProperties
  <2> QED
    BY <1>9, <2>1, <2>2
<1>11. starts2[1] = 0
  <2>1. CASE n = 0
    <3>1. recs = <<>>
      BY <2>1
    <3>2. Len(f) = 0
      BY <3>1 DEF LayoutOf
    <3> QED
      BY <1>9, <2>1, <3>2
  <2>2. CASE n # 0
    <3>1. recs # <<>> /\ 1 \in 1 .. n
      BY <1>5, <2>2
    <3> QED
      BY <1>9, <3>1 DEF LayoutOf
  <2> QED
    BY <2>1, <2>2
<1> HIDE DEF starts2
<1>12. ASSUME NEW k \in 1 .. n + 1
      PROVE  /\ Dumpable(recs2[k])
             /\ HasRecord(f2, starts2[k], recs2[k])
             /\ RecordEnd(starts2[k], recs2[k]) = IF k < n + 1 THEN starts2[k + 1] ELSE Len(f2)
  <2>1. CASE k = n + 1
    <3>1. HasRecord(f2, Len(f), rec) /\ RecordEnd(Len(f), rec) = Len(f2)
      BY <1>1, RecordAppended
    <3> QED
      BY <1>5, <1>8, <1>9, <2>1, <3>1
  <2>2. CASE k # n + 1
    <3>1. k \in 1 .. n /\ k < n + 1
      BY <1>5, <2>2
    <3>2. /\ Dumpable(recs[k])
          /\ HasRecord(f, starts[k], recs[k])
          /\ RecordEnd(starts[k], recs[k]) = IF k < n THEN starts[k + 1] ELSE Len(f)
      BY <3>1 DEF LayoutOf
    <3>3. starts[k] \in Nat
      BY <1>5, <3>1
    <3>4. HasRecord(f2, starts[k], recs[k])
      BY <1>1, <1>6, <3>2, <3>3, RecordKept
    <3>5. starts2[k + 1] = IF k < n THEN starts[k + 1] ELSE Len(f)
      <4>1. CASE k < n
        BY <1>5, <1>9, <3>1, <4>1
      <4>2. CASE ~(k < n)
        <5>1. k = n
          BY <1>5, <3>1, <4>2
        <5> QED
          BY <1>9, <4>2, <5>1
      <4> QED
        BY <4>1, <4>2
    <3> QED
      BY <1>8, <1>9, <3>1, <3>2, <3>4, <3>5
  <2> QED
    BY <2>1, <2>2
<1> HIDE DEF f2, recs2, starts2
<1>13. recs2 # <<>>
  BY <1>5, <1>8
<1>14. LayoutOf(f2, recs2, starts2)
  BY <1>7, <1>8, <1>10, <1>11, <1>12, <1>13 DEF LayoutOf
<1> QED
  BY <1>14 DEF f2, recs2, starts2

-----------------------------------------------------------------------------
(* The writer. *)

(* An empty file without records. *)
LEMMA LayoutEmpty == LayoutOf(<<>>, <<>>, <<>>)
  BY DEF LayoutOf

(* What the parser has learned before it starts: nothing. *)
LEMMA LearnedNothing ==
    ASSUME strings = <<>>, key_strings = <<>>, unmatched_strings = <<>>,
           preg_match_cache = EmptyCache, decoded = <<>>
    PROVE  Learned
<1>1. Range(<<>>) = {}
  BY DEF Range
<1> QED
  BY <1>1 DEF Learned, EmptyCache

(* Initially the file is empty. *)
LEMMA InitIInv == Init => IInv
<1> SUFFICES ASSUME Init PROVE IInv
  OBVIOUS
<1>1. redqueen_mode_enabled \in BOOLEAN /\ init \in BOOLEAN
  BY DEF Init
<1>2. /\ file \in Seq(Byte) /\ runs \in 1 .. MaxRuns /\ tell \in 0 .. Len(file)
      /\ strings \in Seq(Seq(Char)) /\ key_strings \in Seq(Seq(Byte))
      /\ unmatched_strings \in Seq(Seq(Byte) \X Seq(Char)) /\ preg_matches \in Seq(Seq(Char))
      /\ dumped \in Seq(Record) /\ decoded \in Seq(Record)
  BY RedqueenFileConstants DEF Init
<1>3. \A regexp \in DOMAIN preg_match_cache : preg_match_cache[regexp] \in Seq(Seq(Char))
  BY DEF Init, EmptyCache
<1>4. bounds \in [1 .. Len(dumped) -> 0 .. Len(file)]
  BY DEF Init
<1>5. TypeOK
  BY <1>1, <1>2, <1>3, <1>4 DEF TypeOK, Init
<1>6. Layout
  BY LayoutEmpty DEF Init, Layout
<1>7. Learned
  BY LearnedNothing DEF Init
<1>8. NothingParsed /\ ReadSoFar /\ ParsesAll
  BY DEF Init, NothingParsed, ReadSoFar, ParsesAll
<1> QED
  BY <1>5, <1>6, <1>7, <1>8 DEF IInv

(* Before parsing nothing but the file can go wrong. *)
LEMMA BeforeParsing ==
    ASSUME IInv, status \in {"running", "ended"}, status' \in {"running", "ended", "parsing"},
           UNCHANGED <<tell, results, decoded>>,
           redqueen_mode_enabled' \in BOOLEAN, init' \in BOOLEAN, runs' \in 1 .. MaxRuns,
           LayoutOf(file', dumped', bounds')
    PROVE  IInv'
<1>1. /\ tell = 0 /\ decoded = <<>>
      /\ strings = <<>> /\ key_strings = <<>> /\ unmatched_strings = <<>> /\ preg_matches = <<>>
      /\ preg_match_cache = EmptyCache
  BY DEF IInv, NothingParsed
<1>2. /\ tell' = 0 /\ decoded' = <<>> /\ strings' = <<>> /\ key_strings' = <<>>
      /\ unmatched_strings' = <<>> /\ preg_matches' = <<>> /\ preg_match_cache' = EmptyCache
  BY <1>1 DEF results
<1>3. /\ file' \in Seq(Byte) /\ dumped' \in Seq(Record) /\ tell' \in 0 .. Len(file')
      /\ bounds' \in [1 .. Len(dumped') -> 0 .. Len(file')]
  BY <1>2 DEF LayoutOf
<1>4. \A regexp \in DOMAIN preg_match_cache' : preg_match_cache'[regexp] \in Seq(Seq(Char))
  BY <1>2 DEF EmptyCache
<1>5. /\ strings' \in Seq(Seq(Char)) /\ key_strings' \in Seq(Seq(Byte))
      /\ unmatched_strings' \in Seq(Seq(Byte) \X Seq(Char)) /\ preg_matches' \in Seq(Seq(Char))
      /\ decoded' \in Seq(Record)
  BY <1>2
<1>6. status' \in {"running", "ended", "parsing", "done", "failed"}
  OBVIOUS
<1>7. TypeOK'
  BY <1>3, <1>4, <1>5, <1>6 DEF TypeOK
<1>8. Layout'
  BY DEF Layout
<1>9. NothingParsed' /\ ParsesAll'
  BY <1>2 DEF NothingParsed, ParsesAll
<1>10. ReadSoFar'
  <2>1. Len(decoded') = 0 /\ Len(dumped') \in Nat /\ (Len(dumped') = 0 => dumped' = <<>>)
    BY <1>2, <1>3
  <2>2. CASE dumped' = <<>>
    BY <1>2, <2>2 DEF LayoutOf, ReadSoFar
  <2>3. CASE dumped' # <<>>
    BY <1>2, <2>1, <2>3 DEF LayoutOf, ReadSoFar
  <2> QED
    BY <2>2, <2>3
<1>11. Learned'
  <2>1. Range(<<>>) = {}
    BY DEF Range
  <2> QED
    BY <1>2, <2>1 DEF Learned, EmptyCache
<1> QED
  BY <1>7, <1>8, <1>9, <1>10, <1>11 DEF IInv

(* A record is dumped, or the run ends after the file was truncated. *)
LEMMA DumpStep == ASSUME IInv, NEW rec, Dumpable(rec), dump_payload(rec) PROVE IInv'
<1> DEFINE old == IF init THEN file ELSE <<>>
           recs == IF init THEN dumped ELSE <<>>
           starts == IF init THEN bounds ELSE <<>>
<1>1. /\ status = "running" /\ init' = TRUE
      /\ UNCHANGED <<redqueen_mode_enabled, runs>>
      /\ \/ /\ file' = old \o Bytes(rec)
            /\ dumped' = Append(recs, rec)
            /\ bounds' = Append(starts, Len(old))
            /\ UNCHANGED hostVars
         \/ /\ ~init
            /\ file' = old /\ dumped' = recs /\ bounds' = starts
            /\ status' = "ended"
            /\ UNCHANGED <<tell, results, decoded>>
  BY DEF dump_payload
<1>2. /\ redqueen_mode_enabled' \in BOOLEAN
      /\ init' \in BOOLEAN
  BY <1>1 DEF IInv, TypeOK
<1>3. runs' \in 1 .. MaxRuns
  BY <1>1 DEF IInv, TypeOK
<1>4. LayoutOf(old, recs, starts)
  <2>1. CASE init
    BY <2>1 DEF IInv, Layout
  <2>2. CASE ~init
    BY <2>2, LayoutEmpty
  <2> QED
    BY <2>1, <2>2
<1> HIDE DEF old, recs, starts
<1>5. LayoutOf(file', dumped', bounds')
  <2>1. CASE /\ file' = old \o Bytes(rec) /\ dumped' = Append(recs, rec)
             /\ bounds' = Append(starts, Len(old))
    BY <1>4, <2>1, LayoutAppend
  <2>2. CASE file' = old /\ dumped' = recs /\ bounds' = starts
    BY <1>4, <2>2
  <2> QED
    BY <1>1, <2>1, <2>2
<1>6. UNCHANGED <<tell, results, decoded>> /\ status' \in {"running", "ended"}
  BY <1>1 DEF hostVars
<1> QED
  BY <1>1, <1>2, <1>3, <1>5, <1>6, BeforeParsing

(* The steps around a run leave the file alone. *)
LEMMA RunStep == ASSUME IInv, EndRun \/ StartRun \/ Parse PROVE IInv'
<1>1. /\ status \in {"running", "ended"} /\ status' \in {"running", "ended", "parsing"}
      /\ UNCHANGED <<file, dumped, bounds, tell, results, decoded>>
  BY DEF EndRun, StartRun, Parse
<1>2. redqueen_mode_enabled' \in BOOLEAN
  BY DEF EndRun, StartRun, Parse, IInv, TypeOK
<1>3. init' \in BOOLEAN
  BY DEF EndRun, StartRun, Parse, IInv, TypeOK
<1>4. runs' \in 1 .. MaxRuns
  BY RedqueenFileConstants DEF EndRun, StartRun, Parse, IInv, TypeOK
<1>5. LayoutOf(file', dumped', bounds')
  BY <1>1 DEF IInv, Layout
<1> QED
  BY <1>1, <1>2, <1>3, <1>4, <1>5, BeforeParsing

-----------------------------------------------------------------------------
(* The parser. *)

(* The number of the record that the parser reads next. *)
Current == Len(decoded) + 1

(* Anywhere before the end of the file the parser stands at the start of a *)
(* record and reads the fields that were written.                          *)
LEMMA AtRecord ==
    ASSUME IInv, tell < Len(file)
    PROVE  /\ Current \in 1 .. Len(dumped) /\ Dumpable(dumped[Current])
           /\ RecordFits /\ s_type = dumped[Current].type
           /\ s_type \in Single =>
                /\ Field(tell + 1) = dumped[Current].s
                /\ FieldEnd(tell + 1) = RecordEnd(tell, dumped[Current])
           /\ s_type \in Pair =>
                /\ Field(tell + 1) = dumped[Current].s1
                /\ Field(FieldEnd(tell + 1)) = dumped[Current].s2
                /\ FieldEnd(FieldEnd(tell + 1)) = RecordEnd(tell, dumped[Current])
<1> DEFINE k == Current
           rec == dumped[k]
<1>1. Len(decoded) \in Nat /\ Len(dumped) \in Nat /\ tell \in Nat /\ file \in Seq(Byte)
  BY DEF IInv, TypeOK
<1>2. Len(decoded) < Len(dumped)
  BY <1>1 DEF IInv, ReadSoFar
<1>3. k \in 1 .. Len(dumped) /\ tell = bounds[k]
  BY <1>1, <1>2 DEF IInv, ReadSoFar, Current
<1> HIDE DEF k
<1>4. Dumpable(rec) /\ HasRecord(file, tell, rec)
  BY <1>3 DEF IInv, Layout, LayoutOf
<1> HIDE DEF rec
<1>5. s_type = rec.type
  BY <1>4 DEF HasRecord, s_type
<1>6. CASE rec \in [type : Single, s : Seq(Byte)] /\ Len(rec.s) <= MAX_PAYLOAD
  <2> DEFINE s == rec.s
  <2>1. rec.type \in Single /\ rec.type \notin Pair /\ s \in Seq(Byte) /\ Len(s) <= MAX_PAYLOAD
    BY <1>6 DEF Single, Pair, REDQUEEN_STRING, REDQUEEN_ARRAY_KEY,
                REDQUEEN_UNMATCHED, REDQUEEN_PREG_MATCH
  <2>2. HasField(file, tell + 1, s) /\ RecordEnd(tell, rec) = tell + 3 + Len(s)
    BY <1>4, <2>1 DEF HasRecord, RecordEnd
  <2> HIDE DEF s
  <2>3. /\ FieldFits(tell + 1) /\ Field(tell + 1) = s
        /\ FieldEnd(tell + 1) = tell + 1 + 2 + Len(s)
    BY <1>1, <2>1, <2>2, ReadField
  <2>4. tell + 1 + 2 + Len(s) = tell + 3 + Len(s)
    BY <1>1, <2>1
  <2>5. RecordFits
    BY <1>5, <2>1, <2>3 DEF RecordFits, Single
  <2> QED
    BY <1>3, <1>4, <1>5, <2>1, <2>2, <2>3, <2>4, <2>5 DEF k, rec, s
<1>7. CASE /\ rec \in [type : Pair, s1 : Seq(Byte), s2 : Seq(Byte)]
           /\ Len(rec.s1) <= MAX_PAYLOAD /\ Len(rec.s2) <= MAX_PAYLOAD
  <2> DEFINE s1 == rec.s1
             s2 == rec.s2
  <2>1. /\ rec.type \in Pair /\ rec.type \notin Single
        /\ s1 \in Seq(Byte) /\ Len(s1) <= MAX_PAYLOAD
        /\ s2 \in Seq(Byte) /\ Len(s2) <= MAX_PAYLOAD
    BY <1>7 DEF Single, Pair, REDQUEEN_STRING, REDQUEEN_ARRAY_KEY,
                REDQUEEN_UNMATCHED, REDQUEEN_PREG_MATCH
  <2>2. /\ HasField(file, tell + 1, s1) /\ HasField(file, tell + 3 + Len(s1), s2)
        /\ RecordEnd(tell, rec) = tell + 5 + Len(s1) + Len(s2)
    BY <1>4, <2>1 DEF HasRecord, RecordEnd
  <2> HIDE DEF s1, s2
  <2>3. /\ FieldFits(tell + 1) /\ Field(tell + 1) = s1
        /\ FieldEnd(tell + 1) = tell + 1 + 2 + Len(s1)
    BY <1>1, <2>1, <2>2, ReadField
  <2>4. tell + 1 + 2 + Len(s1) = tell + 3 + Len(s1) /\ tell + 3 + Len(s1) \in Nat
    BY <1>1, <2>1
  <2>5. /\ FieldFits(tell + 3 + Len(s1)) /\ Field(tell + 3 + Len(s1)) = s2
        /\ FieldEnd(tell + 3 + Len(s1)) = tell + 3 + Len(s1) + 2 + Len(s2)
    BY <1>1, <2>1, <2>2, <2>4, ReadField
  <2>6. tell + 3 + Len(s1) + 2 + Len(s2) = tell + 5 + Len(s1) + Len(s2)
    BY <1>1, <2>1
  <2>7. RecordFits
    BY <1>5, <2>1, <2>3, <2>4, <2>5 DEF RecordFits, Pair
  <2> QED
    BY <1>3, <1>4, <1>5, <2>1, <2>2, <2>3, <2>4, <2>5, <2>6, <2>7 DEF k, rec, s1, s2
<1> QED
  BY <1>4, <1>6, <1>7 DEF Dumpable

(* The range of a sequence with one more element. *)
LEMMA RangeAppend ==
    ASSUME NEW S, NEW s \in Seq(S), NEW e \in S
    PROVE  Range(Append(s, e)) = Range(s) \cup {e}
<1>1. /\ Append(s, e) \in Seq(S) /\ Len(Append(s, e)) = Len(s) + 1 /\ Len(s) \in Nat
      /\ Append(s, e)[Len(s) + 1] = e
      /\ \A i \in 1 .. Len(s) : Append(s, e)[i] = s[i]
  BY AppendProperties
<1>2. DOMAIN Append(s, e) = 1 .. Len(s) + 1 /\ DOMAIN s = 1 .. Len(s)
  BY <1>1
<1>3. ASSUME NEW x \in Range(Append(s, e)) PROVE x \in Range(s) \cup {e}
  <2>1. PICK i \in 1 .. Len(s) + 1 : x = Append(s, e)[i]
    BY <1>2 DEF Range
  <2>2. i = Len(s) + 1 \/ i \in 1 .. Len(s)
    BY <1>1
  <2> QED
    BY <1>1, <1>2, <2>1, <2>2 DEF Range
<1>4. ASSUME NEW x \in Range(s) \cup {e} PROVE x \in Range(Append(s, e))
  <2>1. Len(s) + 1 \in 1 .. Len(s) + 1 /\ \A i \in 1 .. Len(s) : i \in 1 .. Len(s) + 1
    BY <1>1
  <2> QED
    BY <1>1, <1>2, <2>1 DEF Range
<1> QED
  BY <1>3, <1>4

(* The parser moves on by one record. *)
LEMMA RecordRead ==
    ASSUME IInv, tell < Len(file), UNCHANGED <<file, dumped, bounds>>,
           decoded' = Append(decoded, dumped[Current]),
           tell' = RecordEnd(tell, dumped[Current])
    PROVE  /\ ReadSoFar' /\ Layout'
           /\ decoded' \in Seq(Record) /\ tell' \in 0 .. Len(file')
           /\ Range(decoded') = Range(decoded) \cup {dumped[Current]}
<1> DEFINE k == Len(decoded) + 1
<1>1. /\ Len(decoded) \in Nat /\ Len(dumped) \in Nat /\ Len(file) \in Nat
      /\ decoded \in Seq(Record) /\ dumped \in Seq(Record)
      /\ bounds \in [1 .. Len(dumped) -> 0 .. Len(file)]
  BY DEF IInv, TypeOK
<1>2. k \in 1 .. Len(dumped) /\ Current = k
  BY AtRecord DEF Current
<1>3. dumped[k] \in Record
  BY <1>1, <1>2
<1>4. /\ decoded' \in Seq(Record) /\ Len(decoded') = k /\ decoded'[k] = dumped[k]
      /\ \A i \in 1 .. Len(decoded) : decoded'[i] = decoded[i]
  BY <1>1, <1>2, <1>3, AppendProperties
<1>5. Range(decoded') = Range(decoded) \cup {dumped[k]}
  BY <1>1, <1>2, <1>3, RangeAppend
<1>6. \A i \in 1 .. k : decoded'[i] = dumped[i]
  <2> TAKE i \in 1 .. k
  <2>1. i = k \/ i \in 1 .. Len(decoded)
    BY <1>1
  <2> QED
    BY <1>4, <2>1 DEF IInv, ReadSoFar
<1>7. tell = bounds[k]
  BY <1>1, <1>2 DEF IInv, ReadSoFar
<1>8. tell' = IF k < Len(dumped) THEN bounds[k + 1] ELSE Len(file)
  BY <1>2, <1>7 DEF IInv, Layout, LayoutOf
<1> HIDE DEF k
<1>9. ReadSoFar'
  BY <1>1, <1>2, <1>4, <1>6, <1>8 DEF ReadSoFar
<1>10. tell' \in 0 .. Len(file)
  <2>1. k < Len(dumped) => k + 1 \in 1 .. Len(dumped)
    BY <1>1, <1>2
  <2> QED
    BY <1>1, <1>8, <2>1
<1>11. Layout'
  BY DEF IInv, Layout
<1> QED
  BY <1>2, <1>4, <1>5, <1>9, <1>10, <1>11

(* What is learned from one more record. *)
LEMMA LearnedStep ==
    ASSUME Learned, NEW rec, Range(decoded') = Range(decoded) \cup {rec},
           Range(strings) \subseteq Range(strings'), Contributed(rec)',
           Range(key_strings') = Range(key_strings) \cup
                                 (IF rec.type = REDQUEEN_ARRAY_KEY THEN {rec.s} ELSE {}),
           \A u \in Range(unmatched_strings') : u \in Range(unmatched_strings) \/ Explains(rec, u),
           \A regexp \in DOMAIN preg_match_cache' :
             Range(preg_match_cache'[regexp]) \subseteq Reversals(regexp)
    PROVE  Learned'
<1> DEFINE Keys(recs) == {r.s : r \in {q \in recs : q.type = REDQUEEN_ARRAY_KEY}}
<1>1. Range(key_strings') = Keys(Range(decoded'))
  <2>1. Range(key_strings) = Keys(Range(decoded))
    BY DEF Learned
  <2>2. Keys(Range(decoded) \cup {rec}) =
          Keys(Range(decoded)) \cup (IF rec.type = REDQUEEN_ARRAY_KEY THEN {rec.s} ELSE {})
    <3>1. CASE rec.type = REDQUEEN_ARRAY_KEY
      BY <3>1
    <3>2. CASE rec.type # REDQUEEN_ARRAY_KEY
      BY <3>2
    <3> QED
      BY <3>1, <3>2
  <2> QED
    BY <2>1, <2>2
<1>2. \A r \in Range(decoded') : Contributed(r)'
  <2> TAKE r \in Range(decoded')
  <2>1. CASE r = rec
    BY <2>1
  <2>2. CASE r # rec
    <3>1. Contributed(r)
      BY <2>2 DEF Learned
    <3> QED
      BY <3>1 DEF Contributed
  <2> QED
    BY <2>1, <2>2
<1>3. \A u \in Range(unmatched_strings') : \E r \in Range(decoded') : Explains(r, u)
  <2> TAKE u \in Range(unmatched_strings')
  <2>1. CASE u \in Range(unmatched_strings)
    BY <2>1 DEF Learned
  <2>2. CASE Explains(rec, u)
    BY <2>2
  <2> QED
    BY <2>1, <2>2
<1> HIDE DEF Keys
<1> QED
  BY <1>1, <1>2, <1>3 DEF Learned, Keys

(* Strings of bytes are strings of characters. *)
LEMMA BytesAreChars == ASSUME NEW s \in Seq(Byte) PROVE s \in Seq(Char)
<1>1. Byte \subseteq Char
  BY RedqueenFileConstants DEF Byte, Char
<1> QED
  BY <1>1

(* A reading step in general: only the results are left to be looked at. *)
LEMMA ReadStep ==
    ASSUME IInv, status = "parsing", status' = "parsing", tell < Len(file), ParserUnchanged,
           decoded' = Append(decoded, dumped[Current]),
           tell' = RecordEnd(tell, dumped[Current]),
           strings' \in Seq(Seq(Char)), key_strings' \in Seq(Seq(Byte)),
           unmatched_strings' \in Seq(Seq(Byte) \X Seq(Char)), preg_matches' \in Seq(Seq(Char)),
           \A regexp \in DOMAIN preg_match_cache' :
             preg_match_cache'[regexp] \in Seq(Seq(Char)),
           Learned'
    PROVE  IInv'
<1>1. UNCHANGED <<file, redqueen_mode_enabled, init, runs, dumped, bounds>>
  BY DEF ParserUnchanged
<1>2. ReadSoFar' /\ Layout' /\ decoded' \in Seq(Record) /\ tell' \in 0 .. Len(file')
  BY <1>1, RecordRead
<1>3. redqueen_mode_enabled' \in BOOLEAN /\ init' \in BOOLEAN
  BY <1>1 DEF IInv, TypeOK
<1>4. TypeOK'
  BY <1>1, <1>2, <1>3 DEF IInv, TypeOK
<1>5. NothingParsed' /\ ParsesAll'
  BY DEF NothingParsed, ParsesAll
<1> QED
  BY <1>2, <1>4, <1>5 DEF IInv

(* A string or a key. *)
LEMMA ReadStringStep == ASSUME IInv, ReadString PROVE IInv'
<1>0. PICK rec : rec = dumped[Current]
  OBVIOUS
<1>1. /\ status = "parsing" /\ status' = "parsing" /\ tell < Len(file) /\ ParserUnchanged
      /\ s_type \in Single
      /\ strings' = Append(strings, Field(tell + 1))
      /\ key_strings' = IF s_type = REDQUEEN_ARRAY_KEY
                        THEN Append(key_strings, Field(tell + 1)) ELSE key_strings
      /\ decoded' = Append(decoded, [type |-> s_type, s |-> Field(tell + 1)])
      /\ tell' = FieldEnd(tell + 1)
      /\ UNCHANGED <<unmatched_strings, preg_matches, preg_match_cache>>
  BY DEF ReadString, Single
<1>2. /\ Dumpable(rec) /\ s_type = rec.type /\ Field(tell + 1) = rec.s
      /\ FieldEnd(tell + 1) = RecordEnd(tell, rec)
  BY <1>0, <1>1, AtRecord
<1>3. UNCHANGED <<file, dumped, bounds>>
  BY <1>1 DEF ParserUnchanged
<1>4. rec = [type |-> rec.type, s |-> rec.s] /\ rec.s \in Seq(Byte) /\ rec.type \in Single
  BY <1>1, <1>2 DEF Dumpable, Single, Pair, REDQUEEN_STRING, REDQUEEN_ARRAY_KEY,
                    REDQUEEN_UNMATCHED, REDQUEEN_PREG_MATCH
<1>5. decoded' = Append(decoded, rec) /\ tell' = RecordEnd(tell, rec)
  BY <1>1, <1>2, <1>4
<1>6. Range(decoded') = Range(decoded) \cup {rec}
  BY <1>0, <1>1, <1>3, <1>5, RecordRead
<1>7. rec.s \in Seq(Char)
  BY <1>4, BytesAreChars
<1>8. strings \in Seq(Seq(Char)) /\ key_strings \in Seq(Seq(Byte))
  BY DEF IInv, TypeOK
<1>9. strings' \in Seq(Seq(Char)) /\ key_strings' \in Seq(Seq(Byte))
  BY <1>1, <1>2, <1>4, <1>7, <1>8, AppendProperties
<1>10. Range(strings') = Range(strings) \cup {rec.s}
  BY <1>1, <1>2, <1>7, <1>8, RangeAppend
<1>11. Range(key_strings') = Range(key_strings) \cup
                             (IF rec.type = REDQUEEN_ARRAY_KEY THEN {rec.s} ELSE {})
  BY <1>1, <1>2, <1>4, <1>8, RangeAppend
<1>12. Contributed(rec)'
  BY <1>4, <1>10 DEF Contributed
<1>13. Learned'
  <2>1. Learned /\ Range(strings) \subseteq Range(strings')
    BY <1>10 DEF IInv
  <2>2. \A u \in Range(unmatched_strings') : u \in Range(unmatched_strings) \/ Explains(rec, u)
    BY <1>1
  <2>3. \A regexp \in DOMAIN preg_match_cache' :
          Range(preg_match_cache'[regexp]) \subseteq Reversals(regexp)
    BY <1>1, <2>1 DEF Learned
  <2> QED
    BY <1>6, <1>11, <1>12, <2>1, <2>2, <2>3, LearnedStep
<1>14. /\ unmatched_strings' \in Seq(Seq(Byte) \X Seq(Char)) /\ preg_matches' \in Seq(Seq(Char))
       /\ \A regexp \in DOMAIN preg_match_cache' :
            preg_match_cache'[regexp] \in Seq(Seq(Char))
  BY <1>1 DEF IInv, TypeOK
<1> QED
  BY <1>0, <1>1, <1>5, <1>9, <1>13, <1>14, ReadStep

(* What a regular expression is reversed to. *)
LEMMA ReversalsType ==
    ASSUME NEW x \in Seq(Byte)
    PROVE  /\ shortest_reverse_regexp(x) \in Seq(Char)
           /\ reverse_regexp_count(x) \in Seq(Seq(Char))
           /\ Append(reverse_regexp_count(x), shortest_reverse_regexp(x)) \in Seq(Seq(Char))
           /\ Range(Append(reverse_regexp_count(x), shortest_reverse_regexp(x))) = Reversals(x)
<1> DEFINE a == shortest_reverse_regexp(x)
           b == reverse_regexp_count(x)
<1>1. x \in Seq(Char) /\ BYTE \in Char /\ BYTE + 1 \in Char
  BY BytesAreChars, RedqueenFileConstants DEF Char
<1>2. a \in Seq(Char)
  BY <1>1 DEF shortest_reverse_regexp
<1>3. b \in Seq(Seq(Char))
  <2>1. <<BYTE + 1>> \o x \in Seq(Char)
    BY <1>1
  <2> QED
    BY <2>1 DEF reverse_regexp_count
<1> HIDE DEF a, b
<1>4. Append(b, a) \in Seq(Seq(Char)) /\ Range(Append(b, a)) = Range(b) \cup {a}
  BY <1>2, <1>3, AppendProperties, RangeAppend
<1> QED
  BY <1>2, <1>3, <1>4 DEF Reversals, a, b

(* The replacements for a subject. *)
LEMMA ReplacementsType ==
    ASSUME NEW str \in Seq(Byte), NEW revs \in Seq(Seq(Char))
    PROVE  /\ Replacements(str, revs) \in Seq(Seq(Byte) \X Seq(Char))
           /\ \A u \in Range(Replacements(str, revs)) : u[1] = str /\ u[2] \in Range(revs)
<1> DEFINE r == Replacements(str, revs)
<1>1. Len(revs) \in Nat /\ DOMAIN revs = 1 .. Len(revs)
  OBVIOUS
<1>2. r = [i \in 1 .. Len(revs) |-> <<str, revs[i]>>]
  BY DEF Replacements
<1>3. r \in [1 .. Len(revs) -> Seq(Byte) \X Seq(Char)]
  BY <1>2
<1>4. r \in Seq(Seq(Byte) \X Seq(Char))
  <2> DEFINE n == Len(revs)
             S == Seq(Byte) \X Seq(Char)
  <2>1. n \in Nat /\ r \in [1 .. n -> S]
    BY <1>1, <1>3
  <2> HIDE DEF n, S, r
  <2>2. r \in Seq(S)
    BY <2>1
  <2> QED
    BY <2>2 DEF S
<1>5. \A u \in Range(r) : u[1] = str /\ u[2] \in Range(revs)
  BY <1>1, <1>2 DEF Range
<1> QED
  BY <1>4, <1>5

(* A pair of compared strings, or a regular expression and its subject. *)
LEMMA ReadPairStep == ASSUME IInv, ReadPair PROVE IInv'
<1> DEFINE str1 == Field(tell + 1)
           str2 == Field(FieldEnd(tell + 1))
<1>0. PICK rec : rec = dumped[Current]
  OBVIOUS
<1>1. /\ status = "parsing" /\ status' = "parsing" /\ tell < Len(file) /\ ParserUnchanged
      /\ s_type \in Pair
      /\ decoded' = Append(decoded, [type |-> s_type, s1 |-> str1, s2 |-> str2])
      /\ tell' = FieldEnd(FieldEnd(tell + 1))
      /\ UNCHANGED key_strings
  BY DEF ReadPair, Pair
<1>2. /\ Dumpable(rec) /\ s_type = rec.type /\ str1 = rec.s1 /\ str2 = rec.s2
      /\ FieldEnd(FieldEnd(tell + 1)) = RecordEnd(tell, rec)
  BY <1>0, <1>1, AtRecord
<1>3. PICK s1, s2 : s1 = rec.s1 /\ s2 = rec.s2
  OBVIOUS
<1>4. \/ /\ rec.type = REDQUEEN_UNMATCHED
         /\ strings' = strings \o <<s1, s2>>
         /\ unmatched_strings' = Append(unmatched_strings, <<s1, s2>>)
         /\ UNCHANGED <<preg_matches, preg_match_cache>>
      \/ /\ rec.type = REDQUEEN_PREG_MATCH /\ s1 \in DOMAIN preg_match_cache
         /\ strings' = strings \o <<s1, s2>> \o preg_match_cache[s1]
         /\ preg_matches' = preg_matches \o preg_match_cache[s1]
         /\ unmatched_strings' = unmatched_strings \o Replacements(s2, preg_match_cache[s1])
         /\ UNCHANGED preg_match_cache
      \/ /\ rec.type = REDQUEEN_PREG_MATCH /\ s1 \notin DOMAIN preg_match_cache
         /\ strings' = strings \o <<s1, s2>>
         /\ UNCHANGED <<unmatched_strings, preg_matches, preg_match_cache>>
      \/ /\ rec.type = REDQUEEN_PREG_MATCH /\ s1 \notin DOMAIN preg_match_cache
         /\ strings' = strings \o <<s1, s2>> \o <<shortest_reverse_regexp(s1)>>
                               \o reverse_regexp_count(s1)
         /\ preg_matches' = preg_matches \o <<shortest_reverse_regexp(s1)>>
                                         \o reverse_regexp_count(s1)
         /\ unmatched_strings' = unmatched_strings \o
              Replacements(s2, Append(reverse_regexp_count(s1), shortest_reverse_regexp(s1)))
         /\ preg_match_cache' = [regexp \in DOMAIN preg_match_cache \cup {s1} |->
              IF regexp = s1
              THEN Append(reverse_regexp_count(s1), shortest_reverse_regexp(s1))
              ELSE preg_match_cache[regexp]]
  <2>1. str1 = s1 /\ str2 = s2 /\ s_type = rec.type
    BY <1>2, <1>3
  <2> QED
    BY <2>1 DEF ReadPair
<1>5. UNCHANGED <<file, dumped, bounds>>
  BY <1>1 DEF ParserUnchanged
<1>6. /\ rec = [type |-> rec.type, s1 |-> s1, s2 |-> s2]
      /\ s1 \in Seq(Byte) /\ s2 \in Seq(Byte)
      /\ rec.type \in Pair /\ rec.type \notin Single
      /\ rec.type # REDQUEEN_ARRAY_KEY
  BY <1>1, <1>2, <1>3 DEF Dumpable, Single, Pair, REDQUEEN_STRING, REDQUEEN_ARRAY_KEY,
                          REDQUEEN_UNMATCHED, REDQUEEN_PREG_MATCH
<1>7. decoded' = Append(decoded, rec) /\ tell' = RecordEnd(tell, rec)
  BY <1>1, <1>2, <1>3, <1>6
<1> HIDE DEF str1, str2
<1>8. Range(decoded') = Range(decoded) \cup {rec}
  BY <1>0, <1>1, <1>5, <1>7, RecordRead
<1>9. /\ strings \in Seq(Seq(Char)) /\ unmatched_strings \in Seq(Seq(Byte) \X Seq(Char))
      /\ preg_matches \in Seq(Seq(Char))
      /\ \A regexp \in DOMAIN preg_match_cache : preg_match_cache[regexp] \in Seq(Seq(Char))
      /\ \A regexp \in DOMAIN preg_match_cache :
           Range(preg_match_cache[regexp]) \subseteq Reversals(regexp)
  BY DEF IInv, TypeOK, Learned
<1>10. s1 \in Seq(Char) /\ s2 \in Seq(Char)
  BY <1>6, BytesAreChars
<1> DEFINE both == strings \o <<s1, s2>>
<1>11. both \in Seq(Seq(Char)) /\ Range(both) = Range(strings) \cup {s1, s2}
  <2> DEFINE l == <<s1, s2>>
  <2>1. l \in Seq(Seq(Char)) /\ Range(l) = {s1, s2}
    BY <1>10 DEF Range
  <2> HIDE DEF l
  <2>2. strings \o l \in Seq(Seq(Char)) /\ Range(strings \o l) = Range(strings) \cup Range(l)
    BY <1>9, <2>1, ConcatProperties, RangeConcatenation
  <2> QED
    BY <2>1, <2>2 DEF l
<1>12. /\ strings' \in Seq(Seq(Char)) /\ Range(both) \subseteq Range(strings')
       /\ unmatched_strings' \in Seq(Seq(Byte) \X Seq(Char))
       /\ \A u \in Range(unmatched_strings') :
            u \in Range(unmatched_strings) \/ Explains(rec, u)
       /\ preg_matches' \in Seq(Seq(Char))
       /\ \A regexp \in DOMAIN preg_match_cache' :
            /\ preg_match_cache'[regexp] \in Seq(Seq(Char))
            /\ Range(preg_match_cache'[regexp]) \subseteq Reversals(regexp)
  <2>1. ASSUME NEW revs \in Seq(Seq(Char)), Range(revs) \subseteq Reversals(s1),
               rec.type = REDQUEEN_PREG_MATCH,
               unmatched_strings' = unmatched_strings \o Replacements(s2, revs)
        PROVE  /\ unmatched_strings' \in Seq(Seq(Byte) \X Seq(Char))
               /\ \A u \in Range(unmatched_strings') :
                    u \in Range(unmatched_strings) \/ Explains(rec, u)
    <3> DEFINE new == Replacements(s2, revs)
    <3>1. /\ new \in Seq(Seq(Byte) \X Seq(Char))
          /\ \A u \in Range(new) : u[1] = s2 /\ u[2] \in Range(revs)
      BY <1>6, <2>1, ReplacementsType
    <3> HIDE DEF new
    <3>2. \A u \in Range(new) : Explains(rec, u)
      BY <1>3, <1>6, <2>1, <3>1 DEF Explains, REDQUEEN_PREG_MATCH, REDQUEEN_UNMATCHED
    <3>3. /\ unmatched_strings \o new \in Seq(Seq(Byte) \X Seq(Char))
          /\ Range(unmatched_strings \o new) = Range(unmatched_strings) \cup Range(new)
      BY <1>9, <3>1, ConcatProperties, RangeConcatenation
    <3> QED
      BY <2>1, <3>2, <3>3 DEF new
  <2>2. CASE /\ rec.type = REDQUEEN_UNMATCHED
             /\ strings' = both
             /\ unmatched_strings' = Append(unmatched_strings, <<s1, s2>>)
             /\ UNCHANGED <<preg_matches, preg_match_cache>>
    <3>1. <<s1, s2>> \in Seq(Byte) \X Seq(Char) /\ Explains(rec, <<s1, s2>>)
      BY <1>3, <1>6, <1>10, <2>2 DEF Explains
    <3> DEFINE u == <<s1, s2>>
               S == Seq(Byte) \X Seq(Char)
    <3>3. u \in S /\ unmatched_strings \in Seq(S)
      BY <1>9, <3>1
    <3> HIDE DEF u, S
    <3>4. /\ Append(unmatched_strings, u) \in Seq(S)
          /\ Range(Append(unmatched_strings, u)) = Range(unmatched_strings) \cup {u}
      BY <3>3, AppendProperties, RangeAppend
    <3>2. /\ Append(unmatched_strings, u) \in Seq(Seq(Byte) \X Seq(Char))
          /\ Range(Append(unmatched_strings, u)) = Range(unmatched_strings) \cup {u}
      BY <3>4 DEF S
    <3> QED
      BY <1>9, <1>11, <2>2, <3>1, <3>2 DEF u
  <2>3. CASE /\ rec.type = REDQUEEN_PREG_MATCH /\ s1 \in DOMAIN preg_match_cache
             /\ strings' = both \o preg_match_cache[s1]
             /\ preg_matches' = preg_matches \o preg_match_cache[s1]
             /\ unmatched_strings' = unmatched_strings \o Replacements(s2, preg_match_cache[s1])
             /\ UNCHANGED preg_match_cache
    <3> DEFINE revs == preg_match_cache[s1]
    <3>1. revs \in Seq(Seq(Char)) /\ Range(revs) \subseteq Reversals(s1)
      BY <1>9, <2>3
    <3> HIDE DEF revs, both
    <3>2. both \o revs \in Seq(Seq(Char)) /\ Range(both \o revs) = Range(both) \cup Range(revs)
      BY <1>11, <3>1, ConcatProperties, RangeConcatenation
    <3>3. preg_matches \o revs \in Seq(Seq(Char))
      BY <1>9, <3>1, ConcatProperties
    <3>4. /\ unmatched_strings' \in Seq(Seq(Byte) \X Seq(Char))
          /\ \A u \in Range(unmatched_strings') :
               u \in Range(unmatched_strings) \/ Explains(rec, u)
      BY <2>1, <2>3, <3>1 DEF revs
    <3> QED
      BY <1>9, <2>3, <3>2, <3>3, <3>4 DEF revs
  <2>4. CASE /\ rec.type = REDQUEEN_PREG_MATCH
             /\ strings' = both
             /\ UNCHANGED <<unmatched_strings, preg_matches, preg_match_cache>>
    BY <1>9, <1>11, <2>4
  <2> DEFINE a == shortest_reverse_regexp(s1)
             b == reverse_regexp_count(s1)
  <2>5. CASE /\ rec.type = REDQUEEN_PREG_MATCH
             /\ strings' = both \o <<a>> \o b
             /\ preg_matches' = preg_matches \o <<a>> \o b
             /\ unmatched_strings' = unmatched_strings \o Replacements(s2, Append(b, a))
             /\ preg_match_cache' = [regexp \in DOMAIN preg_match_cache \cup {s1} |->
                  IF regexp = s1 THEN Append(b, a) ELSE preg_match_cache[regexp]]
    <3>1. /\ a \in Seq(Char) /\ b \in Seq(Seq(Char))
          /\ Append(b, a) \in Seq(Seq(Char)) /\ Range(Append(b, a)) = Reversals(s1)
      BY <1>6, ReversalsType
    <3> HIDE DEF a, b, both
    <3> DEFINE l == <<a>>
    <3>2. l \in Seq(Seq(Char))
      BY <3>1
    <3> HIDE DEF l
    <3>3. both \o l \in Seq(Seq(Char)) /\ Range(both) \subseteq Range(both \o l)
      BY <1>11, <3>2, ConcatProperties, RangeConcatenation
    <3> DEFINE bl == both \o l
    <3> HIDE DEF bl
    <3>4. bl \o b \in Seq(Seq(Char)) /\ Range(bl \o b) = Range(bl) \cup Range(b)
      <4>1. bl \in Seq(Seq(Char))
        BY <3>3 DEF bl
      <4> QED
        BY <3>1, <4>1, ConcatProperties, RangeConcatenation
    <3>5. preg_matches \o l \in Seq(Seq(Char))
      BY <1>9, <3>2, ConcatProperties
    <3>6. preg_matches \o l \o b \in Seq(Seq(Char))
      BY <3>1, <3>5, ConcatProperties
    <3>7. /\ unmatched_strings' \in Seq(Seq(Byte) \X Seq(Char))
          /\ \A u \in Range(unmatched_strings') :
               u \in Range(unmatched_strings) \/ Explains(rec, u)
      BY <2>1, <2>5, <3>1
    <3>8. \A regexp \in DOMAIN preg_match_cache' :
            /\ preg_match_cache'[regexp] \in Seq(Seq(Char))
            /\ Range(preg_match_cache'[regexp]) \subseteq Reversals(regexp)
      <4> TAKE regexp \in DOMAIN preg_match_cache'
      <4>1. CASE regexp = s1
        BY <2>5, <3>1, <4>1
      <4>2. CASE regexp # s1
        <5>1. /\ regexp \in DOMAIN preg_match_cache
              /\ preg_match_cache'[regexp] = preg_match_cache[regexp]
          BY <2>5, <4>2
        <5> QED
          BY <1>9, <5>1
      <4> QED
        BY <4>1, <4>2
    <3> QED
      BY <2>5, <3>3, <3>4, <3>6, <3>7, <3>8 DEF l, bl
  <2> QED
    BY <1>4, <2>2, <2>3, <2>4, <2>5
<1> HIDE DEF both
<1>13. Learned'
  <2>1. Range(strings) \subseteq Range(strings') /\ s1 \in Range(strings') /\ s2 \in Range(strings')
    BY <1>11, <1>12
  <2>2. Contributed(rec)'
    BY <1>3, <1>6, <2>1 DEF Contributed
  <2>3. Range(key_strings') = Range(key_strings) \cup
                              (IF rec.type = REDQUEEN_ARRAY_KEY THEN {rec.s} ELSE {})
    BY <1>1, <1>6
  <2>4. Learned
    BY DEF IInv
  <2> QED
    BY <1>8, <1>12, <2>1, <2>2, <2>3, <2>4, LearnedStep
<1>14. key_strings' \in Seq(Seq(Byte))
  BY <1>1 DEF IInv, TypeOK
<1> QED
  BY <1>0, <1>1, <1>7, <1>12, <1>13, <1>14, ReadStep

(* The parser stops at the end of the file only, with every record read. *)
LEMMA StopParsingStep == ASSUME IInv, StopParsing PROVE IInv'
<1>1. /\ status = "parsing" /\ ~(tell < Len(file) /\ RecordFits)
      /\ status' = IF tell < Len(file) /\ s_type \notin REDQUEEN_STRING .. REDQUEEN_PREG_MATCH
                   THEN "failed" ELSE "done"
      /\ UNCHANGED <<tell, results, decoded>>
      /\ UNCHANGED <<file, redqueen_mode_enabled, init, runs, dumped, bounds>>
  BY DEF StopParsing, ParserUnchanged
<1>2. ~(tell < Len(file))
  BY <1>1, AtRecord
<1>3. status' = "done"
  BY <1>1, <1>2
<1>4. decoded = dumped
  <2>1. /\ decoded \in Seq(Record) /\ dumped \in Seq(Record)
        /\ Len(decoded) \in Nat /\ Len(dumped) \in Nat
    BY DEF IInv, TypeOK
  <2>2. Len(decoded) = Len(dumped)
    <3> SUFFICES ASSUME Len(decoded) < Len(dumped) PROVE FALSE
      BY <2>1 DEF IInv, ReadSoFar
    <3>1. Len(decoded) + 1 \in 1 .. Len(dumped) /\ tell = bounds[Len(decoded) + 1]
      BY <2>1 DEF IInv, ReadSoFar
    <3>2. HasRecord(file, tell, dumped[Len(decoded) + 1])
      BY <3>1 DEF IInv, Layout, LayoutOf
    <3> QED
      BY <1>2, <3>2 DEF HasRecord
  <2> QED
    BY <2>1, <2>2, SeqEqual DEF IInv, ReadSoFar
<1>5. redqueen_mode_enabled' \in BOOLEAN /\ init' \in BOOLEAN
  BY <1>1 DEF IInv, TypeOK
<1>6. TypeOK'
  BY <1>1, <1>3, <1>5 DEF IInv, TypeOK, results
<1>7. NothingParsed' /\ ParsesAll'
  BY <1>1, <1>3, <1>4 DEF NothingParsed, ParsesAll
<1>8. Layout' /\ ReadSoFar'
  BY <1>1 DEF IInv, Layout, ReadSoFar
<1>9. Learned'
  BY <1>1 DEF IInv, Learned, Contributed, results
<1> QED
  BY <1>6, <1>7, <1>8, <1>9 DEF IInv

-----------------------------------------------------------------------------
(* Every step of the runs and of the parser preserves the invariant. *)
LEMMA NextIInv == IInv /\ [Next]_vars => IInv'
<1> SUFFICES ASSUME IInv, [Next]_vars PROVE IInv'
  OBVIOUS
<1>1. ASSUME NEW s \in Strings, NEW type \in Single, dump_redqueen_payload(s, type) PROVE IInv'
  <2>1. Dumpable([type |-> type, s |-> s])
    BY <1>1, RedqueenFileConstants DEF dump_redqueen_payload, Dumpable, Byte
  <2> QED
    BY <1>1, <2>1, DumpStep DEF dump_redqueen_payload
<1>2. ASSUME NEW s1 \in Strings, NEW s2 \in Strings, NEW type \in Pair,
             php_pcov_redqueen_pair(s1, s2, type)
      PROVE  IInv'
  <2>1. s1 \in Seq(Byte) /\ s2 \in Seq(Byte) /\ Len(s1) \in Nat /\ Len(s2) \in Nat
    BY RedqueenFileConstants DEF Byte
  <2>2. Len(s1) <= MAX_PAYLOAD /\ Len(s2) <= MAX_PAYLOAD
    BY <1>2, <2>1, RedqueenFileConstants DEF php_pcov_redqueen_pair
  <2>3. Dumpable([type |-> type, s1 |-> s1, s2 |-> s2])
    BY <2>1, <2>2 DEF Dumpable
  <2> QED
    BY <1>2, <2>3, DumpStep DEF php_pcov_redqueen_pair
<1>3. CASE EndRun \/ StartRun \/ Parse
  BY <1>3, RunStep
<1>4. CASE ReadString
  BY <1>4, ReadStringStep
<1>5. CASE ReadPair
  BY <1>5, ReadPairStep
<1>6. CASE StopParsing
  BY <1>6, StopParsingStep
<1>7. CASE UNCHANGED vars
  <2> USE <1>7 DEF vars, hostVars, results
  <2>1. redqueen_mode_enabled' \in BOOLEAN /\ init' \in BOOLEAN
    BY DEF IInv, TypeOK
  <2>2. TypeOK'
    BY <2>1 DEF IInv, TypeOK
  <2>3. Layout' /\ NothingParsed' /\ ReadSoFar' /\ ParsesAll'
    BY DEF IInv, Layout, NothingParsed, ReadSoFar, ParsesAll
  <2>4. Learned'
    BY DEF IInv, Learned, Contributed
  <2> QED
    BY <2>2, <2>3, <2>4 DEF IInv
<1> QED
  BY <1>1, <1>2, <1>3, <1>4, <1>5, <1>6, <1>7 DEF Next, Single, Pair

(* The inductive invariant holds throughout. *)
THEOREM IInvInvariant == Spec => []IInv
  BY InitIInv, NextIInv, PTL DEF Spec

(* The bytes of the dump are bytes, the position of the parser is in the   *)
(* file, and its results are strings.                                      *)
THEOREM TypeCorrect == Spec => []TypeOK
<1>1. IInv => TypeOK
  BY DEF IInv
<1> QED
  BY <1>1, IInvInvariant, PTL

(* parse_redqueen_file never loses step with dump_redqueen_payload: what   *)
(* it has read are the records that were written, in order, and it stands  *)
(* at the start of the next one.                                           *)
THEOREM InStepInvariant == Spec => []InStep
<1>1. ASSUME IInv PROVE InStep
  <2>1. /\ decoded \in Seq(Record) /\ dumped \in Seq(Record)
        /\ Len(decoded) \in Nat /\ Len(dumped) \in Nat /\ Len(decoded) <= Len(dumped)
        /\ \A i \in 1 .. Len(decoded) : decoded[i] = dumped[i]
    BY <1>1 DEF IInv, TypeOK, ReadSoFar
  <2>2. decoded = SubSeq(dumped, 1, Len(decoded))
    <3> DEFINE n == Len(decoded)
               p == SubSeq(dumped, 1, n)
    <3>1. n \in Nat /\ \A i \in 1 .. n : dumped[i] \in Record
      BY <2>1
    <3>2. p \in Seq(Record) /\ Len(p) = n /\ \A i \in 1 .. n : p[i] = dumped[i]
      <4> HIDE DEF n
      <4>1. /\ p \in Seq(Record) /\ Len(p) = IF 1 <= n THEN n - 1 + 1 ELSE 0
            /\ \A i \in 1 .. n - 1 + 1 : p[i] = dumped[1 + i - 1]
        BY <3>1, SubSeqProperties
      <4> HIDE DEF p
      <4>2. n - 1 + 1 = n /\ \A i \in 1 .. n : 1 + i - 1 = i
        BY <3>1
      <4> QED
        BY <3>1, <4>1, <4>2
    <3> HIDE DEF p
    <3>3. decoded = p
      BY <2>1, <3>2, SeqEqual
    <3> QED
      BY <3>3 DEF p
  <2>3. tell = IF Len(decoded) < Len(dumped) /\ decoded # <<>>
               THEN bounds[Len(decoded) + 1]
               ELSE IF decoded = <<>> THEN 0 ELSE Len(file)
    <3>1. CASE decoded # <<>>
      BY <1>1, <3>1 DEF IInv, ReadSoFar
    <3>2. CASE decoded = <<>> /\ dumped # <<>>
      <4>1. Len(decoded) = 0 /\ Len(dumped) > 0 /\ bounds[1] = 0
        BY <1>1, <2>1, <3>2 DEF IInv, Layout, LayoutOf
      <4> QED
        BY <1>1, <3>2, <4>1 DEF IInv, ReadSoFar
    <3>3. CASE decoded = <<>> /\ dumped = <<>>
      <4>1. file = <<>>
        BY <1>1, <3>3 DEF IInv, Layout, LayoutOf
      <4> QED
        BY <1>1, <3>3, <4>1 DEF IInv, ReadSoFar
    <3> QED
      BY <3>1, <3>2, <3>3
  <2> QED
    BY <2>1, <2>2, <2>3 DEF InStep
<1> QED
  BY <1>1, IInvInvariant, PTL

(* Parsing a dump raises nothing but the end of the file, whichever run    *)
(* left it and wherever that run ended, and reads every record.            *)
THEOREM ParsesAllInvariant == Spec => []ParsesAll
<1>1. IInv => ParsesAll
  BY DEF IInv
<1> QED
  BY <1>1, IInvInvariant, PTL

(* The keys, strings and replacements that apply_redqueen_dump learns are  *)
(* those of the run that was dumped.                                       *)
THEOREM LearnsWhatWasDumpedInvariant == Spec => []LearnsWhatWasDumped
<1>1. ASSUME IInv PROVE LearnsWhatWasDumped
  <2> SUFFICES ASSUME status = "done" PROVE LearnsWhatWasDumped
    BY DEF LearnsWhatWasDumped
  <2> DEFINE recs == Range(dumped)
             pairs == {r \in recs : r.type \in Pair}
  <2>1. decoded = dumped /\ Learned
    BY <1>1 DEF IInv, ParsesAll
  <2>2. \A r \in recs : r.type \in Single \cup Pair
    <3>1. \A i \in 1 .. Len(dumped) : Dumpable(dumped[i])
      BY <1>1 DEF IInv, Layout, LayoutOf
    <3>2. DOMAIN dumped = 1 .. Len(dumped)
      BY <1>1 DEF IInv, TypeOK
    <3> QED
      BY <3>1, <3>2 DEF Range, Dumpable
  <2>3. Range(key_strings) = {r.s : r \in {q \in recs : q.type = REDQUEEN_ARRAY_KEY}}
    BY <2>1 DEF Learned
  <2>4. \A r \in recs : Contributed(r)
    BY <2>1 DEF Learned
  <2>5. \A u \in Range(unmatched_strings) : \E r \in recs : Explains(r, u)
    BY <2>1 DEF Learned
  <2> HIDE DEF recs
  <2>6. {r.s : r \in recs \ pairs} \cup UNION {{r.s1, r.s2} : r \in pairs} \subseteq Range(strings)
    <3>1. \A r \in recs \ pairs : r.s \in Range(strings)
      BY <2>2, <2>4 DEF Contributed
    <3>2. \A r \in pairs : r.s1 \in Range(strings) /\ r.s2 \in Range(strings)
      BY <2>4 DEF Contributed, Pair, Single, REDQUEEN_STRING, REDQUEEN_ARRAY_KEY,
                  REDQUEEN_UNMATCHED, REDQUEEN_PREG_MATCH
    <3> HIDE DEF pairs
    <3> QED
      BY <3>1, <3>2
  <2>7. \A u \in Range(unmatched_strings) : \E r \in pairs :
          IF r.type = REDQUEEN_UNMATCHED THEN u = <<r.s1, r.s2>>
          ELSE u[1] = r.s2 /\ u[2] \in {shortest_reverse_regexp(r.s1)} \cup
                                       Range(reverse_regexp_count(r.s1))
    BY <2>5 DEF Explains, Reversals
  <2> QED
    BY <2>3, <2>6, <2>7 DEF LearnsWhatWasDumped, recs, Pair
<1> QED
  BY <1>1, IInvInvariant, PTL

=============================================================================
