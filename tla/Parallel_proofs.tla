-------------------------- MODULE Parallel_proofs --------------------------
(***************************************************************************)
(* Proofs about Parallel, for every number of fuzzers, requests and chunks *)
(* and with or without the directory that dumps are moved to.              *)
(***************************************************************************)
EXTENDS Parallel, TLAPS

(* The inductive invariant, part by part. *)

Directory == file \in [Names -> {Absent} \cup Seq(RequestIds)]

(* A run is asked for one kind of dump at most, and has a number then. *)
OneDumpPerRun ==
    \A c \in Cores : /\ config[c] \in {{}, {"REDQUEEN"}, {"HTML_DUMP"}}
                     /\ config[c] # {} => requests[c] > 0

(* The kinds of dumps that only a core's own VM writes: pages only if      *)
(* there is no other core.                                                 *)
Own == {kind \in Kinds : kind = "REDQUEEN" \/ Cores = {0}}

(* Once its VM has truncated such a dump of a core, nobody else has        *)
(* written to it.                                                          *)
OwnDumps ==
    \A kind \in Own, c \in Cores :
      init[c] /\ config[c] = {kind} => Contents(<<kind, c>>) \subseteq {<<c, requests[c]>>}

IInv ==
    /\ TypeOK
    /\ Directory
    /\ OneDumpPerRun
    /\ OwnDumps
    /\ SeenIsReadable

-----------------------------------------------------------------------------
(* No file is told apart from every file, and no request from every        *)
(* request.                                                                *)
LEMMA AbsentIsNone ==
    /\ Absent \notin Seq(RequestIds)
    /\ Absent \notin RequestIds
    /\ Absent # <<>>
<1>1. \A r \in RequestIds : Len(r) = 2
  BY DEF RequestIds
<1>2. Len(Absent) = 1 /\ Absent[1] = <<>>
  BY DEF Absent
<1>3. Absent \notin Seq(RequestIds)
  <2> SUFFICES ASSUME Absent \in Seq(RequestIds) PROVE FALSE
    OBVIOUS
  <2>1. <<>> \in RequestIds
    BY <1>2
  <2>2. Len(<<>>) = 2
    BY <1>1, <2>1
  <2> QED
    BY ONLY <2>2
<1>4. Absent \notin RequestIds
  BY <1>1, <1>2
<1> QED
  BY <1>2, <1>3, <1>4

(* The fuzzers start in a state of the invariant. *)
LEMMA InitIInv == Init => IInv
<1> SUFFICES ASSUME Init PROVE IInv
  OBVIOUS
<1> USE ParallelConstants DEF Init
<1>1. TypeOK
  <2>1. init \in [Cores -> BOOLEAN] /\ \A c \in Cores : ~init[c]
    OBVIOUS
  <2>2. got \in [Cores -> [Kinds -> SUBSET RequestIds]]
    OBVIOUS
  <2> QED
    BY <2>1, <2>2 DEF TypeOK
<1> QED
  BY <1>1 DEF IInv, Directory, OneDumpPerRun, OwnDumps, SeenIsReadable

(* What is in a dump once a chunk was appended. *)
LEMMA AppendContents ==
    ASSUME NEW s \in Seq(RequestIds), NEW r
    PROVE  /\ {Append(s, r)[i] : i \in DOMAIN Append(s, r)} \subseteq
                {s[i] : i \in DOMAIN s} \cup {r}
           /\ r \in {Append(s, r)[i] : i \in DOMAIN Append(s, r)}
<1>1. \A i \in DOMAIN Append(s, r) : i \in DOMAIN s \/ i = Len(s) + 1
  OBVIOUS
<1>2. \A i \in DOMAIN s : Append(s, r)[i] = s[i]
  OBVIOUS
<1>3. Append(s, r)[Len(s) + 1] = r /\ Len(s) + 1 \in DOMAIN Append(s, r)
  OBVIOUS
<1> QED
  BY <1>1, <1>2, <1>3

(* A dump goes to a file of the directory, which is the core's own unless  *)
(* it is one of pages and there are other cores.                           *)
LEMMA DumpName ==
    ASSUME IInv, NEW c \in Cores, NEW kind \in Kinds, kind \in config[c]
    PROVE  /\ <<kind, redqueen_core(c)>> \in Names
           /\ config[c] = {kind}
           /\ <<c, requests[c]>> \in RequestIds
           /\ kind \in Own => redqueen_core(c) = c
<1>1. config[c] = {kind}
  BY DEF IInv, OneDumpPerRun, Kinds
<1>2. redqueen_core(c) \in Cores
  BY ParallelConstants DEF redqueen_core
<1>3. requests[c] \in 0 .. MaxRequests /\ requests[c] > 0
  BY <1>1 DEF IInv, TypeOK, OneDumpPerRun
<1> QED
  BY <1>1, <1>2, <1>3 DEF redqueen_core, Names, RequestIds, Own

(* A dump that is seen stays readable as long as no file disappears. *)
LEMMA DirectoryOnly ==
    ASSUME SeenIsReadable, UNCHANGED pc,
           \A n \in Names : file[n] # Absent => file'[n] # Absent
    PROVE  SeenIsReadable'
<1>1. \A c \in Cores : <<"REDQUEEN", c>> \in Names /\ <<"HTML_DUMP", c>> \in Names
  BY DEF Names, Kinds
<1> QED
  BY <1>1 DEF SeenIsReadable

(* Every step keeps the inductive invariant. *)
LEMMA StepIInv == IInv /\ [Next]_vars => IInv'
<1> SUFFICES ASSUME IInv, [Next]_vars PROVE IInv'
  OBVIOUS
<1> USE ParallelConstants
<1>1. ASSUME NEW c \in Cores, NEW asked \in {{}} \cup {{kind} : kind \in Kinds},
             AskForDump(c, asked)
      PROVE  IInv'
  <2> USE <1>1 DEF AskForDump, Goto
  <2>1. asked \in {{}, {"REDQUEEN"}, {"HTML_DUMP"}} /\ asked \in SUBSET Kinds
    BY DEF Kinds
  <2>2. /\ pc[c] = "fuzz" /\ config[c] = {} /\ ~init[c]
        /\ pc' = [pc EXCEPT ![c] = "run"]
        /\ config' = [config EXCEPT ![c] = asked]
        /\ UNCHANGED <<init, chunks, file, got>>
    BY DEF IInv, TypeOK
  <2>3. /\ requests' \in [Cores -> 0 .. MaxRequests]
        /\ \A d \in Cores \ {c} : requests'[d] = requests[d]
        /\ asked # {} => requests'[c] > 0
    <3>1. requests \in [Cores -> 0 .. MaxRequests]
      BY DEF IInv, TypeOK
    <3>2. CASE asked = {}
      BY <3>1, <3>2
    <3>3. CASE asked # {}
      BY <3>1, <3>3
    <3> QED
      BY <3>2, <3>3
  <2> HIDE DEF AskForDump
  <2>4. TypeOK'
    <3>1. pc' \in [Cores -> {"fuzz", "strings", "mv strings", "html?", "html", "mv html",
                             "mutate", "run"}]
      BY <2>2 DEF IInv, TypeOK
    <3>2. config' \in [Cores -> SUBSET Kinds]
      BY <2>1, <2>2 DEF IInv, TypeOK
    <3>3. \A d \in Cores : pc'[d] # "run" => config'[d] = {} /\ ~init'[d]
      BY <2>2 DEF IInv, TypeOK
    <3> QED
      BY <2>2, <2>3, <3>1, <3>2, <3>3 DEF IInv, TypeOK
  <2>5. OneDumpPerRun'
    BY <2>1, <2>2, <2>3 DEF IInv, TypeOK, OneDumpPerRun
  <2>6. OwnDumps'
    <3> SUFFICES ASSUME NEW k \in Own, NEW d \in Cores, init[d], config'[d] = {k}
                 PROVE  Contents(<<k, d>>)' \subseteq {<<d, requests'[d]>>}
      BY <2>2 DEF OwnDumps
    <3>1. d # c /\ config[d] = {k} /\ requests'[d] = requests[d]
      BY <2>2, <2>3 DEF IInv, TypeOK
    <3> QED
      <4>1. Contents(<<k, d>>)' = Contents(<<k, d>>)
        BY <2>2 DEF Contents
      <4> QED
        BY <2>2, <3>1, <4>1 DEF IInv, OwnDumps
  <2>7. SeenIsReadable'
    BY <2>2 DEF IInv, TypeOK, SeenIsReadable
  <2> QED
    BY <2>2, <2>4, <2>5, <2>6, <2>7 DEF IInv, Directory
<1>2. ASSUME NEW c \in Cores,
             \/ LookForStrings(c) \/ LookForHtml(c) \/ Mutate(c)
             \/ ReadStrings(c) \/ ReadHtml(c)
      PROVE  IInv'
  <2> USE DEF Goto
  <2>1. file' = file /\ init' = init /\ requests' = requests /\ chunks' = chunks
    BY <1>2 DEF LookForStrings, LookForHtml, Mutate, ReadStrings, ReadHtml, Read
  <2>2. config' = config
    BY <1>2 DEF LookForStrings, LookForHtml, Mutate, ReadStrings, ReadHtml, Read, IInv, TypeOK
  <2>3. pc' \in [Cores -> {"fuzz", "strings", "mv strings", "html?", "html", "mv html",
                           "mutate", "run"}]
    BY <1>2 DEF LookForStrings, LookForHtml, Mutate, ReadStrings, ReadHtml, IInv, TypeOK
  <2>4. \A d \in Cores : pc'[d] # "run" => config'[d] = {} /\ ~init'[d]
    BY <1>2, <2>1, <2>2
    DEF LookForStrings, LookForHtml, Mutate, ReadStrings, ReadHtml, IInv, TypeOK
  <2>5. got' \in [Cores -> [Kinds -> SUBSET RequestIds]]
    <3>1. CASE UNCHANGED got
      BY <3>1 DEF IInv, TypeOK
    <3>2. ASSUME NEW kind \in Kinds, Read(c, kind)
          PROVE  got' \in [Cores -> [Kinds -> SUBSET RequestIds]]
      <4>1. Contents(<<kind, c>>) \in SUBSET RequestIds
        BY <1>2 DEF Contents, IInv, Directory, Names
      <4> QED
        BY <3>2, <4>1 DEF Read, IInv, TypeOK
    <3> QED
      BY <1>2, <3>1, <3>2 DEF LookForStrings, LookForHtml, Mutate, ReadStrings, ReadHtml, Kinds
  <2>6. TypeOK'
    BY <2>1, <2>2, <2>3, <2>4, <2>5 DEF IInv, TypeOK
  <2>7. SeenIsReadable'
    BY <1>2, <2>1
    DEF LookForStrings, LookForHtml, Mutate, ReadStrings, ReadHtml, IInv, TypeOK, SeenIsReadable
  <2>8. OwnDumps'
    <3> SUFFICES ASSUME NEW k \in Own, NEW d \in Cores, init[d], config[d] = {k}
                 PROVE  Contents(<<k, d>>)' \subseteq {<<d, requests[d]>>}
      BY <2>1, <2>2 DEF OwnDumps
    <3>1. Contents(<<k, d>>)' = Contents(<<k, d>>)
      BY <2>1 DEF Contents
    <3>2. OwnDumps
      BY DEF IInv
    <3>3. Contents(<<k, d>>) \subseteq {<<d, requests[d]>>}
      BY <3>2 DEF OwnDumps
    <3> QED
      BY <3>1, <3>3
  <2> QED
    BY <2>1, <2>2, <2>6, <2>7, <2>8 DEF IInv, Directory, OneDumpPerRun
<1>3. ASSUME NEW c \in Cores, MoveStrings(c) \/ MoveHtml(c)
      PROVE  IInv'
  <2> USE <1>3 DEF MoveStrings, MoveHtml, Move, Goto
  <2>1. PICK kind \in Kinds : file' \in {file, [file EXCEPT ![<<kind, c>>] = Absent]}
    BY DEF Kinds
  <2>2. config' = config
    BY DEF IInv, TypeOK
  <2>3. Directory' /\ \A name \in Names : file'[name] \in {Absent, file[name]}
    BY <2>1 DEF IInv, Directory
  <2>4. TypeOK'
    BY <2>2, <2>3 DEF IInv, TypeOK
  <2>5. SeenIsReadable'
    <3>1. /\ pc'[c] \in {"run", "mutate"}
          /\ \A d \in Cores \ {c} : pc'[d] = pc[d]
      BY DEF IInv, TypeOK
    <3>2. \A d \in Cores \ {c}, k \in Kinds : file'[<<k, d>>] = file[<<k, d>>]
      BY <2>1 DEF IInv, Directory, Names
    <3> QED
      BY <3>1, <3>2 DEF IInv, SeenIsReadable, Kinds
  <2>6. OwnDumps'
    <3> SUFFICES ASSUME NEW k \in Own, NEW d \in Cores, init'[d], config'[d] = {k}
                 PROVE  Contents(<<k, d>>)' \subseteq {<<d, requests'[d]>>}
      BY DEF OwnDumps
    <3>1. <<k, d>> \in Names
      BY DEF Names, Own
    <3>2. Contents(<<k, d>>) \subseteq {<<d, requests[d]>>}
      BY <2>2 DEF IInv, OwnDumps
    <3>3. CASE file'[<<k, d>>] = Absent
      BY <3>3 DEF Contents
    <3>4. CASE file'[<<k, d>>] = file[<<k, d>>]
      <4>1. Contents(<<k, d>>)' = Contents(<<k, d>>)
        BY ONLY <3>4 DEF Contents
      <4> QED
        BY <3>2, <4>1
    <3> QED
      BY <2>3, <3>1, <3>3, <3>4
  <2> QED
    BY <2>2, <2>3, <2>4, <2>5, <2>6 DEF IInv, OneDumpPerRun
<1>4. ASSUME NEW c \in Cores, NEW kind \in Kinds, TruncateDump(c, kind)
      PROVE  IInv'
  <2> USE <1>4 DEF TruncateDump
  <2> DEFINE name == <<kind, redqueen_core(c)>>
  <2>1. /\ name \in Names /\ config[c] = {kind}
        /\ kind \in Own => name = <<kind, c>>
    BY DumpName
  <2>2. /\ Directory'
        /\ \A n \in Names : file'[n] = IF n = name THEN <<>> ELSE file[n]
    BY <2>1 DEF IInv, Directory
  <2> HIDE DEF name
  <2>3. init' \in [Cores -> BOOLEAN]
    BY DEF IInv, TypeOK
  <2>4. \A d \in Cores : pc[d] # "run" => config[d] = {} /\ ~init'[d]
    BY DEF IInv, TypeOK
  <2>5. TypeOK'
    BY <2>2, <2>3, <2>4 DEF IInv, TypeOK, Directory
  <2>6. SeenIsReadable'
    BY <2>2, AbsentIsNone, DirectoryOnly DEF IInv
  <2>7. OwnDumps'
    <3> SUFFICES ASSUME NEW k \in Own, NEW d \in Cores, init'[d], config[d] = {k}
                 PROVE  Contents(<<k, d>>)' \subseteq {<<d, requests[d]>>}
      BY DEF OwnDumps
    <3>1. <<k, d>> \in Names
      BY DEF Names, Own
    <3>2. CASE file'[<<k, d>>] = <<>>
      BY <3>2 DEF Contents
    <3>3. CASE file'[<<k, d>>] = file[<<k, d>>] /\ d # c
      <4>1. init[d]
        BY <3>3 DEF IInv, TypeOK
      <4>2. Contents(<<k, d>>)' = Contents(<<k, d>>)
        BY <3>3 DEF Contents
      <4>3. Contents(<<k, d>>) \subseteq {<<d, requests[d]>>}
        BY <4>1 DEF IInv, OwnDumps
      <4> QED
        BY <4>2, <4>3
    <3>4. d = c => name = <<k, d>>
      BY <2>1
    <3> QED
      BY <2>2, <3>1, <3>2, <3>3, <3>4
  <2> QED
    BY <2>2, <2>5, <2>6, <2>7 DEF IInv, OneDumpPerRun
<1>5. ASSUME NEW c \in Cores, NEW kind \in Kinds, AppendDump(c, kind)
      PROVE  IInv'
  <2> USE <1>5 DEF AppendDump
  <2> DEFINE name == <<kind, redqueen_core(c)>>
             old == IF file[name] = Absent THEN <<>> ELSE file[name]
             r == <<c, requests[c]>>
  <2>1. /\ name \in Names /\ config[c] = {kind} /\ r \in RequestIds
        /\ kind \in Own => name = <<kind, c>>
    BY DumpName
  <2>2. old \in Seq(RequestIds)
    <3>1. file[name] \in {Absent} \cup Seq(RequestIds)
      BY <2>1 DEF IInv, Directory
    <3> HIDE DEF name
    <3> QED
      BY <3>1
  <2>3. file' = [file EXCEPT ![name] = Append(old, r)]
    OBVIOUS
  <2>4. Append(old, r) \in Seq(RequestIds)
    BY <2>1, <2>2
  <2> HIDE DEF r, old
  <2>5. /\ Directory'
        /\ \A n \in Names : file'[n] = IF n = name THEN Append(old, r) ELSE file[n]
    BY <2>1, <2>3, <2>4 DEF IInv, Directory
  <2> HIDE DEF name
  <2>6. chunks' \in [Cores -> 0 .. MaxChunks]
    <3>1. chunks \in [Cores -> 0 .. MaxChunks] /\ chunks[c] < MaxChunks
      BY DEF IInv, TypeOK
    <3>2. chunks' = [chunks EXCEPT ![c] = chunks[c] + 1]
      OBVIOUS
    <3> HIDE DEF AppendDump
    <3> QED
      BY <3>1, <3>2
  <2>7. TypeOK'
    BY <2>5, <2>6 DEF IInv, TypeOK, Directory
  <2>8. SeenIsReadable'
    BY <2>4, <2>5, AbsentIsNone, DirectoryOnly DEF IInv
  <2>9. OwnDumps'
    <3> SUFFICES ASSUME NEW k \in Own, NEW d \in Cores, init[d], config[d] = {k}
                 PROVE  Contents(<<k, d>>)' \subseteq {<<d, requests[d]>>}
      BY DEF OwnDumps
    <3>1. <<k, d>> \in Names
      BY DEF Names, Own
    <3>2. Contents(<<k, d>>) \subseteq {<<d, requests[d]>>}
      BY DEF IInv, OwnDumps
    <3>3. CASE <<k, d>> # name
      <4>1. file'[<<k, d>>] = file[<<k, d>>]
        BY <2>5, <3>1, <3>3
      <4> QED
        BY <3>2, <4>1 DEF Contents
    <3>4. CASE <<k, d>> = name
      <4>1. kind = k /\ d = c
        BY <3>4, <2>1 DEF name
      <4>2. {old[i] : i \in DOMAIN old} \subseteq {r}
        BY <3>2, <3>4, <4>1 DEF Contents, old, r
      <4>3. {Append(old, r)[i] : i \in DOMAIN Append(old, r)} \subseteq {r}
        BY <2>2, <4>2, AppendContents
      <4>4. file'[<<k, d>>] = Append(old, r) /\ Append(old, r) # Absent
        BY <2>4, <2>5, <3>1, <3>4, AbsentIsNone
      <4> QED
        BY <4>1, <4>3, <4>4 DEF Contents, r
    <3> QED
      BY <3>3, <3>4
  <2> QED
    BY <2>5, <2>7, <2>8, <2>9 DEF IInv, OneDumpPerRun
<1>6. ASSUME NEW c \in Cores, EndRun(c)
      PROVE  IInv'
  <2> USE <1>6 DEF EndRun, Goto
  <2>1. /\ pc' \in [Cores -> {"fuzz", "strings", "mv strings", "html?", "html", "mv html",
                              "mutate", "run"}]
        /\ config' \in [Cores -> SUBSET Kinds]
    BY DEF IInv, TypeOK
  <2>2. init' \in [Cores -> BOOLEAN] /\ chunks' \in [Cores -> 0 .. MaxChunks]
    <3>1. init \in [Cores -> BOOLEAN] /\ init' = [init EXCEPT ![c] = FALSE]
      BY DEF IInv, TypeOK
    <3>2. chunks \in [Cores -> 0 .. MaxChunks] /\ chunks' = [chunks EXCEPT ![c] = 0]
      BY DEF IInv, TypeOK
    <3> HIDE DEF EndRun
    <3>3. init' \in [Cores -> BOOLEAN]
      BY <3>1
    <3>4. chunks' \in [Cores -> 0 .. MaxChunks]
      BY <3>2
    <3> QED
      BY <3>3, <3>4
  <2>3. \A d \in Cores : pc'[d] # "run" => config'[d] = {} /\ ~init'[d]
    BY DEF IInv, TypeOK
  <2>4. TypeOK'
    BY <2>1, <2>2, <2>3 DEF IInv, TypeOK
  <2>5. OwnDumps'
    <3> SUFFICES ASSUME NEW k \in Own, NEW d \in Cores, init'[d], config'[d] = {k}
                 PROVE  Contents(<<k, d>>)' \subseteq {<<d, requests[d]>>}
      BY DEF OwnDumps
    <3>1. d # c /\ init[d] /\ config[d] = {k}
      BY DEF IInv, TypeOK
    <3>2. Contents(<<k, d>>)' = Contents(<<k, d>>)
      BY DEF Contents
    <3>3. Contents(<<k, d>>) \subseteq {<<d, requests[d]>>}
      BY <3>1 DEF IInv, OwnDumps
    <3> QED
      BY <3>2, <3>3
  <2>6. SeenIsReadable' /\ Directory' /\ OneDumpPerRun'
    BY DEF IInv, TypeOK, SeenIsReadable, Directory, OneDumpPerRun
  <2> QED
    BY <2>4, <2>5, <2>6 DEF IInv
<1>7. CASE UNCHANGED vars
  <2> USE <1>7 DEF vars, IInv
  <2>1. TypeOK' /\ Directory'
    BY DEF TypeOK, Directory
  <2>2. OneDumpPerRun' /\ SeenIsReadable'
    BY DEF OneDumpPerRun, SeenIsReadable
  <2>3. OwnDumps'
    <3> SUFFICES ASSUME NEW k \in Own, NEW d \in Cores, init[d], config[d] = {k}
                 PROVE  Contents(<<k, d>>)' \subseteq {<<d, requests[d]>>}
      BY DEF OwnDumps
    <3>1. Contents(<<k, d>>)' = Contents(<<k, d>>)
      BY DEF Contents
    <3> QED
      BY <3>1 DEF OwnDumps
  <2> QED
    BY <2>1, <2>2, <2>3
<1> QED
  BY <1>1, <1>2, <1>3, <1>4, <1>5, <1>6, <1>7 DEF Next

(* The inductive invariant holds in every state of every behaviour. *)
LEMMA IInvInvariant == Spec => []IInv
  BY InitIInv, StepIInv, PTL DEF Spec

-----------------------------------------------------------------------------
(* Every variable keeps its type, and only a run has a config and a guest  *)
(* in which a file was truncated.                                          *)
THEOREM TypeCorrect == Spec => []TypeOK
  BY IInvInvariant, PTL DEF IInv

(* A dump that isfile saw is still there when it is opened, although all   *)
(* fuzzers write to the same html_0.                                       *)
THEOREM SeenIsReadableInvariant == Spec => []SeenIsReadable
  BY IInvInvariant, PTL DEF IInv

-----------------------------------------------------------------------------
(* The refinement: each step of a fuzzer is a step of DumpRequest for its  *)
(* own core, or none.                                                      *)

(* One kind of dumps. *)
Dumps(kind) == INSTANCE DumpRequest WITH
    Clients <- Cores,
    Requests <- [c \in Cores |-> {c} \X (1 .. MaxRequests)],
    NoRequest <- Absent,
    ReadOnce <- RqDirExists,
    pending <- [c \in Cores |-> Pending(kind, c)],
    offered <- [c \in Cores |-> Offered(kind, c)],
    used <- [c \in Cores |-> Used(kind, c)]

(* A step that DumpRequest does not see. *)
LEMMA Hidden ==
    ASSUME NEW k, \A c \in Cores : /\ Pending(k, c)' = Pending(k, c)
                                   /\ Offered(k, c)' = Offered(k, c)
                                   /\ Used(k, c)' = Used(k, c)
    PROVE  UNCHANGED Dumps(k)!vars
  BY DEF Dumps!vars

(* What is waiting for a fuzzer changes only with its file or its step. *)
LEMMA OfferKept ==
    ASSUME NEW k, NEW c, pc'[c] = pc[c], file'[<<k, c>>] = file[<<k, c>>]
    PROVE  Offered(k, c)' = Offered(k, c)
<1>1. Contents(<<k, c>>)' = Contents(<<k, c>>)
  BY DEF Contents
<1> QED
  BY <1>1 DEF Offered

(* The steps that DumpRequest sees, each of one core c.                    *)

(* A run starts, with a dump asked for: Request. *)
LEMMA Requested ==
    ASSUME NEW k, NEW c \in Cores,
           Pending(k, c) = Absent, Pending(k, c)' \in {c} \X (1 .. MaxRequests),
           \A d \in Cores \ {c} : Pending(k, d)' = Pending(k, d),
           \A d \in Cores : Offered(k, d)' = Offered(k, d) /\ Used(k, d)' = Used(k, d)
    PROVE  Dumps(k)!Next
<1> DEFINE pending == [d \in Cores |-> Pending(k, d)]
<1>1. pending' = [pending EXCEPT ![c] = Pending(k, c)']
  OBVIOUS
<1>2. Dumps(k)!Request(c)
  <2>1. Pending(k, c)' \in [d \in Cores |-> {d} \X (1 .. MaxRequests)][c]
    OBVIOUS
  <2>2. \E r \in [d \in Cores |-> {d} \X (1 .. MaxRequests)][c] :
          pending' = [pending EXCEPT ![c] = r]
    BY <1>1, <2>1
  <2>3. pending[c] = Absent
    OBVIOUS
  <2>4. UNCHANGED <<[d \in Cores |-> Offered(k, d)], [d \in Cores |-> Used(k, d)]>>
    OBVIOUS
  <2> QED
    BY ONLY <2>2, <2>3, <2>4 DEF Dumps!Request
<1> QED
  BY <1>2 DEF Dumps!Next

(* The first hypercall of a dump empties the file: Discard. *)
LEMMA Discarded ==
    ASSUME NEW k, NEW c \in Cores, Pending(k, c) # Absent, Offered(k, c)' = {},
           \A d \in Cores \ {c} : Offered(k, d)' = Offered(k, d),
           \A d \in Cores : Pending(k, d)' = Pending(k, d) /\ Used(k, d)' = Used(k, d)
    PROVE  Dumps(k)!Next
<1>1. Dumps(k)!Discard(c)
  BY DEF Dumps!Discard
<1> QED
  BY <1>1 DEF Dumps!Next

(* A record or a page is appended: Dump. *)
LEMMA Dumped ==
    ASSUME NEW k, NEW c \in Cores, Pending(k, c) # Absent,
           Offered(k, c) \subseteq {Pending(k, c)}, Offered(k, c)' = {Pending(k, c)},
           \A d \in Cores \ {c} : Offered(k, d)' = Offered(k, d),
           \A d \in Cores : Pending(k, d)' = Pending(k, d) /\ Used(k, d)' = Used(k, d)
    PROVE  Dumps(k)!Next
<1>1. Dumps(k)!Dump(c)
  BY DEF Dumps!Dump
<1> QED
  BY <1>1 DEF Dumps!Next

(* The run is over: Complete. *)
LEMMA Completed ==
    ASSUME NEW k, NEW c \in Cores, Pending(k, c) # Absent, Pending(k, c)' = Absent,
           \A d \in Cores \ {c} : Pending(k, d)' = Pending(k, d),
           \A d \in Cores : Offered(k, d)' = Offered(k, d) /\ Used(k, d)' = Used(k, d)
    PROVE  Dumps(k)!Next
<1>1. Dumps(k)!Complete(c)
  <2> DEFINE pending == [d \in Cores |-> Pending(k, d)]
  <2>1. \A d \in Cores : Pending(k, d)' = IF d = c THEN Absent ELSE Pending(k, d)
    OBVIOUS
  <2>2. pending' = [pending EXCEPT ![c] = Absent]
    BY ONLY <2>1
  <2>3. UNCHANGED <<[d \in Cores |-> Offered(k, d)], [d \in Cores |-> Used(k, d)]>>
    OBVIOUS
  <2>4. pending[c] # Absent
    OBVIOUS
  <2> QED
    BY ONLY <2>2, <2>3, <2>4 DEF Dumps!Complete
<1> QED
  BY <1>1 DEF Dumps!Next

(* The mutator reads the file: Use. *)
LEMMA UsedUp ==
    ASSUME NEW k, NEW c \in Cores, Pending(k, c) = Absent,
           Used(k, c)' = Offered(k, c),
           Offered(k, c)' = IF RqDirExists THEN {} ELSE Offered(k, c),
           \A d \in Cores \ {c} : Offered(k, d)' = Offered(k, d) /\ Used(k, d)' = Used(k, d),
           \A d \in Cores : Pending(k, d)' = Pending(k, d)
    PROVE  Dumps(k)!Next
<1>1. Dumps(k)!Use(c)
  BY DEF Dumps!Use
<1> QED
  BY <1>1 DEF Dumps!Next

(* Every step of Parallel is a step of DumpRequest for the dumps that only *)
(* a core's own VM writes, or hidden.                                      *)
LEMMA StepRefines ==
    ASSUME IInv, [Next]_vars, NEW k \in Own
    PROVE  Dumps(k)!Next \/ UNCHANGED Dumps(k)!vars
<1> USE ParallelConstants
<1>k. k \in Kinds /\ HasRead[k] \in {"mv strings", "mv html"}
      /\ \A kind \in Kinds \ {k} : HasRead[kind] # HasRead[k]
  BY DEF Own, Kinds, HasRead
<1>0. /\ pc \in [Cores -> {"fuzz", "strings", "mv strings", "html?", "html", "mv html",
                           "mutate", "run"}]
      /\ config \in [Cores -> SUBSET Kinds]
      /\ requests \in [Cores -> 0 .. MaxRequests]
      /\ got \in [Cores -> [Kinds -> SUBSET RequestIds]]
      /\ \A c \in Cores : pc[c] # "run" => config[c] = {} /\ ~init[c]
  BY DEF IInv, TypeOK
<1>1. ASSUME NEW c \in Cores, NEW asked \in {{}} \cup {{kind} : kind \in Kinds},
             AskForDump(c, asked)
      PROVE  Dumps(k)!Next \/ UNCHANGED Dumps(k)!vars
  <2> USE <1>1 DEF AskForDump, Goto
  <2>1. \A d \in Cores : Offered(k, d)' = Offered(k, d) /\ Used(k, d)' = Used(k, d)
    BY <1>k, <1>0 DEF Offered, Used, Contents
  <2>2. \A d \in Cores \ {c} : Pending(k, d)' = Pending(k, d)
    BY <1>0 DEF Pending
  <2>3. Pending(k, c) = Absent
    BY DEF Pending
  <2>4. CASE asked = {k}
    <3>1. requests[c] < MaxRequests /\ requests' = [requests EXCEPT ![c] = requests[c] + 1]
      BY <2>4
    <3>2. pc'[c] = "run" /\ config'[c] = {k}
      BY <1>0, <2>4
    <3> HIDE DEF AskForDump
    <3>3. requests'[c] = requests[c] + 1 /\ requests[c] \in 0 .. MaxRequests
      BY <1>0, <3>1
    <3>4. Pending(k, c)' = <<c, requests'[c]>>
      BY <3>2 DEF Pending
    <3>5. requests'[c] \in 1 .. MaxRequests
      BY <3>1, <3>3
    <3> QED
      BY <2>1, <2>2, <2>3, <3>4, <3>5, Requested
  <2>5. CASE asked # {k}
    <3>1. Pending(k, c)' = Absent
      BY <1>0, <2>5 DEF Pending
    <3> QED
      BY <2>1, <2>2, <2>3, <3>1, Hidden
  <2> QED
    BY <2>4, <2>5
<1>2. ASSUME NEW c \in Cores, LookForStrings(c) \/ LookForHtml(c) \/ Mutate(c)
      PROVE  UNCHANGED Dumps(k)!vars
  <2>1. /\ pc[c] \notin {"run", HasRead[k]} /\ pc'[c] # HasRead[k]
        /\ \A d \in Cores \ {c} : pc'[d] = pc[d]
    BY <1>k, <1>0, <1>2 DEF LookForStrings, LookForHtml, Mutate, Goto
  <2>2. UNCHANGED <<config, requests, got, file>>
    BY <1>0, <1>2 DEF LookForStrings, LookForHtml, Mutate, Goto
  <2>3. \A d \in Cores : Pending(k, d)' = Pending(k, d) /\ Used(k, d)' = Used(k, d)
    BY <1>0, <2>1, <2>2 DEF Pending, Used
  <2>4. \A d \in Cores : Offered(k, d)' = Offered(k, d)
    BY <2>1, <2>2 DEF Offered, Contents
  <2> QED
    BY <2>3, <2>4, Hidden
<1>3. ASSUME NEW c \in Cores, NEW kind \in Kinds, Read(c, kind),
             pc[c] \in {"strings", "html"}, pc' = [pc EXCEPT ![c] = HasRead[kind]]
      PROVE  Dumps(k)!Next \/ UNCHANGED Dumps(k)!vars
  <2> USE <1>3 DEF Read
  <2>1. \A d \in Cores : Pending(k, d)' = Pending(k, d)
    BY <1>0 DEF Pending
  <2>2. \A d \in Cores \ {c} : Offered(k, d)' = Offered(k, d) /\ Used(k, d)' = Used(k, d)
    BY <1>0 DEF Offered, Used, Contents
  <2>3. CASE kind = k
    <3>1. /\ Used(k, c)' = Offered(k, c) /\ Pending(k, c) = Absent
          /\ Offered(k, c)' = IF RqDirExists THEN {} ELSE Offered(k, c)
      BY <1>k, <1>0, <2>3 DEF Used, Offered, Pending, Contents
    <3> QED
      BY <2>1, <2>2, <3>1, UsedUp
  <2>4. CASE kind # k
    <3>1. Used(k, c)' = Used(k, c)
      BY <1>k, <1>0, <2>4 DEF Used
    <3>2. Offered(k, c)' = Offered(k, c)
      BY <1>k, <1>0, <2>4 DEF Offered, Contents
    <3> QED
      BY <2>1, <2>2, <3>1, <3>2, Hidden
  <2> QED
    BY <2>3, <2>4
<1>4. ASSUME NEW c \in Cores, NEW kind \in Kinds, Move(c, kind), UNCHANGED config,
             pc[c] = HasRead[kind], NEW to \in {"run", "mutate"}, pc' = [pc EXCEPT ![c] = to]
      PROVE  UNCHANGED Dumps(k)!vars
  <2> USE <1>4 DEF Move
  <2>0. pc[c] \in {"mv strings", "mv html"}
    BY DEF Kinds, HasRead
  <2>1. \A d \in Cores : Pending(k, d)' = Pending(k, d) /\ Used(k, d)' = Used(k, d)
    BY <1>0, <2>0 DEF Pending, Used
  <2>2. \A d \in Cores : file'[<<k, d>>] = IF RqDirExists /\ d = c /\ k = kind
                                           THEN Absent ELSE file[<<k, d>>]
    BY <1>k DEF IInv, Directory, Names
  <2>3. \A d \in Cores \ {c} : Offered(k, d)' = Offered(k, d)
    <3>1. \A d \in Cores \ {c} : pc'[d] = pc[d] /\ file'[<<k, d>>] = file[<<k, d>>]
      BY <1>0, <2>2
    <3> QED
      BY ONLY <3>1, OfferKept
  <2>4. Offered(k, c)' = Offered(k, c)
    <3>1. pc'[c] = to /\ to # HasRead[k]
      BY <1>k, <1>0
    <3>2. CASE kind = k
      BY <2>2, <3>1, <3>2 DEF Offered, Contents
    <3>3. CASE kind # k
      <4>1. pc[c] # HasRead[k] /\ file'[<<k, c>>] = file[<<k, c>>]
        BY <1>k, <2>2, <3>3
      <4> QED
        BY <3>1, <4>1 DEF Offered, Contents
    <3> QED
      BY <3>2, <3>3
  <2> QED
    BY <2>1, <2>3, <2>4, Hidden
<1>5. ASSUME NEW c \in Cores,
             ReadStrings(c) \/ ReadHtml(c) \/ MoveStrings(c) \/ MoveHtml(c)
      PROVE  Dumps(k)!Next \/ UNCHANGED Dumps(k)!vars
  <2>1. "REDQUEEN" \in Kinds /\ "HTML_DUMP" \in Kinds
    BY DEF Kinds
  <2>2. CASE ReadStrings(c) \/ ReadHtml(c)
    BY <1>3, <2>1, <2>2 DEF ReadStrings, ReadHtml, Goto, HasRead
  <2>3. CASE MoveStrings(c)
    <3>1. pc[c] = HasRead["REDQUEEN"] /\ pc' = [pc EXCEPT ![c] = "run"] /\ UNCHANGED config
      BY <1>0, <2>1, <2>3 DEF MoveStrings, Goto, HasRead
    <3> QED
      BY <1>4, <2>1, <2>3, <3>1 DEF MoveStrings
  <2>4. CASE MoveHtml(c)
    <3>1. pc[c] = HasRead["HTML_DUMP"] /\ pc' = [pc EXCEPT ![c] = "mutate"] /\ UNCHANGED config
      BY <2>1, <2>4 DEF MoveHtml, Goto, HasRead
    <3> QED
      BY <1>4, <2>1, <2>4, <3>1 DEF MoveHtml
  <2> QED
    BY <1>5, <2>2, <2>3, <2>4
<1>6. ASSUME NEW c \in Cores, NEW kind \in Kinds, TruncateDump(c, kind)
      PROVE  Dumps(k)!Next \/ UNCHANGED Dumps(k)!vars
  <2> USE <1>6 DEF TruncateDump
  <2>1. /\ <<kind, redqueen_core(c)>> \in Names /\ config[c] = {kind}
        /\ <<c, requests[c]>> \in RequestIds
        /\ kind \in Own => redqueen_core(c) = c
    BY DumpName
  <2>2. \A d \in Cores : Pending(k, d)' = Pending(k, d) /\ Used(k, d)' = Used(k, d)
    BY DEF Pending, Used
  <2>3. \A d \in Cores : file'[<<k, d>>] =
                           IF d = c /\ kind = k THEN <<>> ELSE file[<<k, d>>]
    BY <1>k, <2>1 DEF IInv, Directory, Names, Own
  <2>4. \A d \in Cores \ {c} : Offered(k, d)' = Offered(k, d)
    BY <2>3, OfferKept
  <2>5. CASE kind = k
    <3>1. Offered(k, c)' = {}
      <4>1. file'[<<k, c>>] = <<>>
        BY <2>3, <2>5
      <4>2. Contents(<<k, c>>)' = {}
        BY <4>1 DEF Contents
      <4> QED
        BY <4>2 DEF Offered
    <3>2. Pending(k, c) # Absent
      BY <2>1, <2>5, AbsentIsNone DEF Pending
    <3> QED
      BY <2>2, <2>4, <3>1, <3>2, Discarded
  <2>6. CASE kind # k
    <3>1. Offered(k, c)' = Offered(k, c)
      BY <2>3, <2>6 DEF Offered, Contents
    <3> QED
      BY <2>2, <2>4, <3>1, Hidden
  <2> QED
    BY <2>5, <2>6
<1>7. ASSUME NEW c \in Cores, NEW kind \in Kinds, AppendDump(c, kind)
      PROVE  Dumps(k)!Next \/ UNCHANGED Dumps(k)!vars
  <2> USE <1>7 DEF AppendDump
  <2> DEFINE name == <<kind, redqueen_core(c)>>
             old == IF file[name] = Absent THEN <<>> ELSE file[name]
             r == <<c, requests[c]>>
  <2>1. /\ name \in Names /\ config[c] = {kind} /\ r \in RequestIds
        /\ kind \in Own => name = <<kind, c>>
    BY DumpName
  <2>2. \A d \in Cores : Pending(k, d)' = Pending(k, d) /\ Used(k, d)' = Used(k, d)
    BY DEF Pending, Used
  <2>3. \A d \in Cores : ~(d = c /\ kind = k) =>
                           file'[<<k, d>>] = file[<<k, d>>]
    BY <1>k, <2>1 DEF IInv, Directory, Names, Own
  <2>4. \A d \in Cores \ {c} : Offered(k, d)' = Offered(k, d)
    BY <2>3, OfferKept
  <2>5. CASE kind = k
    <3>1. old \in Seq(RequestIds)
      <4>1. file[name] \in {Absent} \cup Seq(RequestIds)
        BY <2>1 DEF IInv, Directory
      <4> HIDE DEF name
      <4> QED
        BY <4>1
    <3>2. file'[<<k, c>>] = Append(old, r)
      BY <2>1, <2>5 DEF IInv, Directory
    <3>3. Pending(k, c) = r /\ r # Absent
      BY <2>1, <2>5, AbsentIsNone DEF Pending
    <3>4. Offered(k, c) = {old[i] : i \in DOMAIN old}
      <4>1. Contents(<<k, c>>) = {old[i] : i \in DOMAIN old}
        BY <2>1, <2>5 DEF Contents
      <4>2. pc[c] # HasRead[k]
        BY <1>k
      <4> QED
        BY <4>1, <4>2 DEF Offered
    <3>5. Offered(k, c) \subseteq {r}
      BY <2>1, <2>5 DEF Offered, IInv, OwnDumps
    <3> HIDE DEF old, r, name
    <3>6. Append(old, r) # Absent
      <4>1. Append(old, r) \in Seq(RequestIds)
        BY <2>1, <3>1
      <4> QED
        BY <4>1, AbsentIsNone
    <3>7. Offered(k, c)' = {Append(old, r)[i] : i \in DOMAIN Append(old, r)}
      <4>1. Contents(<<k, c>>)' = {Append(old, r)[i] : i \in DOMAIN Append(old, r)}
        BY <3>2, <3>6 DEF Contents
      <4>2. pc'[c] # HasRead[k]
        BY <1>k
      <4> QED
        BY <4>1, <4>2 DEF Offered
    <3>8. Offered(k, c)' = {r}
      <4> DEFINE new == {Append(old, r)[i] : i \in DOMAIN Append(old, r)}
      <4>1. new \subseteq {old[i] : i \in DOMAIN old} \cup {r} /\ r \in new
        BY <3>1, AppendContents
      <4> HIDE DEF new
      <4>2. new = {r}
        BY <3>4, <3>5, <4>1
      <4> QED
        BY <3>7, <4>2 DEF new
    <3> QED
      BY <2>2, <2>4, <3>3, <3>5, <3>8, Dumped
  <2>6. CASE kind # k
    <3>1. Offered(k, c)' = Offered(k, c)
      BY <2>3, <2>6 DEF Offered, Contents
    <3> QED
      BY <2>2, <2>4, <3>1, Hidden
  <2> QED
    BY <2>5, <2>6
<1>8. ASSUME NEW c \in Cores, EndRun(c)
      PROVE  Dumps(k)!Next \/ UNCHANGED Dumps(k)!vars
  <2> USE <1>8 DEF EndRun, Goto
  <2>1. \A d \in Cores : Offered(k, d)' = Offered(k, d) /\ Used(k, d)' = Used(k, d)
    BY <1>k, <1>0 DEF Offered, Used, Contents
  <2>2. \A d \in Cores \ {c} : Pending(k, d)' = Pending(k, d)
    BY <1>0 DEF Pending
  <2>3. Pending(k, c)' = Absent
    BY <1>0 DEF Pending
  <2> QED
    BY <2>1, <2>2, <2>3, Completed, Hidden
<1>9. CASE UNCHANGED vars
  BY <1>9, Hidden DEF vars, Pending, Offered, Used, Contents
<1> QED
  BY <1>1, <1>2, <1>3, <1>4, <1>5, <1>6, <1>7, <1>8, <1>9 DEF Next

(* The refinement for one kind of dumps. *)
LEMMA StartRefines == ASSUME Init, NEW k \in Own PROVE Dumps(k)!Init
<1>1. \A c \in Cores : Pending(k, c) = Absent /\ Offered(k, c) = {} /\ Used(k, c) = {}
  BY DEF Init, Pending, Offered, Used, Contents, Names, Own, Kinds
<1> QED
  BY <1>1 DEF Dumps!Init

(* Whatever the fuzzers do in the shared directory, the strings dumps work *)
(* as DumpRequest promises, for any number of fuzzers.                     *)
THEOREM StringsAsRequestedTheorem == Spec => StringsAsRequested
<1>0. "REDQUEEN" \in Own
  BY DEF Own, Kinds
<1>1. Init => StringsRequest!Init
  BY <1>0, StartRefines DEF Dumps!Init, StringsRequest!Init
<1>2. IInv /\ [Next]_vars => [StringsRequest!Next]_StringsRequest!vars
  <2> SUFFICES ASSUME IInv, [Next]_vars
               PROVE  StringsRequest!Next \/ UNCHANGED StringsRequest!vars
    OBVIOUS
  <2>1. Dumps("REDQUEEN")!Next \/ UNCHANGED Dumps("REDQUEEN")!vars
    BY <1>0, StepRefines
  <2> QED
    BY ONLY <2>1
    DEF Dumps!Next, Dumps!Request, Dumps!Discard, Dumps!Dump, Dumps!Complete, Dumps!Use,
        Dumps!vars, StringsRequest!Next, StringsRequest!Request, StringsRequest!Discard,
        StringsRequest!Dump, StringsRequest!Complete, StringsRequest!Use, StringsRequest!vars
<1> QED
  BY <1>1, <1>2, IInvInvariant, PTL
  DEF Spec, StringsAsRequested, StringsRequest!Spec

(* The html dumps work as DumpRequest promises. *)
PagesAsRequested == Dumps("HTML_DUMP")!Spec

(* They do for a fuzzer that has the directory to itself, with any number  *)
(* of requests and timeouts in between.                                    *)
THEOREM PagesAsRequestedTheorem ==
    ASSUME Cores = {0}
    PROVE  Spec => PagesAsRequested
<1>0. "HTML_DUMP" \in Own
  BY DEF Own, Kinds
<1>1. Init => Dumps("HTML_DUMP")!Init
  BY <1>0, StartRefines
<1>2. IInv /\ [Next]_vars => [Dumps("HTML_DUMP")!Next]_(Dumps("HTML_DUMP")!vars)
  BY <1>0, StepRefines
<1> QED
  BY <1>1, <1>2, IInvInvariant, PTL
  DEF Spec, PagesAsRequested, Dumps!Spec
=============================================================================
