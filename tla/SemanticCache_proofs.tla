-------------------------- MODULE SemanticCache_proofs --------------------------
(***************************************************************************)
(* Proofs about SemanticCache, for any number of clients, prompts, models   *)
(* and faults and any scores: what a hit returns, when a lookup can fail,   *)
(* what a start of the router finds in the two files, and how often one     *)
(* process stores a prompt.                                                 *)
(***************************************************************************)
EXTENDS SemanticCache, FiniteSetTheorems, WellFoundedInduction, TLAPS

\* A request that waits for an engine is a request a client made.
WaitingInv == \A c \in Clients : stage[c] = "forwarded" => request[c] \in Requests

\* Requests end with the process that serves them, so a start, which decides
\* anew whether index and list are in step, finds no answer of an older one.
DownInv == ~up => \A c \in Clients : stage[c] = "idle"

\* What a process loaded in step its stores keep in step.
StepInv == in_step => InStep(index, metadata)

\* The second file is missing, broken, or the one of the last complete save.
FileInv == metadata_file \in {Absent, Damaged, saved}

IInv == TypeOK /\ WaitingInv /\ DownInv /\ StepInv /\ FileInv /\ HitMatches /\ FailsOnlyTorn

LEMMA Bounds == MaxRequests \in Nat /\ MaxFaults \in Nat
BY CacheAssumption

LEMMA InitInv == Init => IInv
<1> SUFFICES ASSUME Init PROVE IInv
  OBVIOUS
<1> USE Bounds DEF Init
<1>1. TypeOK
  <2>1. /\ up \in BOOLEAN /\ in_step \in BOOLEAN /\ saving \in {"no", "index", "metadata"}
        /\ index_file \in {Absent, Damaged} \cup Seq(Prompts)
        /\ metadata_file \in {Absent, Damaged} \cup Seq(Entries)
    BY Zenon
  <2>2. index \in Seq(Prompts) /\ metadata \in Seq(Entries) /\ saved \in Seq(Entries)
    OBVIOUS
  <2>3. /\ stage \in [Clients -> {"idle", "forwarded", "hit", "failed"}]
        /\ request \in [Clients -> Requests \cup {NoRequest}]
        /\ cached \in [Clients -> Entries \cup {NoEntry}]
    OBVIOUS
  <2>4. requests \in 0 .. MaxRequests /\ faults \in 0 .. MaxFaults /\ loaded \in Nat
    OBVIOUS
  <2> QED
    BY <2>1, <2>2, <2>3, <2>4 DEF TypeOK
<1>2. InStep(<<>>, <<>>)
  BY DEF InStep
<1>3. WaitingInv /\ DownInv /\ StepInv /\ FileInv /\ HitMatches /\ FailsOnlyTorn
  BY <1>2 DEF WaitingInv, DownInv, StepInv, FileInv, HitMatches, FailsOnlyTorn
<1> QED
  BY <1>1, <1>3 DEF IInv

\* load_index gives the process sequences, and notes whether they match.
LEMMA StartStep == IInv /\ Start => IInv'
<1> SUFFICES ASSUME IInv, Start PROVE IInv'
  OBVIOUS
<1> USE DEF IInv, Start, files, callers
<1>1. index' \in Seq(Prompts) /\ metadata' \in Seq(Entries)
  BY DEF load_index, Loaded, Readable, TypeOK
<1>2. in_step' \in BOOLEAN /\ StepInv'
  BY Zenon DEF load_index, InStep, StepInv
<1>3. TypeOK'
  BY <1>1, <1>2 DEF load_index, TypeOK
<1>4. WaitingInv' /\ DownInv' /\ FileInv' /\ HitMatches' /\ FailsOnlyTorn'
  BY DEF WaitingInv, DownInv, FileInv, HitMatches, FailsOnlyTorn
<1> QED
  BY <1>2, <1>3, <1>4

LEMMA WriteStep == IInv /\ (WriteIndex \/ WriteMetadata) => IInv'
<1> SUFFICES ASSUME IInv, WriteIndex \/ WriteMetadata PROVE IInv'
  OBVIOUS
<1> USE Bounds DEF IInv, callers
<1>1. CASE WriteIndex
  <2>1. TypeOK'
    BY <1>1 DEF WriteIndex, TypeOK
  <2>2. WaitingInv' /\ DownInv' /\ StepInv' /\ FileInv' /\ HitMatches' /\ FailsOnlyTorn'
    BY <1>1 DEF WriteIndex, WaitingInv, DownInv, StepInv, InStep, FileInv, HitMatches, FailsOnlyTorn
  <2> QED
    BY <2>1, <2>2
<1>2. CASE WriteMetadata
  <2>1. TypeOK'
    BY <1>2 DEF WriteMetadata, Written, TypeOK
  <2>2. FileInv'
    BY <1>2 DEF WriteMetadata, Written, FileInv
  <2>3. WaitingInv' /\ DownInv' /\ StepInv' /\ HitMatches' /\ FailsOnlyTorn'
    BY <1>2 DEF WriteMetadata, WaitingInv, DownInv, StepInv, InStep, HitMatches, FailsOnlyTorn
  <2> QED
    BY <2>1, <2>2, <2>3
<1> QED
  BY <1>1, <1>2

LEMMA CrashStep == IInv /\ Crash => IInv'
<1> SUFFICES ASSUME IInv, Crash PROVE IInv'
  OBVIOUS
<1> USE Bounds DEF IInv, Crash
<1>1. index_file' \in {index_file, Damaged} /\ metadata_file' \in {metadata_file, Damaged}
  OBVIOUS
<1>2. TypeOK'
  <2>1. index' \in Seq(Prompts) /\ metadata' \in Seq(Entries) /\ saved' \in Seq(Entries)
    BY DEF TypeOK
  <2>2. /\ index_file' \in {Absent, Damaged} \cup Seq(Prompts)
        /\ metadata_file' \in {Absent, Damaged} \cup Seq(Entries)
    BY <1>1 DEF TypeOK
  <2>3. /\ stage' \in [Clients -> {"idle", "forwarded", "hit", "failed"}]
        /\ request' \in [Clients -> Requests \cup {NoRequest}]
        /\ cached' \in [Clients -> Entries \cup {NoEntry}]
    OBVIOUS
  <2>4. requests' \in 0 .. MaxRequests /\ faults' \in 0 .. MaxFaults /\ loaded' \in Nat
    BY DEF TypeOK
  <2> QED
    BY <2>1, <2>2, <2>3, <2>4, Zenon DEF TypeOK
<1>3. WaitingInv' /\ DownInv' /\ HitMatches' /\ FailsOnlyTorn'
  BY DEF WaitingInv, DownInv, HitMatches, FailsOnlyTorn
<1>4. StepInv' /\ FileInv'
  BY <1>1 DEF StepInv, InStep, FileInv
<1> QED
  BY <1>2, <1>3, <1>4

LEMMA AskCounts ==
    ASSUME IInv, NEW c \in Clients, NEW r \in Requests, Ask(c, r)
    PROVE  requests' \in 0 .. MaxRequests /\ faults' \in 0 .. MaxFaults
BY Bounds DEF IInv, TypeOK, Ask

\* A lookup changes the state of its own client only.
LEMMA AskStep ==
    ASSUME IInv, NEW c \in Clients, NEW r \in Requests, Ask(c, r),
           NEW s \in {"hit", "failed", "forwarded"}, stage' = [stage EXCEPT ![c] = s],
           NEW e \in Entries \cup {NoEntry}, cached' = [cached EXCEPT ![c] = e],
           (s = "hit" /\ in_step) => Score[r.prompt, e.prompt] >= Threshold /\ e.model = r.model,
           s = "failed" => ~in_step
    PROVE  IInv'
<1> USE Bounds DEF IInv, Ask, memory, files
<1>1. TypeOK'
  <2>1. /\ stage' \in [Clients -> {"idle", "forwarded", "hit", "failed"}]
        /\ request' \in [Clients -> Requests \cup {NoRequest}]
        /\ cached' \in [Clients -> Entries \cup {NoEntry}]
    BY DEF TypeOK
  <2>2. requests' \in 0 .. MaxRequests /\ faults' \in 0 .. MaxFaults
    BY AskCounts
  <2> QED
    BY <2>1, <2>2 DEF TypeOK
<1>2. DownInv' /\ StepInv' /\ FileInv'
  BY DEF Running, DownInv, StepInv, InStep, FileInv
<1>3. WaitingInv'
  BY DEF WaitingInv, TypeOK
<1>4. HitMatches'
  BY DEF HitMatches, TypeOK
<1>5. FailsOnlyTorn'
  BY DEF FailsOnlyTorn, TypeOK
<1> QED
  BY <1>1, <1>2, <1>3, <1>4, <1>5

LEMMA LookupStep ==
    ASSUME IInv, NEW c \in Clients, Hit(c) \/ LookupFails(c) \/ Forward(c) PROVE IInv'
<1>1. CASE Hit(c)
  <2>1. PICK r \in Requests : /\ Ask(c, r) /\ LooksUp(r)
                              /\ \E k \in Matching(r) : cached' = [cached EXCEPT ![c] = metadata[k]]
                              /\ stage' = [stage EXCEPT ![c] = "hit"]
    BY <1>1, Zenon DEF Hit
  <2>2. PICK k \in Matching(r) : cached' = [cached EXCEPT ![c] = metadata[k]]
    BY <2>1, Zenon
  <2>3. Score[r.prompt, index[k]] >= Threshold /\ metadata[k].model = r.model
    BY DEF Matching, Similar
  <2>4. k \in DOMAIN index /\ k <= Len(metadata)
    BY DEF Matching, Similar, Nearest
  <2>5. in_step => index[k] = metadata[k].prompt
    BY <2>4 DEF IInv, StepInv, InStep
  <2>6. metadata[k] \in Entries
    BY <2>4 DEF IInv, TypeOK
  <2> QED
    BY <2>1, <2>2, <2>3, <2>5, <2>6, AskStep
<1>2. CASE LookupFails(c)
  <2>1. PICK r \in Requests : /\ Ask(c, r) /\ Missing(r) # {}
                              /\ cached' = [cached EXCEPT ![c] = NoEntry]
                              /\ stage' = [stage EXCEPT ![c] = "failed"]
    BY <1>2 DEF LookupFails
  <2>2. PICK k \in DOMAIN index : k > Len(metadata)
    BY <2>1 DEF Missing, Similar, Nearest
  <2>3. ~in_step
    BY <2>2 DEF IInv, TypeOK, StepInv, InStep
  <2> QED
    BY <2>1, <2>3, AskStep
<1>3. CASE Forward(c)
  <2>1. PICK r \in Requests : /\ Ask(c, r)
                              /\ cached' = [cached EXCEPT ![c] = NoEntry]
                              /\ stage' = [stage EXCEPT ![c] = "forwarded"]
    BY <1>3 DEF Forward
  <2> QED
    BY <2>1, AskStep
<1> QED
  BY <1>1, <1>2, <1>3

\* A store appends to the index and to the list alike.
LEMMA AddStep ==
    ASSUME IInv, NEW e \in Entries, Add(e)
    PROVE  /\ index' \in Seq(Prompts) /\ metadata' \in Seq(Entries)
           /\ InStep(index, metadata) => InStep(index', metadata')
<1> USE DEF IInv, TypeOK, Add
<1>1. e.prompt \in Prompts
  BY DEF Entries
<1>2. index' \in Seq(Prompts) /\ metadata' \in Seq(Entries)
  BY <1>1
<1>3. ASSUME InStep(index, metadata) PROVE InStep(index', metadata')
  <2>1. Len(index') = Len(index) + 1 /\ Len(metadata') = Len(index) + 1
    BY <1>1, <1>3 DEF InStep
  <2>2. ASSUME NEW k \in DOMAIN index' PROVE index'[k] = metadata'[k].prompt
    <3>1. CASE k = Len(index) + 1
      BY <3>1, <1>1, <1>3 DEF InStep
    <3>2. CASE k # Len(index) + 1
      <4>1. k \in DOMAIN index /\ index'[k] = index[k] /\ metadata'[k] = metadata[k]
        BY <3>2, <2>1, <2>2, <1>1, <1>2, <1>3 DEF InStep
      <4> QED
        BY <4>1, <1>3 DEF InStep
    <3> QED
      BY <3>1, <3>2, Zenon
  <2> QED
    BY <2>1, <2>2 DEF InStep
<1> QED
  BY <1>2, <1>3

LEMMA AnsweredStep == ASSUME IInv, NEW c \in Clients, Answered(c) PROVE IInv'
<1> USE DEF files
<1>1. PICK body \in Bodies :
         /\ Running /\ stage[c] = "forwarded"
         /\ stage' = [stage EXCEPT ![c] = "idle"]
         /\ request' = [request EXCEPT ![c] = NoRequest]
         /\ IF Stores(request[c], body)
            THEN store(Entry(request[c], body))
            ELSE UNCHANGED <<index, metadata, saving>>
         /\ UNCHANGED <<up, in_step, loaded, files, cached, requests, faults>>
  BY DEF Answered
<1>2. Entry(request[c], body) \in Entries
  BY <1>1 DEF IInv, WaitingInv, Requests, Entry, Entries
<1>3. /\ index' \in Seq(Prompts) /\ metadata' \in Seq(Entries)
      /\ saving' \in {"no", "index", "metadata"}
      /\ InStep(index, metadata) => InStep(index', metadata')
  <2>1. CASE Stores(request[c], body)
    BY <2>1, <1>1, <1>2, AddStep DEF store
  <2>2. CASE ~Stores(request[c], body)
    BY <2>2, <1>1 DEF IInv, TypeOK, InStep
  <2> QED
    BY <2>1, <2>2
<1>4. TypeOK'
  BY <1>1, <1>3 DEF IInv, TypeOK
<1>5. WaitingInv' /\ DownInv' /\ FileInv' /\ HitMatches' /\ FailsOnlyTorn'
  BY <1>1 DEF IInv, TypeOK, WaitingInv, DownInv, FileInv, HitMatches, FailsOnlyTorn
<1>6. StepInv'
  BY <1>1, <1>3 DEF IInv, StepInv
<1> QED
  BY <1>4, <1>5, <1>6 DEF IInv

-----------------------------------------------------------------------------
(* How often a prompt is stored.                                            *)

\* The clients that wait for model m's answer to p, which will be stored.
Waiting(p, m) ==
    {c \in Clients : stage[c] = "forwarded" /\ request[c] = [prompt |-> p, model |-> m, kind |-> "plain"]}

\* What is stored and what is still to be stored together come to no more
\* than the clients (the strengthening of BoundedCopies).
CopyAt(p, m) == OneModel(p, m) =>
    /\ Cardinality(Stored(p)) + Cardinality(Waiting(p, m)) <= Cardinality(Clients)
    /\ (\E k \in Alike(p) : k <= loaded) => Stored(p) = {} /\ Waiting(p, m) = {}

CopyInv == loaded <= Len(index) /\ \A p \in Prompts \ {NoMessages}, m \in Models : CopyAt(p, m)

\* A nonempty set of naturals has a least element.
LEMMA NatLeast ==
    ASSUME NEW S, S \subseteq Nat, S # {}
    PROVE  \E x \in S : \A y \in S : x <= y
<1>1. PICK x \in S : \A y \in S : ~(<<y, x>> \in OpToRel(<, Nat))
  BY NatLessThanWellFounded, WFMin
<1>2. \A y \in S : ~(y < x)
  BY <1>1, Zenon DEF OpToRel
<1> QED
  BY <1>2

\* Among finitely many scores one is best, and the oldest of its kind: there
\* is no shortest list of scores without one.
LEMMA BestScore ==
    ASSUME NEW n \in Nat, n > 0, NEW f \in [1 .. n -> Int]
    PROVE  \E k \in 1 .. n : \A j \in 1 .. n : f[k] > f[j] \/ (f[k] = f[j] /\ k <= j)
<1> DEFINE Best(l, k) == \A j \in 1 .. l : f[k] > f[j] \/ (f[k] = f[j] /\ k <= j)
           Bad == {l \in 1 .. n : ~\E k \in 1 .. l : Best(l, k)}
<1>1. SUFFICES ASSUME Bad # {} PROVE FALSE
  <2>1. n \in 1 .. n
    OBVIOUS
  <2> QED
    BY <2>1, Zenon
<1>2. PICK l \in Bad : \A y \in Bad : l <= y
  <2>1. Bad \subseteq Nat
    OBVIOUS
  <2> HIDE DEF Bad
  <2> QED
    BY <1>1, <2>1, NatLeast, Zenon
<1>3. l \in 1 .. n /\ ~\E k \in 1 .. l : Best(l, k)
  OBVIOUS
<1>4. l # 1
  <2> SUFFICES ASSUME l = 1 PROVE \E k \in 1 .. l : Best(l, k)
    BY <1>3
  <2>1. 1 \in 1 .. l /\ Best(l, 1)
    OBVIOUS
  <2> QED
    BY <2>1
<1>5. l - 1 \in 1 .. n /\ l - 1 \notin Bad
  <2>1. l \in 1 .. n
    BY <1>3
  <2> HIDE DEF Bad
  <2> QED
    BY <1>2, <1>4, <2>1
<1>6. PICK k \in 1 .. l - 1 : Best(l - 1, k)
  BY <1>5
<1>7. k \in 1 .. l /\ l \in 1 .. l /\ f[k] \in Int /\ f[l] \in Int
  BY <1>3, <1>4
<1>8. CASE f[k] >= f[l]
  <2>1. Best(l, k)
    BY <1>3, <1>6, <1>7, <1>8
  <2> QED
    BY <1>3, <1>7, <2>1
<1>9. CASE f[l] > f[k]
  <2>1. Best(l, l)
    BY <1>3, <1>6, <1>7, <1>9
  <2> QED
    BY <1>3, <1>7, <2>1
<1> QED
  BY <1>7, <1>8, <1>9

LEMMA ScoreType == \A a, b \in Prompts : Score[a, b] \in Int
BY CacheAssumption

LEMMA CacheConstants == Threshold \in Int /\ IsFiniteSet(Clients)
BY CacheAssumption

\* index.search returns an entry unless the index is empty, and where some
\* entry is similar the one returned is.
LEMMA SimilarFound ==
    ASSUME TypeOK, NEW p \in Prompts, Alike(p) # {}
    PROVE  \E k \in Similar(p) : k \in Alike(p)
<1> DEFINE n == Len(index)
           f == [j \in 1 .. n |-> Score[p, index[j]]]
<1>1. n \in Nat /\ DOMAIN index = 1 .. n /\ \A j \in 1 .. n : index[j] \in Prompts
  BY DEF TypeOK
<1>2. PICK a \in 1 .. n : Score[p, index[a]] >= Threshold
  BY <1>1 DEF Alike
<1>3. \A j \in 1 .. n : Score[p, index[j]] \in Int
  BY <1>1, ScoreType
<1>4. f \in [1 .. n -> Int] /\ n > 0
  <2>1. f \in [1 .. n -> Int]
    BY <1>3, Zenon
  <2>2. n > 0
    BY <1>1
  <2> QED
    BY <2>1, <2>2
<1> HIDE DEF n, f
<1>5. PICK k \in 1 .. n : \A j \in 1 .. n : f[k] > f[j] \/ (f[k] = f[j] /\ k <= j)
  BY <1>1, <1>4, BestScore, Zenon
<1>6. \A j \in 1 .. n : f[j] = Score[p, index[j]]
  BY DEF f
<1>7. \A j \in DOMAIN index : \/ Score[p, index[k]] > Score[p, index[j]]
                              \/ Score[p, index[k]] = Score[p, index[j]] /\ k <= j
  BY <1>1, <1>5, <1>6
<1>8. Score[p, index[k]] >= Threshold
  <2>1. f[a] >= Threshold
    BY <1>2, <1>6
  <2>2. f[k] >= Threshold
    BY <1>4, <1>5, <2>1, CacheConstants
  <2> QED
    BY <1>6, <2>2
<1> QED
  BY <1>1, <1>7, <1>8 DEF Similar, Nearest, Alike

\* So a request for an answer that would be stored is forwarded only when no
\* stored prompt resembles its own.
LEMMA ForwardedUnlike ==
    ASSUME IInv, NEW q \in Requests, LooksUp(q), Matching(q) = {}, OneModel(q.prompt, q.model)
    PROVE  Alike(q.prompt) = {}
<1> SUFFICES ASSUME Alike(q.prompt) # {} PROVE FALSE
  OBVIOUS
<1>1. q.prompt \in Prompts /\ TypeOK
  BY DEF Requests, IInv
<1>2. PICK k \in Similar(q.prompt) : k \in Alike(q.prompt)
  BY <1>1, SimilarFound
<1>3. metadata[k].model = q.model /\ InStep(index, metadata)
  BY <1>2, Zenon DEF OneModel, IInv, StepInv
<1>4. k \in DOMAIN index
  BY <1>2 DEF Alike
<1>5. k <= Len(metadata)
  BY <1>1, <1>3, <1>4 DEF InStep, TypeOK
<1> QED
  BY <1>2, <1>3, <1>5, Zenon DEF Matching

\* What the prompt itself is stored as resembles it.
LEMMA StoredAlike ==
    ASSUME NEW p \in Prompts, NEW m \in Models, OneModel(p, m)
    PROVE  Stored(p) \subseteq Alike(p)
BY Zenon DEF OneModel, Stored, Alike

LEMMA CopySets ==
    ASSUME TypeOK, NEW p, NEW m
    PROVE  /\ IsFiniteSet(Stored(p)) /\ Cardinality(Stored(p)) \in Nat
           /\ IsFiniteSet(Waiting(p, m)) /\ Cardinality(Waiting(p, m)) \in Nat
           /\ Cardinality(Waiting(p, m)) <= Cardinality(Clients) /\ Cardinality(Clients) \in Nat
<1>1. Stored(p) \subseteq 1 .. Len(index) /\ Len(index) \in Nat
  BY DEF Stored, TypeOK
<1>2. IsFiniteSet(1 .. Len(index))
  BY <1>1, FS_Interval
<1>3. IsFiniteSet(Stored(p))
  BY <1>1, <1>2, FS_Subset
<1>4. Waiting(p, m) \subseteq Clients
  BY DEF Waiting
<1>5. IsFiniteSet(Waiting(p, m)) /\ Cardinality(Waiting(p, m)) <= Cardinality(Clients)
  BY <1>4, CacheConstants, FS_Subset
<1> QED
  BY <1>3, <1>5, CacheConstants, FS_CardinalityType

\* A process that has only just started, or has ended, has stored nothing.
LEMMA NothingStored ==
    ASSUME NEW p, NEW m, Stored(p)' = {}, Waiting(p, m)' = {}
    PROVE  CopyAt(p, m)'
<1>1. Cardinality({}) = 0 /\ Cardinality(Clients) \in Nat
  BY FS_EmptySet, CacheConstants, FS_CardinalityType
<1>2. 0 + 0 <= Cardinality(Clients)
  BY <1>1
<1>3. /\ Cardinality(Stored(p)') + Cardinality(Waiting(p, m)') <= Cardinality(Clients)
      /\ (\E k \in Alike(p)' : k <= loaded') => Stored(p)' = {} /\ Waiting(p, m)' = {}
  BY <1>1, <1>2, Zenon
<1> QED
  BY <1>3, Zenon DEF CopyAt

\* Where nothing is stored and no client joins those that wait, the bound
\* stays.
LEMMA FewerWaiting ==
    ASSUME TypeOK, NEW p, NEW m, CopyAt(p, m), UNCHANGED <<index, metadata, in_step, loaded>>,
           Waiting(p, m)' \subseteq Waiting(p, m)
    PROVE  CopyAt(p, m)'
<1>1. Stored(p)' = Stored(p) /\ Alike(p)' = Alike(p) /\ (OneModel(p, m)' <=> OneModel(p, m))
  BY Zenon DEF Stored, Alike, OneModel
<1>2. /\ IsFiniteSet(Waiting(p, m)) /\ Cardinality(Waiting(p, m)) \in Nat
      /\ Cardinality(Stored(p)) \in Nat /\ Cardinality(Clients) \in Nat
  BY CopySets
<1>3. Cardinality(Waiting(p, m)') \in Nat /\ Cardinality(Waiting(p, m)') <= Cardinality(Waiting(p, m))
  BY <1>2, FS_Subset, FS_CardinalityType
<1>4. ASSUME OneModel(p, m)'
      PROVE  /\ Cardinality(Stored(p)') + Cardinality(Waiting(p, m)') <= Cardinality(Clients)
             /\ (\E k \in Alike(p)' : k <= loaded') => Stored(p)' = {} /\ Waiting(p, m)' = {}
  <2>1. /\ Cardinality(Stored(p)) + Cardinality(Waiting(p, m)) <= Cardinality(Clients)
        /\ (\E k \in Alike(p) : k <= loaded) => Stored(p) = {} /\ Waiting(p, m) = {}
    BY <1>1, <1>4, Zenon DEF CopyAt
  <2>2. Cardinality(Stored(p)') + Cardinality(Waiting(p, m)') <= Cardinality(Clients)
    BY <1>1, <1>2, <1>3, <2>1
  <2>3. (\E k \in Alike(p)' : k <= loaded') => Stored(p)' = {} /\ Waiting(p, m)' = {}
    BY <1>1, <2>1
  <2> QED
    BY <2>2, <2>3
<1> QED
  BY <1>4, Zenon DEF CopyAt

LEMMA CopyInit == Init => CopyInv
<1> SUFFICES ASSUME Init PROVE CopyInv
  OBVIOUS
<1>1. loaded <= Len(index)
  BY DEF Init
<1>2. ASSUME NEW p, NEW m PROVE CopyAt(p, m)
  <2>1. Stored(p) = {} /\ Waiting(p, m) = {}
    BY DEF Init, Stored, Waiting
  <2>2. Cardinality({}) = 0 /\ Cardinality(Clients) \in Nat
    BY FS_EmptySet, CacheConstants, FS_CardinalityType
  <2>3. 0 + 0 <= Cardinality(Clients)
    BY <2>2
  <2> QED
    BY <2>1, <2>2, <2>3, Zenon DEF CopyAt
<1> QED
  BY <1>1, <1>2 DEF CopyInv

LEMMA CopyStart == ASSUME IInv, CopyInv, Start \/ Crash PROVE CopyInv'
<1>1. index' \in Seq(Prompts)
  <2>1. <<>> \in Seq(Prompts)
    OBVIOUS
  <2>2. index' \in {<<>>, index_file} /\ (index' = <<>> \/ Readable(index_file))
    BY DEF Start, Crash, load_index, Loaded
  <2> QED
    BY <2>1, <2>2, Zenon DEF IInv, TypeOK, Readable
<1>2. loaded' = Len(index')
  BY DEF Start, Crash, load_index
<1>3. \A c \in Clients : stage'[c] = "idle"
  BY DEF Start, Crash, callers, IInv, DownInv
<1>4. ASSUME NEW p, NEW m PROVE CopyAt(p, m)'
  <2>1. Stored(p)' = {}
    BY <1>1, <1>2 DEF Stored
  <2>2. Waiting(p, m)' = {}
    BY <1>3 DEF Waiting
  <2> QED
    BY <2>1, <2>2, NothingStored
<1>5. loaded' <= Len(index')
  BY <1>1, <1>2
<1> QED
  BY <1>4, <1>5 DEF CopyInv

LEMMA CopyWrite == ASSUME IInv, CopyInv, WriteIndex \/ WriteMetadata PROVE CopyInv'
<1>1. UNCHANGED <<index, metadata, in_step, loaded>> /\ UNCHANGED <<stage, request>>
  BY DEF WriteIndex, WriteMetadata, callers
<1>2. ASSUME NEW p \in Prompts \ {NoMessages}, NEW m \in Models PROVE CopyAt(p, m)'
  <2>1. Waiting(p, m)' \subseteq Waiting(p, m)
    BY <1>1 DEF Waiting
  <2> QED
    BY <1>1, <2>1, FewerWaiting DEF IInv, CopyInv
<1> QED
  BY <1>1, <1>2 DEF CopyInv

LEMMA CopyLookup ==
    ASSUME IInv, CopyInv, NEW c \in Clients, Hit(c) \/ LookupFails(c) \/ Forward(c)
    PROVE  CopyInv'
<1>1. PICK q \in Requests, s \in {"hit", "failed", "forwarded"} :
         /\ Ask(c, q) /\ stage' = [stage EXCEPT ![c] = s]
         /\ s = "forwarded" /\ LooksUp(q) => Matching(q) = {}
  BY DEF Hit, LookupFails, Forward
<1>2. UNCHANGED <<index, metadata, in_step, loaded>>
  BY <1>1 DEF Ask, memory
<1>3. request' = [request EXCEPT ![c] = q] /\ stage[c] # "forwarded" /\ TypeOK
  BY <1>1 DEF Ask, IInv
<1>4. /\ \A d \in Clients : d # c => stage'[d] = stage[d] /\ request'[d] = request[d]
      /\ stage'[c] = s /\ request'[c] = q
  BY <1>1, <1>3 DEF TypeOK
<1>5. ASSUME NEW p \in Prompts \ {NoMessages}, NEW m \in Models PROVE CopyAt(p, m)'
  <2>1. CopyAt(p, m)
    BY DEF CopyInv
  <2>2. CASE s # "forwarded" \/ q # [prompt |-> p, model |-> m, kind |-> "plain"]
    <3>1. Waiting(p, m)' \subseteq Waiting(p, m)
      BY <1>4, <2>2, Zenon DEF Waiting
    <3> QED
      BY <1>2, <1>3, <2>1, <3>1, FewerWaiting
  <2>3. CASE s = "forwarded" /\ q = [prompt |-> p, model |-> m, kind |-> "plain"]
    <3>1. q.prompt = p /\ q.model = m /\ LooksUp(q)
      BY <2>3 DEF LooksUp
    <3>2. ASSUME OneModel(p, m)' PROVE Alike(p)' = {} /\ Stored(p)' = {}
      <4>1. OneModel(p, m)
        BY <1>2, <3>2, Zenon DEF OneModel, Alike
      <4>2. Alike(p) = {}
        BY <1>1, <2>3, <3>1, <4>1, ForwardedUnlike
      <4>3. Stored(p) = {}
        BY <4>1, <4>2, StoredAlike
      <4> QED
        BY <1>2, <4>2, <4>3 DEF Alike, Stored
    <3>3. Cardinality({}) = 0 /\ Cardinality(Waiting(p, m)') \in Nat /\ Cardinality(Clients) \in Nat
          /\ Cardinality(Waiting(p, m)') <= Cardinality(Clients)
      <4>1. Waiting(p, m)' \subseteq Clients
        BY DEF Waiting
      <4> QED
        BY <4>1, FS_EmptySet, FS_Subset, FS_CardinalityType, CacheConstants
    <3>4. 0 + Cardinality(Waiting(p, m)') <= Cardinality(Clients)
      BY <3>3
    <3> QED
      BY <3>2, <3>3, <3>4, Zenon DEF CopyAt
  <2> QED
    BY <2>2, <2>3
<1> QED
  BY <1>2, <1>5 DEF CopyInv

\* The entry a store appends: it counts as one copy of its prompt more, and
\* its client as one less that waits.
LEMMA CopyStore ==
    ASSUME IInv, CopyInv, NEW c \in Clients, NEW q \in Requests, NEW e \in Entries,
           stage[c] = "forwarded", request[c] = q, q.kind = "plain",
           e.prompt = q.prompt, e.model = Resolve[q.model], Add(e), UNCHANGED <<in_step, loaded>>,
           stage' = [stage EXCEPT ![c] = "idle"], request' = [request EXCEPT ![c] = NoRequest]
    PROVE  CopyInv'
<1> DEFINE n == Len(index)
<1>1. TypeOK /\ n \in Nat /\ DOMAIN index = 1 .. n /\ loaded \in Nat /\ loaded <= n
  BY DEF IInv, TypeOK, CopyInv
<1>2. /\ DOMAIN index' = 1 .. n + 1 /\ Len(index') = n + 1 /\ index'[n + 1] = q.prompt
      /\ \A k \in 1 .. n : index'[k] = index[k]
  BY <1>1 DEF Add, TypeOK, Requests
<1>3. ASSUME in_step PROVE metadata'[n + 1] = e /\ \A k \in 1 .. n : metadata'[k] = metadata[k]
  <2>1. metadata \in Seq(Entries) /\ Len(metadata) = n
    BY <1>1, <1>3 DEF IInv, TypeOK, StepInv, InStep
  <2> QED
    BY <2>1 DEF Add
<1> HIDE DEF n
<1>4. /\ \A d \in Clients : d # c => stage'[d] = stage[d] /\ request'[d] = request[d]
      /\ stage'[c] = "idle"
  BY <1>1 DEF TypeOK
<1>5. ASSUME NEW p \in Prompts \ {NoMessages}, NEW m \in Models, OneModel(p, m)'
      PROVE  /\ Cardinality(Stored(p)') + Cardinality(Waiting(p, m)') <= Cardinality(Clients)
             /\ (\E k \in Alike(p)' : k <= loaded') => Stored(p)' = {} /\ Waiting(p, m)' = {}
  <2>1. in_step /\ OwnName(m) /\ Score[p, p] >= Threshold /\ \A k \in Alike(p)' : metadata'[k].model = m
    BY <1>5, Zenon DEF OneModel
  <2>2. Alike(p) \subseteq Alike(p)' /\ \A k \in Alike(p)' : k <= loaded => k \in Alike(p)
    <3>1. \A k \in 1 .. n : k \in 1 .. n + 1
      BY <1>1
    <3>2. \A k \in 1 .. n + 1 : k <= loaded => k \in 1 .. n
      BY <1>1
    <3> QED
      BY <1>1, <1>2, <3>1, <3>2, Zenon DEF Alike
  <2>3. \A k \in Alike(p) : metadata[k].model = m
    <3>1. Alike(p) \subseteq 1 .. n
      BY <1>1, Zenon DEF Alike
    <3> QED
      BY <1>3, <2>1, <2>2, <3>1, Zenon
  <2>4. OneModel(p, m)
    BY <2>1, <2>3, Zenon DEF OneModel
  <2>5. /\ Cardinality(Stored(p)) + Cardinality(Waiting(p, m)) <= Cardinality(Clients)
        /\ (\E k \in Alike(p) : k <= loaded) => Stored(p) = {} /\ Waiting(p, m) = {}
    BY <2>4, Zenon DEF CopyInv, CopyAt
  <2>6. /\ IsFiniteSet(Stored(p)) /\ Cardinality(Stored(p)) \in Nat
        /\ IsFiniteSet(Waiting(p, m)) /\ Cardinality(Waiting(p, m)) \in Nat
        /\ Cardinality(Clients) \in Nat
    BY <1>1, CopySets
  <2>7. Waiting(p, m)' = Waiting(p, m) \ {c}
    BY <1>4 DEF Waiting
  <2>8. (\E k \in Alike(p)' : k <= loaded') => \E k \in Alike(p) : k <= loaded
    BY <2>2
  <2>9. CASE q.prompt # p
    <3>1. Stored(p)' = Stored(p)
      <4>1. \A k \in 1 .. n + 1 : k \in 1 .. n \/ k = n + 1
        BY <1>1
      <4>2. \A k \in 1 .. n : k \in 1 .. n + 1
        BY <1>1
      <4> QED
        BY <1>1, <1>2, <2>9, <4>1, <4>2 DEF Stored
    <3>2. Cardinality(Waiting(p, m)') \in Nat /\ Cardinality(Waiting(p, m)') <= Cardinality(Waiting(p, m))
      BY <2>6, <2>7, FS_Subset, FS_CardinalityType
    <3>3. Cardinality(Stored(p)') + Cardinality(Waiting(p, m)') <= Cardinality(Clients)
      BY <2>5, <2>6, <3>1, <3>2
    <3> QED
      BY <2>5, <2>7, <2>8, <3>1, <3>3
  <2>10. CASE q.prompt = p
    <3>1. n + 1 \in Alike(p)'
      <4>1. n + 1 \in DOMAIN index' /\ index'[n + 1] = p
        BY <1>1, <1>2, <2>10
      <4> QED
        BY <2>1, <4>1, Zenon DEF Alike
    <3>2. Resolve[q.model] = m
      BY <1>3, <2>1, <3>1
    <3>3. q.model = m
      BY <2>1, <3>2 DEF OwnName, Requests
    <3>4. q = [prompt |-> p, model |-> m, kind |-> "plain"]
      BY <2>10, <3>3 DEF Requests
    <3>5. c \in Waiting(p, m)
      BY <3>4 DEF Waiting
    <3>6. Cardinality(Waiting(p, m)') = Cardinality(Waiting(p, m)) - 1
      BY <2>6, <2>7, <3>5, FS_RemoveElement, Zenon
    <3>7. Stored(p)' = Stored(p) \cup {n + 1} /\ n + 1 \notin Stored(p)
      <4>1. \A k \in 1 .. n + 1 : k \in 1 .. n \/ k = n + 1
        BY <1>1
      <4>2. (\A k \in 1 .. n : k \in 1 .. n + 1) /\ n + 1 \notin 1 .. n /\ n + 1 \in 1 .. n + 1 /\ n + 1 > loaded
        BY <1>1
      <4> QED
        BY <1>1, <1>2, <2>10, <4>1, <4>2 DEF Stored
    <3>8. Cardinality(Stored(p)') = Cardinality(Stored(p)) + 1
      BY <2>6, <3>7, FS_AddElement, Zenon
    <3>9. Cardinality(Stored(p)') + Cardinality(Waiting(p, m)') <= Cardinality(Clients)
      BY <2>5, <2>6, <3>6, <3>8
    <3>10. ~\E k \in Alike(p)' : k <= loaded'
      BY <2>5, <2>8, <3>5
    <3> QED
      BY <3>9, <3>10
  <2> QED
    BY <2>9, <2>10
<1>6. loaded' <= Len(index')
  BY <1>1, <1>2
<1> QED
  BY <1>5, <1>6, Zenon DEF CopyInv, CopyAt

LEMMA CopyAnswered == ASSUME IInv, CopyInv, NEW c \in Clients, Answered(c) PROVE CopyInv'
<1>1. PICK body \in Bodies :
         /\ stage[c] = "forwarded"
         /\ stage' = [stage EXCEPT ![c] = "idle"]
         /\ request' = [request EXCEPT ![c] = NoRequest]
         /\ IF Stores(request[c], body)
            THEN store(Entry(request[c], body))
            ELSE UNCHANGED <<index, metadata, saving>>
         /\ UNCHANGED <<in_step, loaded>>
  BY DEF Answered
<1>2. request[c] \in Requests /\ TypeOK
  BY <1>1 DEF IInv, WaitingInv
<1>3. CASE Stores(request[c], body)
  <2> DEFINE e == Entry(request[c], body)
  <2>1. e \in Entries /\ e.prompt = request[c].prompt /\ e.model = Resolve[request[c].model]
    BY <1>2 DEF Requests, Entry, Entries
  <2>2. request[c].kind = "plain" /\ Add(e)
    BY <1>1, <1>3 DEF Stores, store
  <2> HIDE DEF e
  <2> QED
    BY <1>1, <1>2, <2>1, <2>2, CopyStore, Zenon
<1>4. CASE ~Stores(request[c], body)
  <2>1. UNCHANGED <<index, metadata, in_step, loaded>>
    BY <1>1, <1>4
  <2>2. \A d \in Clients : stage'[d] = "forwarded" => stage[d] = "forwarded" /\ request'[d] = request[d]
    BY <1>1, <1>2 DEF TypeOK
  <2>3. ASSUME NEW p \in Prompts \ {NoMessages}, NEW m \in Models PROVE CopyAt(p, m)'
    <3>1. Waiting(p, m)' \subseteq Waiting(p, m)
      BY <2>2 DEF Waiting
    <3> QED
      BY <1>2, <2>1, <3>1, FewerWaiting DEF CopyInv
  <2> QED
    BY <2>1, <2>3 DEF CopyInv
<1> QED
  BY <1>3, <1>4

LEMMA CopyNext == IInv /\ CopyInv /\ [Next]_vars => CopyInv'
<1> SUFFICES ASSUME IInv, CopyInv, [Next]_vars PROVE CopyInv'
  OBVIOUS
<1>1. CASE Next
  BY <1>1, CopyStart, CopyWrite, CopyLookup, CopyAnswered DEF Next
<1>2. CASE UNCHANGED vars
  <2>1. UNCHANGED <<index, metadata, in_step, loaded>> /\ UNCHANGED <<stage, request>>
    BY <1>2 DEF vars, memory, callers
  <2>2. ASSUME NEW p \in Prompts \ {NoMessages}, NEW m \in Models PROVE CopyAt(p, m)'
    <3>1. Waiting(p, m)' \subseteq Waiting(p, m)
      BY <2>1 DEF Waiting
    <3> QED
      BY <2>1, <3>1, FewerWaiting DEF IInv, CopyInv
  <2> QED
    BY <2>1, <2>2 DEF CopyInv
<1> QED
  BY <1>1, <1>2

LEMMA Invariance == Spec => []IInv
<1>1. IInv /\ [Next]_vars => IInv'
  <2> SUFFICES ASSUME IInv, [Next]_vars PROVE IInv'
    OBVIOUS
  <2>1. CASE Next
    BY <2>1, StartStep, WriteStep, CrashStep, LookupStep, AnsweredStep DEF Next
  <2>2. CASE UNCHANGED vars
    BY <2>2 DEF vars, memory, files, callers, IInv, TypeOK, WaitingInv, DownInv, StepInv, InStep,
                FileInv, HitMatches, FailsOnlyTorn
  <2> QED
    BY <2>1, <2>2
<1> QED
  BY <1>1, InitInv, PTL DEF Spec
-----------------------------------------------------------------------------
\* Index, metadata and files hold prompts and entries whatever was stored, lost
\* or damaged (FAISSAdapter).
THEOREM TypeCorrect == Spec => []TypeOK
BY Invariance, PTL DEF IInv

\* A hit returns the response to a similar prompt from the model asked for
\* (the tests of SemanticCache.search and FAISSAdapter.search), for every
\* similarity and every threshold, in a process that loaded matching files.
THEOREM HitsMatch == Spec => []HitMatches
BY Invariance, PTL DEF IInv

\* The IndexError of FAISSAdapter.search needs files that did not match.
THEOREM OnlyTornFails == Spec => []FailsOnlyTorn
BY Invariance, PTL DEF IInv

\* load_index returns the responses of the last complete save_index, all of
\* them, or none.
THEOREM StartAllOrNothing == Spec => AllOrNothing
<1>1. IInv /\ [Next]_vars => [~up /\ up' => metadata' \in {<<>>, saved}]_vars
  <2> SUFFICES ASSUME IInv, Next, ~up, up' PROVE metadata' \in {<<>>, saved}
    BY DEF vars
  <2>1. Start
    BY Zenon DEF Next, WriteIndex, WriteMetadata, Crash, Hit, LookupFails, Forward, Ask, Running, Answered
  <2> QED
    BY <2>1 DEF Start, load_index, Loaded, Readable, IInv, FileInv
<1> QED
  BY <1>1, Invariance, PTL DEF Spec, AllOrNothing

\* Repeated requests do not fill the cache (check_semantic_cache before every
\* forwarding, one copy per waiting client after it), for any number of
\* clients, prompts and requests and any scores.
THEOREM CopiesBounded == Spec => []BoundedCopies
<1>1. Spec => []CopyInv
  BY CopyInit, CopyNext, Invariance, PTL DEF Spec
<1>2. IInv /\ CopyInv => BoundedCopies
  <2> SUFFICES ASSUME IInv, CopyInv, NEW p \in Prompts \ {NoMessages}, NEW m \in Models, OneModel(p, m)
               PROVE  /\ Cardinality(Stored(p)) <= Cardinality(Clients)
                      /\ (\E k \in Alike(p) : k <= loaded) => Stored(p) = {}
    BY Zenon DEF BoundedCopies
  <2>1. /\ Cardinality(Stored(p)) + Cardinality(Waiting(p, m)) <= Cardinality(Clients)
        /\ (\E k \in Alike(p) : k <= loaded) => Stored(p) = {}
    BY Zenon DEF CopyInv, CopyAt
  <2>2. Cardinality(Stored(p)) \in Nat /\ Cardinality(Waiting(p, m)) \in Nat /\ Cardinality(Clients) \in Nat
    BY CopySets DEF IInv
  <2>3. Cardinality(Stored(p)) <= Cardinality(Clients)
    BY <2>1, <2>2
  <2> QED
    BY <2>1, <2>3
<1> QED
  BY <1>1, <1>2, Invariance, PTL
=============================================================================
