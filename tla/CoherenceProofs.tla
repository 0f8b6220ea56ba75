-------------------------- MODULE CoherenceProofs ---------------------------
(***************************************************************************)
(* Proofs about Coherence: what each method of the registry returns, the   *)
(* type invariant, the agreement of the registry's collections, the owner  *)
(* of a token number, and the implementation of OptimisticCommit.          *)
(***************************************************************************)
EXTENDS Coherence, TLAPS, FiniteSetTheorems, NaturalsInduction,
    WellFoundedInduction

-----------------------------------------------------------------------------
(* The methods of the registry keep it a registry.                          *)

LEMMA PruneIsRegistry ==
    ASSUME NEW g \in Registry
    PROVE  /\ PruneExpired(g) \in Registry
           /\ PruneExpired(g).seq = g.seq
BY ConstantsAssumption DEF PruneExpired, Registry, Token, Absent, NoToken, Lapsed

LEMMA DropIsRegistry ==
    ASSUME NEW g \in Registry, NEW t \in Task
    PROVE  /\ DropTask(g, t) \in Registry
           /\ DropTask(g, t).seq = g.seq
BY ConstantsAssumption DEF DropTask, Registry, Token, Absent, NoToken

LEMMA CreateIsRegistry ==
    ASSUME NEW g \in Registry, NEW t \in Task, NEW v \in Nat, g.seq < MaxTokens
    PROVE  /\ CreateToken(g, t, v) \in Registry
           /\ CreateToken(g, t, v).seq = g.seq + 1
           /\ CreateToken(g, t, v).taskToken[t] = g.seq + 1
BY ConstantsAssumption DEF CreateToken, Fresh, Registry, Token, TokenId

LEMMA StoreIsRegistry ==
    ASSUME NEW g \in Registry, NEW t \in Task, NEW v \in Nat, NEW id \in TokenId
    PROVE  /\ StoreRecord(g, id, t, v) \in Registry
           /\ StoreRecord(g, id, t, v).seq = g.seq
BY ConstantsAssumption DEF StoreRecord, Fresh, Registry, Token

-----------------------------------------------------------------------------
(* Eviction.                                                                *)

LEMMA QueuedIsFinite ==
    ASSUME NEW g
    PROVE  /\ IsFiniteSet(Queued(g))
           /\ Cardinality(Queued(g)) \in Nat
<1>1. Queued(g) \in SUBSET Task
  BY DEF Queued
<1> QED
  BY <1>1, FS_Subset, FS_CardinalityType, ConstantsAssumption

\* A registry at its cap has a task that has been queued for longest.
LEMMA OldestIsFirst ==
    ASSUME NEW g \in Registry, Cardinality(Queued(g)) >= MaxTasks
    PROVE  /\ Oldest(g) \in Queued(g)
           /\ \A u \in Queued(g) : g.taskOrder[Oldest(g)] <= g.taskOrder[u]
<1>1. Queued(g) # {}
  BY QueuedIsFinite, FS_EmptySet, ConstantsAssumption
<1> DEFINE T == {g.taskOrder[t] : t \in Queued(g)}
<1>2. T \subseteq Nat /\ T # {}
  BY <1>1, ConstantsAssumption DEF Registry, Queued
<1>3. PICK n \in T : \A m \in T : ~(<<m, n>> \in OpToRel(<, Nat))
  <2>1. IsWellFoundedOn(OpToRel(<, Nat), Nat)
    BY NatLessThanWellFounded
  <2> QED
    BY <1>2, <2>1, WFMin
<1>4. \A m \in T : n <= m
  <2> SUFFICES ASSUME NEW m \in T PROVE n <= m
    OBVIOUS
  <2>1. m \in Nat /\ n \in Nat
    BY <1>2, <1>3
  <2>2. ~(m < n)
    BY <1>3, <2>1 DEF OpToRel
  <2> QED
    BY <2>1, <2>2
<1>5. \E t \in Queued(g) : \A u \in Queued(g) : g.taskOrder[t] <= g.taskOrder[u]
  BY <1>3, <1>4
<1> QED
  BY <1>5 DEF Oldest

LEMMA EvictIsRegistry ==
    ASSUME NEW g \in Registry
    PROVE  /\ EvictIfNeeded(g) \in Registry
           /\ EvictIfNeeded(g).seq = g.seq
<1>1. CASE Cardinality(Queued(g)) >= MaxTasks
  <2>1. Oldest(g) \in Task
    BY <1>1, OldestIsFirst DEF Queued
  <2> QED
    BY <1>1, <2>1, DropIsRegistry DEF EvictIfNeeded
<1>2. CASE ~(Cardinality(Queued(g)) >= MaxTasks)
  BY <1>2 DEF EvictIfNeeded
<1> QED
  BY <1>1, <1>2

LEMMA RecordIsRegistry ==
    ASSUME NEW g \in Registry, NEW t \in Task, NEW v \in Nat, CanIssue(g, t)
    PROVE  LET h == TokenRecordForTask(g, t, v)
           IN  /\ h \in Registry
               /\ h.seq >= g.seq
               /\ h.taskToken[t] \in TokenId
               /\ HasRecord(g, t) => h = g
               /\ ~HasRecord(g, t) => h.taskToken[t] = h.seq
<1>1. CASE HasRecord(g, t)
  BY <1>1, ConstantsAssumption
     DEF TokenRecordForTask, HasRecord, Registry, NoToken, TokenId
<1>2. CASE ~HasRecord(g, t)
  <2>1. EvictIfNeeded(g) \in Registry /\ EvictIfNeeded(g).seq = g.seq
    BY EvictIsRegistry
  <2>2. g.seq < MaxTokens /\ g.seq \in Nat
    BY <1>2, ConstantsAssumption DEF CanIssue, Registry
  <2> QED
    BY <1>2, <2>1, <2>2, CreateIsRegistry, ConstantsAssumption
       DEF TokenRecordForTask, TokenId
<1> QED
  BY <1>1, <1>2

-----------------------------------------------------------------------------
(* The collections of a registry agree after each of its methods.           *)

LEMMA PruneIsConsistent ==
    ASSUME NEW g \in Registry, Consistent(g)
    PROVE  Consistent(PruneExpired(g))
<1> DEFINE h == PruneExpired(g)
<1>1. Queued(h) \subseteq Queued(g)
  BY DEF Queued, PruneExpired
<1>2. Cardinality(Queued(h)) <= MaxTasks
  BY <1>1, QueuedIsFinite, FS_Subset, ConstantsAssumption DEF Consistent
<1>3. \A t \in Task : h.taskOrder[t] = h.taskToken[t]
  BY DEF PruneExpired, Consistent, NoToken
<1>4. \A id \in TokenId : Live(h, id) => id <= h.seq
  BY DEF PruneExpired, Consistent, Live, Absent
<1>5. ASSUME NEW t \in Queued(h)
      PROVE  h.tokens[h.taskToken[t]].task = t
  <2>1. t \in Task /\ t \in Queued(g) /\ ~Lapsed(g, t)
    BY DEF Queued, PruneExpired
  <2>2. /\ h.taskToken[t] = g.taskToken[t]
        /\ g.taskToken[t] \in TokenId
        /\ g.tokens[g.taskToken[t]].task = t
    BY <2>1, ConstantsAssumption
       DEF PruneExpired, Consistent, Queued, Registry, TokenId
  <2>3. ~g.tokens[g.taskToken[t]].expired
    BY <2>1, <2>2 DEF Lapsed
  <2> QED
    BY <2>2, <2>3 DEF PruneExpired
<1> QED
  BY <1>2, <1>3, <1>4, <1>5 DEF Consistent

LEMMA EvictIsConsistent ==
    ASSUME NEW g \in Registry, Consistent(g)
    PROVE  /\ Consistent(EvictIfNeeded(g))
           /\ Cardinality(Queued(EvictIfNeeded(g))) < MaxTasks
<1>1. CASE Cardinality(Queued(g)) >= MaxTasks
  <2> DEFINE o == Oldest(g)
             h == DropTask(g, o)
  <2>1. o \in Queued(g) /\ o \in Task
    BY <1>1, OldestIsFirst DEF Queued
  <2>2. Queued(h) = Queued(g) \ {o}
    BY <2>1 DEF Queued, DropTask, Registry
  <2>3. Cardinality(Queued(h)) = Cardinality(Queued(g)) - 1
    BY <2>1, <2>2, QueuedIsFinite, FS_RemoveElement
  <2>4. Cardinality(Queued(h)) < MaxTasks
    BY <2>3, QueuedIsFinite, ConstantsAssumption DEF Consistent
  <2>5. \A t \in Task : h.taskOrder[t] = h.taskToken[t]
    BY <2>1 DEF DropTask, Consistent, Registry, NoToken
  <2>6. \A id \in TokenId : Live(h, id) => id <= h.seq
    BY DEF DropTask, Consistent, Live, Absent
  <2>7. ASSUME NEW t \in Queued(h)
        PROVE  h.tokens[h.taskToken[t]].task = t
    <3>1. t \in Task /\ t \in Queued(g) /\ t # o
      BY <2>2 DEF Queued
    <3>2. /\ h.taskToken[t] = g.taskToken[t]
          /\ g.taskToken[t] \in TokenId
          /\ g.tokens[g.taskToken[t]].task = t
          /\ g.tokens[g.taskToken[o]].task = o
      BY <2>1, <3>1, ConstantsAssumption
         DEF DropTask, Consistent, Queued, Registry, TokenId
    <3>3. g.taskToken[t] # g.taskToken[o]
      BY <3>1, <3>2
    <3> QED
      BY <3>2, <3>3 DEF DropTask
  <2>8. Consistent(h)
    BY <2>4, <2>5, <2>6, <2>7, QueuedIsFinite, ConstantsAssumption DEF Consistent
  <2> QED
    BY <1>1, <2>4, <2>8 DEF EvictIfNeeded
<1>2. CASE ~(Cardinality(Queued(g)) >= MaxTasks)
  BY <1>2, QueuedIsFinite, ConstantsAssumption DEF EvictIfNeeded
<1> QED
  BY <1>1, <1>2

LEMMA CreateIsConsistent ==
    ASSUME NEW g \in Registry, Consistent(g), g.seq < MaxTokens,
           Cardinality(Queued(g)) < MaxTasks,
           NEW t \in Task, g.taskToken[t] = NoToken, NEW v \in Nat
    PROVE  Consistent(CreateToken(g, t, v))
<1> DEFINE h == CreateToken(g, t, v)
           id == g.seq + 1
<1>1. g.taskOrder[t] = 0 /\ id \in TokenId /\ g.seq \in Nat
  BY ConstantsAssumption DEF Consistent, NoToken, Registry, TokenId
<1>2. Queued(h) = Queued(g) \cup {t}
  BY <1>1, ConstantsAssumption DEF Queued, CreateToken, Registry
<1>3. Cardinality(Queued(h)) <= MaxTasks
  <2>1. IsFiniteSet(Queued(g)) /\ Cardinality(Queued(g)) \in Nat
    BY QueuedIsFinite
  <2>2. \/ Cardinality(Queued(h)) = Cardinality(Queued(g))
        \/ Cardinality(Queued(h)) = Cardinality(Queued(g)) + 1
    BY <1>2, <2>1, FS_AddElement
  <2> QED
    BY <2>1, <2>2, ConstantsAssumption
<1>4. \A u \in Task : h.taskOrder[u] = h.taskToken[u]
  BY <1>1 DEF CreateToken, Consistent, Registry
<1>5. \A i \in TokenId : Live(h, i) => i <= h.seq
  BY <1>1 DEF CreateToken, Consistent, Live, Registry, TokenId
<1>6. ASSUME NEW u \in Queued(h), u # t
      PROVE  h.tokens[h.taskToken[u]].task = u
  <2>1. /\ u \in Queued(g)
        /\ h.taskToken[u] = g.taskToken[u]
        /\ g.taskToken[u] \in TokenId
        /\ g.tokens[g.taskToken[u]].task = u
    BY <1>2, <1>6, ConstantsAssumption
       DEF CreateToken, Consistent, Queued, Registry, TokenId
  <2>2. g.taskToken[u] <= g.seq
    BY <2>1, ConstantsAssumption DEF Consistent, Live, Queued
  <2> QED
    BY <1>1, <2>1, <2>2 DEF CreateToken, Registry, TokenId
<1>7. h.tokens[h.taskToken[t]].task = t
  BY <1>1 DEF CreateToken, Fresh, Registry
<1> QED
  BY <1>3, <1>4, <1>5, <1>6, <1>7 DEF Consistent

\* A task of a consistent registry has a record exactly when it is mapped.
LEMMA HasRecordWhenMapped ==
    ASSUME NEW g \in Registry, Consistent(g), NEW t \in Task
    PROVE  HasRecord(g, t) <=> g.taskToken[t] # NoToken
BY ConstantsAssumption DEF HasRecord, Live, Consistent, Queued, NoToken

LEMMA RecordIsConsistent ==
    ASSUME NEW g \in Registry, Consistent(g), NEW t \in Task, NEW v \in Nat,
           CanIssue(g, t)
    PROVE  LET h == TokenRecordForTask(g, t, v)
           IN  /\ Consistent(h)
               /\ h.taskToken[t] \in 1..h.seq
<1> DEFINE h == TokenRecordForTask(g, t, v)
<1>0. g.seq \in Nat
  BY DEF Registry
<1>1. CASE HasRecord(g, t)
  <2>1. h = g /\ g.taskToken[t] \in TokenId /\ Live(g, g.taskToken[t])
    BY <1>1, ConstantsAssumption
       DEF TokenRecordForTask, HasRecord, Registry, NoToken, TokenId
  <2> QED
    BY <1>0, <2>1 DEF Consistent, TokenId
<1>2. CASE ~HasRecord(g, t)
  <2> DEFINE e == EvictIfNeeded(g)
  <2>1. g.taskToken[t] = NoToken
    BY <1>2, HasRecordWhenMapped
  <2>2. e.taskToken[t] = NoToken
    <3>1. CASE Cardinality(Queued(g)) >= MaxTasks
      BY <2>1, <3>1, OldestIsFirst DEF EvictIfNeeded, DropTask, Registry, Queued
    <3>2. CASE ~(Cardinality(Queued(g)) >= MaxTasks)
      BY <2>1, <3>2 DEF EvictIfNeeded
    <3> QED
      BY <3>1, <3>2
  <2>3. e \in Registry /\ e.seq = g.seq
    BY EvictIsRegistry
  <2>4. Consistent(e) /\ Cardinality(Queued(e)) < MaxTasks
    BY EvictIsConsistent
  <2>5. e.seq < MaxTokens
    BY <1>2, <2>3 DEF CanIssue
  <2>6. h = CreateToken(e, t, v)
    BY <1>2 DEF TokenRecordForTask
  <2>7. Consistent(h)
    BY <2>2, <2>3, <2>4, <2>5, <2>6, CreateIsConsistent
  <2>8. h.seq = g.seq + 1 /\ h.taskToken[t] = g.seq + 1
    BY <2>3, <2>5, <2>6, CreateIsRegistry
  <2> QED
    BY <1>0, <2>7, <2>8
<1> QED
  BY <1>1, <1>2

LEMMA StoreIsConsistent ==
    ASSUME NEW g \in Registry, Consistent(g), NEW t \in Task, NEW v \in Nat,
           NEW id \in TokenId, id <= g.seq,
           Live(g, id) => g.tokens[id].task = t
    PROVE  Consistent(StoreRecord(g, id, t, v))
<1> DEFINE h == StoreRecord(g, id, t, v)
<1>1. Queued(h) = Queued(g)
  BY DEF Queued, StoreRecord
<1>2. \A i \in TokenId : Live(h, i) => i <= h.seq
  BY DEF StoreRecord, Live, Consistent, Registry
<1>3. ASSUME NEW u \in Queued(h)
      PROVE  h.tokens[h.taskToken[u]].task = u
  <2>1. g.tokens[g.taskToken[u]].task = u /\ u \in Task
    BY <1>1 DEF Consistent, Queued
  <2>2. g.taskToken[u] = id => u = t
    BY <2>1, ConstantsAssumption DEF Live
  <2> QED
    BY <2>1, <2>2 DEF StoreRecord, Fresh, Registry
<1> QED
  BY <1>1, <1>2, <1>3 DEF Consistent, StoreRecord

-----------------------------------------------------------------------------
(* The types of the other variables.                                        *)

Hash == Content \cup {NoHash}

LEMMA AnchorsWithType ==
    ASSUME TypeOK, NEW h \in Registry
    PROVE  AnchorsWith(h) \in [TokenId -> [Path -> Hash]]
BY ConstantsAssumption DEF TypeOK, AnchorsWith, NoAnchors, Hash, Registry, TokenId

LEMMA CappedType ==
    ASSUME NEW m \in [Path -> Hash], NEW n \in Capped(m)
    PROVE  n \in [Path -> Hash]
BY DEF Capped, Hash

LEMMA TypeInit == Init => TypeOK
BY ConstantsAssumption
   DEF Init, TypeOK, Registry, EmptyRegistry, Token, Absent, NoAnchors,
       NothingKnown, KnownState, IdleRequest, RequestState, IdleReader,
       ReaderState, NoToken, TokenId

\* A step that changes at most one request, the files and the counters.
LEMMA RequestUpdateType ==
    ASSUME TypeOK, NEW t \in Task, NEW w \in RequestState,
           w.st # "idle" => w.path \in Path,
           w.tok <= registry.seq,
           request' = [request EXCEPT ![t] = w],
           registry' \in Registry, registry'.seq = registry.seq,
           disk' \in [Path -> Content], rev' \in Nat \ {0}, verify' \in Nat,
           UNCHANGED <<anchors, reader, known>>
    PROVE  TypeOK'
BY DEF TypeOK

\* Answering a request, or moving it along, leaves a request.
LEMMA RequestTypes ==
    ASSUME TypeOK, NEW t \in Task
    PROVE  /\ registry \in Registry /\ registry.seq \in Nat
           /\ IdleRequest \in RequestState /\ IdleRequest.st = "idle"
           /\ IdleRequest.tok <= registry.seq
           /\ request[t] \in RequestState /\ request[t].tok <= registry.seq
           /\ request[t].st # "idle" => request[t].path \in Path
<1>1. registry \in Registry /\ registry.seq \in Nat
  BY DEF TypeOK, Registry
<1>2. IdleRequest \in RequestState /\ IdleRequest.st = "idle" /\ IdleRequest.tok = 0
  BY ConstantsAssumption DEF IdleRequest, RequestState, NoToken
<1> QED
  BY <1>1, <1>2 DEF TypeOK

LEMMA RefusedType ==
    ASSUME TypeOK, NEW t \in Task, Refused(t),
           registry' \in Registry, registry'.seq = registry.seq,
           disk' \in [Path -> Content], rev' \in Nat \ {0}, verify' \in Nat,
           UNCHANGED <<anchors, reader, known>>
    PROVE  TypeOK'
BY RequestTypes, RequestUpdateType DEF Refused

LEMMA BecomesType ==
    ASSUME TypeOK, NEW t \in Task, request[t].st # "idle",
           NEW st \in {"approval"} \cup OnKernel, Becomes(t, st),
           registry' \in Registry, registry'.seq = registry.seq,
           disk' \in [Path -> Content],
           UNCHANGED <<rev, verify, anchors, reader, known>>
    PROVE  TypeOK'
<1> DEFINE w == [request[t] EXCEPT !.st = st]
<1>1. /\ w \in RequestState /\ w.path \in Path /\ w.tok <= registry.seq
  BY RequestTypes DEF RequestState, OnKernel
<1>2. request' = [request EXCEPT ![t] = w]
  BY DEF Becomes, TypeOK
<1> HIDE DEF w
<1>3. rev' \in Nat \ {0} /\ verify' \in Nat
  BY DEF TypeOK
<1> QED
  BY <1>1, <1>2, <1>3, RequestUpdateType

LEMMA TypeStep == TypeOK /\ RegistryConsistent /\ [Next]_vars => TypeOK'
<1> SUFFICES ASSUME TypeOK, RegistryConsistent, [Next]_vars
             PROVE  TypeOK'
  OBVIOUS
<1> USE ConstantsAssumption
<1>1. ASSUME NEW r \in Reader, NEW t \in Task, NEW p \in Path, ReadBegin(r, t, p)
      PROVE  TypeOK'
  <2> DEFINE w == [pc |-> "read", task |-> t, path |-> p, text |-> disk[p],
                   rev |-> 0, verify |-> 0, tok |-> NoToken]
  <2>1. w \in ReaderState /\ w.pc = "read" /\ w.task = t /\ w.path = p
    BY DEF ReaderState, NoToken, TypeOK
  <2>2. reader' = [reader EXCEPT ![r] = w]
    BY <1>1 DEF ReadBegin
  <2> HIDE DEF w
  <2> QED
    BY <1>1, <2>1, <2>2 DEF ReadBegin, TypeOK
<1>2. ASSUME NEW r \in Reader, IssueBegin(r)
      PROVE  TypeOK'
  <2> DEFINE t == reader[r].task
             g == PruneExpired(registry)
             h == TokenRecordForTask(g, t, verify)
  <2>1. t \in Task /\ verify \in Nat /\ rev \in Nat /\ registry \in Registry
    BY <1>2 DEF IssueBegin, TypeOK
  <2>2. g \in Registry /\ g.seq = registry.seq /\ CanIssue(g, t) /\ Consistent(g)
    BY <1>2, <2>1, PruneIsRegistry, PruneIsConsistent
       DEF IssueBegin, RegistryConsistent
  <2>3. h \in Registry /\ h.seq >= registry.seq
    BY <2>1, <2>2, RecordIsRegistry
  <2>4. h.taskToken[t] \in 1..h.seq /\ h.taskToken[t] \in 0..MaxTokens
    BY <2>1, <2>2, <2>3, RecordIsConsistent DEF Registry
  <2>5. anchors' \in [TokenId -> [Path -> Hash]] /\ registry' = h
    BY <1>2, <2>3, AnchorsWithType DEF IssueBegin
  <2>6. registry.seq \in Nat /\ h.seq \in Nat
    BY <2>1, <2>3 DEF Registry
  <2>7. reader' = [reader EXCEPT ![r] =
                     [@ EXCEPT !.pc = "issue", !.rev = rev, !.verify = verify,
                               !.tok = h.taskToken[t]]]
    BY <1>2 DEF IssueBegin
  <2>8. UNCHANGED <<disk, rev, verify, known, request>>
    BY <1>2 DEF IssueBegin
  <2> DEFINE w == [reader[r] EXCEPT !.pc = "issue", !.rev = rev,
                                    !.verify = verify, !.tok = h.taskToken[t]]
  <2>9. /\ w \in ReaderState
        /\ w.pc = "issue" /\ w.task \in Task /\ w.path \in Path
        /\ w.tok \in 1..h.seq
    <3>1. reader[r] \in ReaderState /\ reader[r].path \in Path
      BY <1>2 DEF IssueBegin, TypeOK
    <3> QED
      BY <2>1, <2>4, <3>1 DEF ReaderState
  <2>10. /\ reader' \in [Reader -> ReaderState]
         /\ \A s \in Reader :
              /\ reader'[s].pc # "idle" =>
                   reader'[s].task \in Task /\ reader'[s].path \in Path
              /\ reader'[s].pc = "issue" => reader'[s].tok \in 1..h.seq
    <3>1. reader' = [reader EXCEPT ![r] = w]
      BY <2>7
    <3> HIDE DEF w, h
    <3>2. \A s \in Reader : reader[s].pc = "issue" => reader[s].tok \in 1..h.seq
      BY <2>3, <2>6 DEF TypeOK, ReaderState
    <3> QED
      BY <2>9, <3>1, <3>2 DEF TypeOK
  <2>11. \A u \in Task : known'[u].tok <= h.seq /\ request'[u].tok <= h.seq
    BY <2>3, <2>6, <2>8 DEF TypeOK, KnownState, RequestState
  <2> QED
    BY <2>3, <2>5, <2>8, <2>10, <2>11 DEF TypeOK, Hash
<1>3. ASSUME NEW r \in Reader, IssueEnd(r)
      PROVE  TypeOK'
  <2> DEFINE w == reader[r]
             k == [tok |-> w.tok, rev |-> w.rev, path |-> w.path, text |-> w.text]
  <2>1. /\ w \in ReaderState /\ w.task \in Task /\ w.path \in Path
        /\ w.tok \in TokenId /\ w.tok <= registry.seq
        /\ registry \in Registry
    BY <1>3 DEF IssueEnd, TypeOK, Registry, TokenId
  <2>2. registry' \in Registry /\ registry'.seq = registry.seq
    BY <1>3, <2>1, StoreIsRegistry DEF IssueEnd, ReaderState
  <2>3. anchors' \in [TokenId -> [Path -> Hash]]
    <3>1. [anchors[w.tok] EXCEPT ![w.path] = disk[w.path]] \in [Path -> Hash]
      BY <2>1 DEF TypeOK, Hash
    <3>2. PICK m \in Capped([anchors[w.tok] EXCEPT ![w.path] = disk[w.path]]) :
                anchors' = [anchors EXCEPT ![w.tok] = m]
      BY <1>3 DEF IssueEnd
    <3>3. m \in [Path -> Hash]
      BY <3>1, <3>2, CappedType
    <3> QED
      BY <3>2, <3>3 DEF TypeOK, Hash
  <2>4. k \in KnownState /\ k.tok <= registry.seq
    BY <2>1 DEF KnownState, ReaderState
  <2>5. known' = [known EXCEPT ![w.task] = k]
    BY <1>3 DEF IssueEnd
  <2>6. /\ known' \in [Task -> KnownState]
        /\ \A u \in Task : known'[u].tok <= registry.seq
    <3> HIDE DEF k, w
    <3> QED
      BY <2>1, <2>4, <2>5 DEF TypeOK
  <2>7. /\ reader' \in [Reader -> ReaderState]
        /\ \A s \in Reader : s # r => reader'[s] = reader[s]
        /\ reader'[r].pc = "idle"
    <3>1. IdleReader \in ReaderState /\ IdleReader.pc = "idle"
      BY DEF IdleReader, ReaderState, NoToken
    <3>2. reader' = [reader EXCEPT ![r] = IdleReader]
      BY <1>3 DEF IssueEnd
    <3> QED
      BY <3>1, <3>2 DEF TypeOK
  <2>8. UNCHANGED <<disk, rev, verify, request>>
    BY <1>3 DEF IssueEnd
  <2> QED
    BY <2>2, <2>3, <2>6, <2>7, <2>8 DEF TypeOK, Hash
<1>4. ASSUME NEW t \in Task, Status(t)
      PROVE  TypeOK'
  <2> DEFINE g == PruneExpired(registry)
             h == TokenRecordForTask(g, t, verify)
             id == h.taskToken[t]
  <2>1. verify \in Nat /\ rev \in Nat /\ registry \in Registry
    BY DEF TypeOK
  <2>2. g \in Registry /\ g.seq = registry.seq /\ CanIssue(g, t) /\ Consistent(g)
    BY <1>4, <2>1, PruneIsRegistry, PruneIsConsistent
       DEF Status, RegistryConsistent
  <2>3. h \in Registry /\ h.seq >= registry.seq /\ id \in TokenId
    BY <2>1, <2>2, RecordIsRegistry
  <2>4. id \in 1..h.seq
    BY <2>1, <2>2, RecordIsConsistent
  <2>5. anchors' \in [TokenId -> [Path -> Hash]]
    BY <1>4, <2>3, AnchorsWithType DEF Status
  <2>6. registry' \in Registry /\ registry'.seq = h.seq
    BY <1>4, <2>1, <2>3, StoreIsRegistry DEF Status
  <2>7. registry.seq \in Nat /\ h.seq \in Nat
    BY <2>1, <2>3 DEF Registry
  <2> DEFINE k == [known[t] EXCEPT !.tok = id, !.rev = rev]
  <2>8. known' = [known EXCEPT ![t] = k]
    BY <1>4 DEF Status
  <2>9. UNCHANGED <<disk, rev, verify, reader, request>>
    BY <1>4 DEF Status
  <2> HIDE DEF g, h, id
  <2>10. /\ known' \in [Task -> KnownState]
         /\ \A u \in Task : known'[u].tok <= h.seq
    <3>1. known \in [Task -> KnownState]
      BY DEF TypeOK
    <3>2. \A u \in Task : known[u].tok <= h.seq
      <4>1. \A u \in Task : known[u].tok \in Nat
        BY <3>1 DEF KnownState
      <4>2. \A u \in Task : known[u].tok <= registry.seq
        BY DEF TypeOK
      <4> QED
        BY <2>3, <2>7, <4>1, <4>2
    <3>3. k \in KnownState /\ k.tok <= h.seq
      <4>1. known[t] \in KnownState
        BY <3>1
      <4>2. id \in 0..MaxTokens /\ id <= h.seq
        BY <2>3, <2>4, <2>7 DEF TokenId
      <4> QED
        BY <2>1, <4>1, <4>2 DEF KnownState
    <3> HIDE DEF k
    <3> QED
      BY <2>8, <3>1, <3>2, <3>3
  <2>11. /\ \A s \in Reader : reader[s].pc = "issue" => reader[s].tok \in 1..h.seq
         /\ \A u \in Task : request[u].tok <= h.seq
    BY <2>3, <2>7 DEF TypeOK, ReaderState, RequestState
  <2> QED
    BY <2>5, <2>6, <2>9, <2>10, <2>11 DEF TypeOK, Hash
<1>5. ASSUME NEW id \in TokenId, Expire(id)
      PROVE  TypeOK'
  <2>1. registry \in Registry
    BY DEF TypeOK
  <2> DEFINE k == [registry.tokens[id] EXCEPT !.expired = TRUE]
  <2>2. registry' = [registry EXCEPT !.tokens = [registry.tokens EXCEPT ![id] = k]]
    BY <1>5, <2>1 DEF Expire, Registry
  <2>3. k \in Token
    <3>1. registry.tokens[id] \in Token
      BY <2>1 DEF Registry
    <3> QED
      BY <3>1 DEF Token
  <2> HIDE DEF k
  <2>4. registry' \in Registry /\ registry'.seq = registry.seq
    BY <2>1, <2>2, <2>3 DEF Registry
  <2> QED
    BY <1>5, <2>4 DEF Expire, TypeOK
<1>6. ASSUME NEW t \in Editor, NEW p \in Path, Submit(t, p)
      PROVE  TypeOK'
  <2>1. PICK h \in {NoHash, disk[p]} :
          request' = [request EXCEPT ![t] =
                      [st |-> "sent", path |-> p, tok |-> known[t].tok,
                       rev |-> known[t].rev, before |-> h,
                       base |-> IF known[t].path = p THEN known[t].text ELSE NoHash,
                       text |-> NoHash]]
    BY <1>6 DEF Submit
  <2> DEFINE w == [st |-> "sent", path |-> p, tok |-> known[t].tok,
                   rev |-> known[t].rev, before |-> h,
                   base |-> IF known[t].path = p THEN known[t].text ELSE NoHash,
                   text |-> NoHash]
  <2>2. w \in RequestState /\ w.path \in Path /\ w.tok <= registry.seq
    BY DEF RequestState, KnownState, TypeOK
  <2>3. t \in Task
    OBVIOUS
  <2> HIDE DEF w
  <2>4. request' = [request EXCEPT ![t] = w]
    BY <2>1 DEF w
  <2> QED
    BY <1>6, <2>2, <2>3, <2>4, RequestUpdateType DEF Submit, TypeOK
<1>7. ASSUME NEW t \in Task, Gate(t)
      PROVE  TypeOK'
  <2>1. registry' \in Registry /\ registry'.seq = registry.seq
    BY <1>7, PruneIsRegistry DEF Gate, TypeOK
  <2>2. /\ request[t].st # "idle"
        /\ UNCHANGED <<disk, rev, verify, anchors, reader, known>>
    BY <1>7 DEF Gate
  <2>3. CASE Refused(t)
    BY <2>1, <2>2, <2>3, RefusedType DEF TypeOK
  <2>4. CASE \E st \in {"approval", "onMain"} : Becomes(t, st)
    BY <2>1, <2>2, <2>4, BecomesType DEF TypeOK, OnKernel
  <2> QED
    BY <1>7, <2>3, <2>4 DEF Gate
<1>8. ASSUME NEW t \in Task, Resolve(t)
      PROVE  TypeOK'
  BY <1>8, BecomesType, RefusedType DEF Resolve, TypeOK, OnKernel
<1>9. ASSUME NEW t \in Task, Revalidate(t)
      PROVE  TypeOK'
  <2>1. registry' \in Registry /\ registry'.seq = registry.seq
    BY <1>9, PruneIsRegistry DEF Revalidate, TypeOK
  <2>2. /\ request[t].st # "idle"
        /\ UNCHANGED <<disk, rev, verify, anchors, reader, known>>
        /\ Refused(t) \/ Becomes(t, "validated")
    BY <1>9 DEF Revalidate
  <2> QED
    BY <2>1, <2>2, RefusedType, BecomesType DEF TypeOK, OnKernel
<1>10. ASSUME NEW t \in Task, ReadBefore(t)
       PROVE  TypeOK'
  <2>1. UNCHANGED <<disk, rev, verify, registry, anchors, reader, known>>
    BY <1>10 DEF ReadBefore
  <2>2. CASE Refused(t)
    BY <2>1, <2>2, RefusedType DEF TypeOK
  <2>3. CASE request' = [request EXCEPT ![t] =
               [@ EXCEPT !.st = "checked", !.text = disk[request[t].path]]]
    <3> DEFINE w == [request[t] EXCEPT !.st = "checked",
                                       !.text = disk[request[t].path]]
    <3>1. request[t].path \in Path
      BY <1>10 DEF ReadBefore, TypeOK
    <3>2. w \in RequestState /\ w.path \in Path /\ w.tok <= registry.seq
      BY <3>1, RequestTypes DEF RequestState, OnKernel, TypeOK
    <3>3. request' = [request EXCEPT ![t] = w]
      BY <2>3
    <3> HIDE DEF w
    <3> QED
      BY <2>1, <3>2, <3>3, RequestUpdateType DEF TypeOK
  <2> QED
    BY <1>10, <2>2, <2>3 DEF ReadBefore
<1>11. ASSUME NEW t \in Task, Write(t)
       PROVE  TypeOK'
  <2>1. /\ request[t].st # "idle" /\ disk' \in [Path -> Content]
        /\ Becomes(t, "written") \/ Refused(t)
        /\ UNCHANGED <<rev, verify, registry, anchors, reader, known>>
    BY <1>11 DEF Write, TypeOK
  <2> QED
    BY <2>1, RefusedType, BecomesType DEF TypeOK, OnKernel
<1>12. ASSUME NEW t \in Task, Record(t)
       PROVE  TypeOK'
  <2>1. Refused(t) /\ disk' \in [Path -> Content] /\ rev' \in Nat \ {0}
    BY <1>12 DEF Record, Refused, TypeOK
  <2> QED
    BY <1>12, <2>1, RefusedType DEF Record, TypeOK
<1>13. ASSUME NEW p \in Path, UngovernedPatch(p) \/ FileWrite(p) \/ ExternalEdit(p)
       PROVE  TypeOK'
  BY <1>13 DEF UngovernedPatch, FileWrite, ExternalEdit, TypeOK
<1>14. ASSUME VerifyPass
       PROVE  TypeOK'
  BY <1>14 DEF VerifyPass, TypeOK
<1>15. CASE UNCHANGED vars
  BY <1>15 DEF vars, TypeOK
<1> QED
  BY <1>1, <1>2, <1>3, <1>4, <1>5, <1>6, <1>7, <1>8, <1>9, <1>10, <1>11, <1>12,
     <1>13, <1>14, <1>15 DEF Next

-----------------------------------------------------------------------------
(* The registry stays consistent.                                           *)

LEMMA ExpireIsConsistent ==
    ASSUME NEW id \in TokenId, Expire(id), registry \in Registry,
           RegistryConsistent
    PROVE  RegistryConsistent'
<1>1. /\ registry'.seq = registry.seq
      /\ registry'.taskToken = registry.taskToken
      /\ registry'.taskOrder = registry.taskOrder
      /\ \A i \in TokenId : registry'.tokens[i].task = registry.tokens[i].task
  <2> DEFINE k == [registry.tokens[id] EXCEPT !.expired = TRUE]
  <2>1. registry' = [registry EXCEPT !.tokens = [registry.tokens EXCEPT ![id] = k]]
    BY DEF Expire, Registry
  <2>2. k.task = registry.tokens[id].task
    BY DEF Registry, Token
  <2> HIDE DEF k
  <2> QED
    BY <2>1, <2>2 DEF Registry
<1>2. Queued(registry') = Queued(registry)
  BY <1>1 DEF Queued
<1>3. ASSUME NEW t \in Queued(registry)
      PROVE  registry.taskToken[t] \in TokenId
  BY ConstantsAssumption
     DEF Queued, RegistryConsistent, Consistent, Registry, TokenId
<1> QED
  BY <1>1, <1>2, <1>3 DEF RegistryConsistent, Consistent, Live

LEMMA ConsistentStep ==
    TypeOK /\ RegistryConsistent /\ OwnTokenNeverMismatched /\ [Next]_vars
        => RegistryConsistent'
<1> SUFFICES ASSUME TypeOK, RegistryConsistent, OwnTokenNeverMismatched,
                    [Next]_vars
             PROVE  RegistryConsistent'
  OBVIOUS
<1>0. registry \in Registry /\ Consistent(registry) /\ verify \in Nat
  BY DEF TypeOK, RegistryConsistent
<1>p. PruneExpired(registry) \in Registry /\ Consistent(PruneExpired(registry))
  BY <1>0, PruneIsRegistry, PruneIsConsistent
<1>1. ASSUME NEW r \in Reader, IssueBegin(r)
      PROVE  RegistryConsistent'
  <2>1. reader[r].task \in Task /\ CanIssue(PruneExpired(registry), reader[r].task)
    BY <1>1 DEF IssueBegin, TypeOK
  <2>2. registry' = TokenRecordForTask(PruneExpired(registry), reader[r].task, verify)
    BY <1>1 DEF IssueBegin
  <2> QED
    BY <1>0, <1>p, <2>1, <2>2, RecordIsConsistent DEF RegistryConsistent
<1>2. ASSUME NEW r \in Reader, IssueEnd(r)
      PROVE  RegistryConsistent'
  <2> DEFINE w == reader[r]
  <2>1. /\ w.task \in Task /\ w.verify \in Nat
        /\ w.tok \in TokenId /\ w.tok <= registry.seq
    BY <1>0, <1>2, ConstantsAssumption
       DEF IssueEnd, TypeOK, ReaderState, Registry, TokenId
  <2>2. Live(registry, w.tok) => registry.tokens[w.tok].task = w.task
    BY <1>2, <2>1 DEF OwnTokenNeverMismatched, IssueEnd
  <2>3. registry' = StoreRecord(registry, w.tok, w.task, w.verify)
    BY <1>2 DEF IssueEnd
  <2> QED
    BY <1>0, <2>1, <2>2, <2>3, StoreIsConsistent DEF RegistryConsistent
<1>3. ASSUME NEW t \in Task, Status(t)
      PROVE  RegistryConsistent'
  <2> DEFINE h == TokenRecordForTask(PruneExpired(registry), t, verify)
             id == h.taskToken[t]
  <2>1. CanIssue(PruneExpired(registry), t)
    BY <1>3 DEF Status
  <2>2. h \in Registry /\ id \in TokenId
    BY <1>0, <1>p, <2>1, RecordIsRegistry
  <2>3. Consistent(h) /\ id \in 1..h.seq
    BY <1>0, <1>p, <2>1, RecordIsConsistent
  <2>4. h.tokens[id].task = t
    BY <2>2, <2>3 DEF Consistent, Queued, Registry, TokenId
  <2>5. id <= h.seq
    BY <2>2, <2>3 DEF Registry
  <2>6. registry' = StoreRecord(h, id, t, verify)
    BY <1>3 DEF Status
  <2> HIDE DEF h, id
  <2> QED
    BY <1>0, <2>2, <2>3, <2>4, <2>5, <2>6, StoreIsConsistent
       DEF RegistryConsistent
<1>4. ASSUME NEW t \in Task, Gate(t) \/ Revalidate(t)
      PROVE  RegistryConsistent'
  BY <1>4, <1>p DEF Gate, Revalidate, RegistryConsistent
<1>5. ASSUME NEW id \in TokenId, Expire(id)
      PROVE  RegistryConsistent'
  BY <1>0, <1>5, ExpireIsConsistent
<1>6. CASE UNCHANGED registry
  BY <1>6 DEF RegistryConsistent
<1> QED
  BY <1>1, <1>2, <1>3, <1>4, <1>5, <1>6
     DEF Next, vars, ReadBegin, Submit, Resolve, ReadBefore, Write, Record,
         UngovernedPatch, FileWrite, ExternalEdit, VerifyPass

-----------------------------------------------------------------------------
(* A token number has one owner.                                            *)

Owns(owner, g) ==
    \A id \in TokenId : Live(g, id) => g.tokens[id].task = owner[id]

LEMMA PruneKeepsOwner ==
    ASSUME NEW g \in Registry, NEW owner, Owns(owner, g)
    PROVE  Owns(owner, PruneExpired(g))
BY DEF Owns, PruneExpired, Live, Absent

\* The number that tokenRecordForTask hands out is one the task owned already
\* or one that nobody has ever held.
LEMMA RecordHasOwner ==
    ASSUME NEW g \in Registry, Consistent(g), NEW t \in Task, NEW v \in Nat,
           CanIssue(g, t),
           NEW owner \in [TokenId -> Task \cup {NoTask}], Owns(owner, g)
    PROVE  LET h == TokenRecordForTask(g, t, v)
           IN  \E o \in [TokenId -> Task \cup {NoTask}] :
                 /\ \A id \in TokenId : id <= g.seq => o[id] = owner[id]
                 /\ Owns(o, h)
                 /\ o[h.taskToken[t]] = t
<1> DEFINE h == TokenRecordForTask(g, t, v)
<1>1. CASE HasRecord(g, t)
  <2>1. h = g /\ g.taskToken[t] \in TokenId /\ Live(g, g.taskToken[t])
    BY <1>1, ConstantsAssumption
       DEF TokenRecordForTask, HasRecord, Registry, NoToken, TokenId
  <2>2. g.tokens[g.taskToken[t]].task = t
    BY <2>1 DEF Consistent, Queued, TokenId
  <2> QED
    BY <2>1, <2>2 DEF Owns
<1>2. CASE ~HasRecord(g, t)
  <2> DEFINE e == EvictIfNeeded(g)
             id == g.seq + 1
             o == [owner EXCEPT ![id] = t]
  <2>1. e \in Registry /\ e.seq = g.seq /\ g.seq \in Nat /\ id \in TokenId
    <3>1. e \in Registry /\ e.seq = g.seq
      BY EvictIsRegistry
    <3>2. g.seq \in Nat /\ g.seq < MaxTokens
      BY <1>2 DEF CanIssue, Registry
    <3> QED
      BY <3>1, <3>2, ConstantsAssumption DEF TokenId
  <2>2. Owns(owner, e)
    BY DEF Owns, EvictIfNeeded, DropTask, Live, Absent
  <2>3. h = CreateToken(e, t, v)
    BY <1>2 DEF TokenRecordForTask
  <2>4. /\ h.taskToken[t] = id
        /\ h.tokens = [e.tokens EXCEPT ![id] = Fresh(t, v)]
    BY <2>1, <2>3 DEF CreateToken, Registry
  <2>5. o \in [TokenId -> Task \cup {NoTask}] /\ o[id] = t
    BY <2>1
  <2>6. \A i \in TokenId : i <= g.seq => o[i] = owner[i]
    BY <2>1, ConstantsAssumption DEF TokenId
  <2>7. Owns(o, h)
    BY <2>1, <2>2, <2>4 DEF Owns, Live, Fresh, Registry
  <2> QED
    BY <2>4, <2>5, <2>6, <2>7
<1> QED
  BY <1>1, <1>2

\* The owner function serves every holder of a token number.
Holders(owner) ==
    /\ \A t \in Task : known[t].tok # NoToken => owner[known[t].tok] = t
    /\ \A t \in Task : request[t].tok # NoToken => owner[request[t].tok] = t
    /\ \A r \in Reader :
          reader[r].pc = "issue" => owner[reader[r].tok] = reader[r].task

LEMMA HoldersExtend ==
    ASSUME TypeOK, NEW owner, NEW o, Holders(owner),
           \A id \in TokenId : id <= registry.seq => o[id] = owner[id]
    PROVE  Holders(o)
<1>1. \A t \in Task : known[t].tok # NoToken =>
        known[t].tok \in TokenId /\ known[t].tok <= registry.seq
  BY ConstantsAssumption DEF TypeOK, KnownState, NoToken, TokenId
<1>2. \A t \in Task : request[t].tok # NoToken =>
        request[t].tok \in TokenId /\ request[t].tok <= registry.seq
  BY ConstantsAssumption DEF TypeOK, RequestState, NoToken, TokenId
<1>3. \A r \in Reader : reader[r].pc = "issue" =>
        reader[r].tok \in TokenId /\ reader[r].tok <= registry.seq
  BY ConstantsAssumption DEF TypeOK, ReaderState, Registry, TokenId
<1> QED
  BY <1>1, <1>2, <1>3 DEF Holders

LEMMA OwnStep ==
    TypeOK /\ RegistryConsistent /\ OwnTokenNeverMismatched /\ [Next]_vars
        => OwnTokenNeverMismatched'
<1> SUFFICES ASSUME TypeOK, RegistryConsistent, OwnTokenNeverMismatched,
                    [Next]_vars
             PROVE  OwnTokenNeverMismatched'
  OBVIOUS
<1> DEFINE g == PruneExpired(registry)
           Owner == [TokenId -> Task \cup {NoTask}]
<1>0. registry \in Registry /\ Consistent(registry) /\ verify \in Nat
  BY DEF TypeOK, RegistryConsistent
<1>p. g \in Registry /\ g.seq = registry.seq /\ Consistent(g)
  BY <1>0, PruneIsRegistry, PruneIsConsistent
<1>o. PICK owner \in Owner : Owns(owner, registry) /\ Holders(owner)
  BY DEF OwnTokenNeverMismatched, Owns, Holders
<1>q. Owns(owner, g)
  BY <1>0, <1>o, PruneKeepsOwner
<1>g. ASSUME NEW o \in Owner, Owns(o, registry'), Holders(o)'
      PROVE  OwnTokenNeverMismatched'
  BY <1>g DEF OwnTokenNeverMismatched, Owns, Holders
<1> HIDE DEF g
<1>1. ASSUME NEW r \in Reader, NEW t \in Task, NEW p \in Path, ReadBegin(r, t, p)
      PROVE  OwnTokenNeverMismatched'
  <2>1. Holders(owner)'
    BY <1>1, <1>o DEF ReadBegin, Holders, TypeOK
  <2> QED
    BY <1>1, <1>o, <1>g, <2>1 DEF ReadBegin
<1>2. ASSUME NEW r \in Reader, IssueBegin(r)
      PROVE  OwnTokenNeverMismatched'
  <2> DEFINE t == reader[r].task
             h == TokenRecordForTask(g, t, verify)
  <2>1. t \in Task /\ CanIssue(g, t) /\ registry' = h
    BY <1>2 DEF IssueBegin, TypeOK, g
  <2>2. PICK o \in Owner :
          /\ \A id \in TokenId : id <= registry.seq => o[id] = owner[id]
          /\ Owns(o, h)
          /\ o[h.taskToken[t]] = t
    BY <1>0, <1>p, <1>q, <2>1, RecordHasOwner
  <2>3. Holders(o)
    BY <1>o, <2>2, HoldersExtend
  <2>4. /\ known' = known /\ request' = request
        /\ \A s \in Reader : s # r => reader'[s] = reader[s]
        /\ reader'[r].tok = h.taskToken[t] /\ reader'[r].task = t
    BY <1>2 DEF IssueBegin, TypeOK, ReaderState, g
  <2> HIDE DEF h
  <2>5. Holders(o)'
    BY <2>2, <2>3, <2>4 DEF Holders
  <2> QED
    BY <1>g, <2>1, <2>2, <2>5
<1>3. ASSUME NEW r \in Reader, IssueEnd(r)
      PROVE  OwnTokenNeverMismatched'
  <2> DEFINE w == reader[r]
  <2>1. w.task \in Task /\ w.tok \in TokenId /\ owner[w.tok] = w.task
    BY <1>3, <1>0, <1>o, ConstantsAssumption
       DEF IssueEnd, TypeOK, ReaderState, Registry, TokenId, Holders
  <2>2. registry' = StoreRecord(registry, w.tok, w.task, w.verify)
    BY <1>3 DEF IssueEnd
  <2>3. Owns(owner, registry')
    BY <1>0, <1>o, <2>1, <2>2 DEF Owns, StoreRecord, Fresh, Live, Registry
  <2>4. /\ request' = request
        /\ \A s \in Reader : s # r => reader'[s] = reader[s]
        /\ reader'[r].pc = "idle"
        /\ \A u \in Task : u # w.task => known'[u] = known[u]
        /\ known'[w.task].tok = w.tok
    BY <1>3, <2>1 DEF IssueEnd, IdleReader, TypeOK
  <2>5. Holders(owner)'
    BY <1>o, <2>1, <2>4 DEF Holders
  <2> QED
    BY <1>g, <2>3, <2>5
<1>4. ASSUME NEW t \in Task, Status(t)
      PROVE  OwnTokenNeverMismatched'
  <2> DEFINE h == TokenRecordForTask(g, t, verify)
             id == h.taskToken[t]
  <2>1. CanIssue(g, t) /\ registry' = StoreRecord(h, id, t, verify)
    BY <1>4 DEF Status, g
  <2>2. PICK o \in Owner :
          /\ \A i \in TokenId : i <= registry.seq => o[i] = owner[i]
          /\ Owns(o, h)
          /\ o[id] = t
    BY <1>0, <1>p, <1>q, <2>1, RecordHasOwner
  <2>3. Holders(o)
    BY <1>o, <2>2, HoldersExtend
  <2>4. h \in Registry /\ id \in TokenId
    BY <1>0, <1>p, <2>1, RecordIsRegistry
  <2>5. /\ request' = request /\ reader' = reader
        /\ \A u \in Task : u # t => known'[u] = known[u]
        /\ known'[t].tok = id
    BY <1>4 DEF Status, TypeOK, KnownState, g
  <2> HIDE DEF h, id
  <2>6. Owns(o, registry')
    BY <2>1, <2>2, <2>4 DEF Owns, StoreRecord, Fresh, Live, Registry
  <2>7. Holders(o)'
    BY <2>2, <2>3, <2>5 DEF Holders
  <2> QED
    BY <1>g, <2>2, <2>6, <2>7
<1>5. ASSUME NEW id \in TokenId, Expire(id)
      PROVE  OwnTokenNeverMismatched'
  <2>1. \A i \in TokenId : registry'.tokens[i].task = registry.tokens[i].task
    <3> DEFINE k == [registry.tokens[id] EXCEPT !.expired = TRUE]
    <3>1. registry' = [registry EXCEPT !.tokens = [registry.tokens EXCEPT ![id] = k]]
      BY <1>0, <1>5 DEF Expire, Registry
    <3>2. k.task = registry.tokens[id].task
      BY <1>0 DEF Registry, Token
    <3> HIDE DEF k
    <3> QED
      BY <1>0, <3>1, <3>2 DEF Registry
  <2>2. Owns(owner, registry')
    BY <1>o, <2>1 DEF Owns, Live
  <2>3. Holders(owner)'
    BY <1>5, <1>o DEF Expire, Holders
  <2> QED
    BY <1>o, <1>g, <2>2, <2>3
<1>6. ASSUME NEW t \in Editor, NEW p \in Path, Submit(t, p)
      PROVE  OwnTokenNeverMismatched'
  <2>1. /\ \A u \in Task : u # t => request'[u] = request[u]
        /\ request'[t].tok = known[t].tok
        /\ UNCHANGED <<registry, known, reader>>
        /\ t \in Task
    BY <1>6, ConstantsAssumption DEF Submit, TypeOK
  <2>2. Holders(owner)'
    BY <1>o, <2>1 DEF Holders
  <2> QED
    BY <1>o, <1>g, <2>1, <2>2
<1>7. ASSUME UNCHANGED <<known, reader>>,
             registry' \in {registry, g},
             \A u \in Task : request'[u].tok \in {request[u].tok, NoToken}
      PROVE  OwnTokenNeverMismatched'
  <2>1. Holders(owner)'
    BY <1>7, <1>o DEF Holders
  <2>2. Owns(owner, registry')
    BY <1>7, <1>o, <1>q
  <2> QED
    BY <1>g, <2>1, <2>2
<1>8. ASSUME NEW t \in Task,
             \/ Gate(t) \/ Resolve(t) \/ Revalidate(t)
             \/ ReadBefore(t) \/ Write(t) \/ Record(t)
      PROVE  OwnTokenNeverMismatched'
  <2>1. UNCHANGED <<known, reader>> /\ registry' \in {registry, g}
    BY <1>8 DEF Gate, Resolve, Revalidate, ReadBefore, Write, Record, g
  <2>2. request \in [Task -> RequestState]
    BY DEF TypeOK
  <2>3. \/ Refused(t)
        \/ \E st \in {"approval"} \cup OnKernel : Becomes(t, st)
        \/ request' = [request EXCEPT ![t] =
               [@ EXCEPT !.st = "checked", !.text = disk[request[t].path]]]
    BY <1>8 DEF Gate, Resolve, Revalidate, ReadBefore, Write, Record, Refused,
                OnKernel
  <2>4. \A u \in Task : request'[u].tok \in {request[u].tok, NoToken}
    <3>1. CASE Refused(t)
      BY <2>2, <3>1 DEF Refused, IdleRequest
    <3>2. CASE \E st \in {"approval"} \cup OnKernel : Becomes(t, st)
      BY <2>2, <3>2 DEF Becomes, RequestState
    <3>3. CASE request' = [request EXCEPT ![t] =
               [@ EXCEPT !.st = "checked", !.text = disk[request[t].path]]]
      <4> DEFINE w == [request[t] EXCEPT !.st = "checked",
                                         !.text = disk[request[t].path]]
      <4>1. w.tok = request[t].tok
        BY <2>2 DEF RequestState
      <4>2. request' = [request EXCEPT ![t] = w]
        BY <3>3
      <4> HIDE DEF w
      <4> QED
        BY <2>2, <4>1, <4>2
    <3> QED
      BY <2>3, <3>1, <3>2, <3>3
  <2> QED
    BY <1>7, <2>1, <2>4
<1>9. CASE \/ \E p \in Path : UngovernedPatch(p) \/ FileWrite(p) \/ ExternalEdit(p)
           \/ VerifyPass
           \/ UNCHANGED vars
  BY <1>7, <1>9 DEF UngovernedPatch, FileWrite, ExternalEdit, VerifyPass, vars
<1> QED
  BY <1>1, <1>2, <1>3, <1>4, <1>5, <1>6, <1>8, <1>9 DEF Next

-----------------------------------------------------------------------------
(* The invariants.                                                          *)

IInv == TypeOK /\ RegistryConsistent /\ OwnTokenNeverMismatched

LEMMA IInvInit == Init => IInv
<1> SUFFICES ASSUME Init PROVE IInv
  OBVIOUS
<1>1. TypeOK
  BY TypeInit
<1>2. Queued(registry) = {}
  BY DEF Init, EmptyRegistry, Queued
<1>3. RegistryConsistent
  <2>1. Cardinality(Queued(registry)) <= MaxTasks
    BY <1>2, FS_EmptySet, ConstantsAssumption
  <2>2. \A id \in TokenId : ~Live(registry, id)
    BY DEF Init, EmptyRegistry, Live, Absent
  <2>3. \A t \in Task : registry.taskOrder[t] = registry.taskToken[t]
    BY DEF Init, EmptyRegistry, NoToken
  <2> QED
    BY <1>2, <2>1, <2>2, <2>3 DEF RegistryConsistent, Consistent
<1>4. OwnTokenNeverMismatched
  <2> DEFINE o == [id \in TokenId |-> NoTask]
  <2>1. o \in [TokenId -> Task \cup {NoTask}]
    OBVIOUS
  <2> QED
    BY <2>1 DEF Init, EmptyRegistry, OwnTokenNeverMismatched, Live, Absent,
                NothingKnown, IdleRequest, IdleReader, NoToken
<1> QED
  BY <1>1, <1>3, <1>4 DEF IInv

\* The three facts are inductive together: types need the token numbers of
\* the registry to be in range, agreement needs that a late store puts a
\* record back under its owner, and the owner needs fresh numbers.
THEOREM Invariance == Spec => []IInv
<1>1. IInv /\ [Next]_vars => IInv'
  BY TypeStep, ConsistentStep, OwnStep DEF IInv
<1> QED
  BY <1>1, IInvInit, PTL DEF Spec

\* Every reachable state of the coherence layer is well typed, and every
\* token number in use has been handed out.
THEOREM TypeCorrect == Spec => []TypeOK
BY Invariance, PTL DEF IInv

\* Whatever reads overlap, _tokens, _taskToTokenId and _taskOrder agree and
\* never hold more than kCoherenceMaxTasks tasks.
THEOREM RegistryStaysConsistent == Spec => []RegistryConsistent
BY Invariance, PTL DEF IInv

\* No interleaving of evictions and late stores gives a client a token that
\* belongs to another task.
THEOREM TokensKeepTheirOwner == Spec => []OwnTokenNeverMismatched
BY Invariance, PTL DEF IInv

-----------------------------------------------------------------------------
(* What a step may do to the token of a task.                               *)

LEMMA PruneFacts ==
    ASSUME registry \in Registry, RegistryConsistent
    PROVE  LET g == PruneExpired(registry)
           IN  /\ Queued(g) = Unexpired
               /\ \A t \in Unexpired :
                    /\ g.taskToken[t] = registry.taskToken[t]
                    /\ g.taskOrder[t] = registry.taskToken[t]
               /\ \A id \in TokenId : Live(g, id) => Live(registry, id)
<1> DEFINE g == PruneExpired(registry)
<1>1. ASSUME NEW t \in Queued(registry)
      PROVE  /\ Lapsed(registry, t) <=> registry.tokens[registry.taskToken[t]].expired
             /\ registry.taskOrder[t] = registry.taskToken[t]
  <2>1. registry.taskToken[t] \in TokenId
    BY ConstantsAssumption
       DEF Queued, RegistryConsistent, Consistent, Registry, TokenId
  <2>2. registry.tokens[registry.taskToken[t]].task = t
    BY DEF RegistryConsistent, Consistent
  <2> QED
    BY <2>1, <2>2 DEF Lapsed, RegistryConsistent, Consistent, Queued
<1>2. Queued(g) = {t \in Queued(registry) : ~Lapsed(registry, t)}
  BY DEF Queued, PruneExpired
<1>3. \A id \in TokenId : Live(g, id) => Live(registry, id)
  BY DEF Live, PruneExpired, Absent
<1>4. \A t \in Unexpired : t \in Task /\ ~Lapsed(registry, t)
  BY <1>1 DEF Unexpired, Queued
<1>5. \A t \in Unexpired :
        /\ g.taskToken[t] = registry.taskToken[t]
        /\ g.taskOrder[t] = registry.taskToken[t]
  BY <1>1, <1>4 DEF PruneExpired, Unexpired
<1>6. Queued(g) = Unexpired
  BY <1>1, <1>2 DEF Unexpired
<1> QED
  BY <1>3, <1>5, <1>6

\* tokenRecordForTask, on a registry that has just been pruned.
LEMMA RecordFacts ==
    ASSUME NEW g \in Registry, Consistent(g), NEW t \in Task, NEW v \in Nat,
           CanIssue(g, t)
    PROVE  LET h == TokenRecordForTask(g, t, v)
           IN  /\ \A u \in Queued(g) :
                    h.taskToken[u] # g.taskToken[u] =>
                       /\ Cardinality(Queued(g)) >= MaxTasks
                       /\ \A w \in Queued(g) : g.taskOrder[u] <= g.taskOrder[w]
               /\ \A id \in TokenId : id <= g.seq /\ Live(h, id) => Live(g, id)
<1> DEFINE h == TokenRecordForTask(g, t, v)
           e == EvictIfNeeded(g)
<1>1. CASE HasRecord(g, t)
  BY <1>1 DEF TokenRecordForTask
<1>2. CASE ~HasRecord(g, t)
  <2>1. h = CreateToken(e, t, v)
    BY <1>2 DEF TokenRecordForTask
  <2>2. g.taskToken[t] = NoToken /\ t \notin Queued(g)
    BY <1>2, HasRecordWhenMapped DEF Consistent, Queued, NoToken
  <2>3. e \in Registry /\ e.seq = g.seq /\ g.seq \in Nat
    BY EvictIsRegistry DEF Registry
  <2>4. \A id \in TokenId : Live(e, id) => Live(g, id)
    BY DEF EvictIfNeeded, DropTask, Live, Absent
  <2>5. \A u \in Queued(g) : h.taskToken[u] = e.taskToken[u]
    BY <2>1, <2>2, <2>3 DEF CreateToken, Queued, Registry
  <2>6. \A id \in TokenId : id <= g.seq /\ Live(h, id) => Live(e, id)
    BY <2>1, <2>3 DEF CreateToken, Live, Registry, TokenId
  <2>7. CASE Cardinality(Queued(g)) >= MaxTasks
    <3>1. \A u \in Queued(g) : u # Oldest(g) => e.taskToken[u] = g.taskToken[u]
      BY <2>7 DEF EvictIfNeeded, DropTask, Queued, Registry
    <3> QED
      BY <2>4, <2>5, <2>6, <2>7, <3>1, OldestIsFirst
  <2>8. CASE ~(Cardinality(Queued(g)) >= MaxTasks)
    BY <2>4, <2>5, <2>6, <2>8 DEF EvictIfNeeded
  <2> QED
    BY <2>7, <2>8
<1> QED
  BY <1>1, <1>2

\* The part of EvictionIsFIFOAtCap and DeadTokenStaysDead that one step owes.
FIFOStep ==
    \A t \in Unexpired :
        registry'.taskToken[t] # registry.taskToken[t] =>
            /\ Cardinality(Unexpired) = MaxTasks
            /\ \A u \in Unexpired : registry.taskToken[t] <= registry.taskToken[u]
DeadStep ==
    \A id \in TokenId :
        (id <= registry.seq /\ ~Live(registry, id) /\ Live(registry', id)) =>
            \E r \in Reader : reader[r].pc = "issue" /\ reader[r].tok = id

LEMMA IssueFacts ==
    ASSUME registry \in Registry, RegistryConsistent, verify \in Nat,
           NEW t \in Task, CanIssue(PruneExpired(registry), t)
    PROVE  LET h == TokenRecordForTask(PruneExpired(registry), t, verify)
           IN  /\ \A u \in Unexpired :
                    h.taskToken[u] # registry.taskToken[u] =>
                       /\ Cardinality(Unexpired) = MaxTasks
                       /\ \A w \in Unexpired :
                            registry.taskToken[u] <= registry.taskToken[w]
               /\ \A id \in TokenId :
                    id <= registry.seq /\ Live(h, id) => Live(registry, id)
<1> DEFINE g == PruneExpired(registry)
           h == TokenRecordForTask(g, t, verify)
<1>1. g \in Registry /\ g.seq = registry.seq /\ Consistent(g)
  BY PruneIsRegistry, PruneIsConsistent DEF RegistryConsistent
<1>2. /\ Queued(g) = Unexpired
      /\ \A u \in Unexpired :
           /\ g.taskToken[u] = registry.taskToken[u]
           /\ g.taskOrder[u] = registry.taskToken[u]
      /\ \A id \in TokenId : Live(g, id) => Live(registry, id)
  BY PruneFacts
<1>3. /\ \A u \in Queued(g) :
           h.taskToken[u] # g.taskToken[u] =>
              /\ Cardinality(Queued(g)) >= MaxTasks
              /\ \A w \in Queued(g) : g.taskOrder[u] <= g.taskOrder[w]
      /\ \A id \in TokenId : id <= g.seq /\ Live(h, id) => Live(g, id)
  BY <1>1, RecordFacts
<1>4. Cardinality(Queued(g)) <= MaxTasks /\ Cardinality(Queued(g)) \in Nat
  BY <1>1, QueuedIsFinite DEF Consistent
<1> HIDE DEF g, h
<1>5. Cardinality(Queued(g)) >= MaxTasks => Cardinality(Unexpired) = MaxTasks
  BY <1>2, <1>4, ConstantsAssumption
<1> QED
  BY <1>1, <1>2, <1>3, <1>5 DEF g, h

LEMMA TokenStep == IInv /\ [Next]_vars => FIFOStep /\ DeadStep
<1> SUFFICES ASSUME IInv, [Next]_vars
             PROVE  FIFOStep /\ DeadStep
  OBVIOUS
<1>0. registry \in Registry /\ RegistryConsistent /\ verify \in Nat /\ TypeOK
  BY DEF IInv, TypeOK
<1>1. ASSUME NEW r \in Reader, IssueBegin(r)
      PROVE  FIFOStep /\ DeadStep
  <2>1. /\ reader[r].task \in Task
        /\ CanIssue(PruneExpired(registry), reader[r].task)
        /\ registry' = TokenRecordForTask(PruneExpired(registry), reader[r].task, verify)
    BY <1>0, <1>1 DEF IssueBegin, TypeOK
  <2> QED
    BY <1>0, <2>1, IssueFacts DEF FIFOStep, DeadStep
<1>2. ASSUME NEW r \in Reader, IssueEnd(r)
      PROVE  FIFOStep /\ DeadStep
  BY <1>2 DEF IssueEnd, StoreRecord, FIFOStep, DeadStep, Live
<1>3. ASSUME NEW t \in Task, Status(t)
      PROVE  FIFOStep /\ DeadStep
  <2> DEFINE h == TokenRecordForTask(PruneExpired(registry), t, verify)
             id == h.taskToken[t]
  <2>1. CanIssue(PruneExpired(registry), t) /\ registry' = StoreRecord(h, id, t, verify)
    BY <1>3 DEF Status
  <2>2. h \in Registry /\ Consistent(h) /\ id \in 1..h.seq
    BY <1>0, <2>1, PruneIsRegistry, PruneIsConsistent, RecordIsRegistry,
       RecordIsConsistent DEF RegistryConsistent
  <2>3. Live(h, id)
    BY <2>2, ConstantsAssumption DEF Consistent, Queued, Live, Registry
  <2>4. /\ registry'.taskToken = h.taskToken
        /\ \A i \in TokenId : Live(registry', i) => Live(h, i)
    BY <2>1, <2>2, <2>3 DEF StoreRecord, Live, Registry
  <2> HIDE DEF id
  <2>5. /\ \A u \in Unexpired :
             h.taskToken[u] # registry.taskToken[u] =>
                /\ Cardinality(Unexpired) = MaxTasks
                /\ \A w \in Unexpired :
                     registry.taskToken[u] <= registry.taskToken[w]
        /\ \A i \in TokenId :
             i <= registry.seq /\ Live(h, i) => Live(registry, i)
    BY <1>0, <2>1, IssueFacts
  <2> QED
    BY <2>4, <2>5 DEF FIFOStep, DeadStep
<1>4. ASSUME registry' = PruneExpired(registry)
      PROVE  FIFOStep /\ DeadStep
  BY <1>0, <1>4, PruneFacts DEF FIFOStep, DeadStep
<1>5. ASSUME NEW id \in TokenId, Expire(id)
      PROVE  FIFOStep /\ DeadStep
  <2>1. /\ registry'.taskToken = registry.taskToken
        /\ \A i \in TokenId : registry'.tokens[i].task = registry.tokens[i].task
    <3> DEFINE k == [registry.tokens[id] EXCEPT !.expired = TRUE]
    <3>1. registry' = [registry EXCEPT !.tokens = [registry.tokens EXCEPT ![id] = k]]
      BY <1>0, <1>5 DEF Expire, Registry
    <3>2. k.task = registry.tokens[id].task
      BY <1>0 DEF Registry, Token
    <3> HIDE DEF k
    <3> QED
      BY <1>0, <3>1, <3>2 DEF Registry
  <2> QED
    BY <2>1 DEF FIFOStep, DeadStep, Live
<1>6. CASE UNCHANGED registry
  BY <1>6 DEF FIFOStep, DeadStep, Live
<1> QED
  BY <1>1, <1>2, <1>3, <1>4, <1>5, <1>6
     DEF Next, vars, ReadBegin, Submit, Gate, Resolve, Revalidate, ReadBefore,
         Write, Record, UngovernedPatch, FileWrite, ExternalEdit, VerifyPass

\* A task with an unexpired token loses it only at the cap, and only when it
\* has been in the registry for longest.
THEOREM EvictionIsFIFO == Spec => EvictionIsFIFOAtCap
<1>1. IInv /\ [Next]_vars =>
        [\A t \in Unexpired :
           registry'.taskToken[t] # registry.taskToken[t] =>
              /\ Cardinality(Unexpired) = MaxTasks
              /\ \A u \in Unexpired :
                   registry.taskToken[t] <= registry.taskToken[u]]_vars
  BY TokenStep DEF FIFOStep
<1> QED
  BY <1>1, Invariance, PTL DEF Spec, EvictionIsFIFOAtCap

\* A token number that was dropped comes back only through the store of a
\* read that held it when it was dropped.
THEOREM DeadTokensStayDead == Spec => DeadTokenStaysDead
<1>1. IInv /\ [Next]_vars =>
        [\A id \in TokenId :
           (id <= registry.seq /\ ~Live(registry, id) /\ Live(registry', id)) =>
              \E r \in Reader : reader[r].pc = "issue" /\ reader[r].tok = id]_vars
  BY TokenStep DEF DeadStep
<1> QED
  BY <1>1, Invariance, PTL DEF Spec, DeadTokenStaysDead

-----------------------------------------------------------------------------
(* One commit per revision.                                                 *)

\* A revision that a client, a read or a request knows is one the workspace
\* has had.
RevisionsPast ==
    /\ \A r \in Reader : reader[r].rev \in 0..rev
    /\ \A t \in Task : known[t].rev \in 0..rev
    /\ \A t \in Task : request[t].rev \in 0..rev

CommitInv == TypeOK /\ RevisionsPast /\ CitedRevisionIsCurrent

LEMMA CommitInvInit == Init => CommitInv
<1> SUFFICES ASSUME Init PROVE CommitInv
  OBVIOUS
<1>1. TypeOK
  BY TypeInit
<1>2. RevisionsPast
  BY DEF Init, RevisionsPast, IdleReader, NothingKnown, IdleRequest
<1>3. CitedRevisionIsCurrent
  BY DEF Init, CitedRevisionIsCurrent, OnKernel, IdleRequest
<1> QED
  BY <1>1, <1>2, <1>3 DEF CommitInv

\* What happens to one request while the others stay as they are.
LEMMA RequestFacts ==
    ASSUME TypeOK, NEW t \in Task
    PROVE  /\ \A u \in Task : u # t /\ (Refused(t) \/ \E st : Becomes(t, st)) =>
                request'[u] = request[u]
           /\ Refused(t) => request'[t] = IdleRequest
           /\ \A st : Becomes(t, st) =>
                request'[t].st = st /\ request'[t].rev = request[t].rev
<1>1. request \in [Task -> RequestState]
  BY DEF TypeOK
<1> QED
  BY <1>1 DEF Refused, Becomes, RequestState

LEMMA CheckedFacts ==
    ASSUME TypeOK, NEW t \in Task, NEW c,
           request' = [request EXCEPT ![t] = [@ EXCEPT !.st = "checked", !.text = c]]
    PROVE  /\ \A u \in Task : u # t => request'[u] = request[u]
           /\ request'[t].st = "checked" /\ request'[t].rev = request[t].rev
           /\ request'[t].text = c /\ request'[t].path = request[t].path
<1> DEFINE w == [request[t] EXCEPT !.st = "checked", !.text = c]
<1>1. request \in [Task -> RequestState] /\ request' = [request EXCEPT ![t] = w]
  BY DEF TypeOK
<1>2. /\ w.st = "checked" /\ w.rev = request[t].rev
      /\ w.text = c /\ w.path = request[t].path
  BY <1>1 DEF RequestState
<1> HIDE DEF w
<1> QED
  BY <1>1, <1>2

LEMMA CommitInvStep ==
    TypeOK /\ RevisionsPast /\ CitedRevisionIsCurrent /\ [Next]_vars
        => RevisionsPast' /\ CitedRevisionIsCurrent'
<1> SUFFICES ASSUME TypeOK, RevisionsPast, CitedRevisionIsCurrent, [Next]_vars
             PROVE  RevisionsPast' /\ CitedRevisionIsCurrent'
  OBVIOUS
<1>0. rev \in Nat
  BY DEF TypeOK
<1>1. ASSUME NEW r \in Reader, NEW t \in Task, NEW p \in Path, ReadBegin(r, t, p)
      PROVE  RevisionsPast' /\ CitedRevisionIsCurrent'
  BY <1>0, <1>1 DEF ReadBegin, RevisionsPast, CitedRevisionIsCurrent, TypeOK
<1>2. ASSUME NEW r \in Reader, IssueBegin(r)
      PROVE  RevisionsPast' /\ CitedRevisionIsCurrent'
  <2>1. /\ UNCHANGED <<rev, known, request>>
        /\ \A s \in Reader : reader'[s].rev \in {reader[s].rev, rev}
    BY <1>2 DEF IssueBegin, TypeOK, ReaderState
  <2> QED
    BY <1>0, <2>1 DEF RevisionsPast, CitedRevisionIsCurrent
<1>3. ASSUME NEW r \in Reader, IssueEnd(r)
      PROVE  RevisionsPast' /\ CitedRevisionIsCurrent'
  <2>1. /\ UNCHANGED <<rev, request>>
        /\ \A s \in Reader : reader'[s].rev \in {reader[s].rev, 0}
        /\ \A t \in Task : known'[t].rev \in {known[t].rev, reader[r].rev}
    BY <1>3 DEF IssueEnd, IdleReader, TypeOK
  <2> QED
    BY <1>0, <2>1 DEF RevisionsPast, CitedRevisionIsCurrent
<1>4. ASSUME NEW t \in Task, Status(t)
      PROVE  RevisionsPast' /\ CitedRevisionIsCurrent'
  <2> DEFINE id == TokenRecordForTask(PruneExpired(registry), t, verify).taskToken[t]
             k == [known[t] EXCEPT !.tok = id, !.rev = rev]
  <2>1. UNCHANGED <<rev, request, reader>> /\ known' = [known EXCEPT ![t] = k]
    BY <1>4 DEF Status
  <2>2. known \in [Task -> KnownState] /\ k.rev = rev
    BY DEF TypeOK, KnownState
  <2> HIDE DEF k
  <2> QED
    BY <1>0, <2>1, <2>2 DEF RevisionsPast, CitedRevisionIsCurrent
<1>5. ASSUME NEW t \in Editor, NEW p \in Path, Submit(t, p)
      PROVE  RevisionsPast' /\ CitedRevisionIsCurrent'
  <2>1. /\ UNCHANGED <<rev, known, reader>>
        /\ t \in Task
        /\ \A u \in Task : u # t => request'[u] = request[u]
        /\ request'[t].st = "sent" /\ request'[t].rev = known[t].rev
    BY <1>5, ConstantsAssumption DEF Submit, TypeOK
  <2> QED
    BY <1>0, <2>1 DEF RevisionsPast, CitedRevisionIsCurrent, OnKernel
<1>6. ASSUME UNCHANGED <<rev, known, reader>>, NEW t \in Task,
             \A u \in Task : u # t => request'[u] = request[u],
             \/ request'[t] = IdleRequest
             \/ /\ request'[t].rev = request[t].rev
                /\ \/ request'[t].st \notin OnKernel
                   \/ request[t].st \in OnKernel
                   \/ ExecIdle
                /\ \/ request'[t].st \notin {"validated", "checked", "written"}
                   \/ request[t].rev = rev
      PROVE  RevisionsPast' /\ CitedRevisionIsCurrent'
  BY <1>0, <1>6
     DEF RevisionsPast, CitedRevisionIsCurrent, IdleRequest, ExecIdle, OnKernel
<1>7. ASSUME NEW t \in Task, Gate(t) \/ Resolve(t)
      PROVE  RevisionsPast' /\ CitedRevisionIsCurrent'
  <2>1. UNCHANGED <<rev, known, reader>> /\ ExecIdle
    BY <1>7 DEF Gate, Resolve
  <2>2. Refused(t) \/ \E st \in {"approval", "onMain"} : Becomes(t, st)
    BY <1>7 DEF Gate, Resolve
  <2> QED
    BY <1>6, <2>1, <2>2, RequestFacts
<1>8. ASSUME NEW t \in Task, Revalidate(t)
      PROVE  RevisionsPast' /\ CitedRevisionIsCurrent'
  <2>1. UNCHANGED <<rev, known, reader>> /\ request[t].st \in OnKernel
    BY <1>8 DEF Revalidate, OnKernel
  <2>2. Refused(t) \/ (Becomes(t, "validated") /\ request[t].rev = rev)
    BY <1>8 DEF Revalidate, CoherenceValid
  <2> QED
    BY <1>6, <2>1, <2>2, RequestFacts
<1>9. ASSUME NEW t \in Task, ReadBefore(t)
      PROVE  RevisionsPast' /\ CitedRevisionIsCurrent'
  <2>1. /\ UNCHANGED <<rev, known, reader>>
        /\ request[t].st \in OnKernel /\ request[t].rev = rev
    BY <1>9 DEF ReadBefore, OnKernel, CitedRevisionIsCurrent
  <2>2. CASE Refused(t)
    BY <1>6, <2>1, <2>2, RequestFacts
  <2>3. CASE request' = [request EXCEPT ![t] =
               [@ EXCEPT !.st = "checked", !.text = disk[request[t].path]]]
    BY <1>6, <2>1, <2>3, CheckedFacts
  <2> QED
    BY <1>9, <2>2, <2>3 DEF ReadBefore
<1>10. ASSUME NEW t \in Task, Write(t)
       PROVE  RevisionsPast' /\ CitedRevisionIsCurrent'
  <2>1. /\ UNCHANGED <<rev, known, reader>>
        /\ request[t].st \in OnKernel /\ request[t].rev = rev
        /\ Becomes(t, "written") \/ Refused(t)
    BY <1>10 DEF Write, OnKernel, CitedRevisionIsCurrent
  <2> QED
    BY <1>6, <2>1, RequestFacts
<1>11. ASSUME NEW t \in Task, Record(t)
       PROVE  RevisionsPast' /\ CitedRevisionIsCurrent'
  <2>1. /\ rev' = rev + 1 /\ UNCHANGED <<known, reader>>
        /\ request[t].st \in OnKernel
        /\ \A u \in Task : u # t => request'[u] = request[u]
        /\ request'[t] = IdleRequest
    BY <1>11, RequestFacts DEF Record, Refused, OnKernel
  <2>2. \A u \in Task : request'[u].st \notin OnKernel
    BY <2>1 DEF CitedRevisionIsCurrent, IdleRequest, OnKernel
  <2>3. CitedRevisionIsCurrent'
    BY <2>2 DEF CitedRevisionIsCurrent, OnKernel
  <2>4. RevisionsPast'
    BY <1>0, <2>1 DEF RevisionsPast, IdleRequest
  <2> QED
    BY <2>3, <2>4
<1>12. ASSUME NEW p \in Path, UngovernedPatch(p)
       PROVE  RevisionsPast' /\ CitedRevisionIsCurrent'
  BY <1>0, <1>12
     DEF UngovernedPatch, RevisionsPast, CitedRevisionIsCurrent, ExecIdle, OnKernel
<1>13. CASE UNCHANGED <<rev, known, reader, request>>
  BY <1>13 DEF RevisionsPast, CitedRevisionIsCurrent
<1> QED
  BY <1>1, <1>2, <1>3, <1>4, <1>5, <1>7, <1>8, <1>9, <1>10, <1>11, <1>12, <1>13
     DEF Next, vars, Expire, FileWrite, ExternalEdit, VerifyPass

THEOREM CommitInvariance == Spec => []CommitInv
<1>1. CommitInv /\ RegistryConsistent /\ [Next]_vars => CommitInv'
  BY TypeStep, CommitInvStep DEF CommitInv
<1> QED
  BY <1>1, CommitInvInit, RegistryStaysConsistent, PTL DEF Spec

\* From its second validation until it is recorded, the revision a patch cites
\* is the current one, and no other mutation is past the gate.
THEOREM CitedRevisionStaysCurrent == Spec => []CitedRevisionIsCurrent
BY CommitInvariance, PTL DEF CommitInv

\* A write replaces the text its patch was computed from, unless the file is
\* one that is edited outside the kernel.
LEMMA NoUpdateIsLostStep ==
    ASSUME CommitInv, NoUpdateIsLost, [Next]_vars
    PROVE  NoUpdateIsLost'
<1> SUFFICES ASSUME NEW t \in Task, request'[t].st = "checked",
                    request'[t].path \notin Shared
             PROVE  request'[t].text = disk'[request'[t].path]
  BY DEF NoUpdateIsLost
<1>0. TypeOK /\ CitedRevisionIsCurrent
  BY DEF CommitInv
<1>1. ASSUME NEW u \in Task, ReadBefore(u)
      PROVE  request'[t].text = disk'[request'[t].path]
  <2>1. CASE Refused(u)
    BY <1>0, <1>1, <2>1, RequestFacts DEF ReadBefore, NoUpdateIsLost, IdleRequest
  <2>2. CASE request' = [request EXCEPT ![u] =
               [@ EXCEPT !.st = "checked", !.text = disk[request[u].path]]]
    <3>1. /\ \A v \in Task : v # u => request'[v] = request[v]
          /\ request'[u].text = disk[request[u].path]
          /\ request'[u].path = request[u].path
      BY <1>0, <2>2, CheckedFacts
    <3>2. disk' = disk
      BY <1>1 DEF ReadBefore
    <3> QED
      BY <3>1, <3>2 DEF NoUpdateIsLost
  <2> QED
    BY <1>1, <2>1, <2>2 DEF ReadBefore
<1>2. ASSUME NEW u \in Task, Write(u)
      PROVE  FALSE
  <2>1. request'[u].st # "checked" /\ (t # u => request'[t] = request[t])
    BY <1>0, <1>2, RequestFacts DEF Write, IdleRequest
  <2>2. request[u].st \in OnKernel /\ (t # u => request[t].st \in OnKernel)
    BY <1>2, <2>1 DEF Write, OnKernel
  <2> QED
    BY <1>0, <2>1, <2>2 DEF CitedRevisionIsCurrent
<1>3. ASSUME NEW u \in Task, Gate(u) \/ Resolve(u) \/ Revalidate(u) \/ Record(u)
      PROVE  request'[t].text = disk'[request'[t].path]
  <2>1. /\ disk' = disk
        /\ \/ Refused(u)
           \/ \E st \in {"approval", "onMain", "validated"} : Becomes(u, st)
    BY <1>3 DEF Gate, Resolve, Revalidate, Record, Refused
  <2> QED
    BY <1>0, <2>1, RequestFacts DEF NoUpdateIsLost, IdleRequest
<1>4. ASSUME NEW u \in Editor, NEW p \in Path, Submit(u, p)
      PROVE  request'[t].text = disk'[request'[t].path]
  <2>1. /\ disk' = disk /\ u \in Task /\ request'[u].st = "sent"
        /\ \A v \in Task : v # u => request'[v] = request[v]
    BY <1>0, <1>4, ConstantsAssumption DEF Submit, TypeOK
  <2> QED
    BY <2>1 DEF NoUpdateIsLost
<1>5. ASSUME NEW p \in Path, UngovernedPatch(p) \/ FileWrite(p)
      PROVE  FALSE
  BY <1>5 DEF UngovernedPatch, FileWrite, ExecIdle, OnKernel
<1>6. ASSUME NEW p \in Path, ExternalEdit(p)
      PROVE  request'[t].text = disk'[request'[t].path]
  BY <1>0, <1>6 DEF ExternalEdit, NoUpdateIsLost, TypeOK
<1>7. CASE UNCHANGED <<disk, request>>
  BY <1>7 DEF NoUpdateIsLost
<1> QED
  BY <1>1, <1>2, <1>3, <1>4, <1>5, <1>6, <1>7
     DEF Next, vars, ReadBegin, IssueBegin, IssueEnd, Status, Expire, VerifyPass

THEOREM UpdatesAreNotLost == Spec => []NoUpdateIsLost
<1>1. Init => NoUpdateIsLost
  BY DEF Init, NoUpdateIsLost, IdleRequest
<1>2. CommitInv /\ NoUpdateIsLost /\ [Next]_vars => NoUpdateIsLost'
  BY NoUpdateIsLostStep
<1> QED
  BY <1>1, <1>2, CommitInvariance, PTL DEF Spec

-----------------------------------------------------------------------------
(* Coherence implements OptimisticCommit.                                   *)

Claim == [t \in Task |-> IF request[t].st = "idle" THEN 0 ELSE request[t].rev]

\* Dropping a request that cites no revision is invisible to the abstraction.
LEMMA RefusedDrops ==
    ASSUME TypeOK, NEW t \in Task, Refused(t), request[t].st # "idle", rev' = rev
    PROVE  \/ OC!Drop(t)
           \/ UNCHANGED <<rev, Claim>>
<1>1. Claim' = [Claim EXCEPT ![t] = 0]
  <2>1. /\ \A u \in Task : u # t => request'[u] = request[u]
        /\ request'[t].st = "idle"
    BY RequestFacts DEF IdleRequest
  <2> QED
    BY <2>1 DEF Claim
<1>2. CASE request[t].rev = 0
  BY <1>1, <1>2 DEF Claim
<1>3. CASE request[t].rev # 0
  BY <1>1, <1>3 DEF Claim, OC!Drop
<1> QED
  BY <1>2, <1>3

LEMMA AdvanceStutters ==
    ASSUME NEW t \in Task, rev' = rev,
           \A u \in Task : u # t => request'[u] = request[u],
           request[t].st # "idle", request'[t].st # "idle",
           request'[t].rev = request[t].rev
    PROVE  UNCHANGED <<rev, Claim>>
BY DEF Claim

LEMMA CommitRefinesInit == Init => OC!Init
BY DEF Init, OC!Init, IdleRequest

LEMMA CommitRefinesStep ==
    CommitInv /\ [Next]_vars => [OC!Next]_<<rev, Claim>>
<1> SUFFICES ASSUME CommitInv, [Next]_vars
             PROVE  OC!Next \/ UNCHANGED <<rev, Claim>>
  BY DEF Claim
<1>0. TypeOK /\ RevisionsPast /\ CitedRevisionIsCurrent /\ rev \in Nat
  BY DEF CommitInv, TypeOK
<1>1. ASSUME NEW t \in Editor, NEW p \in Path, Submit(t, p)
      PROVE  OC!Next \/ UNCHANGED <<rev, Claim>>
  <2>1. /\ rev' = rev /\ t \in Task /\ request[t].st = "idle"
        /\ \A u \in Task : u # t => request'[u] = request[u]
        /\ request'[t].st = "sent" /\ request'[t].rev = known[t].rev
    BY <1>0, <1>1, ConstantsAssumption DEF Submit, TypeOK
  <2>2. Claim[t] = 0 /\ Claim' = [Claim EXCEPT ![t] = known[t].rev]
    BY <2>1 DEF Claim
  <2>3. CASE known[t].rev = 0
    BY <2>1, <2>2, <2>3 DEF Claim
  <2>4. CASE known[t].rev # 0
    <3>1. known[t].rev \in 1..rev
      BY <1>0, <2>1, <2>4 DEF RevisionsPast
    <3>2. OC!Cite(t)
      BY <2>1, <2>2, <3>1 DEF OC!Cite, Claim
    <3> QED
      BY <2>1, <3>2 DEF OC!Next
  <2> QED
    BY <2>3, <2>4
<1>2. ASSUME NEW t \in Task, Gate(t) \/ Resolve(t) \/ Revalidate(t)
      PROVE  OC!Next \/ UNCHANGED <<rev, Claim>>
  <2>1. rev' = rev /\ request[t].st # "idle"
    BY <1>2 DEF Gate, Resolve, Revalidate
  <2>2. \/ Refused(t)
        \/ \E st \in {"approval", "onMain", "validated"} : Becomes(t, st)
    BY <1>2 DEF Gate, Resolve, Revalidate
  <2>3. CASE Refused(t)
    BY <1>0, <2>1, <2>3, RefusedDrops DEF OC!Next
  <2>4. CASE \E st \in {"approval", "onMain", "validated"} : Becomes(t, st)
    BY <1>0, <2>1, <2>4, RequestFacts, AdvanceStutters
  <2> QED
    BY <2>2, <2>3, <2>4
<1>3. ASSUME NEW t \in Task, ReadBefore(t)
      PROVE  OC!Next \/ UNCHANGED <<rev, Claim>>
  <2>1. rev' = rev /\ request[t].st # "idle"
    BY <1>3 DEF ReadBefore
  <2>2. CASE Refused(t)
    BY <1>0, <2>1, <2>2, RefusedDrops DEF OC!Next
  <2>3. CASE request' = [request EXCEPT ![t] =
               [@ EXCEPT !.st = "checked", !.text = disk[request[t].path]]]
    BY <1>0, <2>1, <2>3, CheckedFacts, AdvanceStutters
  <2> QED
    BY <1>3, <2>2, <2>3 DEF ReadBefore
<1>4. ASSUME NEW t \in Task, Write(t)
      PROVE  OC!Next \/ UNCHANGED <<rev, Claim>>
  <2>1. rev' = rev /\ request[t].st # "idle"
    BY <1>4 DEF Write
  <2>2. CASE Refused(t)
    BY <1>0, <2>1, <2>2, RefusedDrops DEF OC!Next
  <2>3. CASE Becomes(t, "written")
    BY <1>0, <2>1, <2>3, RequestFacts, AdvanceStutters
  <2> QED
    BY <1>4, <2>2, <2>3 DEF Write
<1>5. ASSUME NEW t \in Task, Record(t)
      PROVE  OC!Next \/ UNCHANGED <<rev, Claim>>
  <2>1. /\ rev' = rev + 1 /\ request[t].st = "written"
        /\ \A u \in Task : u # t => request'[u] = request[u]
        /\ request'[t].st = "idle"
    <3>1. Refused(t) /\ rev' = rev + 1 /\ request[t].st = "written"
      BY <1>5 DEF Record, Refused
    <3>2. IdleRequest.st = "idle"
      BY DEF IdleRequest
    <3> QED
      BY <1>0, <3>1, <3>2, RequestFacts
  <2>2. request[t].rev = rev
    BY <1>0, <2>1 DEF CitedRevisionIsCurrent
  <2>3. Claim[t] = rev /\ Claim' = [Claim EXCEPT ![t] = 0]
    BY <2>1, <2>2 DEF Claim
  <2>4. OC!Commit(t)
    BY <2>1, <2>3 DEF OC!Commit, Claim
  <2> QED
    BY <2>4 DEF OC!Next
<1>6. ASSUME NEW p \in Path, UngovernedPatch(p)
      PROVE  OC!Next \/ UNCHANGED <<rev, Claim>>
  <2>1. OC!CommitUncited
    BY <1>6 DEF UngovernedPatch, OC!CommitUncited
  <2> QED
    BY <2>1 DEF OC!Next
<1>7. CASE UNCHANGED <<rev, request>>
  BY <1>7 DEF Claim
<1> QED
  BY <1>1, <1>2, <1>3, <1>4, <1>5, <1>6, <1>7
     DEF Next, vars, ReadBegin, IssueBegin, IssueEnd, Status, Expire, FileWrite,
         ExternalEdit, VerifyPass

\* Of the patches that cite a revision, however long they are parked, one at
\* most is written.
THEOREM CommitIsOptimistic == Spec => ImplementsOptimisticCommit
<1>1. CommitInv /\ [Next]_vars => [OC!Next]_(OC!vars)
  BY CommitRefinesStep DEF OC!vars, Claim
<1> QED
  BY <1>1, CommitInvariance, CommitRefinesInit, PTL
     DEF Spec, ImplementsOptimisticCommit, OC!Spec
=============================================================================
