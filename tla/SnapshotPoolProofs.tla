------------------------- MODULE SnapshotPoolProofs -------------------------
(***************************************************************************)
(* Proofs about the snapshot pool, for every set of variables, values and  *)
(* inputs and for both modes.  The inductive invariant is PoolInv: the     *)
(* faithfulness of the entries carries the equality of the key sets, and   *)
(* in snapshot fuzzing a pool with a common key loses no entry, so the     *)
(* initial entries keep bounding the keys by the candidate variables.      *)
(***************************************************************************)
EXTENDS SnapshotPool, TLAPS

\* An absent key is no value and pruning keeps a snapshot a snapshot.
LEMMA PruneFacts ==
    ASSUME NEW ss \in Snapshot, NEW keys \in SUBSET Vars
    PROVE  /\ PruneSnapshot(ss, keys) \in Snapshot
           /\ Keys(PruneSnapshot(ss, keys)) = Keys(ss) \cap keys
           /\ Keys(ss) \in SUBSET Vars
  BY DEF PruneSnapshot, Keys, Snapshot

\* Pruning twice keeps what the second pruning keeps, if that is less.
LEMMA PruneTwice ==
    ASSUME NEW ss \in Snapshot, NEW k1 \in SUBSET Vars, NEW k2 \in SUBSET Vars,
           k2 \subseteq k1
    PROVE  PruneSnapshot(PruneSnapshot(ss, k1), k2) = PruneSnapshot(ss, k2)
  BY DEF PruneSnapshot, Snapshot

\* A snapshot without its absent keys is the snapshot itself.
LEMMA PruneToKeys ==
    ASSUME NEW ss \in Snapshot, NEW keys \in SUBSET Vars
    PROVE  PruneSnapshot(PruneSnapshot(ss, keys), Keys(PruneSnapshot(ss, keys)))
              = PruneSnapshot(ss, keys)
  BY DEF PruneSnapshot, Keys, Snapshot

\* What each list operation of an insertion does to a list of entries.
LEMMA ListFacts ==
    ASSUME NEW list, IsList(list), NEW new \in SUBSET Snapshot,
           NEW keys \in SUBSET Vars
    PROVE  /\ IsList(Extend(list, new))
           /\ IsList(RemoveInvalid(list))
           /\ IsList(PruneList(list, keys))
           /\ DOMAIN Extend(list, new) = DOMAIN list \cup new
           /\ DOMAIN PruneList(list, keys) = DOMAIN list
           /\ Dicts(list) \subseteq Snapshot
           /\ \A e \in DOMAIN list : PruneList(list, keys)[e] = PruneSnapshot(list[e], keys)
  <1>1. IsList(Extend(list, new)) /\ DOMAIN Extend(list, new) = DOMAIN list \cup new
    BY DEF IsList, Extend
  <1>2. IsList(RemoveInvalid(list))
    BY DEF IsList, RemoveInvalid
  <1>3. IsList(PruneList(list, keys)) /\ DOMAIN PruneList(list, keys) = DOMAIN list
    BY PruneFacts DEF IsList, PruneList
  <1>4. Dicts(list) \subseteq Snapshot
    BY DEF IsList, Dicts
  <1>5. \A e \in DOMAIN list : PruneList(list, keys)[e] = PruneSnapshot(list[e], keys)
    BY DEF PruneList
  <1>6. QED  BY <1>1, <1>2, <1>3, <1>4, <1>5

\* The keys every dictionary of a set has, before and after pruning to them.
LEMMA CommonAfterPrune ==
    ASSUME NEW ps, NEW fs, NEW keys \in SUBSET Vars, IsList(ps), IsList(fs),
           CommonVars(Dicts(ps) \cup Dicts(fs)) = keys
    PROVE  /\ keys \in SUBSET Vars
           /\ \A e \in DOMAIN ps : keys \subseteq Keys(ps[e])
           /\ \A e \in DOMAIN fs : keys \subseteq Keys(fs[e])
           /\ CommonVars(Dicts(PruneList(ps, keys)) \cup Dicts(PruneList(fs, keys))) = keys
  <1>1. keys \in SUBSET Vars
    BY DEF CommonVars
  <1>2. /\ \A e \in DOMAIN ps : keys \subseteq Keys(ps[e])
        /\ \A e \in DOMAIN fs : keys \subseteq Keys(fs[e])
    BY DEF CommonVars, Dicts
  <1>3. ASSUME NEW ss \in Snapshot, keys \subseteq Keys(ss)
        PROVE  Keys(PruneSnapshot(ss, keys)) = keys
    BY <1>1, <1>3, PruneFacts
  <1>4. /\ Dicts(PruneList(ps, keys)) = {PruneSnapshot(ps[e], keys) : e \in DOMAIN ps}
        /\ Dicts(PruneList(fs, keys)) = {PruneSnapshot(fs[e], keys) : e \in DOMAIN fs}
    BY DEF Dicts, PruneList
  <1>5. ASSUME NEW ss \in Dicts(PruneList(ps, keys)) \cup Dicts(PruneList(fs, keys))
        PROVE  Keys(ss) = keys
    <2>1. CASE ss \in Dicts(PruneList(ps, keys))
      <3>1. PICK e \in DOMAIN ps : ss = PruneSnapshot(ps[e], keys)
        BY <1>4, <2>1
      <3>2. ps[e] \in Snapshot
        BY DEF IsList
      <3>3. QED  BY <1>2, <1>3, <3>1, <3>2
    <2>2. CASE ss \in Dicts(PruneList(fs, keys))
      <3>1. PICK e \in DOMAIN fs : ss = PruneSnapshot(fs[e], keys)
        BY <1>4, <2>2
      <3>2. fs[e] \in Snapshot
        BY DEF IsList
      <3>3. QED  BY <1>2, <1>3, <3>1, <3>2
    <2>3. QED  BY <2>1, <2>2
  <1>6. CASE Dicts(ps) \cup Dicts(fs) = {}
    <2>1. keys = Vars
      BY <1>6 DEF CommonVars
    <2>2. DOMAIN ps = {} /\ DOMAIN fs = {}
      BY <1>6, Zenon DEF Dicts
    <2>3. Dicts(PruneList(ps, keys)) \cup Dicts(PruneList(fs, keys)) = {}
      BY <1>4, <2>2
    <2>4. QED  BY <1>1, <1>2, <2>1, <2>3 DEF CommonVars
  <1>7. CASE Dicts(ps) \cup Dicts(fs) # {}
    <2>0. DOMAIN ps # {} \/ DOMAIN fs # {}
      BY <1>7 DEF Dicts
    <2>1. PICK ss : ss \in Dicts(PruneList(ps, keys)) \cup Dicts(PruneList(fs, keys))
      BY <1>4, <2>0
    <2>2. CommonVars(Dicts(PruneList(ps, keys)) \cup Dicts(PruneList(fs, keys))) = keys
      BY <1>1, <1>5, <2>1 DEF CommonVars
    <2>3. QED  BY <1>1, <1>2, <2>2
  <1>8. QED  BY <1>6, <1>7

\* The lists an insertion of P and F prunes: new entries as they are, valid
\* old entries as they were.
NewPasses(P) == P \ snapshot_hashes
NewFails(P, F) == F \ (snapshot_hashes \cup NewPasses(P))
ValidPasses(P) == RemoveInvalid(Extend(pass_ss, NewPasses(P)))
ValidFails(P, F) == RemoveInvalid(Extend(fail_ss, NewFails(P, F)))
NewKeys(P, F) == CommonVars(Dicts(ValidPasses(P)) \cup Dicts(ValidFails(P, F)))

\* add_new_snapshots in terms of the names above.
LEMMA Unfolded ==
    ASSUME NEW P, NEW F, AddNewSnapshots(P, F)
    PROVE  /\ snapshot_hashes' = snapshot_hashes \cup NewPasses(P) \cup NewFails(P, F)
           /\ pass_ss' = PruneList(ValidPasses(P), NewKeys(P, F))
           /\ fail_ss' = PruneList(ValidFails(P, F), NewKeys(P, F))
           /\ status' = IF Dicts(ValidPasses(P)) \cup Dicts(ValidFails(P, F)) = {}
                        THEN "error" ELSE "ready"
  BY DEF AddNewSnapshots, NewSnapshots, NewPasses, NewFails, ValidPasses, ValidFails, NewKeys

\* An entry of a list about to be pruned is new or an old one that has keys.
LEMMA ValidEntries ==
    ASSUME NEW list, IsList(list), NEW new \in SUBSET Snapshot,
           NEW e \in DOMAIN RemoveInvalid(Extend(list, new))
    PROVE  /\ e \in new \/ e \in DOMAIN list
           /\ e \in new => RemoveInvalid(Extend(list, new))[e] = e
           /\ e \notin new => RemoveInvalid(Extend(list, new))[e] = list[e]
           /\ Keys(RemoveInvalid(Extend(list, new))[e]) # {}
  BY DEF RemoveInvalid, Extend

\* One list after an insertion: it is a list, and its entries are the recorded
\* snapshots pruned to the keys, if they were before.
LEMMA PrunedList ==
    ASSUME NEW list, IsList(list), NEW new \in SUBSET Snapshot,
           NEW old \in SUBSET Vars, NEW keys \in SUBSET Vars,
           \A e \in DOMAIN list : list[e] = PruneSnapshot(e, old),
           \A e \in DOMAIN RemoveInvalid(Extend(list, new)) :
               keys \subseteq Keys(RemoveInvalid(Extend(list, new))[e])
    PROVE  LET L == PruneList(RemoveInvalid(Extend(list, new)), keys)
           IN  /\ IsList(L)
               /\ DOMAIN L \subseteq DOMAIN list \cup new
               /\ \A e \in DOMAIN L : L[e] = PruneSnapshot(e, keys)
  <1> DEFINE V == RemoveInvalid(Extend(list, new))
             L == PruneList(V, keys)
  <1>1. IsList(V)
    BY ListFacts
  <1>2. IsList(L) /\ DOMAIN L = DOMAIN V
    BY <1>1, ListFacts
  <1>3. DOMAIN L \subseteq DOMAIN list \cup new
    BY <1>2, ValidEntries
  <1>4. ASSUME NEW e \in DOMAIN L
        PROVE  L[e] = PruneSnapshot(e, keys)
    <2>1. e \in DOMAIN V /\ e \in Snapshot /\ L[e] = PruneSnapshot(V[e], keys)
      BY <1>1, <1>2, ListFacts DEF IsList
    <2>2. CASE e \in new
      BY <2>1, <2>2, ValidEntries
    <2>3. CASE e \notin new
      <3>1. e \in DOMAIN list /\ V[e] = PruneSnapshot(e, old)
        BY <2>1, <2>3, ValidEntries
      <3>2. keys \subseteq old
        BY <2>1, <3>1, PruneFacts
      <3>3. QED  BY <2>1, <3>1, <3>2, PruneTwice
    <2>4. QED  BY <2>2, <2>3
  <1>5. QED  BY <1>2, <1>3, <1>4

-----------------------------------------------------------------------------
\* The inductive invariant of the pool.
PoolInv ==
    /\ PoolTypeOK
    /\ EntriesFaithful
    /\ DOMAIN pass_ss \cup DOMAIN fail_ss \subseteq snapshot_hashes
    /\ cycle = 0 => /\ DOMAIN pass_ss = {}
                    /\ DOMAIN fail_ss = {}
                    /\ snapshot_hashes = {}
    /\ KeysWithinCandidates
    /\ HashesInUse

(***************************************************************************)
(* What holds after every insertion, in both modes: lists, faithful        *)
(* entries of one label each, all of them hashed, and keys that are the    *)
(* ones computed before the pruning.                                       *)
(***************************************************************************)
LEMMA InsertionSound ==
    ASSUME PoolTypeOK, EntriesFaithful,
           DOMAIN pass_ss \cup DOMAIN fail_ss \subseteq snapshot_hashes,
           NEW P \in SUBSET Snapshot, NEW F \in SUBSET Snapshot,
           AddNewSnapshots(P, F)
    PROVE  /\ IsList(pass_ss') /\ IsList(fail_ss')
           /\ snapshot_hashes' \subseteq Snapshot
           /\ status' \in {"ready", "error"}
           /\ PoolKeys' = NewKeys(P, F)
           /\ EntriesFaithful'
           /\ (DOMAIN pass_ss \cup DOMAIN fail_ss)' \subseteq snapshot_hashes'
  <1> DEFINE np == NewPasses(P)
             nf == NewFails(P, F)
             vp == ValidPasses(P)
             vf == ValidFails(P, F)
             keys == NewKeys(P, F)
  <1>1. /\ snapshot_hashes' = snapshot_hashes \cup np \cup nf
        /\ pass_ss' = PruneList(vp, keys)
        /\ fail_ss' = PruneList(vf, keys)
        /\ status' \in {"ready", "error"}
    BY Unfolded
  <1>2. np \in SUBSET Snapshot /\ nf \in SUBSET Snapshot
    BY DEF NewPasses, NewFails
  <1>3. IsList(pass_ss) /\ IsList(fail_ss) /\ snapshot_hashes \subseteq Snapshot
    BY DEF PoolTypeOK
  <1>4. /\ vp = RemoveInvalid(Extend(pass_ss, np))
        /\ vf = RemoveInvalid(Extend(fail_ss, nf))
        /\ IsList(vp) /\ IsList(vf)
    BY <1>2, <1>3, ListFacts DEF ValidPasses, ValidFails
  <1>5. /\ keys \in SUBSET Vars
        /\ \A e \in DOMAIN vp : keys \subseteq Keys(vp[e])
        /\ \A e \in DOMAIN vf : keys \subseteq Keys(vf[e])
        /\ CommonVars(Dicts(PruneList(vp, keys)) \cup Dicts(PruneList(vf, keys))) = keys
    <2>1. CommonVars(Dicts(vp) \cup Dicts(vf)) = keys
      BY DEF NewKeys
    <2> HIDE DEF keys, vp, vf
    <2>2. keys \in SUBSET Vars
      BY <2>1 DEF CommonVars
    <2>3. IsList(vp) /\ IsList(vf)
      BY <1>4
    <2>4. QED  BY <2>1, <2>2, <2>3, CommonAfterPrune
  <1>6. PoolKeys' = keys
    BY <1>1, <1>5 DEF PoolKeys, PoolDicts, CommonVars, Dicts
  <1>7. PoolKeys \in SUBSET Vars
    BY DEF PoolKeys, CommonVars
  <1>8. /\ \A e \in DOMAIN pass_ss : pass_ss[e] = PruneSnapshot(e, PoolKeys)
        /\ \A e \in DOMAIN fail_ss : fail_ss[e] = PruneSnapshot(e, PoolKeys)
        /\ DOMAIN pass_ss \cap DOMAIN fail_ss = {}
    BY DEF EntriesFaithful
  <1>9. /\ IsList(pass_ss') /\ DOMAIN pass_ss' \subseteq DOMAIN pass_ss \cup np
        /\ \A e \in DOMAIN pass_ss' : pass_ss'[e] = PruneSnapshot(e, keys)
    <2>1. \A e \in DOMAIN RemoveInvalid(Extend(pass_ss, np)) :
             keys \subseteq Keys(RemoveInvalid(Extend(pass_ss, np))[e])
      BY <1>4, <1>5
    <2>2. LET L == PruneList(RemoveInvalid(Extend(pass_ss, np)), keys)
          IN  /\ IsList(L)
              /\ DOMAIN L \subseteq DOMAIN pass_ss \cup np
              /\ \A e \in DOMAIN L : L[e] = PruneSnapshot(e, keys)
      BY <1>2, <1>3, <1>5, <1>7, <1>8, <2>1, PrunedList
    <2>3. QED  BY <1>1, <1>4, <2>2
  <1>10. /\ IsList(fail_ss') /\ DOMAIN fail_ss' \subseteq DOMAIN fail_ss \cup nf
         /\ \A e \in DOMAIN fail_ss' : fail_ss'[e] = PruneSnapshot(e, keys)
    <2>1. \A e \in DOMAIN RemoveInvalid(Extend(fail_ss, nf)) :
             keys \subseteq Keys(RemoveInvalid(Extend(fail_ss, nf))[e])
      BY <1>4, <1>5
    <2>2. LET L == PruneList(RemoveInvalid(Extend(fail_ss, nf)), keys)
          IN  /\ IsList(L)
              /\ DOMAIN L \subseteq DOMAIN fail_ss \cup nf
              /\ \A e \in DOMAIN L : L[e] = PruneSnapshot(e, keys)
      BY <1>2, <1>3, <1>5, <1>7, <1>8, <2>1, PrunedList
    <2>3. QED  BY <1>1, <1>4, <2>2
  <1>11. np \cap snapshot_hashes = {} /\ nf \cap (snapshot_hashes \cup np) = {}
    BY DEF NewPasses, NewFails
  <1>12. DOMAIN pass_ss' \cap DOMAIN fail_ss' = {}
    BY <1>8, <1>9, <1>10, <1>11
  <1>13. EntriesFaithful'
    BY <1>6, <1>9, <1>10, <1>12 DEF EntriesFaithful
  <1>14. DOMAIN pass_ss' \cup DOMAIN fail_ss' \subseteq snapshot_hashes'
    BY <1>1, <1>9, <1>10
  <1>15. QED  BY <1>1, <1>2, <1>3, <1>6, <1>9, <1>10, <1>13, <1>14

\* Faithful entries all have the keys of the pool.
LEMMA FaithfulKeys ==
    ASSUME PoolTypeOK, EntriesFaithful
    PROVE  UniversalKeys
  <1>1. PoolKeys \in SUBSET Vars
    BY DEF PoolKeys, CommonVars
  <1>2. SUFFICES ASSUME NEW ss \in PoolDicts
                 PROVE  Keys(ss) = PoolKeys
    BY DEF UniversalKeys
  <1>3. PICK e \in Snapshot : ss = PruneSnapshot(e, PoolKeys)
    BY DEF PoolDicts, Dicts, EntriesFaithful, PoolTypeOK, IsList
  <1>4. Keys(ss) \subseteq PoolKeys
    BY <1>1, <1>3, PruneFacts
  <1>5. PoolKeys \subseteq Keys(ss)
    BY DEF PoolKeys, CommonVars
  <1>6. QED  BY <1>4, <1>5

(***************************************************************************)
(* A pool that has a common key loses no entry by an insertion, and its    *)
(* keys can only become fewer.                                             *)
(***************************************************************************)
LEMMA InsertionKeeps ==
    ASSUME PoolTypeOK, EntriesFaithful,
           DOMAIN pass_ss \cup DOMAIN fail_ss \subseteq snapshot_hashes,
           PoolDicts # {}, PoolKeys # {},
           NEW P \in SUBSET Snapshot, NEW F \in SUBSET Snapshot,
           AddNewSnapshots(P, F)
    PROVE  /\ DOMAIN pass_ss \subseteq DOMAIN pass_ss'
           /\ DOMAIN fail_ss \subseteq DOMAIN fail_ss'
           /\ PoolDicts' # {}
           /\ PoolKeys' \subseteq PoolKeys
           /\ status' = "ready"
  <1> DEFINE np == NewPasses(P)
             nf == NewFails(P, F)
             vp == ValidPasses(P)
             vf == ValidFails(P, F)
             keys == NewKeys(P, F)
  <1>1. /\ pass_ss' = PruneList(vp, keys)
        /\ fail_ss' = PruneList(vf, keys)
        /\ status' = IF Dicts(vp) \cup Dicts(vf) = {} THEN "error" ELSE "ready"
    BY Unfolded
  <1>2. UniversalKeys
    BY FaithfulKeys
  <1>3. ASSUME NEW e \in DOMAIN pass_ss
        PROVE  e \in DOMAIN vp /\ vp[e] = pass_ss[e]
    <2>1. Keys(pass_ss[e]) # {}
      BY <1>2 DEF UniversalKeys, PoolDicts, Dicts
    <2>2. e \notin np
      BY DEF NewPasses
    <2>3. QED  BY <2>1, <2>2 DEF ValidPasses, RemoveInvalid, Extend
  <1>4. ASSUME NEW e \in DOMAIN fail_ss
        PROVE  e \in DOMAIN vf /\ vf[e] = fail_ss[e]
    <2>1. Keys(fail_ss[e]) # {}
      BY <1>2 DEF UniversalKeys, PoolDicts, Dicts
    <2>2. e \notin nf
      BY DEF NewFails
    <2>3. QED  BY <2>1, <2>2 DEF ValidFails, RemoveInvalid, Extend
  <1>5. DOMAIN pass_ss' = DOMAIN vp /\ DOMAIN fail_ss' = DOMAIN vf
    BY <1>1 DEF PruneList
  <1>6. DOMAIN pass_ss \subseteq DOMAIN pass_ss' /\ DOMAIN fail_ss \subseteq DOMAIN fail_ss'
    BY <1>3, <1>4, <1>5
  <1>7. PoolDicts \subseteq Dicts(vp) \cup Dicts(vf)
    BY <1>3, <1>4 DEF PoolDicts, Dicts
  <1>8. status' = "ready"
    BY <1>1, <1>7
  <1>9. keys \subseteq PoolKeys
    BY <1>7 DEF NewKeys, PoolKeys, CommonVars
  <1>10. PoolKeys' = keys
    BY InsertionSound
  <1>11. DOMAIN pass_ss # {} \/ DOMAIN fail_ss # {}
    BY DEF PoolDicts, Dicts
  <1>12. PoolDicts' # {}
    BY <1>6, <1>11 DEF PoolDicts, Dicts
  <1>13. QED  BY <1>6, <1>8, <1>9, <1>10, <1>12

\* A snapshot that an insertion hashes enters the pool if it has a key.
LEMMA NewEnters ==
    ASSUME NEW P, NEW F, AddNewSnapshots(P, F)
    PROVE  /\ \A e \in NewPasses(P) : Keys(e) # {} => e \in DOMAIN pass_ss'
           /\ \A e \in NewFails(P, F) : Keys(e) # {} => e \in DOMAIN fail_ss'
  <1>1. /\ pass_ss' = PruneList(ValidPasses(P), NewKeys(P, F))
        /\ fail_ss' = PruneList(ValidFails(P, F), NewKeys(P, F))
    BY Unfolded
  <1>2. DOMAIN pass_ss' = DOMAIN ValidPasses(P) /\ DOMAIN fail_ss' = DOMAIN ValidFails(P, F)
    BY <1>1 DEF PruneList
  <1>3. \A e \in NewPasses(P) : Keys(e) # {} => e \in DOMAIN ValidPasses(P)
    BY DEF ValidPasses, RemoveInvalid, Extend
  <1>4. \A e \in NewFails(P, F) : Keys(e) # {} => e \in DOMAIN ValidFails(P, F)
    BY DEF ValidFails, RemoveInvalid, Extend
  <1>5. QED  BY <1>2, <1>3, <1>4

\* Every hash taken by an insertion is of an entry, if it was so before.
LEMMA HashesStayInUse ==
    ASSUME NEW P, NEW F, AddNewSnapshots(P, F),
           DOMAIN pass_ss \subseteq DOMAIN pass_ss',
           DOMAIN fail_ss \subseteq DOMAIN fail_ss',
           \A h \in snapshot_hashes :
               Keys(h) # {} => h \in DOMAIN pass_ss \cup DOMAIN fail_ss
    PROVE  \A h \in snapshot_hashes' :
               Keys(h) # {} => h \in DOMAIN pass_ss' \cup DOMAIN fail_ss'
  BY NewEnters, Unfolded

\* The empty pool satisfies the invariant.
LEMMA PoolInvInit == PoolInit => PoolInv
  BY ModeAssumption DEF PoolInit, PoolInv, PoolTypeOK, IsList, EntriesFaithful,
                        KeysWithinCandidates, HashesInUse

\* What executions produce are snapshots.
LEMMA BatchesAreSnapshots == \A B \in Batches : B \in SUBSET Snapshot
  BY InputsAssumption DEF Batches

\* post_process_of_initial_snapshots preserves the invariant.
LEMMA InitialStep ==
    ASSUME PoolInv, NEW P \in SUBSET Snapshot, NEW F \in SUBSET Snapshot,
           NEW C \in SUBSET Vars, PostProcessInitial(P, F, C)
    PROVE  PoolInv'
  <1>0. cycle \in Nat /\ cycle' = cycle + 1 /\ cycle' \in Nat /\ cycle' # 0
    BY DEF PoolInv, PoolTypeOK, PostProcessInitial
  <1>1. CASE UNCHANGED <<pass_ss, fail_ss, snapshot_hashes, candidate_variables>>
             /\ status' = "error"
    <2>1. PoolTypeOK'
      BY <1>0, <1>1 DEF PoolInv, PoolTypeOK, IsList
    <2>2. EntriesFaithful'
      BY <1>1 DEF PoolInv, EntriesFaithful, PoolKeys, PoolDicts, Dicts
    <2>3. QED  BY <1>0, <1>1, <2>1, <2>2 DEF PoolInv, KeysWithinCandidates, HashesInUse
  <1>2. CASE ~(UNCHANGED <<pass_ss, fail_ss, snapshot_hashes, candidate_variables>>
               /\ status' = "error")
    <2> DEFINE PP == {PruneSnapshot(ss, C) : ss \in Valid(P)}
               FF == {PruneSnapshot(ss, C) : ss \in Valid(F)}
    <2>1. candidate_variables' = C /\ AddNewSnapshots(PP, FF)
      BY <1>2 DEF PostProcessInitial, DecideVarsToInclude
    <2>2. ASSUME NEW B \in SUBSET Snapshot
          PROVE  {PruneSnapshot(ss, C) : ss \in Valid(B)} \in SUBSET Snapshot
      BY PruneFacts DEF Valid
    <2>3. PP \in SUBSET Snapshot /\ FF \in SUBSET Snapshot
      BY <2>2
    <2>4. \A ss \in PP \cup FF : Keys(ss) \subseteq C
      <3>1. \A ss \in Valid(P) \cup Valid(F) : ss \in Snapshot
        BY DEF Valid
      <3>2. QED  BY <3>1, PruneFacts
    <2> HIDE DEF PP, FF
    <2>5. /\ IsList(pass_ss') /\ IsList(fail_ss')
          /\ snapshot_hashes' \subseteq Snapshot
          /\ status' \in {"ready", "error"}
          /\ PoolKeys' = NewKeys(PP, FF)
          /\ EntriesFaithful'
          /\ (DOMAIN pass_ss \cup DOMAIN fail_ss)' \subseteq snapshot_hashes'
      BY <2>1, <2>3, InsertionSound DEF PoolInv
    <2>6. PoolTypeOK'
      BY <1>0, <2>1, <2>5 DEF PoolTypeOK
    <2>7. ASSUME Refining
          PROVE  cycle = 0 /\ DOMAIN pass_ss = {} /\ DOMAIN fail_ss = {} /\ snapshot_hashes = {}
      BY <1>0, <2>7 DEF PostProcessInitial, DecideVarsToInclude, PoolInv
    <2>8. KeysWithinCandidates'
      <3>1. SUFFICES ASSUME Refining, status' = "ready"
                     PROVE  PoolDicts' # {} /\ PoolKeys' \subseteq C
        BY <2>1 DEF KeysWithinCandidates
      <3>2. Dicts(ValidPasses(PP)) \cup Dicts(ValidFails(PP, FF)) # {}
        BY <2>1, <3>1, Unfolded
      <3>3. DOMAIN ValidPasses(PP) \cup DOMAIN ValidFails(PP, FF) # {}
        BY <3>2 DEF Dicts
      <3>4. /\ DOMAIN pass_ss' = DOMAIN ValidPasses(PP)
            /\ DOMAIN fail_ss' = DOMAIN ValidFails(PP, FF)
        BY <2>1, Unfolded DEF PruneList
      <3>5. PoolDicts' # {}
        BY <3>3, <3>4 DEF PoolDicts, Dicts
      <3>6. /\ NewPasses(PP) \in SUBSET Snapshot /\ NewPasses(PP) \subseteq PP
            /\ NewFails(PP, FF) \in SUBSET Snapshot /\ NewFails(PP, FF) \subseteq FF
            /\ IsList(pass_ss) /\ IsList(fail_ss)
        BY <2>3 DEF NewPasses, NewFails, PoolInv, PoolTypeOK
      <3>7. DOMAIN pass_ss' \cup DOMAIN fail_ss' \subseteq PP \cup FF
        BY <2>7, <3>1, <3>4, <3>6, ValidEntries DEF ValidPasses, ValidFails
      <3>8. PICK ss \in PP \cup FF : ss \in Snapshot /\ PruneSnapshot(ss, PoolKeys') \in PoolDicts'
        BY <2>3, <2>5, <3>3, <3>4, <3>7 DEF EntriesFaithful, PoolDicts, Dicts
      <3>9. PoolKeys' \in SUBSET Vars
        BY DEF PoolKeys, CommonVars
      <3>10. PoolKeys' \subseteq Keys(PruneSnapshot(ss, PoolKeys'))
        BY <3>8 DEF PoolKeys, CommonVars
      <3>11. PoolKeys' \subseteq Keys(ss)
        BY <3>8, <3>9, <3>10, PruneFacts
      <3>12. QED  BY <2>4, <3>5, <3>8, <3>11
    <2>9. HashesInUse'
      BY <2>1, <2>7, HashesStayInUse DEF HashesInUse
    <2>10. QED  BY <1>0, <2>5, <2>6, <2>8, <2>9 DEF PoolInv
  <1>3. QED  BY <1>1, <1>2

\* The insertion of counter-examples preserves the invariant.
LEMMA CounterExampleStep ==
    ASSUME PoolInv, NEW P \in Batches, NEW F \in Batches, AddCounterExamples(P, F)
    PROVE  PoolInv'
  <1>1. /\ P \in SUBSET Snapshot /\ F \in SUBSET Snapshot
        /\ status = "ready" /\ Refining /\ cycle \in Nat /\ cycle > 0
        /\ PoolKeys # {} /\ AddNewSnapshots(P, F)
        /\ candidate_variables' = candidate_variables /\ cycle' = cycle
    BY BatchesAreSnapshots DEF AddCounterExamples, PoolInv, PoolTypeOK
  <1>2. PoolDicts # {} /\ PoolKeys \subseteq candidate_variables
    BY <1>1 DEF PoolInv, KeysWithinCandidates
  <1>3. /\ IsList(pass_ss') /\ IsList(fail_ss')
        /\ snapshot_hashes' \subseteq Snapshot
        /\ EntriesFaithful'
        /\ (DOMAIN pass_ss \cup DOMAIN fail_ss)' \subseteq snapshot_hashes'
    BY <1>1, InsertionSound DEF PoolInv
  <1>4. /\ DOMAIN pass_ss \subseteq DOMAIN pass_ss'
        /\ DOMAIN fail_ss \subseteq DOMAIN fail_ss'
        /\ PoolDicts' # {}
        /\ PoolKeys' \subseteq PoolKeys
        /\ status' = "ready"
    BY <1>1, <1>2, InsertionKeeps DEF PoolInv
  <1>5. PoolTypeOK'
    BY <1>1, <1>3, <1>4 DEF PoolInv, PoolTypeOK
  <1>6. KeysWithinCandidates'
    BY <1>1, <1>2, <1>4 DEF KeysWithinCandidates
  <1>7. HashesInUse'
    BY <1>1, <1>4, HashesStayInUse DEF PoolInv, HashesInUse
  <1>8. QED  BY <1>1, <1>3, <1>5, <1>6, <1>7 DEF PoolInv

\* Every insertion preserves the invariant.
LEMMA PoolInvNext == PoolInv /\ [PoolNext]_poolVars => PoolInv'
  <1> SUFFICES ASSUME PoolInv, [PoolNext]_poolVars
               PROVE  PoolInv'
    OBVIOUS
  <1>1. ASSUME NEW P \in Batches, NEW F \in Batches, NEW C \in SUBSET Vars,
               PostProcessInitial(P, F, C)
        PROVE  PoolInv'
    BY <1>1, InitialStep, BatchesAreSnapshots
  <1>2. ASSUME NEW P \in Batches, NEW F \in Batches, AddCounterExamples(P, F)
        PROVE  PoolInv'
    BY <1>2, CounterExampleStep
  <1>3. CASE UNCHANGED poolVars
    BY <1>3 DEF poolVars, PoolInv, PoolTypeOK, IsList, EntriesFaithful, PoolKeys,
                PoolDicts, Dicts, KeysWithinCandidates, HashesInUse
  <1>4. QED  BY <1>1, <1>2, <1>3 DEF PoolNext

-----------------------------------------------------------------------------
\* PoolInv holds in every reachable state of the pool.
THEOREM PoolInvariant == PoolSpec => []PoolInv
  <1>1. PoolInit => PoolInv
    BY PoolInvInit
  <1>2. PoolInv /\ [PoolNext]_poolVars => PoolInv'
    BY PoolInvNext
  <1>3. QED  BY <1>1, <1>2, PTL DEF PoolSpec

\* The state of the pool keeps its type (lists of dictionaries named by what
\* was hashed) through add_new_snapshots and post_process_of_initial_snapshots.
THEOREM PoolTyped == PoolSpec => []PoolTypeOK
  <1>1. PoolInv => PoolTypeOK
    BY DEF PoolInv
  <1>2. QED  BY <1>1, PoolInvariant, PTL

\* The pre-condition of generate_input_from_snapshots: after every insertion
\* all snapshots of the pool have the same keys.
THEOREM PoolHasUniversalKeys == PoolSpec => []UniversalKeys
  <1>1. PoolInv => UniversalKeys
    BY FaithfulKeys DEF PoolInv
  <1>2. QED  BY <1>1, PoolInvariant, PTL

\* In snapshot fuzzing sanitize_snapshots never lets a variable outside
\* values.candidate_variables reach inference, nor the pool become empty.
THEOREM PoolWithinCandidates == PoolSpec => []KeysWithinCandidates
  <1>1. PoolInv => KeysWithinCandidates
    BY DEF PoolInv
  <1>2. QED  BY <1>1, PoolInvariant, PTL

\* Pruning and de-duplication never alter a recorded state nor give it two
\* labels.
THEOREM PoolEntriesFaithful == PoolSpec => []EntriesFaithful
  <1>1. PoolInv => EntriesFaithful
    BY DEF PoolInv
  <1>2. QED  BY <1>1, PoolInvariant, PTL

\* is_new_snapshot turns down only states that the pool holds.
THEOREM PoolHashesInUse == PoolSpec => []HashesInUse
  <1>1. PoolInv => HashesInUse
    BY DEF PoolInv
  <1>2. QED  BY <1>1, PoolInvariant, PTL

\* One list after an insertion that lost none of its entries.
LEMMA GrowsWhenKept ==
    ASSUME NEW old, NEW new, NEW ko \in SUBSET Vars, NEW kn \in SUBSET Vars,
           DOMAIN old \subseteq DOMAIN new, DOMAIN old \subseteq Snapshot,
           \A e \in DOMAIN old : old[e] = PruneSnapshot(e, ko),
           \A e \in DOMAIN new : new[e] = PruneSnapshot(e, kn),
           kn \subseteq ko
    PROVE  ListGrows(old, new)
  <1>1. ASSUME NEW e \in DOMAIN old
        PROVE  new[e] = PruneSnapshot(old[e], kn)
    BY PruneTwice
  <1>2. QED  BY <1>1 DEF ListGrows

\* Insertions during snapshot fuzzing lose no entry, no label and no value,
\* and the pool's variables only become fewer.
THEOREM PoolEvidenceKept == PoolSpec => EvidenceKept
  <1> DEFINE Step == Refining /\ status' = "ready" =>
                        /\ ListGrows(pass_ss, pass_ss')
                        /\ ListGrows(fail_ss, fail_ss')
                        /\ cycle > 0 => PoolKeys' \subseteq PoolKeys
  <1>1. ASSUME PoolInv, PoolInv', [PoolNext]_poolVars, Refining, status' = "ready"
        PROVE  /\ ListGrows(pass_ss, pass_ss')
               /\ ListGrows(fail_ss, fail_ss')
               /\ cycle > 0 => PoolKeys' \subseteq PoolKeys
    <2>1. PoolKeys \in SUBSET Vars /\ PoolKeys' \in SUBSET Vars
      BY DEF PoolKeys, CommonVars
    <2>2. CASE cycle = 0 /\ cycle' = 1
      BY <1>1, <2>2 DEF PoolInv, ListGrows
    <2>3. CASE /\ DOMAIN pass_ss \subseteq DOMAIN pass_ss'
               /\ DOMAIN fail_ss \subseteq DOMAIN fail_ss'
               /\ PoolKeys' \subseteq PoolKeys
      <3>1. DOMAIN pass_ss \subseteq Snapshot /\ DOMAIN fail_ss \subseteq Snapshot
        BY <1>1 DEF PoolInv, PoolTypeOK, IsList
      <3>2. /\ \A e \in DOMAIN pass_ss : pass_ss[e] = PruneSnapshot(e, PoolKeys)
            /\ \A e \in DOMAIN fail_ss : fail_ss[e] = PruneSnapshot(e, PoolKeys)
            /\ \A e \in DOMAIN pass_ss' : pass_ss'[e] = PruneSnapshot(e, PoolKeys')
            /\ \A e \in DOMAIN fail_ss' : fail_ss'[e] = PruneSnapshot(e, PoolKeys')
        BY <1>1 DEF PoolInv, EntriesFaithful
      <3>3. ASSUME NEW old, NEW new,
                   DOMAIN old \subseteq DOMAIN new, DOMAIN old \subseteq Snapshot,
                   \A e \in DOMAIN old : old[e] = PruneSnapshot(e, PoolKeys),
                   \A e \in DOMAIN new : new[e] = PruneSnapshot(e, PoolKeys')
            PROVE  ListGrows(old, new)
        BY <2>1, <2>3, <3>3, GrowsWhenKept, Zenon
      <3>4. ListGrows(pass_ss, pass_ss')
        BY <2>3, <3>1, <3>2, <3>3, Zenon
      <3>5. ListGrows(fail_ss, fail_ss')
        BY <2>3, <3>1, <3>2, <3>3, Zenon
      <3>6. QED  BY <2>3, <3>4, <3>5
    <2>4. ASSUME NEW P \in Batches, NEW F \in Batches, NEW C \in SUBSET Vars,
                 PostProcessInitial(P, F, C)
          PROVE  cycle = 0 /\ cycle' = 1
      BY <1>1, <2>4 DEF PostProcessInitial, DecideVarsToInclude, PoolInv, PoolTypeOK
    <2>5. ASSUME NEW P \in Batches, NEW F \in Batches, AddCounterExamples(P, F)
          PROVE  /\ DOMAIN pass_ss \subseteq DOMAIN pass_ss'
                 /\ DOMAIN fail_ss \subseteq DOMAIN fail_ss'
                 /\ PoolKeys' \subseteq PoolKeys
      <3>1. /\ P \in SUBSET Snapshot /\ F \in SUBSET Snapshot
            /\ status = "ready" /\ cycle \in Nat /\ cycle > 0
            /\ PoolKeys # {} /\ AddNewSnapshots(P, F)
        BY <1>1, <2>5, BatchesAreSnapshots DEF AddCounterExamples, PoolInv, PoolTypeOK
      <3>2. PoolDicts # {}
        BY <1>1, <3>1 DEF PoolInv, KeysWithinCandidates
      <3>3. QED  BY <1>1, <3>1, <3>2, InsertionKeeps DEF PoolInv
    <2>6. ASSUME UNCHANGED poolVars
          PROVE  /\ DOMAIN pass_ss \subseteq DOMAIN pass_ss'
                 /\ DOMAIN fail_ss \subseteq DOMAIN fail_ss'
                 /\ PoolKeys' \subseteq PoolKeys
      BY <2>6 DEF poolVars, PoolKeys, PoolDicts, Dicts
    <2>7. QED  BY <1>1, <2>2, <2>3, <2>4, <2>5, <2>6 DEF PoolNext
  <1>2. PoolInv /\ PoolInv' /\ [PoolNext]_poolVars => [Step]_poolVars
    BY <1>1
  <1>3. QED  BY <1>2, PoolInvariant, PTL DEF PoolSpec, EvidenceKept

=============================================================================
