---------------------------- MODULE AttemptProofs ----------------------------
(***************************************************************************)
(* Proofs about StateStore and AttemptExecution for every number of jobs,  *)
(* sessions and uploads, every quota and every size of an archive, and     *)
(* every pattern of failures and crashes.                                  *)
(***************************************************************************)
EXTENDS AttemptExecution, FiniteSetTheorems, FunctionTheorems, TLAPS

-----------------------------------------------------------------------------
(* The bytes of a set of files, for any contents d of the disk. *)
Blocks(d, fs) == {x \in fs \X (1..MaxStateBytes) : x[2] <= d[x[1]].size}

(* The volume holds finitely many files. *)
LEMMA FilesFinite == IsFiniteSet(Files)
<1>1. IsFiniteSet(Results)
  <2> DEFINE g == [j \in Jobs |-> Result(j)]
  <2>1. g \in Surjection(Jobs, Results)
    BY DEF Results, Surjection
  <2>2. QED
    BY <2>1, FS_Surjection, StateStoreAssumption
<1>2. IsFiniteSet(LiveCaches)
  <2> DEFINE g == [s \in Sessions |-> LiveCache(s)]
  <2>1. g \in Surjection(Sessions, LiveCaches)
    BY DEF LiveCaches, Surjection
  <2>2. QED
    BY <2>1, FS_Surjection, StateStoreAssumption
<1>3. IsFiniteSet(Blobs)
  <2> DEFINE g == [u \in Uploads |-> Blob(u)]
  <2>1. g \in Surjection(Uploads, Blobs)
    BY DEF Blobs, Surjection
  <2>2. QED
    BY <2>1, FS_Surjection, StateStoreAssumption
<1>4. IsFiniteSet({CompileCache})
  BY FS_Singleton
<1>5. QED
  BY <1>1, <1>2, <1>3, <1>4, FS_Union DEF Files

(* Their bytes can be counted. *)
LEMMA BlocksFinite ==
    ASSUME NEW d, NEW fs \in SUBSET Files
    PROVE  IsFiniteSet(Blocks(d, fs)) /\ Cardinality(Blocks(d, fs)) \in Nat
<1>1. IsFiniteSet(fs) /\ IsFiniteSet(1..MaxStateBytes)
  BY FilesFinite, FS_Subset, FS_Interval, StateStoreAssumption
<1>2. IsFiniteSet(fs \X (1..MaxStateBytes))
  BY <1>1, FS_Product
<1>3. Blocks(d, fs) \in SUBSET (fs \X (1..MaxStateBytes))
  BY DEF Blocks
<1>4. QED
  BY <1>2, <1>3, FS_Subset, FS_CardinalityType

(* A file has as many bytes as its size says. *)
LEMMA OneFile ==
    ASSUME NEW d \in [Files -> File], NEW f \in Files
    PROVE  Cardinality(Blocks(d, {f})) = d[f].size
<1> DEFINE n == d[f].size
           g == [b \in 1..n |-> <<f, b>>]
<1>1. n \in 0..MaxStateBytes /\ MaxStateBytes \in Nat
  BY StateStoreAssumption DEF File
<1>2. Blocks(d, {f}) = {<<f, b>> : b \in 1..n}
  <2>1. ASSUME NEW x \in Blocks(d, {f}) PROVE x \in {<<f, b>> : b \in 1..n}
    <3>1. x = <<x[1], x[2]>> /\ x[1] = f /\ x[2] \in 1..MaxStateBytes /\ x[2] <= n
      BY DEF Blocks
    <3>2. x[2] \in 1..n
      BY <1>1, <3>1
    <3>3. QED
      BY <3>1, <3>2
  <2>2. ASSUME NEW b \in 1..n PROVE <<f, b>> \in Blocks(d, {f})
    BY <1>1 DEF Blocks
  <2>3. QED
    BY <2>1, <2>2
<1> HIDE DEF n
<1>3. g \in Bijection(1..n, Blocks(d, {f}))
  <2>1. g \in [1..n -> Blocks(d, {f})]
    BY <1>2
  <2>2. \A a, b \in 1..n : g[a] = g[b] => a = b
    OBVIOUS
  <2>3. \A x \in Blocks(d, {f}) : \E a \in 1..n : g[a] = x
    BY <1>2
  <2> HIDE DEF g
  <2>4. QED
    BY <2>1, <2>2, <2>3, Fun_IsBij
<1>4. IsFiniteSet(1..n) /\ Cardinality(1..n) = n
  BY <1>1, FS_Interval
<1>5. Cardinality(Blocks(d, {f})) = n
  BY <1>3, <1>4, FS_Bijection DEF ExistsBijection
<1>6. QED
  BY <1>5 DEF n

(* The bytes of two separate sets of files add up. *)
LEMMA TwoSets ==
    ASSUME NEW d, NEW fs \in SUBSET Files
    PROVE  Cardinality(Blocks(d, Files)) = Cardinality(Blocks(d, fs)) + Cardinality(Blocks(d, Files \ fs))
<1>1. /\ Blocks(d, Files) = Blocks(d, fs) \cup Blocks(d, Files \ fs)
      /\ Blocks(d, fs) \cap Blocks(d, Files \ fs) = {}
  BY DEF Blocks
<1>2. /\ IsFiniteSet(Blocks(d, fs)) /\ IsFiniteSet(Blocks(d, Files \ fs))
      /\ Cardinality(Blocks(d, fs)) \in Nat /\ Cardinality(Blocks(d, Files \ fs)) \in Nat
  BY BlocksFinite
<1>3. Cardinality(Blocks(d, fs) \cup Blocks(d, Files \ fs))
        = Cardinality(Blocks(d, fs)) + Cardinality(Blocks(d, Files \ fs)) - Cardinality({})
  BY <1>1, <1>2, FS_Union
<1>4. QED
  BY <1>1, <1>2, <1>3, FS_EmptySet

(* Files of the same size have the same bytes. *)
LEMMA SameSizes ==
    ASSUME NEW d, NEW e, NEW fs, \A f \in fs : d[f].size = e[f].size
    PROVE  Blocks(d, fs) = Blocks(e, fs)
BY DEF Blocks

(* Replacing one file changes the directory by the difference. *)
LEMMA ReplaceOne ==
    ASSUME NEW d \in [Files -> File], NEW e \in [Files -> File], NEW f \in Files,
           \A g \in Files \ {f} : e[g].size = d[g].size
    PROVE  /\ Cardinality(Blocks(e, Files)) = Cardinality(Blocks(d, Files)) - d[f].size + e[f].size
           /\ d[f].size <= Cardinality(Blocks(d, Files))
<1> DEFINE rest == Cardinality(Blocks(d, Files \ {f}))
<1>1. Blocks(e, Files \ {f}) = Blocks(d, Files \ {f})
  BY SameSizes
<1>2. /\ Cardinality(Blocks(d, Files)) = d[f].size + rest
      /\ Cardinality(Blocks(e, Files)) = e[f].size + rest
  <2>1. {f} \in SUBSET Files
    OBVIOUS
  <2>2. /\ Cardinality(Blocks(d, Files)) = Cardinality(Blocks(d, {f})) + Cardinality(Blocks(d, Files \ {f}))
        /\ Cardinality(Blocks(e, Files)) = Cardinality(Blocks(e, {f})) + Cardinality(Blocks(e, Files \ {f}))
    BY <2>1, TwoSets
  <2>3. Cardinality(Blocks(d, {f})) = d[f].size /\ Cardinality(Blocks(e, {f})) = e[f].size
    BY OneFile
  <2>4. QED
    BY <1>1, <2>2, <2>3
<1>3. rest \in Nat /\ d[f].size \in Nat /\ e[f].size \in Nat
  BY BlocksFinite, StateStoreAssumption DEF File
<1> HIDE DEF rest
<1>4. QED
  BY <1>2, <1>3

(* Removing files frees their bytes. *)
LEMMA RemoveSome ==
    ASSUME NEW d \in [Files -> File], NEW fs \in SUBSET Files, NEW e,
           e = [f \in Files |-> IF f \in fs THEN NoFile ELSE d[f]]
    PROVE  /\ Cardinality(Blocks(e, Files)) = Cardinality(Blocks(d, Files)) - Cardinality(Blocks(d, fs))
           /\ Cardinality(Blocks(e, Files)) = Cardinality(Blocks(d, Files \ fs))
           /\ Cardinality(Blocks(d, fs)) <= Cardinality(Blocks(d, Files))
<1>1. Blocks(e, fs) = {}
  BY DEF Blocks, NoFile
<1>2. Blocks(e, Files \ fs) = Blocks(d, Files \ fs)
  BY SameSizes
<1>3. Cardinality(Blocks(e, fs)) = 0
  BY <1>1, FS_EmptySet
<1>4. /\ Cardinality(Blocks(d, fs)) \in Nat /\ Cardinality(Blocks(d, Files \ fs)) \in Nat
      /\ Cardinality(Blocks(d, Files)) = Cardinality(Blocks(d, fs)) + Cardinality(Blocks(d, Files \ fs))
      /\ Cardinality(Blocks(e, Files)) = Cardinality(Blocks(e, fs)) + Cardinality(Blocks(d, Files \ fs))
  BY <1>2, BlocksFinite, TwoSets
<1>5. QED
  BY <1>3, <1>4

(* Stripping results frees their auxiliary bytes, once for each.           *)
LEMMA StripSome ==
    ASSUME NEW d \in [Files -> File], NEW js \in SUBSET Jobs,
           \A j \in js : d[Result(j)].size = ResultBytes
    PROVE  /\ Cardinality(Blocks(Stripped(d, js), Files))
                = Cardinality(Blocks(d, Files)) - AuxiliaryBytes * Cardinality(js)
           /\ AuxiliaryBytes * Cardinality(js) \in Nat
<1> DEFINE e == Stripped(d, js)
           A == AuxiliaryBytes
           R == ResultBytes
           freed == {<<Result(p[1]), R - A + p[2]>> : p \in js \X (1..A)}
           g == [p \in js \X (1..A) |-> <<Result(p[1]), R - A + p[2]>>]
<1>1. R \in Nat /\ A \in 1..(R - 1) /\ MaxStateBytes \in Nat
  BY StateStoreAssumption
<1>2. \A j \in js : Result(j) \in Files /\ R <= MaxStateBytes
  BY StateStoreAssumption DEF Files, Results, File
<1>3. \A f \in Files : e[f].size = IF \E j \in js : f = Result(j) THEN R - A ELSE d[f].size
  BY DEF Stripped, File
<1>4. g \in Bijection(js \X (1..A), freed)
  <2>1. \A p, q \in js \X (1..A) : g[p] = g[q] => p = q
    BY <1>1 DEF Result
  <2>2. g \in [js \X (1..A) -> freed] /\ \A x \in freed : \E p \in js \X (1..A) : g[p] = x
    OBVIOUS
  <2> HIDE DEF g, freed
  <2>3. QED
    BY <2>1, <2>2, Fun_IsBij
<1>5. /\ IsFiniteSet(js \X (1..A)) /\ Cardinality(js \X (1..A)) = Cardinality(js) * A
      /\ Cardinality(js) \in Nat
  <2>1. IsFiniteSet(js) /\ Cardinality(js) \in Nat
    BY StateStoreAssumption, FS_Subset, FS_CardinalityType
  <2>2. IsFiniteSet(1..A) /\ Cardinality(1..A) = A
    BY <1>1, FS_Interval
  <2>3. QED
    BY <2>1, <2>2, FS_Product
<1>6. IsFiniteSet(freed) /\ Cardinality(freed) = Cardinality(js) * A
  BY <1>4, <1>5, FS_Bijection DEF ExistsBijection
<1>7. Blocks(d, Files) = Blocks(e, Files) \cup freed /\ Blocks(e, Files) \cap freed = {}
  <2>1. ASSUME NEW x \in Blocks(d, Files) PROVE x \in Blocks(e, Files) \cup freed
    <3>1. /\ x = <<x[1], x[2]>> /\ x[1] \in Files /\ x[2] \in 1..MaxStateBytes /\ x[2] <= d[x[1]].size
          /\ x \in Files \X (1..MaxStateBytes)
      BY DEF Blocks
    <3>2. CASE ~(\E j \in js : x[1] = Result(j)) \/ x[2] <= R - A
      BY <1>3, <3>1, <3>2 DEF Blocks
    <3>3. CASE (\E j \in js : x[1] = Result(j)) /\ ~(x[2] <= R - A)
      <4>1. PICK j \in js : x[1] = Result(j)
        BY <3>3
      <4>2. d[x[1]].size = R
        BY <4>1
      <4>3. x[2] - (R - A) \in 1..A /\ x[2] = R - A + (x[2] - (R - A))
        BY <1>1, <3>1, <3>3, <4>2
      <4>4. <<j, x[2] - (R - A)>> \in js \X (1..A)
        BY <4>3
      <4>5. x = <<Result(<<j, x[2] - (R - A)>>[1]), R - A + <<j, x[2] - (R - A)>>[2]>>
        BY <3>1, <4>1, <4>3
      <4>6. QED
        BY <4>4, <4>5
    <3>4. QED
      BY <3>2, <3>3
  <2>2. ASSUME NEW x \in Blocks(e, Files) PROVE x \in Blocks(d, Files) /\ x \notin freed
    <3>1. /\ x[1] \in Files /\ x[2] \in 1..MaxStateBytes /\ x[2] <= e[x[1]].size
          /\ x \in Files \X (1..MaxStateBytes)
      BY DEF Blocks
    <3>2. x[2] <= d[x[1]].size
      BY <1>1, <1>3, <3>1
    <3>3. x \notin freed
      BY <1>1, <1>2, <1>3, <3>1
    <3>4. QED
      BY <3>1, <3>2, <3>3 DEF Blocks
  <2>3. ASSUME NEW p \in js \X (1..A) PROVE <<Result(p[1]), R - A + p[2]>> \in Blocks(d, Files)
    <3>1. p[1] \in js /\ p[2] \in 1..A /\ R - A + p[2] \in 1..R
      BY <1>1
    <3>2. Result(p[1]) \in Files /\ R - A + p[2] \in 1..MaxStateBytes /\ R - A + p[2] <= d[Result(p[1])].size
      BY <1>1, <1>2, <3>1
    <3>3. QED
      BY <3>2 DEF Blocks
  <2>4. QED
    BY <2>1, <2>2, <2>3
<1>8. IsFiniteSet(Blocks(e, Files)) /\ Cardinality(Blocks(e, Files)) \in Nat
  BY BlocksFinite
<1> HIDE DEF freed, e, A
<1>9. Cardinality(Blocks(d, Files)) = Cardinality(Blocks(e, Files)) + Cardinality(js) * A
  <2>1. Cardinality(Blocks(e, Files) \cup freed)
          = Cardinality(Blocks(e, Files)) + Cardinality(freed) - Cardinality({})
    BY <1>6, <1>7, <1>8, FS_Union
  <2>2. Cardinality(freed) \in Nat
    BY <1>6, FS_CardinalityType
  <2>3. Cardinality(Blocks(d, Files)) = Cardinality(Blocks(e, Files)) + Cardinality(freed)
    BY <1>7, <1>8, <2>1, <2>2, FS_EmptySet
  <2>4. QED
    BY <1>6, <2>3
<1>10. Cardinality(js) * A = A * Cardinality(js) /\ A * Cardinality(js) \in Nat
  BY <1>1, <1>5
<1>11. QED
  BY <1>8, <1>9, <1>10 DEF e, A

-----------------------------------------------------------------------------
(* The volume: QuotaHeld and its types are kept by every operation on it.  *)
StoreInv == StoreTypeOK /\ QuotaHeld

(* The parts of StoreInv as numbers, and directorySize by its bytes.       *)
LEMMA StoreFacts ==
    ASSUME StoreInv
    PROVE  /\ disk \in [Files -> File] /\ pub \in [Writers -> Publication] /\ litter \in Nat
           /\ stateBytes \in Nat /\ pendingBytes \in Nat
           /\ stateBytes + pendingBytes <= MaxStateBytes
           /\ Cardinality(Blocks(disk, Files)) <= stateBytes
           /\ Cardinality(Blocks(disk, Files)) \in Nat
           /\ pendingBytes = StagedBytes * Cardinality(Reserving)
           /\ IsFiniteSet(Reserving) /\ Cardinality(Reserving) \in Nat
           /\ \A fs : Bytes(fs) = Cardinality(Blocks(disk, fs))
           /\ \A f \in Files : disk[f].size \in Nat /\ disk[f] \in File
<1>1. IsFiniteSet(Writers)
  BY FS_Union, StateStoreAssumption DEF Writers
<1>2. IsFiniteSet(Reserving) /\ Cardinality(Reserving) \in Nat
  BY <1>1, FS_Subset, FS_CardinalityType DEF Reserving
<1>3. \A fs : Bytes(fs) = Cardinality(Blocks(disk, fs))
  BY DEF Bytes, Blocks
<1>4. Cardinality(Blocks(disk, Files)) <= stateBytes
  BY <1>3 DEF StoreInv, QuotaHeld, directorySize
<1>5. stateBytes \in 0..MaxStateBytes /\ pendingBytes \in 0..MaxStateBytes
  BY DEF StoreInv, StoreTypeOK
<1>6. stateBytes \in Nat /\ pendingBytes \in Nat
  BY <1>5, StateStoreAssumption
<1>7. \A f \in Files : disk[f].size \in Nat /\ disk[f] \in File
  BY StateStoreAssumption DEF StoreInv, StoreTypeOK, File
<1>8. Cardinality(Blocks(disk, Files)) \in Nat
  BY BlocksFinite
<1>9. QED
  BY <1>2, <1>3, <1>4, <1>6, <1>7, <1>8 DEF StoreInv, StoreTypeOK, QuotaHeld

(* What is to be shown of the next state. *)
LEMMA StoreGoal ==
    ASSUME disk' \in [Files -> File], pub' \in [Writers -> Publication], litter' \in Nat,
           stateBytes' \in Nat, pendingBytes' \in Nat,
           stateBytes' + pendingBytes' <= MaxStateBytes,
           Cardinality(Blocks(disk', Files)) <= stateBytes',
           pendingBytes' = StagedBytes * Cardinality(Reserving')
    PROVE  StoreInv'
<1>1. stateBytes' \in 0..MaxStateBytes /\ pendingBytes' \in 0..MaxStateBytes
  BY StateStoreAssumption
<1>2. directorySize' = Cardinality(Blocks(disk', Files))
  BY DEF directorySize, Bytes, Blocks
<1>3. QED
  BY <1>1, <1>2 DEF StoreInv, StoreTypeOK, QuotaHeld

(* A writer that begins or ends a publication reserves or frees its bytes. *)
LEMMA ReservingStep ==
    ASSUME StoreInv, NEW w \in Writers, NEW p \in Publication, pub' = [pub EXCEPT ![w] = p]
    PROVE  /\ pub' \in [Writers -> Publication]
           /\ p.phase # "none" => Reserving' = Reserving \cup {w}
           /\ p.phase = "none" => Reserving' = Reserving \ {w}
           /\ pub[w].phase # "none" <=> w \in Reserving
<1>1. pub \in [Writers -> Publication]
  BY StoreFacts
<1>2. \A v \in Writers : pub'[v] = IF v = w THEN p ELSE pub[v]
  BY <1>1
<1>3. QED
  BY <1>1, <1>2 DEF Reserving

(* One more or one fewer reservation. *)
LEMMA OneStaged ==
    ASSUME NEW n \in Nat
    PROVE  /\ StagedBytes * (n + 1) = StagedBytes * n + StagedBytes
           /\ n > 0 => /\ StagedBytes * (n - 1) = StagedBytes * n - StagedBytes
                       /\ StagedBytes <= StagedBytes * n
           /\ StagedBytes \in Nat /\ StagedBytes * n \in Nat
<1>1. StagedBytes \in Nat
  BY StateStoreAssumption
<1>2. StagedBytes * (n + 1) = StagedBytes * n + StagedBytes /\ StagedBytes * n \in Nat
  BY <1>1
<1>3. ASSUME n > 0 PROVE StagedBytes * (n - 1) = StagedBytes * n - StagedBytes /\ StagedBytes <= StagedBytes * n
  <2>1. PICK m \in Nat : n = m + 1
    <3>1. n - 1 \in Nat /\ n = (n - 1) + 1
      BY <1>3
    <3>2. QED
      BY <3>1
  <2>2. StagedBytes * n = StagedBytes * m + StagedBytes /\ StagedBytes * m \in Nat /\ n - 1 = m
    BY <1>1, <2>1
  <2>3. QED
    BY <1>1, <2>2
<1>4. QED
  BY <1>1, <1>2, <1>3

(* Taking a place: Reserve. *)
LEMMA ReserveKeeps ==
    ASSUME StoreInv, NEW w \in Writers, NEW f \in Files, Reserve(w, f)
    PROVE  StoreInv'
<1> DEFINE p == [phase |-> "reserved", file |-> f]
           n == Cardinality(Reserving)
<1>1. p \in Publication /\ p.phase # "none"
  BY DEF Publication
<1>2. pub' = [pub EXCEPT ![w] = p] /\ pub[w].phase = "none"
  BY DEF Reserve
<1>3. Reserving' = Reserving \cup {w} /\ w \notin Reserving /\ pub' \in [Writers -> Publication]
  BY <1>1, <1>2, ReservingStep
<1>4. n \in Nat /\ Cardinality(Reserving') = n + 1
  BY <1>3, StoreFacts, FS_AddElement
<1>5. pendingBytes' = StagedBytes * (n + 1) /\ pendingBytes' \in Nat
  BY <1>4, StoreFacts, OneStaged DEF Reserve
<1>6. stateBytes' + pendingBytes' <= MaxStateBytes
  BY StoreFacts, OneStaged, StateStoreAssumption DEF Reserve, Available
<1>7. disk' = disk /\ stateBytes' = stateBytes /\ litter' = litter
  BY DEF Reserve
<1>8. QED
  BY <1>3, <1>4, <1>5, <1>6, <1>7, StoreFacts, StoreGoal

(* A sibling is completed, or cannot be removed: nothing is counted.       *)
LEMMA StageKeeps ==
    ASSUME StoreInv, NEW w \in Writers, Stage(w) \/ DiscardFails(w)
    PROVE  StoreInv'
<1>1. PICK ph \in {"staged", "stuck"} :
        /\ pub' = [pub EXCEPT ![w].phase = ph] /\ pub[w].phase # "none"
        /\ UNCHANGED <<disk, stateBytes, pendingBytes, litter>>
  BY DEF Stage, DiscardFails
<1> DEFINE p == [pub[w] EXCEPT !.phase = ph]
<1>2. p \in Publication /\ p.phase # "none" /\ pub' = [pub EXCEPT ![w] = p]
  BY <1>1, StoreFacts DEF Publication
<1> HIDE DEF p
<1>3. Reserving' = Reserving \cup {w} /\ w \in Reserving /\ pub' \in [Writers -> Publication]
  BY <1>1, <1>2, ReservingStep
<1>4. Reserving' = Reserving
  BY <1>3
<1>5. QED
  BY <1>1, <1>3, <1>4, StoreFacts, StoreGoal

(* A reservation is given back. *)
LEMMA FreedPlace ==
    ASSUME StoreInv, NEW w \in Writers, pub[w].phase # "none",
           pub' = [pub EXCEPT ![w] = NoPublication], pendingBytes' = pendingBytes - StagedBytes
    PROVE  /\ pub' \in [Writers -> Publication] /\ pendingBytes' \in Nat
           /\ pendingBytes' = StagedBytes * Cardinality(Reserving')
           /\ StagedBytes <= pendingBytes
<1> DEFINE n == Cardinality(Reserving)
<1>1. NoPublication \in Publication /\ NoPublication.phase = "none"
  BY DEF Publication, NoPublication, Files
<1>2. Reserving' = Reserving \ {w} /\ w \in Reserving /\ pub' \in [Writers -> Publication]
  BY <1>1, ReservingStep
<1>3. n \in Nat /\ n > 0 /\ Cardinality(Reserving') = n - 1
  <2>1. n \in Nat /\ Cardinality(Reserving') = n - 1 /\ n # 0
    BY <1>2, StoreFacts, FS_RemoveElement, FS_EmptySet
  <2>2. QED
    BY <2>1
<1> HIDE DEF n
<1>4. /\ StagedBytes * (n - 1) = StagedBytes * n - StagedBytes /\ StagedBytes <= StagedBytes * n
      /\ StagedBytes \in Nat /\ StagedBytes * n \in Nat
  BY <1>3, OneStaged
<1>5. pendingBytes = StagedBytes * n
  BY StoreFacts DEF n
<1>6. QED
  BY <1>2, <1>3, <1>4, <1>5

(* Discard and StageLeaves. *)
LEMMA DiscardKeeps ==
    ASSUME StoreInv, NEW w \in Writers, Discard(w) \/ StageLeaves(w)
    PROVE  StoreInv'
<1>1. /\ pub[w].phase # "none" /\ pub' = [pub EXCEPT ![w] = NoPublication]
      /\ pendingBytes' = pendingBytes - StagedBytes /\ UNCHANGED <<disk, stateBytes>>
      /\ litter' \in {litter, litter + 1}
  BY DEF Discard, StageLeaves
<1>2. /\ pub' \in [Writers -> Publication] /\ pendingBytes' \in Nat
      /\ pendingBytes' = StagedBytes * Cardinality(Reserving')
      /\ litter' \in Nat
  <2>1. litter' \in Nat
    BY <1>1, StoreFacts
  <2>2. QED
    BY <1>1, <2>1, FreedPlace
<1>3. stateBytes' + pendingBytes' <= MaxStateBytes
  BY <1>1, <1>2, StoreFacts, StateStoreAssumption
<1>4. QED
  BY <1>1, <1>2, <1>3, StoreFacts, StoreGoal

(* CommitLocked replaces one file and frees one reservation.               *)
LEMMA CommitKeeps ==
    ASSUME StoreInv, NEW w \in Writers, NEW by \in Jobs \cup {Nobody}, CommitLocked(w, by)
    PROVE  StoreInv'
<1> DEFINE f == pub[w].file
           new == [size |-> StagedBytes, by |-> by, aged |-> FALSE]
<1>1. /\ pub[w].phase # "none" /\ pub' = [pub EXCEPT ![w] = NoPublication]
      /\ pendingBytes' = pendingBytes - StagedBytes /\ litter' = litter
      /\ disk' = [disk EXCEPT ![f] = new]
      /\ stateBytes' = stateBytes + StagedBytes - disk[f].size
  BY DEF CommitLocked
<1>2. /\ pub' \in [Writers -> Publication] /\ pendingBytes' \in Nat
      /\ pendingBytes' = StagedBytes * Cardinality(Reserving') /\ StagedBytes <= pendingBytes
  BY <1>1, FreedPlace
<1>3. f \in Files
  BY StoreFacts DEF Publication
<1>4. new \in File
  <2>1. StagedBytes \in 0..MaxStateBytes
    BY <1>2, StoreFacts, StateStoreAssumption
  <2>2. QED
    BY <2>1 DEF File
<1>5. disk' \in [Files -> File] /\ disk'[f].size = StagedBytes /\ \A g \in Files \ {f} : disk'[g].size = disk[g].size
  BY <1>1, <1>3, <1>4, StoreFacts
<1> HIDE DEF f, new
<1>6. /\ Cardinality(Blocks(disk', Files)) = Cardinality(Blocks(disk, Files)) - disk[f].size + StagedBytes
      /\ disk[f].size <= Cardinality(Blocks(disk, Files))
  BY <1>3, <1>5, StoreFacts, ReplaceOne
<1>7. /\ stateBytes' \in Nat /\ stateBytes' + pendingBytes' <= MaxStateBytes
      /\ Cardinality(Blocks(disk', Files)) <= stateBytes'
  <2>1. StagedBytes \in Nat /\ disk[f].size \in Nat /\ MaxStateBytes \in Nat
    BY <1>3, StoreFacts, StateStoreAssumption
  <2>2. QED
    BY <1>1, <1>6, <2>1, StoreFacts
<1>8. QED
  BY <1>1, <1>2, <1>5, <1>7, StoreFacts, StoreGoal

(* Operations under m.mu that leave the publications alone.                *)
LEMMA DiskStep ==
    ASSUME StoreInv, UNCHANGED <<pub, pendingBytes, litter>>, disk' \in [Files -> File],
           stateBytes' \in Nat, stateBytes' <= stateBytes \/ stateBytes' + pendingBytes <= MaxStateBytes,
           Cardinality(Blocks(disk', Files)) <= stateBytes'
    PROVE  StoreInv'
<1>1. Reserving' = Reserving
  BY DEF Reserving
<1>2. stateBytes' + pendingBytes' <= MaxStateBytes
  BY StoreFacts, StateStoreAssumption
<1>3. QED
  BY <1>1, <1>2, StoreFacts, StoreGoal

(* WriteResult replaces one archive within what is available.              *)
LEMMA WriteResultKeeps ==
    ASSUME StoreInv, NEW j \in Jobs, WriteResult(j)
    PROVE  StoreInv'
<1> DEFINE f == Result(j)
           new == [size |-> ResultBytes, by |-> j, aged |-> FALSE]
<1>1. /\ ResultBytes <= MaxStateBytes - stateBytes - pendingBytes
      /\ disk' = [disk EXCEPT ![f] = new]
      /\ stateBytes' = stateBytes + ResultBytes - disk[f].size
      /\ UNCHANGED <<pub, pendingBytes, litter>>
  BY DEF WriteResult, Available
<1>2. f \in Files
  BY DEF Files, Results
<1>3. new \in File
  <2>1. ResultBytes \in 0..MaxStateBytes
    BY <1>1, StoreFacts, StateStoreAssumption
  <2>2. QED
    BY <2>1 DEF File
<1>4. disk' \in [Files -> File] /\ disk'[f].size = ResultBytes /\ \A g \in Files \ {f} : disk'[g].size = disk[g].size
  BY <1>1, <1>2, <1>3, StoreFacts
<1> HIDE DEF f, new
<1>5. /\ Cardinality(Blocks(disk', Files)) = Cardinality(Blocks(disk, Files)) - disk[f].size + ResultBytes
      /\ disk[f].size <= Cardinality(Blocks(disk, Files))
  BY <1>2, <1>4, StoreFacts, ReplaceOne
<1>6. /\ stateBytes' \in Nat /\ stateBytes' + pendingBytes <= MaxStateBytes
      /\ Cardinality(Blocks(disk', Files)) <= stateBytes'
  <2>1. ResultBytes \in Nat /\ disk[f].size \in Nat /\ MaxStateBytes \in Nat
    BY <1>2, StoreFacts, StateStoreAssumption
  <2>2. QED
    BY <1>1, <1>5, <2>1, StoreFacts
<1>7. QED
  BY <1>1, <1>4, <1>6, DiskStep

(* Without removes files, and Stripped shrinks archives.                   *)
LEMMA WithoutFacts ==
    ASSUME StoreInv, NEW fs \in SUBSET Files
    PROVE  /\ Without(fs) \in [Files -> File]
           /\ Cardinality(Blocks(Without(fs), Files)) = directorySize - Bytes(fs)
           /\ Cardinality(Blocks(Without(fs), Files)) = Bytes(Files \ fs)
           /\ Bytes(fs) <= directorySize /\ Bytes(fs) \in Nat
           /\ directorySize \in Nat /\ directorySize <= stateBytes
           /\ directorySize - Bytes(fs) \in Nat /\ directorySize - Bytes(fs) <= stateBytes
<1>1. NoFile \in File
  BY StateStoreAssumption DEF NoFile, File
<1>2. Without(fs) \in [Files -> File]
  BY <1>1, StoreFacts DEF Without
<1>3. /\ Bytes(fs) = Cardinality(Blocks(disk, fs)) /\ directorySize = Cardinality(Blocks(disk, Files))
      /\ Bytes(Files \ fs) = Cardinality(Blocks(disk, Files \ fs))
  BY StoreFacts DEF directorySize
<1>4. /\ Cardinality(Blocks(Without(fs), Files)) = Cardinality(Blocks(disk, Files)) - Cardinality(Blocks(disk, fs))
      /\ Cardinality(Blocks(Without(fs), Files)) = Cardinality(Blocks(disk, Files \ fs))
      /\ Cardinality(Blocks(disk, fs)) <= Cardinality(Blocks(disk, Files))
  BY StoreFacts, RemoveSome DEF Without
<1>5. Cardinality(Blocks(disk, fs)) \in Nat
  BY BlocksFinite
<1>6. QED
  BY <1>2, <1>3, <1>4, <1>5, StoreFacts

(* Taking results away leaves a well-typed directory. *)
LEMMA StrippedType ==
    ASSUME NEW d \in [Files -> File], NEW js \in SUBSET Jobs, \A j \in js : d[Result(j)].size = ResultBytes
    PROVE  Stripped(d, js) \in [Files -> File]
<1>1. ASSUME NEW f \in Files, \E j \in js : f = Result(j)
      PROVE  [d[f] EXCEPT !.size = ResultBytes - AuxiliaryBytes] \in File
  <2>1. d[f] \in File /\ d[f].size = ResultBytes
    BY <1>1
  <2>2. ResultBytes - AuxiliaryBytes \in 0..MaxStateBytes
    BY <2>1, StateStoreAssumption DEF File
  <2>3. QED
    BY <2>1, <2>2 DEF File
<1>2. QED
  BY <1>1 DEF Stripped

(* Deletions of single files. *)
LEMMA DeleteKeeps ==
    ASSUME StoreInv, NEW f \in Files, disk' = Without({f}),
           stateBytes' = stateBytes - disk[f].size, UNCHANGED <<pub, pendingBytes, litter>>
    PROVE  StoreInv' /\ stateBytes - disk[f].size \in Nat
<1>1. Bytes({f}) = disk[f].size
  BY StoreFacts, OneFile
<1>2. /\ Without({f}) \in [Files -> File]
      /\ Cardinality(Blocks(Without({f}), Files)) = directorySize - disk[f].size
      /\ disk[f].size <= directorySize /\ disk[f].size \in Nat
      /\ directorySize \in Nat /\ directorySize <= stateBytes
  BY <1>1, WithoutFacts
<1>3. /\ stateBytes' \in Nat /\ stateBytes' <= stateBytes /\ directorySize - disk[f].size <= stateBytes'
      /\ stateBytes - disk[f].size \in Nat
  BY <1>2, StoreFacts
<1>4. QED
  BY <1>2, <1>3, DiskStep

(* Deletions take away at least the bytes they stop counting. *)
LEMMA DeletesKeep ==
    ASSUME StoreInv,
           \/ DeleteCompileCaches
           \/ \E j \in Jobs : DeleteResult(j)
           \/ \E s \in Sessions : DeleteLiveCache(s)
    PROVE  StoreInv'
<1>1. CompileCache \in Files /\ (\A j \in Jobs : Result(j) \in Files) /\ \A s \in Sessions : LiveCache(s) \in Files
  BY DEF Files, Results, LiveCaches
<1>2. CASE DeleteCompileCaches
  BY <1>1, <1>2, DeleteKeeps DEF DeleteCompileCaches
<1>3. ASSUME NEW s \in Sessions, DeleteLiveCache(s) PROVE StoreInv'
  BY <1>1, <1>3, DeleteKeeps DEF DeleteLiveCache
<1>4. ASSUME NEW j \in Jobs, DeleteResult(j) PROVE StoreInv'
  <2> DEFINE f == Result(j)
  <2>1. f \in Files /\ disk' = Without({f}) /\ UNCHANGED <<pub, pendingBytes, litter>>
        /\ stateBytes' = Max({0, stateBytes - disk[f].size})
    BY <1>1, <1>4 DEF DeleteResult
  <2> HIDE DEF f
  <2>2. disk[f].size <= directorySize /\ disk[f].size \in Nat /\ directorySize \in Nat /\ directorySize <= stateBytes
    <3>1. Bytes({f}) = disk[f].size
      BY <2>1, StoreFacts, OneFile
    <3>2. QED
      BY <2>1, <3>1, WithoutFacts
  <2>3. stateBytes - disk[f].size \in Nat
    BY <2>2, StoreFacts
  <2>4. Max({0, stateBytes - disk[f].size}) = stateBytes - disk[f].size
    <3> DEFINE m == stateBytes - disk[f].size
    <3> HIDE DEF m
    <3>1. m \in Nat
      BY <2>3 DEF m
    <3>2. \A x \in {0, m} : (\A y \in {0, m} : x >= y) <=> x = m
      BY <3>1
    <3>3. Max({0, m}) = m
      BY <3>2 DEF Max
    <3>4. QED
      BY <3>3 DEF m
  <2>5. QED
    BY <2>1, <2>4, DeleteKeeps
<1>5. QED
  BY <1>2, <1>3, <1>4

(* The sweeps. What is measured is what is left.                           *)
LEMMA PruneKeeps ==
    ASSUME StoreInv, NEW fs \in SUBSET Files, NEW js \in SUBSET Jobs, Prune(fs, js)
    PROVE  StoreInv'
<1> DEFINE measured == directorySize - Bytes(fs)
           aux == AuxiliaryBytes * Cardinality(js)
<1>1. /\ \A j \in js : disk[Result(j)].size = ResultBytes /\ Result(j) \notin fs
      /\ disk' = Stripped(Without(fs), js) /\ stateBytes' = measured - aux
      /\ UNCHANGED <<pub, pendingBytes, litter>>
  BY DEF Prune, Strippable
<1>2. /\ Without(fs) \in [Files -> File] /\ Cardinality(Blocks(Without(fs), Files)) = measured
      /\ measured \in Nat /\ measured <= stateBytes
  BY WithoutFacts
<1>3. \A j \in js : Without(fs)[Result(j)].size = ResultBytes
  BY <1>1 DEF Without, Files, Results
<1> HIDE DEF measured
<1>4. /\ Cardinality(Blocks(Stripped(Without(fs), js), Files)) = measured - aux
      /\ aux \in Nat
  BY <1>2, <1>3, StripSome
<1>5. Stripped(Without(fs), js) \in [Files -> File]
  BY <1>2, <1>3, StrippedType
<1>6. Cardinality(Blocks(Stripped(Without(fs), js), Files)) \in Nat
  BY BlocksFinite
<1> HIDE DEF aux
<1>7. stateBytes' \in Nat /\ stateBytes' <= stateBytes /\ Cardinality(Blocks(disk', Files)) <= stateBytes'
  BY <1>1, <1>2, <1>4, <1>6, StoreFacts
<1>8. QED
  BY <1>1, <1>5, <1>7, DiskStep

(* A sweep that fails leaves stateBytes too high, never too low.           *)
LEMMA PruneFailsKeeps ==
    ASSUME StoreInv, PruneFails
    PROVE  StoreInv'
<1>1. PICK fs \in SUBSET Files : disk' = Without(fs) /\ UNCHANGED <<pub, stateBytes, pendingBytes, litter>>
  BY DEF PruneFails, Expirable
<1>2. /\ Without(fs) \in [Files -> File]
      /\ Cardinality(Blocks(Without(fs), Files)) = directorySize - Bytes(fs)
      /\ directorySize - Bytes(fs) <= stateBytes
  BY WithoutFacts
<1>3. QED
  BY <1>1, <1>2, StoreFacts, DiskStep

(* Collection, and the start of a process. *)
LEMMA CollectKeeps ==
    ASSUME StoreInv, CollectUnreferencedBlobs
    PROVE  StoreInv'
<1>1. Blobs \in SUBSET Files
  BY DEF Files
<1>2. /\ Without(Blobs) \in [Files -> File]
      /\ Cardinality(Blocks(Without(Blobs), Files)) = directorySize - Bytes(Blobs)
      /\ directorySize - Bytes(Blobs) \in Nat /\ directorySize - Bytes(Blobs) <= stateBytes
  BY <1>1, WithoutFacts
<1>3. /\ stateBytes' \in Nat /\ stateBytes' <= stateBytes
      /\ Cardinality(Blocks(disk', Files)) <= stateBytes' /\ disk' = Without(Blobs)
      /\ UNCHANGED <<pub, pendingBytes, litter>>
  BY <1>2, StoreFacts DEF CollectUnreferencedBlobs
<1>4. QED
  BY <1>2, <1>3, DiskStep

(* No publication is under way in a new process. *)
LEMMA NothingReserved ==
    ASSUME pub' = [w \in Writers |-> NoPublication], pendingBytes' = 0
    PROVE  /\ pub' \in [Writers -> Publication] /\ pendingBytes' = StagedBytes * Cardinality(Reserving')
<1>1. NoPublication \in Publication /\ NoPublication.phase = "none"
  BY DEF Publication, NoPublication, Files
<1>2. Reserving' = {}
  BY <1>1 DEF Reserving
<1>3. Cardinality(Reserving') = 0 /\ StagedBytes * 0 = 0
  BY <1>2, FS_EmptySet, StateStoreAssumption
<1>4. QED
  BY <1>1, <1>3

(* A store opened after a restart removes the checkpoints, counts what is  *)
(* left and has no publication.                                            *)
LEMMA NewStoreKeeps ==
    ASSUME StoreInv, NewStore
    PROVE  StoreInv'
<1> DEFINE kept == Bytes(Files \ LiveCaches)
<1>1. LiveCaches \in SUBSET Files
  BY DEF Files
<1>2. /\ Without(LiveCaches) \in [Files -> File]
      /\ Cardinality(Blocks(Without(LiveCaches), Files)) = kept
  BY <1>1, WithoutFacts
<1>3. kept \in Nat
  BY <1>2, BlocksFinite
<1>4. /\ disk' = Without(LiveCaches) /\ stateBytes' = kept /\ kept <= MaxStateBytes /\ litter' = 0
      /\ pub' = [w \in Writers |-> NoPublication] /\ pendingBytes' = 0
  BY DEF NewStore
<1> HIDE DEF kept
<1>5. /\ pub' \in [Writers -> Publication] /\ pendingBytes' = StagedBytes * Cardinality(Reserving')
  BY <1>4, NothingReserved
<1>6. stateBytes' \in Nat /\ pendingBytes' \in Nat /\ stateBytes' + pendingBytes' <= MaxStateBytes /\ litter' \in Nat
  BY <1>3, <1>4, StateStoreAssumption
<1>7. Cardinality(Blocks(disk', Files)) <= stateBytes'
  BY <1>2, <1>3, <1>4
<1>8. QED
  BY <1>2, <1>4, <1>5, <1>6, <1>7, StoreGoal

(* An archive is rewritten when it is downloaded; a file grows old.        *)
LEMMA StripKeeps ==
    ASSUME StoreInv, NEW j \in Jobs, PruneResultAuxiliary(j)
    PROVE  StoreInv'
<1>1. /\ disk[Result(j)].size = ResultBytes /\ disk' = Stripped(disk, {j})
      /\ stateBytes' = stateBytes - AuxiliaryBytes /\ UNCHANGED <<pub, pendingBytes, litter>>
  BY DEF PruneResultAuxiliary, Strippable
<1>2. Cardinality({j}) = 1 /\ {j} \in SUBSET Jobs /\ \A i \in {j} : disk[Result(i)].size = ResultBytes
  BY <1>1, FS_Singleton
<1>3. AuxiliaryBytes * 1 = AuxiliaryBytes /\ AuxiliaryBytes \in Nat
  BY StateStoreAssumption
<1>4. Cardinality(Blocks(Stripped(disk, {j}), Files)) = Cardinality(Blocks(disk, Files)) - AuxiliaryBytes
  BY <1>2, <1>3, StoreFacts, StripSome
<1>5. Stripped(disk, {j}) \in [Files -> File] /\ Cardinality(Blocks(Stripped(disk, {j}), Files)) \in Nat
  BY <1>2, StoreFacts, StrippedType, BlocksFinite
<1>6. stateBytes' \in Nat /\ stateBytes' <= stateBytes /\ Cardinality(Blocks(disk', Files)) <= stateBytes'
  BY <1>1, <1>3, <1>4, <1>5, StoreFacts
<1>7. QED
  BY <1>1, <1>5, <1>6, DiskStep

(* Time changes no size. *)
LEMMA AgeKeeps ==
    ASSUME StoreInv, NEW f \in Files, Age(f)
    PROVE  StoreInv'
<1>1. disk' = [disk EXCEPT ![f] = [disk[f] EXCEPT !.aged = TRUE]] /\ UNCHANGED <<pub, stateBytes, pendingBytes, litter>>
  BY StoreFacts DEF Age
<1>2. [disk[f] EXCEPT !.aged = TRUE] \in File /\ [disk[f] EXCEPT !.aged = TRUE].size = disk[f].size
  BY StoreFacts DEF File
<1>3. disk' \in [Files -> File] /\ \A g \in Files : disk'[g].size = disk[g].size
  BY <1>1, <1>2, StoreFacts
<1>4. Blocks(disk', Files) = Blocks(disk, Files)
  BY <1>3, SameSizes
<1>5. QED
  BY <1>1, <1>3, <1>4, StoreFacts, DiskStep

(* An empty volume. *)
LEMMA StoreInitially == StoreInit => StoreInv
<1> SUFFICES ASSUME StoreInit PROVE StoreInv
  OBVIOUS
<1>1. disk \in [Files -> File] /\ \A f \in Files : disk[f].size = 0
  BY StateStoreAssumption DEF StoreInit, NoFile, File
<1>2. Bytes(Files) = 0
  <2>1. {x \in Files \X (1..MaxStateBytes) : x[2] <= disk[x[1]].size} = {}
    BY <1>1, StateStoreAssumption
  <2>2. QED
    BY <2>1, FS_EmptySet DEF Bytes
<1>3. NoPublication \in Publication /\ NoPublication.phase = "none"
  BY DEF Publication, NoPublication, Files
<1>4. Reserving = {} /\ pub \in [Writers -> Publication]
  BY <1>3 DEF Reserving, StoreInit
<1>5. Cardinality(Reserving) = 0 /\ StagedBytes * 0 = 0
  BY <1>4, FS_EmptySet, StateStoreAssumption
<1>6. stateBytes = 0 /\ pendingBytes = 0 /\ litter = 0
  BY DEF StoreInit
<1>7. QED
  BY <1>1, <1>2, <1>4, <1>5, <1>6, StateStoreAssumption DEF StoreInv, StoreTypeOK, QuotaHeld, directorySize

-----------------------------------------------------------------------------
(* The inductive invariant of AttemptExecution, beside types and quota.    *)

(* A worker's locals at each place. Inputs are set once, when a job is     *)
(* submitted; nothing is compared or opened before it is started; no run   *)
(* has ended before one did; and the clean retry starts from nothing.      *)
Locals(a) ==
    /\ a.pc = "new" <=> a.inputs = NoInputs
    /\ a.pc \in {"new", "queued", "started"} => a.try = 1 /\ a.seen = Nobody /\ a.warm = Nobody
    /\ a.pc \in {"new", "queued", "started", "launch", "running"} => a.end # "tex"
    /\ a.try = 2 => a.warm = Nobody
    /\ a.end = "tex" /\ a.ctx => a.warm = Nobody
    /\ a.warm # Nobody => a.warm = a.seen

(* What was compared with a job's inputs still has those inputs.           *)
Compared == \A j \in Jobs : attempt[j].seen # Nobody => CompatibleCacheInputs(attempt[j].seen, j)

(* The running slot of a live session is that of its one active job.       *)
SlotHeld == \A j \in Active : InSession(j) /\ LeaseOf(j).live => LeaseOf(j).running = j

(* A writer publishes where its job or upload belongs. *)
InPlace ==
    /\ \A j \in Jobs : attempt[j].pc \in {"staging", "commit"} => pub[j].file = Target(j)
    /\ \A u \in Uploads : pub[u].phase # "none" => pub[u].file = Blob(u)

(* CheckpointOwned, of a process that is down too. *)
Owned ==
    \A s \in Sessions :
        /\ lease[s].of # Nobody => disk[LiveCache(s)].by = lease[s].of
        /\ Present(LiveCache(s)) /\ s \notin undeleted => lease[s].live /\ lease[s].of # Nobody

(* The checkpoint a job is about to open is the one it has compared, or    *)
(* there is none any more.                                                 *)
UnmovedFor(a) ==
    /\ a.pc = "launch" /\ a.try = 1 /\ a.seen # Nobody
    /\ isolated /\ a.session # NoSession /\ Present(LiveCache(a.session))
    => disk[LiveCache(a.session)].by = a.seen
Unmoved == \A j \in Jobs : UnmovedFor(attempt[j])

(* Every portable cache comes from a job. *)
CacheOfJob == Present(CompileCache) => disk[CompileCache].by \in Jobs

(* Containers only under names whose run has begun. *)
NamedAs(j, a, names) ==
    /\ a.pc \in {"new", "queued", "started"} => \A n \in 1..2 : <<j, n>> \notin names
    /\ a.pc = "launch" => <<j, a.try>> \notin names
    /\ a.pc \in {"launch", "running"} /\ a.try = 1 => <<j, 2>> \notin names
Named == \A j \in Jobs : NamedAs(j, attempt[j], containers)

AttemptInv ==
    /\ AttemptTypeOK /\ QuotaHeld
    /\ \A j \in Jobs : Locals(attempt[j])
    /\ Compared /\ SlotHeld /\ InPlace /\ Owned /\ Unmoved /\ CacheOfJob /\ Named

Inactive == {"new", "queued", "done"}

(* What a step may do to the rest of the state while a worker moves.       *)
Frame(j) ==
    /\ UNCHANGED <<lease, undeleted, isolated>>
    /\ StoreInv'
    /\ \A i \in Jobs \ {j} : pub'[i].file = pub[i].file
    /\ \A u \in Uploads : pub'[u] = pub[u]
    /\ \A s \in Sessions : disk'[LiveCache(s)] = disk[LiveCache(s)]
    /\ CacheOfJob'
    /\ containers' \subseteq Names /\ \A i \in Jobs \ {j}, n \in 1..2 : <<i, n>> \in containers' => <<i, n>> \in containers
    /\ up' \in BOOLEAN /\ crashes' \in 0..MaxCrashes /\ faults' \in 0..MaxFaults

(* The step of a worker that neither takes nor frees a slot.               *)
LEMMA WorkerStep ==
    ASSUME AttemptInv, NEW j \in Jobs, NEW a \in Attempt, attempt' = [attempt EXCEPT ![j] = a],
           Frame(j), Locals(a), a.session = attempt[j].session, a.inputs = attempt[j].inputs,
           a.seen # Nobody => a.seen = attempt[j].seen \/ attempt[a.seen].inputs = a.inputs,
           a.pc \notin Inactive => attempt[j].pc \notin Inactive,
           a.pc \in {"staging", "commit"} => pub'[j].file = Target(j),
           UnmovedFor(a), NamedAs(j, a, containers')
    PROVE  AttemptInv'
<1>1. attempt \in [Jobs -> Attempt] /\ Nobody \notin Jobs
  BY StateStoreAssumption DEF AttemptInv, AttemptTypeOK
<1>2. \A i \in Jobs : attempt'[i] = IF i = j THEN a ELSE attempt[i]
  BY <1>1
<1>3. AttemptTypeOK' /\ QuotaHeld'
  BY <1>1 DEF Frame, StoreInv, AttemptInv, AttemptTypeOK
<1>4. \A i \in Jobs : Locals(attempt'[i])
  BY <1>2 DEF AttemptInv
<1>5. Compared'
  <2>1. \A i \in Jobs : attempt'[i].inputs = attempt[i].inputs
    BY <1>2
  <2>2. \A i \in Jobs : attempt'[i].seen # Nobody => attempt'[i].seen \in Jobs
    BY <1>1, <1>2 DEF Attempt
  <2>3. \A i \in Jobs : attempt'[i].seen # Nobody => attempt[attempt'[i].seen].inputs = attempt[i].inputs
    BY <1>2 DEF AttemptInv, Compared, CompatibleCacheInputs
  <2>4. QED
    BY <2>1, <2>2, <2>3 DEF Compared, CompatibleCacheInputs
<1>6. SlotHeld'
  BY <1>2 DEF AttemptInv, SlotHeld, Frame, Active, Inactive, InSession, LeaseOf, SessionOf
<1>7. InPlace'
  <2>1. ASSUME NEW i \in Jobs, attempt'[i].pc \in {"staging", "commit"} PROVE pub'[i].file = Target(i)'
    <3>1. Target(i)' = Target(i)
      BY <1>2 DEF Target, UsesSession, InSession, SessionOf, Frame
    <3>2. QED
      BY <1>2, <2>1, <3>1 DEF AttemptInv, InPlace, Frame
  <2>2. QED
    BY <2>1 DEF InPlace, AttemptInv, Frame
<1>8. Owned'
  BY DEF AttemptInv, Owned, Frame, Present
<1>9. Unmoved'
  <2>1. \A b : UnmovedFor(b) /\ b \in Attempt => UnmovedFor(b)'
    BY DEF UnmovedFor, Frame, Present, Attempt
  <2>2. \A i \in Jobs : UnmovedFor(attempt'[i]) /\ attempt'[i] \in Attempt
    BY <1>1, <1>2 DEF AttemptInv, Unmoved
  <2>3. QED
    BY <2>2 DEF Unmoved, UnmovedFor, Frame, Present, Attempt
<1>10. Named'
  <2>1. ASSUME NEW i \in Jobs, i # j PROVE NamedAs(i, attempt[i], containers')
    <3>1. NamedAs(i, attempt[i], containers) /\ attempt[i].try \in 1..2
      BY <1>1 DEF AttemptInv, Named, Attempt
    <3>2. \A n \in 1..2 : <<i, n>> \in containers' => <<i, n>> \in containers
      BY <2>1 DEF Frame
    <3>3. QED
      BY <3>1, <3>2 DEF NamedAs
  <2>2. \A i \in Jobs : NamedAs(i, attempt'[i], containers')
    BY <1>2, <2>1
  <2>3. QED
    BY <2>2 DEF Named
<1>11. QED
  BY <1>3, <1>4, <1>5, <1>6, <1>7, <1>8, <1>9, <1>10 DEF AttemptInv, Frame
(* A step that leaves the store and the sessions alone. *)
LEMMA QuietFrame ==
    ASSUME AttemptInv, NEW j \in Jobs, UNCHANGED <<storeVars, leaseVars, boundVars>>, faults' \in 0..MaxFaults,
           containers' \subseteq containers \cup {<<j, attempt[j].try>>}
    PROVE  Frame(j)
<1>1. /\ UNCHANGED <<disk, pub, stateBytes, pendingBytes, litter>>
      /\ UNCHANGED <<lease, undeleted, isolated, up, crashes>>
  BY DEF storeVars, leaseVars, boundVars
<1>2. StoreInv'
  BY <1>1 DEF AttemptInv, AttemptTypeOK, StoreInv, StoreTypeOK, QuotaHeld, directorySize, Bytes, Reserving
<1>3. CacheOfJob'
  BY <1>1 DEF AttemptInv, CacheOfJob, Present
<1>4. attempt[j].try \in 1..2 /\ containers \subseteq Names
  BY DEF AttemptInv, AttemptTypeOK, Attempt
<1>5. containers' \subseteq Names
  BY <1>4 DEF Names
<1>6. up' \in BOOLEAN /\ crashes' \in 0..MaxCrashes
  BY <1>1 DEF AttemptInv, AttemptTypeOK
<1>7. QED
  BY <1>1, <1>2, <1>3, <1>5, <1>6 DEF Frame

(* What the invariant says of one job. *)
LEMMA AttemptFacts ==
    ASSUME AttemptInv, NEW j \in Jobs
    PROVE  /\ attempt \in [Jobs -> Attempt] /\ attempt[j] \in Attempt
           /\ Locals(attempt[j]) /\ UnmovedFor(attempt[j]) /\ NamedAs(j, attempt[j], containers)
           /\ Nobody \notin Jobs /\ NoInputs \notin Inputs /\ NoSession \notin Sessions
           /\ faults \in Nat /\ faults <= MaxFaults /\ MaxFaults \in Nat
BY StateStoreAssumption, AttemptAssumption DEF AttemptInv, AttemptTypeOK, Unmoved, Named

(* Faults stay within their bound. *)
LEMMA FaultCounts ==
    ASSUME AttemptInv, Fault
    PROVE  faults' \in 0..MaxFaults
BY AttemptAssumption DEF AttemptInv, AttemptTypeOK, Fault

(* A worker's request, with nothing of its locals. *)
LEMMA RequestFields ==
    ASSUME NEW a \in Attempt, NEW place \in {"queued", "settle", "done"}
    PROVE  /\ Request(a, place) \in Attempt
           /\ Request(a, place).session = a.session /\ Request(a, place).inputs = a.inputs
           /\ Request(a, place).pc = place /\ Request(a, place).try = 1
           /\ Request(a, place).seen = Nobody /\ Request(a, place).warm = Nobody
           /\ Request(a, place).end = "none"
<1>1. Unsubmitted \in Attempt
  BY DEF Attempt, Unsubmitted
<1>2. [Unsubmitted EXCEPT !.session = a.session] \in Attempt
  BY <1>1 DEF Attempt
<1>3. [[Unsubmitted EXCEPT !.session = a.session] EXCEPT !.inputs = a.inputs] \in Attempt
  BY <1>2 DEF Attempt
<1>4. Request(a, place) \in Attempt
  BY <1>3 DEF Attempt, Request
<1>5. /\ Request(a, place).session = a.session /\ Request(a, place).inputs = a.inputs
      /\ Request(a, place).pc = place /\ Request(a, place).try = Unsubmitted.try
      /\ Request(a, place).seen = Unsubmitted.seen /\ Request(a, place).warm = Unsubmitted.warm
      /\ Request(a, place).end = Unsubmitted.end
  BY <1>1 DEF Attempt, Request
<1>6. QED
  BY <1>4, <1>5 DEF Unsubmitted

(* A worker turns to finishSession. *)
LEMMA SettlesAs ==
    ASSUME AttemptInv, NEW j \in Jobs, NEW p \in BOOLEAN, ToSettle(j, p), attempt[j].pc \notin Inactive, Frame(j)
    PROVE  AttemptInv'
<1> DEFINE r == Request(attempt[j], "settle")
           a == [r EXCEPT !.poison = p]
<1>1. attempt' = [attempt EXCEPT ![j] = a]
  BY AttemptFacts DEF ToSettle
<1>2. /\ r \in Attempt /\ r.session = attempt[j].session /\ r.inputs = attempt[j].inputs
      /\ r.pc = "settle" /\ r.try = 1 /\ r.seen = Nobody /\ r.warm = Nobody /\ r.end = "none"
  BY RequestFields, AttemptFacts
<1> HIDE DEF r
<1>3. /\ a \in Attempt /\ a.session = attempt[j].session /\ a.inputs = attempt[j].inputs
      /\ a.pc = "settle" /\ a.try = 1 /\ a.seen = Nobody /\ a.warm = Nobody /\ a.end = "none"
  BY <1>2 DEF Attempt
<1> HIDE DEF a
<1>4. Locals(a) /\ UnmovedFor(a) /\ NamedAs(j, a, containers')
  BY <1>3, AttemptFacts DEF Locals, UnmovedFor, NamedAs, Inactive
<1>5. QED
  BY <1>1, <1>3, <1>4, WorkerStep

-----------------------------------------------------------------------------
(* Workers, step by step: the steps that touch no file.                    *)

(* A step that fails before or after the run leaves files and sessions     *)
(* alone.                                                                  *)
LEMMA GivesUp ==
    ASSUME AttemptInv, NEW j \in Jobs,
           \/ WorkspaceFails(j) \/ ArchiveRefused(j) \/ SkipPublish(j) \/ CheckpointUnreadable(j)
    PROVE  AttemptInv'
<1>1. /\ UNCHANGED <<storeVars, leaseVars, boundVars>> /\ containers' = containers
      /\ Fault \/ faults' = faults
      /\ attempt[j].pc \in {"started", "ran", "publish"}
      /\ ToSettle(j, FALSE) \/ ToSettle(j, attempt[j].poison)
  BY DEF WorkspaceFails, ArchiveRefused, SkipPublish, CheckpointUnreadable, At
<1>2. faults' \in 0..MaxFaults
  BY <1>1, FaultCounts, AttemptFacts
<1>3. Frame(j)
  BY <1>1, <1>2, QuietFrame
<1>4. attempt[j].poison \in BOOLEAN /\ attempt[j].pc \notin Inactive
  BY <1>1, AttemptFacts DEF Attempt, Inactive
<1>5. QED
  BY <1>1, <1>3, <1>4, SettlesAs

(* A cancelled job that never ran. *)
LEMMA DropKeeps ==
    ASSUME AttemptInv, NEW j \in Jobs, Drop(j)
    PROVE  AttemptInv'
<1> DEFINE a == [attempt[j] EXCEPT !.pc = "done"]
<1>1. /\ UNCHANGED <<storeVars, leaseVars, boundVars>> /\ containers' = containers /\ faults' = faults
      /\ attempt[j].pc = "queued" /\ attempt' = [attempt EXCEPT ![j] = a]
  BY AttemptFacts DEF Drop, At
<1>2. Frame(j)
  BY <1>1, QuietFrame, AttemptFacts
<1>3. /\ a \in Attempt /\ a.session = attempt[j].session /\ a.inputs = attempt[j].inputs
      /\ a.pc = "done" /\ a.try = attempt[j].try /\ a.seen = attempt[j].seen
      /\ a.warm = attempt[j].warm /\ a.end = attempt[j].end
  BY AttemptFacts DEF Attempt
<1> HIDE DEF a
<1>4. Locals(a) /\ UnmovedFor(a) /\ NamedAs(j, a, containers')
  BY <1>1, <1>3, AttemptFacts DEF Locals, UnmovedFor, NamedAs
<1>5. QED
  BY <1>1, <1>2, <1>3, <1>4, WorkerStep DEF Inactive

(* The deadline ends the context of a job, not its attempt. *)
LEMMA DeadlineKeeps ==
    ASSUME AttemptInv, NEW j \in Jobs, Deadline(j)
    PROVE  AttemptInv'
<1> DEFINE a == [attempt[j] EXCEPT !.ctx = FALSE]
<1>1. /\ UNCHANGED <<storeVars, leaseVars, boundVars>> /\ containers' = containers /\ faults' = faults
      /\ attempt' = [attempt EXCEPT ![j] = a]
  BY AttemptFacts DEF Deadline
<1>2. Frame(j)
  BY <1>1, QuietFrame, AttemptFacts
<1>3. /\ a \in Attempt /\ a.session = attempt[j].session /\ a.inputs = attempt[j].inputs
      /\ a.pc = attempt[j].pc /\ a.try = attempt[j].try /\ a.seen = attempt[j].seen
      /\ a.warm = attempt[j].warm /\ a.end = attempt[j].end /\ ~a.ctx
  BY AttemptFacts DEF Attempt
<1> HIDE DEF a
<1>4. Locals(a) /\ UnmovedFor(a) /\ NamedAs(j, a, containers')
  BY <1>1, <1>3, AttemptFacts DEF Locals, UnmovedFor, NamedAs
<1>5. a.pc \in {"staging", "commit"} => pub'[j].file = Target(j)
  BY <1>1, <1>3 DEF AttemptInv, InPlace, storeVars
<1>6. QED
  BY <1>1, <1>2, <1>3, <1>4, <1>5, WorkerStep

(* Sources that cannot be written end the attempt. *)
LEMMA SourcesFailKeeps ==
    ASSUME AttemptInv, NEW j \in Jobs, SourcesFail(j)
    PROVE  AttemptInv'
<1> DEFINE e == IF attempt[j].end = "cancelled" THEN attempt[j].end ELSE "failed"
           a == [attempt[j] EXCEPT !.pc = "ran", !.end = e]
<1>1. /\ UNCHANGED <<storeVars, leaseVars, boundVars>> /\ containers' = containers /\ Fault
      /\ attempt[j].pc = "launch" /\ attempt' = [attempt EXCEPT ![j] = a]
  BY AttemptFacts DEF SourcesFail, At
<1>2. Frame(j)
  BY <1>1, QuietFrame, FaultCounts
<1>3. e \in {"cancelled", "failed"}
  OBVIOUS
<1> HIDE DEF e
<1>4. /\ a \in Attempt /\ a.session = attempt[j].session /\ a.inputs = attempt[j].inputs
      /\ a.pc = "ran" /\ a.try = attempt[j].try /\ a.seen = attempt[j].seen
      /\ a.warm = attempt[j].warm /\ a.end # "tex"
  BY <1>3, AttemptFacts DEF Attempt
<1> HIDE DEF a
<1>5. Locals(a) /\ UnmovedFor(a) /\ NamedAs(j, a, containers')
  BY <1>1, <1>4, AttemptFacts DEF Locals, UnmovedFor, NamedAs
<1>6. QED
  BY <1>1, <1>2, <1>4, <1>5, WorkerStep DEF Inactive

(* A compiler success goes on with nothing of what it started from. *)
LEMMA FinishKeeps ==
    ASSUME AttemptInv, NEW j \in Jobs, Finish(j)
    PROVE  AttemptInv'
<1> DEFINE c == [attempt[j] EXCEPT !.pc = "publish"]
           b == [c EXCEPT !.try = 1]
           a == [b EXCEPT !.seen = Nobody, !.warm = Nobody]
<1>1. /\ UNCHANGED <<storeVars, leaseVars, boundVars>> /\ containers' = containers /\ faults' = faults
      /\ attempt[j].pc = "archived"
      /\ \/ attempt[j].end = "ok" /\ attempt' = [attempt EXCEPT ![j] = a]
         \/ ToSettle(j, attempt[j].poison)
  BY AttemptFacts DEF Finish, At
<1>2. Frame(j)
  BY <1>1, QuietFrame, AttemptFacts
<1>3. CASE attempt[j].end = "ok" /\ attempt' = [attempt EXCEPT ![j] = a]
  <2>1. /\ a \in Attempt /\ a.session = attempt[j].session /\ a.inputs = attempt[j].inputs
        /\ a.pc = "publish" /\ a.try = 1 /\ a.seen = Nobody /\ a.warm = Nobody /\ a.end = "ok"
    <3>0. /\ c \in Attempt /\ c.session = attempt[j].session /\ c.inputs = attempt[j].inputs
          /\ c.pc = "publish" /\ c.end = "ok"
      BY <1>3, AttemptFacts DEF Attempt
    <3> HIDE DEF c
    <3>1. /\ b \in Attempt /\ b.session = attempt[j].session /\ b.inputs = attempt[j].inputs
          /\ b.pc = "publish" /\ b.try = 1 /\ b.end = "ok"
      BY <3>0 DEF Attempt
    <3> HIDE DEF b
    <3>2. QED
      BY <3>1 DEF Attempt
  <2> HIDE DEF a
  <2>2. Locals(a) /\ UnmovedFor(a) /\ NamedAs(j, a, containers')
    BY <1>1, <2>1, AttemptFacts DEF Locals, UnmovedFor, NamedAs
  <2>3. QED
    BY <1>1, <1>2, <1>3, <2>1, <2>2, WorkerStep DEF Inactive
<1>4. CASE ToSettle(j, attempt[j].poison)
  <2>1. attempt[j].poison \in BOOLEAN
    BY AttemptFacts DEF Attempt
  <2>2. QED
    BY <1>1, <1>2, <1>4, <2>1, SettlesAs DEF Inactive
<1>5. QED
  BY <1>1, <1>3, <1>4

(* What is chosen for a warm start has the inputs of the job.              *)
LEMMA ChooseCheckpointKeeps ==
    ASSUME AttemptInv, NEW j \in Jobs, ChooseCheckpoint(j)
    PROVE  AttemptInv'
<1>1. /\ UNCHANGED <<storeVars, leaseVars, boundVars>> /\ containers' = containers /\ faults' = faults
      /\ attempt[j].pc = "started" /\ UsesSession(j)
  BY DEF ChooseCheckpoint, At
<1>2. PICK seen \in {Nobody, Checkpoint(j)} :
        attempt' = [attempt EXCEPT ![j].pc = "launch", ![j].reuse = LeaseOf(j).live, ![j].seen = seen]
  BY DEF ChooseCheckpoint
<1> DEFINE b == [attempt[j] EXCEPT !.pc = "launch", !.reuse = LeaseOf(j).live]
           a == [b EXCEPT !.seen = seen]
<1>3. attempt' = [attempt EXCEPT ![j] = a]
  BY <1>2, AttemptFacts
<1>4. SessionOf(j) \in Sessions /\ LeaseOf(j) \in Lease /\ LeaseOf(j).live \in BOOLEAN
  <2>1. SessionOf(j) \in Sessions
    BY <1>1, AttemptFacts DEF UsesSession, InSession, SessionOf, Attempt
  <2>2. QED
    BY <2>1 DEF AttemptInv, AttemptTypeOK, LeaseOf, Lease
<1>5. seen # Nobody => seen \in Jobs /\ seen = LeaseOf(j).of /\ CompatibleCacheInputs(seen, j)
  BY <1>4 DEF Checkpoint, Lease
<1>6. /\ a \in Attempt /\ a.session = attempt[j].session /\ a.inputs = attempt[j].inputs
      /\ a.pc = "launch" /\ a.try = attempt[j].try /\ a.seen = seen /\ a.warm = attempt[j].warm /\ a.end = attempt[j].end
  <2>1. /\ b \in Attempt /\ b.session = attempt[j].session /\ b.inputs = attempt[j].inputs
        /\ b.pc = "launch" /\ b.try = attempt[j].try /\ b.warm = attempt[j].warm /\ b.end = attempt[j].end
    BY <1>4, AttemptFacts DEF Attempt
  <2> HIDE DEF b
  <2>2. QED
    BY <1>5, <2>1 DEF Attempt
<1> HIDE DEF a
<1>7. Locals(a) /\ NamedAs(j, a, containers')
  <2>1. Locals(a)
    BY <1>1, <1>6, AttemptFacts DEF Locals
  <2>2. attempt[j].try = 1 /\ \A n \in 1..2 : <<j, n>> \notin containers
    BY <1>1, AttemptFacts DEF Locals, NamedAs
  <2>3. NamedAs(j, a, containers')
    BY <1>1, <1>6, <2>2 DEF NamedAs
  <2>4. QED
    BY <2>1, <2>3
<1>8. UnmovedFor(a)
  BY <1>4, <1>5, <1>6 DEF UnmovedFor, AttemptInv, Owned, LeaseOf, SessionOf
<1>9. Frame(j)
  BY <1>1, QuietFrame, AttemptFacts
<1>10. QED
  BY <1>1, <1>3, <1>5, <1>6, <1>7, <1>8, <1>9, WorkerStep DEF Inactive, CompatibleCacheInputs

(* The portable cache is read, or passed over, and stays where it is. *)
LEMMA RestoreKeeps ==
    ASSUME AttemptInv, NEW j \in Jobs, RestoreCompileCache(j) \/ RestoreFails(j)
    PROVE  AttemptInv'
<1>1. /\ UNCHANGED <<storeVars, leaseVars, boundVars>> /\ containers' = containers
      /\ Fault \/ faults' = faults
      /\ attempt[j].pc = "started" /\ ~UsesSession(j)
  BY DEF RestoreCompileCache, RestoreFails, At
<1>2. Locals(attempt[j]) /\ attempt[j].seen = Nobody /\ attempt[j].warm = Nobody
  BY <1>1, AttemptFacts DEF Locals
<1> DEFINE p == IF isolated THEN "launch" ELSE "running"
<1>3. PICK state \in {Nobody} \cup (IF Restorable(j) THEN {disk[CompileCache].by} ELSE {}) :
        \/ attempt' = [attempt EXCEPT ![j].pc = p, ![j].seen = state, ![j].warm = state, ![j].reuse = TRUE]
        \/ state = Nobody /\ attempt' = [attempt EXCEPT ![j].pc = p, ![j].reuse = TRUE]
  BY DEF RestoreCompileCache, RestoreFails
<1>4. p \in {"launch", "running"}
  OBVIOUS
<1> HIDE DEF p
<1>5. state # Nobody => state \in Jobs /\ CompatibleCacheInputs(state, j)
  BY <1>3 DEF Restorable, AttemptInv, CacheOfJob
<1>6. PICK a \in Attempt : /\ attempt' = [attempt EXCEPT ![j] = a]
                           /\ a.session = attempt[j].session /\ a.inputs = attempt[j].inputs
                           /\ a.pc = p /\ a.try = attempt[j].try /\ a.seen = state /\ a.warm = state /\ a.end = attempt[j].end
  <2> DEFINE b == [attempt[j] EXCEPT !.pc = p]
  <2>1. /\ b \in Attempt /\ b.session = attempt[j].session /\ b.inputs = attempt[j].inputs /\ b.seen = Nobody
        /\ b.pc = p /\ b.try = attempt[j].try /\ b.end = attempt[j].end /\ b.warm = Nobody
    BY <1>2, <1>4, AttemptFacts DEF Attempt
  <2>2. CASE attempt' = [attempt EXCEPT ![j].pc = p, ![j].seen = state, ![j].warm = state, ![j].reuse = TRUE]
    <3> DEFINE c == [b EXCEPT !.seen = state, !.warm = state]
               a == [c EXCEPT !.reuse = TRUE]
    <3>1. attempt' = [attempt EXCEPT ![j] = a]
      BY <2>2, AttemptFacts
    <3> HIDE DEF b
    <3>2. /\ c \in Attempt /\ c.session = attempt[j].session /\ c.inputs = attempt[j].inputs
          /\ c.pc = p /\ c.try = attempt[j].try /\ c.end = attempt[j].end /\ c.seen = state /\ c.warm = state
      BY <1>5, <2>1 DEF Attempt
    <3> HIDE DEF c
    <3>3. /\ a \in Attempt /\ a.session = attempt[j].session /\ a.inputs = attempt[j].inputs
          /\ a.pc = p /\ a.try = attempt[j].try /\ a.end = attempt[j].end /\ a.seen = state /\ a.warm = state
      BY <3>2 DEF Attempt
    <3> HIDE DEF a
    <3>4. QED
      BY <3>1, <3>3
  <2>3. CASE state = Nobody /\ attempt' = [attempt EXCEPT ![j].pc = p, ![j].reuse = TRUE]
    <3> DEFINE a == [b EXCEPT !.reuse = TRUE]
    <3>1. attempt' = [attempt EXCEPT ![j] = a]
      BY <2>3, AttemptFacts
    <3> HIDE DEF b
    <3>2. /\ a \in Attempt /\ a.session = attempt[j].session /\ a.inputs = attempt[j].inputs
          /\ a.pc = p /\ a.try = attempt[j].try /\ a.end = attempt[j].end /\ a.seen = state /\ a.warm = state
      BY <2>1, <2>3 DEF Attempt
    <3> HIDE DEF a
    <3>3. QED
      BY <3>1, <3>2
  <2>4. QED
    BY <1>3, <2>2, <2>3
<1>7. Locals(a) /\ NamedAs(j, a, containers')
  BY <1>1, <1>4, <1>6, AttemptFacts DEF Locals, NamedAs
<1>8. UnmovedFor(a)
  BY <1>1, <1>6 DEF UnmovedFor, UsesSession, InSession, SessionOf
<1>9. faults' \in 0..MaxFaults
  BY <1>1, FaultCounts, AttemptFacts
<1>10. Frame(j)
  BY <1>1, <1>9, QuietFrame
<1>11. QED
  BY <1>1, <1>4, <1>5, <1>6, <1>7, <1>8, <1>10, WorkerStep DEF Inactive, CompatibleCacheInputs

(* The checkpoint that is opened is the one that was compared. *)
LEMMA LaunchKeeps ==
    ASSUME AttemptInv, NEW j \in Jobs, Launch(j)
    PROVE  AttemptInv'
<1> DEFINE w == IF Opens(j) THEN disk[LiveCache(SessionOf(j))].by ELSE attempt[j].warm
           a == [attempt[j] EXCEPT !.pc = "running", !.warm = w]
<1>1. /\ UNCHANGED <<storeVars, leaseVars, boundVars>> /\ faults' = faults
      /\ containers' = containers \cup {<<j, attempt[j].try>>}
      /\ attempt[j].pc = "launch" /\ Attainable(j) /\ attempt' = [attempt EXCEPT ![j] = a]
  BY AttemptFacts DEF Launch, At
<1>2. Opens(j) => w = attempt[j].seen
  BY <1>1, AttemptFacts DEF Opens, Attainable, UnmovedFor, UsesSession, InSession, SessionOf
<1>3. w \in Jobs \cup {Nobody} /\ (w # Nobody => w = attempt[j].seen) /\ (attempt[j].try = 2 => w = Nobody)
  BY <1>2, AttemptFacts DEF Attempt, Locals, Opens
<1> HIDE DEF w
<1>4. /\ a \in Attempt /\ a.session = attempt[j].session /\ a.inputs = attempt[j].inputs
      /\ a.pc = "running" /\ a.try = attempt[j].try /\ a.seen = attempt[j].seen
      /\ a.warm = w /\ a.end = attempt[j].end
  BY <1>3, AttemptFacts DEF Attempt
<1> HIDE DEF a
<1>5. Locals(a) /\ UnmovedFor(a)
  BY <1>1, <1>3, <1>4, AttemptFacts DEF Locals, UnmovedFor
<1>6. NamedAs(j, a, containers')
  <2>1. attempt[j].try = 1 => <<j, 2>> \notin containers
    BY <1>1, AttemptFacts DEF NamedAs
  <2>2. <<j, 2>> # <<j, 1>>
    OBVIOUS
  <2>3. attempt[j].try = 1 => <<j, 2>> \notin containers'
    BY <1>1, <2>1, <2>2
  <2>4. QED
    BY <1>1, <1>4, <2>3 DEF NamedAs
<1>7. Frame(j)
  BY <1>1, QuietFrame, AttemptFacts
<1>8. QED
  BY <1>1, <1>4, <1>5, <1>6, <1>7, WorkerStep DEF Inactive

(* A run that ended: the clean retry, or the end of it. A compiler error   *)
(* that ends a run is of a run that was not warm, unless compileCtx has    *)
(* ended.                                                                  *)
LEMMA AfterRunKeeps ==
    ASSUME AttemptInv, NEW j \in Jobs, NEW end \in {"ok", "tex", "timeout", "error"}, NEW exported \in BOOLEAN,
           AfterRun(j, end, exported), attempt[j].pc \in {"launch", "running"},
           UNCHANGED <<storeVars, leaseVars, boundVars>>, faults' \in 0..MaxFaults, containers' \subseteq containers
    PROVE  AttemptInv'
<1> DEFINE q == Poisons(j, end)
           p == IF isolated THEN "launch" ELSE "running"
           f == Ended(attempt[j].end, end)
<1>1. Frame(j) /\ q \in BOOLEAN /\ p \in {"launch", "running"} /\ f \in {"ok", "tex", "failed", "cancelled"}
  <2>1. attempt[j].poison \in BOOLEAN /\ attempt[j].reuse \in BOOLEAN /\ attempt[j].ctx \in BOOLEAN
    BY AttemptFacts DEF Attempt
  <2>2. q \in BOOLEAN
    BY <2>1 DEF Poisons, Opens
  <2>3. QED
    BY <2>2, QuietFrame DEF Ended
<1>2. f = "tex" => end = "tex"
  BY DEF Ended
<1>3. CASE Retries(j, end)
  <2> DEFINE c == [attempt[j] EXCEPT !.pc = p]
             b == [c EXCEPT !.try = 2]
             a == [b EXCEPT !.warm = Nobody, !.poison = q]
  <2>1. attempt' = [attempt EXCEPT ![j] = a]
    BY <1>3, AttemptFacts DEF AfterRun
  <2> HIDE DEF q, p, f
  <2>0. /\ c \in Attempt /\ c.session = attempt[j].session /\ c.inputs = attempt[j].inputs
        /\ c.pc = p /\ c.seen = attempt[j].seen /\ c.end = attempt[j].end
    BY <1>1, AttemptFacts DEF Attempt
  <2> HIDE DEF c
  <2>2. /\ b \in Attempt /\ b.session = attempt[j].session /\ b.inputs = attempt[j].inputs
        /\ b.pc = p /\ b.try = 2 /\ b.seen = attempt[j].seen /\ b.end = attempt[j].end
    BY <2>0 DEF Attempt
  <2> HIDE DEF b
  <2>3. /\ a \in Attempt /\ a.session = attempt[j].session /\ a.inputs = attempt[j].inputs
        /\ a.pc = p /\ a.try = 2 /\ a.seen = attempt[j].seen /\ a.end = attempt[j].end /\ a.warm = Nobody
    BY <1>1, <2>2 DEF Attempt
  <2> HIDE DEF a
  <2>4. attempt[j].try = 1 /\ <<j, 2>> \notin containers'
    BY <1>3, AttemptFacts DEF Retries, Warm, NamedAs
  <2>5. Locals(a) /\ UnmovedFor(a) /\ NamedAs(j, a, containers')
    BY <1>1, <2>3, <2>4, AttemptFacts DEF Locals, UnmovedFor, NamedAs
  <2>6. QED
    BY <1>1, <2>1, <2>3, <2>5, WorkerStep DEF Inactive
<1>4. CASE ~Retries(j, end)
  <2> DEFINE b == [attempt[j] EXCEPT !.pc = "ran", !.end = f]
             a == [b EXCEPT !.exported = exported, !.poison = q]
  <2>1. attempt' = [attempt EXCEPT ![j] = a]
    BY <1>4, AttemptFacts DEF AfterRun
  <2> HIDE DEF q, p, f
  <2>2. /\ b \in Attempt /\ b.session = attempt[j].session /\ b.inputs = attempt[j].inputs
        /\ b.pc = "ran" /\ b.try = attempt[j].try /\ b.seen = attempt[j].seen /\ b.end = f /\ b.warm = attempt[j].warm
        /\ b.ctx = attempt[j].ctx
    BY <1>1, AttemptFacts DEF Attempt
  <2> HIDE DEF b
  <2>3. /\ a \in Attempt /\ a.session = attempt[j].session /\ a.inputs = attempt[j].inputs
        /\ a.pc = "ran" /\ a.try = attempt[j].try /\ a.seen = attempt[j].seen /\ a.end = f /\ a.warm = attempt[j].warm
        /\ a.ctx = attempt[j].ctx
    BY <1>1, <2>2 DEF Attempt
  <2> HIDE DEF a
  <2>4. f = "tex" /\ attempt[j].ctx => attempt[j].warm = Nobody
    BY <1>2, <1>4, AttemptFacts DEF Retries, Warm, Locals, Attempt
  <2>5. Locals(a) /\ UnmovedFor(a) /\ NamedAs(j, a, containers')
    BY <1>1, <2>3, <2>4, AttemptFacts DEF Locals, UnmovedFor, NamedAs
  <2>6. QED
    BY <1>1, <2>1, <2>3, <2>5, WorkerStep DEF Inactive
<1>5. QED
  BY <1>3, <1>4

(* The container ends, breaks or stays; only containers and the place      *)
(* change.                                                                 *)
LEMMA RunKeeps ==
    ASSUME AttemptInv, NEW j \in Jobs,
           \/ RunEnds(j) \/ LaunchFails(j) \/ WorkerBreaks(j) \/ ResultRefused(j) \/ RunnerStays(j) \/ ResetFails(j)
           \/ ExportFails(j)
    PROVE  AttemptInv'
<1>1. /\ UNCHANGED <<storeVars, leaseVars, boundVars>> /\ containers' \subseteq containers
      /\ Fault \/ faults' = faults
      /\ attempt[j].pc \in {"launch", "running"}
  BY DEF RunEnds, LaunchFails, WorkerBreaks, ResultRefused, RunnerStays, ResetFails, ExportFails, Breaks, At
<1>2. \E end \in {"ok", "tex", "timeout", "error"}, exported \in BOOLEAN :
        AfterRun(j, end, exported)
  <2>1. CASE RunEnds(j)
    <3>1. PICK end \in Ends : AfterRun(j, end, end = "ok" /\ UsesSession(j) /\ attempt[j].reuse)
      BY <2>1 DEF RunEnds
    <3>2. attempt[j].reuse \in BOOLEAN /\ UsesSession(j) \in BOOLEAN
      BY AttemptFacts DEF Attempt, UsesSession, InSession
    <3>3. end \in {"ok", "tex", "timeout"}
      BY DEF Ends
    <3>4. (end = "ok" /\ UsesSession(j) /\ attempt[j].reuse) \in BOOLEAN
      BY <3>2
    <3>5. QED
      BY <3>1, <3>3, <3>4
  <2>2. CASE LaunchFails(j) \/ WorkerBreaks(j) \/ ResultRefused(j) \/ RunnerStays(j) \/ ResetFails(j)
    <3>1. AfterRun(j, "error", FALSE)
      BY <2>2 DEF LaunchFails, WorkerBreaks, ResultRefused, RunnerStays, ResetFails, Breaks
    <3>2. QED
      BY <3>1
  <2>3. CASE ExportFails(j)
    <3>1. AfterRun(j, "ok", FALSE)
      BY <2>3 DEF ExportFails
    <3>2. QED
      BY <3>1
  <2>4. QED
    BY <2>1, <2>2, <2>3
<1>3. faults' \in 0..MaxFaults
  BY <1>1, FaultCounts, AttemptFacts
<1>4. QED
  BY <1>1, <1>2, <1>3, AfterRunKeeps

-----------------------------------------------------------------------------
(* Workers, step by step: the steps on the state volume.                   *)

(* The part of the invariant that is about the store. *)
LEMMA StoreOfInv == ASSUME AttemptInv PROVE StoreInv
BY DEF AttemptInv, AttemptTypeOK, StoreInv

(* A publication of one job leaves the other jobs' states and the sessions *)
(* alone.                                                                  *)
LEMMA StoreFrame ==
    ASSUME AttemptInv, NEW j \in Jobs, UNCHANGED <<leaseVars, containers, boundVars>>, faults' \in 0..MaxFaults,
           StoreInv', \A w \in Writers \ {j} : pub'[w] = pub[w],
           \A s \in Sessions : disk'[LiveCache(s)] = disk[LiveCache(s)],
           disk'[CompileCache] = disk[CompileCache] \/ disk'[CompileCache].by \in Jobs
    PROVE  Frame(j)
<1>1. UNCHANGED <<lease, undeleted, isolated, up, crashes, containers>>
  BY DEF leaseVars, boundVars
<1>2. \A i \in Jobs \ {j} : pub'[i] = pub[i]
  BY DEF Writers
<1>3. \A u \in Uploads : pub'[u] = pub[u]
  BY StateStoreAssumption DEF Writers
<1>4. CacheOfJob'
  BY DEF AttemptInv, CacheOfJob, Present
<1>5. containers' \subseteq Names /\ up' \in BOOLEAN /\ crashes' \in 0..MaxCrashes
  BY <1>1 DEF AttemptInv, AttemptTypeOK
<1>6. QED
  BY <1>1, <1>2, <1>3, <1>4, <1>5 DEF Frame

(* A job that publishes goes on to its next step. *)
LEMMA GoesTo ==
    ASSUME AttemptInv, NEW j \in Jobs, NEW place \in {"archived", "staging", "commit"}, Goto(j, place),
           attempt[j].pc \in {"ran", "publish", "staging"}, Frame(j),
           place # "archived" => pub'[j].file = Target(j)
    PROVE  AttemptInv'
<1> DEFINE a == [attempt[j] EXCEPT !.pc = place]
<1>1. attempt' = [attempt EXCEPT ![j] = a]
  BY AttemptFacts DEF Goto
<1>2. /\ a \in Attempt /\ a.session = attempt[j].session /\ a.inputs = attempt[j].inputs
      /\ a.pc = place /\ a.try = attempt[j].try /\ a.seen = attempt[j].seen
      /\ a.warm = attempt[j].warm /\ a.end = attempt[j].end /\ a.ctx = attempt[j].ctx
  BY AttemptFacts DEF Attempt
<1> HIDE DEF a
<1>3. Locals(a) /\ UnmovedFor(a) /\ NamedAs(j, a, containers')
  BY <1>2, AttemptFacts DEF Locals, UnmovedFor, NamedAs
<1>4. QED
  BY <1>1, <1>2, <1>3, WorkerStep DEF Inactive

(* The result is written beside the caches, never over one. *)
LEMMA ArchiveKeeps ==
    ASSUME AttemptInv, NEW j \in Jobs, Archive(j)
    PROVE  AttemptInv'
<1>1. /\ WriteResult(j) /\ Goto(j, "archived") /\ attempt[j].pc = "ran"
      /\ UNCHANGED <<leaseVars, containers, boundVars>> /\ faults' = faults
  BY DEF Archive, At
<1>2. StoreInv'
  BY <1>1, WriteResultKeeps, StoreOfInv
<1>3. pub' = pub /\ \A f \in Files \ {Result(j)} : disk'[f] = disk[f]
  BY <1>1, StoreOfInv, StoreFacts DEF WriteResult
<1>4. disk'[CompileCache] = disk[CompileCache] /\ \A s \in Sessions : disk'[LiveCache(s)] = disk[LiveCache(s)]
  BY <1>3 DEF Files, LiveCaches, LiveCache, CompileCache, Result
<1>5. Frame(j)
  BY <1>1, <1>2, <1>3, <1>4, StoreFrame, AttemptFacts
<1>6. QED
  BY <1>1, <1>5, GoesTo

(* What a job stages is the checkpoint of its session or the portable      *)
(* cache.                                                                  *)
LEMMA TargetIsFile ==
    ASSUME AttemptInv, NEW j \in Jobs
    PROVE  /\ Target(j) \in Files
           /\ UsesSession(j) => SessionOf(j) \in Sessions /\ Target(j) = LiveCache(SessionOf(j))
           /\ ~UsesSession(j) => Target(j) = CompileCache
<1>1. UsesSession(j) => SessionOf(j) \in Sessions
  BY AttemptFacts DEF UsesSession, InSession, SessionOf, Attempt
<1>2. QED
  BY <1>1 DEF Target, Files, LiveCaches

(* Staging reserves bytes under the quota before it writes them. *)
LEMMA StagesKeep ==
    ASSUME AttemptInv, NEW j \in Jobs, StageState(j) \/ WriteStaged(j)
    PROVE  AttemptInv'
<1>1. /\ UNCHANGED <<leaseVars, containers, boundVars>> /\ faults' = faults
      /\ \/ attempt[j].pc = "publish" /\ Reserve(j, Target(j)) /\ Goto(j, "staging")
         \/ attempt[j].pc = "staging" /\ Stage(j) /\ Goto(j, "commit")
  BY DEF StageState, WriteStaged, At
<1>2. j \in Writers /\ Target(j) \in Files /\ StoreInv
  BY TargetIsFile, StoreOfInv DEF Writers
<1>3. StoreInv'
  BY <1>1, <1>2, ReserveKeeps, StageKeeps
<1>4. pub \in [Writers -> Publication] /\ disk' = disk
  BY <1>1, <1>2, StoreFacts DEF Reserve, Stage
<1>5. \A w \in Writers \ {j} : pub'[w] = pub[w]
  BY <1>1, <1>4 DEF Reserve, Stage
<1>6. Frame(j)
  BY <1>1, <1>3, <1>4, <1>5, StoreFrame, AttemptFacts
<1>7. pub'[j].file = Target(j)
  <2>1. CASE Reserve(j, Target(j))
    BY <1>2, <1>4, <2>1 DEF Reserve
  <2>2. CASE attempt[j].pc = "staging" /\ Stage(j)
    <3>1. pub[j].file = Target(j)
      BY <2>2 DEF AttemptInv, InPlace
    <3>2. pub'[j].file = pub[j].file
      BY <1>2, <1>4, <2>2 DEF Stage, Publication
    <3>3. QED
      BY <3>1, <3>2
  <2>3. QED
    BY <1>1, <2>1, <2>2
<1>8. QED
  BY <1>1, <1>6, <1>7, GoesTo

(* What was staged goes, or stays for nobody. *)
LEMMA DiscardsKeep ==
    ASSUME AttemptInv, NEW j \in Jobs, WriteFails(j) \/ CommitNothing(j) \/ CommitFails(j)
    PROVE  AttemptInv'
<1>1. /\ UNCHANGED <<leaseVars, containers, boundVars>> /\ (Fault \/ faults' = faults)
      /\ attempt[j].pc \in {"staging", "commit"} /\ ToSettle(j, attempt[j].poison)
      /\ Discard(j) \/ StageLeaves(j) \/ DiscardFails(j)
  BY DEF WriteFails, CommitNothing, CommitFails, At
<1>2. j \in Writers /\ StoreInv
  BY StoreOfInv DEF Writers
<1>3. StoreInv'
  BY <1>1, <1>2, DiscardKeeps, StageKeeps
<1>4. pub \in [Writers -> Publication] /\ disk' = disk
  BY <1>1, <1>2, StoreFacts DEF Discard, StageLeaves, DiscardFails
<1>5. \A w \in Writers \ {j} : pub'[w] = pub[w]
  BY <1>1, <1>4 DEF Discard, StageLeaves, DiscardFails
<1>6. faults' \in 0..MaxFaults
  BY <1>1, FaultCounts, AttemptFacts
<1>7. Frame(j)
  BY <1>1, <1>3, <1>4, <1>5, <1>6, StoreFrame
<1>8. attempt[j].poison \in BOOLEAN
  BY AttemptFacts DEF Attempt
<1>9. QED
  BY <1>1, <1>7, <1>8, SettlesAs DEF Inactive

(* The portable cache of a job is published in its place. *)
LEMMA CommitCacheKeeps ==
    ASSUME AttemptInv, NEW j \in Jobs, CommitCache(j)
    PROVE  AttemptInv'
<1>1. /\ UNCHANGED <<leaseVars, containers, boundVars>> /\ faults' = faults
      /\ attempt[j].pc = "commit" /\ ToSettle(j, attempt[j].poison) /\ ~UsesSession(j) /\ CommitLocked(j, j)
  BY DEF CommitCache, At
<1>2. j \in Writers /\ StoreInv /\ pub[j].file = CompileCache
  BY <1>1, StoreOfInv, TargetIsFile DEF Writers, AttemptInv, InPlace
<1>3. StoreInv'
  BY <1>1, <1>2, CommitKeeps
<1>4. /\ pub \in [Writers -> Publication] /\ disk \in [Files -> File]
      /\ CompileCache \in Files /\ pub' = [pub EXCEPT ![j] = NoPublication]
      /\ disk' = [disk EXCEPT ![CompileCache] = [size |-> StagedBytes, by |-> j, aged |-> FALSE]]
  BY <1>1, <1>2, StoreFacts DEF CommitLocked, Files
<1>5. /\ \A w \in Writers \ {j} : pub'[w] = pub[w]
      /\ disk'[CompileCache].by \in Jobs
      /\ \A f \in Files \ {CompileCache} : disk'[f] = disk[f]
  BY <1>4
<1>6. \A s \in Sessions : disk'[LiveCache(s)] = disk[LiveCache(s)]
  BY <1>5 DEF Files, LiveCaches, LiveCache, CompileCache
<1>7. Frame(j)
  BY <1>1, <1>3, <1>5, <1>6, StoreFrame, AttemptFacts
<1>8. attempt[j].poison \in BOOLEAN
  BY AttemptFacts DEF Attempt
<1>9. QED
  BY <1>1, <1>7, <1>8, SettlesAs DEF Inactive

-----------------------------------------------------------------------------
(* Steps beside the workers and the sessions.                              *)
LEMMA Aside ==
    ASSUME AttemptInv, UNCHANGED <<attempt, leaseVars, containers, isolated>>, StoreInv',
           \A i \in Jobs : pub'[i] = pub[i],
           \A u \in Uploads : pub'[u].phase # "none" => pub'[u].file = Blob(u),
           \A s \in Sessions : disk'[LiveCache(s)] = disk[LiveCache(s)],
           CacheOfJob', up' \in BOOLEAN, crashes' \in 0..MaxCrashes, faults' \in 0..MaxFaults
    PROVE  AttemptInv'
<1>1. UNCHANGED <<attempt, lease, undeleted, containers, isolated>>
  BY DEF leaseVars
<1>2. AttemptTypeOK' /\ QuotaHeld'
  BY <1>1 DEF StoreInv, AttemptInv, AttemptTypeOK
<1>3. (\A j \in Jobs : Locals(attempt'[j])) /\ Compared' /\ SlotHeld'
  BY <1>1 DEF AttemptInv, Compared, CompatibleCacheInputs, SlotHeld, Active, InSession, LeaseOf, SessionOf
<1>4. InPlace'
  BY <1>1 DEF AttemptInv, InPlace, Target, UsesSession, InSession, SessionOf
<1>5. Owned'
  BY <1>1 DEF AttemptInv, Owned, Present
<1>6. Unmoved'
  <2>1. \A j \in Jobs : UnmovedFor(attempt[j]) /\ attempt[j] \in Attempt
    BY DEF AttemptInv, AttemptTypeOK, Unmoved
  <2>2. QED
    BY <1>1, <2>1 DEF Unmoved, UnmovedFor, Present, Attempt
<1>7. Named'
  BY <1>1 DEF AttemptInv, Named
<1>8. QED
  BY <1>2, <1>3, <1>4, <1>5, <1>6, <1>7 DEF AttemptInv

(* Files that nobody's worker reads go, shrink or grow old. *)
LEMMA FilesChange ==
    ASSUME AttemptInv, UNCHANGED <<attempt, leaseVars, containers, boundVars>>, StoreInv', pub' = pub,
           \A s \in Sessions : disk'[LiveCache(s)] = disk[LiveCache(s)],
           disk'[CompileCache].by = disk[CompileCache].by \/ disk'[CompileCache].size = 0,
           disk'[CompileCache].size > 0 => disk[CompileCache].size > 0,
           Fault \/ faults' = faults
    PROVE  AttemptInv'
<1>1. isolated' = isolated /\ up' \in BOOLEAN /\ crashes' \in 0..MaxCrashes
  BY DEF boundVars, AttemptInv, AttemptTypeOK
<1>2. faults' \in 0..MaxFaults
  BY FaultCounts DEF AttemptInv, AttemptTypeOK
<1>3. CacheOfJob'
  BY DEF AttemptInv, CacheOfJob, Present
<1>4. /\ \A i \in Jobs : pub'[i] = pub[i]
      /\ \A u \in Uploads : pub'[u].phase # "none" => pub'[u].file = Blob(u)
  BY DEF AttemptInv, InPlace
<1>5. QED
  BY <1>1, <1>2, <1>3, <1>4, Aside

(* Sweeps only take away, and count what they took. *)
LEMMA SweepsKeep ==
    ASSUME AttemptInv, Sweep \/ SweepFails
    PROVE  AttemptInv'
<1>1. UNCHANGED <<attempt, leaseVars, containers, boundVars>> /\ (Fault \/ faults' = faults) /\ StoreInv
  BY StoreOfInv DEF Sweep, SweepFails
<1>2. PICK fs \in SUBSET Expirable, js \in SUBSET Jobs :
        /\ disk' = Stripped(Without(fs), js) \/ disk' = Without(fs)
        /\ Prune(fs, js) \/ PruneFails
  BY DEF Sweep, SweepFails, Prune, PruneFails
<1>3. fs \in SUBSET Files /\ \A s \in Sessions : LiveCache(s) \notin fs
  BY DEF Expirable, Files, LiveCaches
<1>4. StoreInv' /\ pub' = pub
  BY <1>1, <1>2, <1>3, PruneKeeps, PruneFailsKeeps DEF Prune, PruneFails
<1>5. /\ \A s \in Sessions : LiveCache(s) \in Files /\ \A j \in Jobs : LiveCache(s) # Result(j)
      /\ CompileCache \in Files /\ \A j \in Jobs : CompileCache # Result(j)
  BY DEF LiveCache, Result, CompileCache, Files, LiveCaches
<1>6. \A f \in Files : (\A j \in Jobs : f # Result(j)) => disk'[f] = IF f \in fs THEN NoFile ELSE disk[f]
  BY <1>2 DEF Stripped, Without
<1>7. \A s \in Sessions : disk'[LiveCache(s)] = disk[LiveCache(s)]
  BY <1>3, <1>5, <1>6
<1>8. disk'[CompileCache] = disk[CompileCache] \/ disk'[CompileCache].size = 0
  BY <1>5, <1>6 DEF NoFile
<1>9. QED
  BY <1>1, <1>4, <1>7, <1>8, FilesChange

(* Retention of caches, blobs and results only takes away. *)
LEMMA CleanupsKeep ==
    ASSUME AttemptInv, CleanupCache \/ CleanupBlobs \/ \E j \in Jobs : CleanupResult(j)
    PROVE  AttemptInv'
<1>1. UNCHANGED <<attempt, leaseVars, containers, boundVars>> /\ faults' = faults /\ StoreInv
  BY StoreOfInv DEF CleanupCache, CleanupBlobs, CleanupResult
<1>2. DeleteCompileCaches \/ CollectUnreferencedBlobs \/ \E j \in Jobs : DeleteResult(j)
  BY DEF CleanupCache, CleanupBlobs, CleanupResult
<1>3. StoreInv' /\ pub' = pub
  BY <1>1, <1>2, DeletesKeep, CollectKeeps DEF DeleteCompileCaches, CollectUnreferencedBlobs, DeleteResult
<1>4. PICK fs : disk' = Without(fs) /\ \A s \in Sessions : LiveCache(s) \notin fs
  <2>1. CASE DeleteCompileCaches
    BY <2>1 DEF DeleteCompileCaches, LiveCache, CompileCache
  <2>2. CASE CollectUnreferencedBlobs
    BY <2>2 DEF CollectUnreferencedBlobs, LiveCache, Blobs, Blob
  <2>3. CASE \E j \in Jobs : DeleteResult(j)
    BY <2>3 DEF DeleteResult, LiveCache, Result
  <2>4. QED
    BY <1>2, <2>1, <2>2, <2>3
<1>5. CompileCache \in Files /\ \A s \in Sessions : LiveCache(s) \in Files
  BY DEF Files, LiveCaches
<1>6. \A s \in Sessions : disk'[LiveCache(s)] = disk[LiveCache(s)]
  BY <1>4, <1>5 DEF Without
<1>7. disk'[CompileCache] = disk[CompileCache] \/ disk'[CompileCache].size = 0
  BY <1>4, <1>5 DEF Without, NoFile
<1>8. QED
  BY <1>1, <1>3, <1>6, <1>7, FilesChange

(* A download marks a result as delivered. *)
LEMMA DownloadKeeps ==
    ASSUME AttemptInv, NEW j \in Jobs, Download(j)
    PROVE  AttemptInv'
<1>1. UNCHANGED <<attempt, leaseVars, containers, boundVars>> /\ faults' = faults /\ PruneResultAuxiliary(j) /\ StoreInv
  BY StoreOfInv DEF Download
<1>2. StoreInv' /\ pub' = pub /\ disk' = Stripped(disk, {j})
  BY <1>1, StripKeeps DEF PruneResultAuxiliary
<1>3. /\ \A s \in Sessions : LiveCache(s) \in Files /\ LiveCache(s) # Result(j)
      /\ CompileCache \in Files /\ CompileCache # Result(j)
  BY DEF LiveCache, Result, CompileCache, Files, LiveCaches
<1>4. disk'[CompileCache] = disk[CompileCache] /\ \A s \in Sessions : disk'[LiveCache(s)] = disk[LiveCache(s)]
  BY <1>2, <1>3 DEF Stripped
<1>5. QED
  BY <1>1, <1>2, <1>4, FilesChange

(* An old portable cache is still the cache of its job. *)
LEMMA AgeCacheKeeps ==
    ASSUME AttemptInv, AgeCache
    PROVE  AttemptInv'
<1>1. UNCHANGED <<attempt, leaseVars, containers, boundVars>> /\ faults' = faults /\ Age(CompileCache) /\ StoreInv
  BY StoreOfInv DEF AgeCache
<1>2. CompileCache \in Files /\ (\A s \in Sessions : LiveCache(s) \in Files /\ LiveCache(s) # CompileCache)
  BY DEF LiveCache, CompileCache, Files, LiveCaches
<1>3. StoreInv' /\ pub' = pub
  BY <1>1, <1>2, AgeKeeps DEF Age
<1>4. disk \in [Files -> File] /\ disk' = [disk EXCEPT ![CompileCache] = [disk[CompileCache] EXCEPT !.aged = TRUE]]
  BY <1>1, StoreFacts DEF Age
<1>5. [disk[CompileCache] EXCEPT !.aged = TRUE].by = disk[CompileCache].by
      /\ [disk[CompileCache] EXCEPT !.aged = TRUE].size = disk[CompileCache].size
  BY <1>2, <1>4 DEF File
<1>6. /\ disk'[CompileCache].by = disk[CompileCache].by /\ disk'[CompileCache].size = disk[CompileCache].size
      /\ \A s \in Sessions : disk'[LiveCache(s)] = disk[LiveCache(s)]
  BY <1>2, <1>4, <1>5
<1>7. QED
  BY <1>1, <1>3, <1>6, FilesChange

(* A blob is written where its digest says. *)
LEMMA PutBlobKeeps ==
    ASSUME AttemptInv, NEW u \in Uploads, PutBlob(u) \/ PutBlobFails(u)
    PROVE  AttemptInv'
<1>1. /\ UNCHANGED <<attempt, leaseVars, containers, boundVars>> /\ (Fault \/ faults' = faults)
      /\ \/ Reserve(u, Blob(u)) \/ Stage(u) \/ CommitLocked(u, Nobody)
         \/ Discard(u) \/ StageLeaves(u) \/ DiscardFails(u)
  BY DEF PutBlob, PutBlobFails
<1>2. u \in Writers /\ Blob(u) \in Files /\ StoreInv /\ u \notin Jobs /\ Jobs \subseteq Writers /\ Uploads \subseteq Writers
  BY StoreOfInv, StateStoreAssumption DEF Writers, Files, Blobs
<1>3. disk \in [Files -> File] /\ pub \in [Writers -> Publication]
  BY <1>2, StoreFacts
<1>4. StoreInv'
  BY <1>1, <1>2, ReserveKeeps, StageKeeps, CommitKeeps, DiscardKeeps
<1>5. \A w \in Writers \ {u} : pub'[w] = pub[w]
  BY <1>1, <1>3 DEF Reserve, Stage, CommitLocked, Discard, StageLeaves, DiscardFails
<1>6. pub'[u].phase # "none" => pub'[u].file = Blob(u)
  <2>1. CASE Reserve(u, Blob(u))
    BY <1>2, <1>3, <2>1 DEF Reserve
  <2>2. CASE Stage(u) \/ DiscardFails(u)
    <3>1. pub[u].file = Blob(u) /\ pub[u] \in Publication
      BY <1>2, <1>3, <2>2 DEF AttemptInv, InPlace, Stage, DiscardFails
    <3>2. pub'[u].file = pub[u].file
      BY <1>2, <1>3, <2>2, <3>1 DEF Stage, DiscardFails, Publication
    <3>3. QED
      BY <3>1, <3>2
  <2>3. CASE CommitLocked(u, Nobody) \/ Discard(u) \/ StageLeaves(u)
    BY <1>2, <1>3, <2>3 DEF CommitLocked, Discard, StageLeaves, NoPublication
  <2>4. QED
    BY <1>1, <2>1, <2>2, <2>3
<1>7. \A f \in Files \ {Blob(u)} : disk'[f] = disk[f]
  <2>1. CASE CommitLocked(u, Nobody)
    <3>1. pub[u].file = Blob(u)
      BY <2>1 DEF AttemptInv, InPlace, CommitLocked
    <3>2. QED
      BY <1>3, <2>1, <3>1 DEF CommitLocked
  <2>2. CASE ~CommitLocked(u, Nobody)
    BY <1>1, <2>2 DEF Reserve, Stage, Discard, StageLeaves, DiscardFails
  <2>3. QED
    BY <2>1, <2>2
<1>8. disk'[CompileCache] = disk[CompileCache] /\ \A s \in Sessions : disk'[LiveCache(s)] = disk[LiveCache(s)]
  BY <1>7 DEF LiveCache, CompileCache, Blob, Files, LiveCaches
<1>9. isolated' = isolated /\ up' \in BOOLEAN /\ crashes' \in 0..MaxCrashes
  BY <1>1 DEF boundVars, AttemptInv, AttemptTypeOK
<1>10. faults' \in 0..MaxFaults
  BY <1>1, FaultCounts DEF AttemptInv, AttemptTypeOK
<1>11. CacheOfJob'
  BY <1>8 DEF AttemptInv, CacheOfJob, Present
<1>12. /\ \A i \in Jobs : pub'[i] = pub[i]
       /\ \A v \in Uploads : pub'[v].phase # "none" => pub'[v].file = Blob(v)
  BY <1>2, <1>5, <1>6 DEF AttemptInv, InPlace
<1>13. QED
  BY <1>1, <1>4, <1>8, <1>9, <1>10, <1>11, <1>12, Aside

(* A crash stops the processes where they are. *)
LEMMA CrashKeeps ==
    ASSUME AttemptInv, Crash \/ UNCHANGED vars
    PROVE  AttemptInv'
<1>1. /\ UNCHANGED <<attempt, leaseVars, containers, isolated>> /\ UNCHANGED <<disk, pub, stateBytes, pendingBytes, litter>>
      /\ up' \in BOOLEAN /\ crashes' \in 0..MaxCrashes /\ faults' \in 0..MaxFaults
  <2>1. up \in BOOLEAN /\ crashes \in 0..MaxCrashes /\ faults \in 0..MaxFaults /\ MaxCrashes \in Nat
    BY AttemptAssumption DEF AttemptInv, AttemptTypeOK
  <2>2. CASE Crash
    <3>1. crashes < MaxCrashes /\ crashes' = crashes + 1
      BY <2>2 DEF Crash
    <3>2. crashes' \in 0..MaxCrashes
      BY <2>1, <3>1
    <3>3. /\ up' = FALSE /\ UNCHANGED <<disk, pub, stateBytes, pendingBytes, litter>>
          /\ UNCHANGED <<attempt, leaseVars, containers, isolated, faults>>
      BY <2>2 DEF Crash, storeVars, leaseVars
    <3>4. QED
      BY <2>1, <3>2, <3>3
  <2>3. CASE UNCHANGED vars
    BY <2>1, <2>3 DEF vars, leaseVars
  <2>4. QED
    BY <2>2, <2>3
<1>2. StoreInv'
  BY <1>1, StoreOfInv DEF StoreInv, StoreTypeOK, QuotaHeld, directorySize, Bytes, Reserving
<1>3. CacheOfJob'
  BY <1>1 DEF AttemptInv, CacheOfJob, Present
<1>4. \A u \in Uploads : pub'[u].phase # "none" => pub'[u].file = Blob(u)
  BY <1>1 DEF AttemptInv, InPlace
<1>5. QED
  BY <1>1, <1>2, <1>3, <1>4, Aside

-----------------------------------------------------------------------------
(* Submission: an identifier no worker has compared yet gets its inputs.   *)
LEMMA SubmitKeeps ==
    ASSUME AttemptInv, NEW j \in Jobs, Submit(j)
    PROVE  AttemptInv'
<1>1. PICK s \in Sessions \cup {NoSession}, i \in Inputs :
        attempt' = [attempt EXCEPT ![j].pc = "queued", ![j].session = s, ![j].inputs = i]
  BY DEF Submit
<1>2. attempt[j].pc = "new" /\ attempt[j].inputs = NoInputs
  BY AttemptFacts DEF Submit, At, Locals
<1>3. /\ UNCHANGED <<disk, pub, stateBytes, pendingBytes, litter>>
      /\ UNCHANGED <<lease, undeleted, containers, isolated, up, crashes, faults>>
  BY DEF Submit, storeVars, leaseVars, boundVars
<1> DEFINE b == [attempt[j] EXCEPT !.pc = "queued", !.session = s]
           a == [b EXCEPT !.inputs = i]
<1>4. attempt' = [attempt EXCEPT ![j] = a]
  BY <1>1, AttemptFacts
<1>5. /\ b \in Attempt /\ b.pc = "queued" /\ b.try = attempt[j].try /\ b.seen = attempt[j].seen
      /\ b.warm = attempt[j].warm /\ b.end = attempt[j].end
  BY AttemptFacts DEF Attempt
<1> HIDE DEF b
<1>6. /\ a \in Attempt /\ a.pc = "queued" /\ a.try = attempt[j].try /\ a.seen = attempt[j].seen
      /\ a.warm = attempt[j].warm /\ a.end = attempt[j].end /\ a.inputs = i
  BY <1>5 DEF Attempt
<1> HIDE DEF a
<1>7. attempt' \in [Jobs -> Attempt] /\ \A k \in Jobs : attempt'[k] = IF k = j THEN a ELSE attempt[k]
  BY <1>4, <1>6, AttemptFacts
<1>8. AttemptTypeOK' /\ QuotaHeld'
  BY <1>3, <1>7 DEF AttemptInv, AttemptTypeOK, StoreTypeOK, QuotaHeld, directorySize, Bytes, Reserving
<1>9. \A k \in Jobs : Locals(attempt'[k])
  <2>1. Locals(a)
    BY <1>2, <1>6, AttemptFacts DEF Locals
  <2>2. QED
    BY <1>7, <2>1 DEF AttemptInv
<1>10. Compared'
  <2>1. a.seen = Nobody
    BY <1>2, <1>6, AttemptFacts DEF Locals
  <2>2. ASSUME NEW k \in Jobs, attempt[k].seen # Nobody PROVE attempt[k].seen # j /\ k # j
    <3>1. attempt[attempt[k].seen].inputs = attempt[k].inputs
      BY <2>2 DEF AttemptInv, Compared, CompatibleCacheInputs
    <3>2. attempt[k].pc # "new" /\ attempt[k].inputs # NoInputs
      BY <2>2, AttemptFacts DEF Locals
    <3>3. QED
      BY <1>2, <3>1, <3>2
  <2>3. \A k \in Jobs : attempt[k].seen \in Jobs \cup {Nobody}
    BY DEF AttemptInv, AttemptTypeOK, Attempt
  <2>4. QED
    BY <1>7, <2>1, <2>2, <2>3 DEF AttemptInv, Compared, CompatibleCacheInputs
<1>11. SlotHeld'
  BY <1>3, <1>6, <1>7 DEF AttemptInv, SlotHeld, Active, InSession, LeaseOf, SessionOf
<1>12. InPlace'
  BY <1>3, <1>6, <1>7 DEF AttemptInv, InPlace, Target, UsesSession, InSession, SessionOf
<1>13. Owned' /\ CacheOfJob'
  BY <1>3 DEF AttemptInv, Owned, CacheOfJob, Present
<1>14. Unmoved'
  <2>1. \A k \in Jobs : UnmovedFor(attempt'[k]) /\ attempt'[k] \in Attempt
    BY <1>6, <1>7 DEF AttemptInv, Unmoved, UnmovedFor
  <2>2. QED
    BY <1>3, <2>1 DEF Unmoved, UnmovedFor, Present, Attempt
<1>15. Named'
  <2>1. NamedAs(j, a, containers)
    BY <1>2, <1>6, AttemptFacts DEF NamedAs
  <2>2. QED
    BY <1>3, <1>7, <2>1 DEF AttemptInv, Named
<1>16. QED
  BY <1>8, <1>9, <1>10, <1>11, <1>12, <1>13, <1>14, <1>15 DEF AttemptInv

-----------------------------------------------------------------------------
(* A step on one session: its lease, its checkpoint, and the jobs that go  *)
(* on, are cut off or end with it.                                         *)
GoesOn(i, s, l) ==
    /\ attempt'[i].session = attempt[i].session /\ attempt'[i].inputs = attempt[i].inputs
    /\ Locals(attempt'[i]) /\ NamedAs(i, attempt'[i], containers)
    /\ attempt'[i].seen # Nobody => attempt'[i].seen = attempt[i].seen
    /\ attempt'[i].pc = "launch" => attempt[i].pc = "launch" /\ attempt'[i].try = attempt[i].try
    /\ attempt'[i].pc \in {"staging", "commit"} => attempt[i].pc \in {"staging", "commit"} /\ pub'[i] = pub[i]
    /\ attempt'[i].pc \notin Inactive =>
          /\ attempt[i].pc \notin Inactive \/ attempt[i].session = s
          /\ attempt[i].session = s /\ l.live => l.running = i
          /\ attempt[i].session = s /\ attempt'[i].pc = "launch" /\ disk'[LiveCache(s)].size > 0 =>
                 disk'[LiveCache(s)] = disk[LiveCache(s)]

(* What the session then records, and what is on disk. *)
StillOwned(s, l) ==
    /\ l.of # Nobody => disk'[LiveCache(s)].by = l.of
    /\ disk'[LiveCache(s)].size > 0 /\ s \notin undeleted' => l.live /\ l.of # Nobody
    /\ \A t \in Sessions \ {s} : disk'[LiveCache(t)] = disk[LiveCache(t)] /\ (t \in undeleted' <=> t \in undeleted)

(* A step that changes one lease, when the jobs that look at it go on as   *)
(* they were.                                                              *)
LEMMA SessionStep ==
    ASSUME AttemptInv, NEW s \in Sessions, NEW l \in Lease, lease' = [lease EXCEPT ![s] = l],
           UNCHANGED <<containers, boundVars>>, faults' \in 0..MaxFaults,
           StoreInv', CacheOfJob', undeleted' \subseteq Sessions,
           attempt' \in [Jobs -> Attempt],
           \A i \in Jobs : GoesOn(i, s, l), StillOwned(s, l), \A u \in Uploads : pub'[u] = pub[u]
    PROVE  AttemptInv'
<1>1. /\ UNCHANGED <<containers, isolated, up, crashes>>
      /\ lease \in [Sessions -> Lease] /\ \A t \in Sessions : lease'[t] = IF t = s THEN l ELSE lease[t]
      /\ attempt \in [Jobs -> Attempt] /\ NoSession \notin Sessions /\ Nobody \notin Jobs
  BY StateStoreAssumption, AttemptAssumption DEF boundVars, AttemptInv, AttemptTypeOK
<1>2. AttemptTypeOK' /\ QuotaHeld'
  BY <1>1 DEF StoreInv, AttemptInv, AttemptTypeOK
<1>3. Compared'
  <2>1. \A i \in Jobs : attempt'[i].seen # Nobody => attempt'[i].seen \in Jobs /\ attempt[attempt'[i].seen].inputs = attempt[i].inputs
    BY <1>1 DEF AttemptInv, Compared, CompatibleCacheInputs, Attempt, GoesOn
  <2>2. QED
    BY <2>1 DEF Compared, CompatibleCacheInputs, GoesOn
<1>4. SlotHeld'
  <2>1. SUFFICES ASSUME NEW i \in Jobs, attempt'[i].pc \notin Inactive, attempt'[i].session # NoSession,
                        lease'[attempt'[i].session].live
                 PROVE  lease'[attempt'[i].session].running = i
    BY DEF SlotHeld, Active, Inactive, InSession, LeaseOf, SessionOf
  <2>2. attempt[i].session = attempt'[i].session /\ attempt[i].session \in Sessions
    BY <1>1, <2>1 DEF Attempt, GoesOn
  <2>3. CASE attempt[i].session = s
    BY <1>1, <2>1, <2>2, <2>3 DEF GoesOn
  <2>4. CASE attempt[i].session # s
    <3>1. attempt[i].pc \notin Inactive
      BY <2>1, <2>2, <2>4 DEF GoesOn
    <3>2. QED
      BY <1>1, <2>1, <2>2, <2>4, <3>1 DEF AttemptInv, SlotHeld, Active, Inactive, InSession, LeaseOf, SessionOf
  <2>5. QED
    BY <2>3, <2>4
<1>5. InPlace'
  <2>1. \A i \in Jobs : Target(i)' = Target(i)
    BY <1>1 DEF Target, UsesSession, InSession, SessionOf, GoesOn
  <2>2. QED
    BY <2>1 DEF AttemptInv, InPlace, GoesOn
<1>6. Owned'
  <2>1. \A t \in Sessions \ {s} :
          /\ lease'[t].of # Nobody => disk'[LiveCache(t)].by = lease'[t].of
          /\ disk'[LiveCache(t)].size > 0 /\ t \notin undeleted' => lease'[t].live /\ lease'[t].of # Nobody
    BY <1>1 DEF AttemptInv, Owned, Present, StillOwned
  <2>2. lease'[s] = l
    BY <1>1
  <2>3. QED
    BY <2>1, <2>2 DEF Owned, Present, StillOwned
<1>7. Unmoved'
  <2>1. SUFFICES ASSUME NEW i \in Jobs, attempt'[i].pc = "launch", attempt'[i].try = 1, attempt'[i].seen # Nobody,
                        isolated, attempt'[i].session # NoSession, disk'[LiveCache(attempt'[i].session)].size > 0
                 PROVE  disk'[LiveCache(attempt'[i].session)].by = attempt'[i].seen
    BY <1>1 DEF Unmoved, UnmovedFor, Present
  <2>2. /\ attempt'[i].session = attempt[i].session /\ attempt[i].session \in Sessions
        /\ attempt[i].pc = "launch" /\ attempt[i].try = 1 /\ attempt[i].seen = attempt'[i].seen
    BY <1>1, <2>1 DEF Attempt, GoesOn
  <2>3. disk'[LiveCache(attempt[i].session)] = disk[LiveCache(attempt[i].session)]
    <3>1. CASE attempt[i].session = s
      BY <2>1, <2>2, <3>1 DEF Inactive, GoesOn
    <3>2. CASE attempt[i].session # s
      BY <2>2, <3>2 DEF StillOwned
    <3>3. QED
      BY <3>1, <3>2
  <2>4. UnmovedFor(attempt[i])
    BY DEF AttemptInv, Unmoved
  <2>5. QED
    BY <2>1, <2>2, <2>3, <2>4 DEF UnmovedFor, Present
<1>8. Named'
  BY <1>1 DEF Named, GoesOn
<1>9. QED
  BY <1>2, <1>3, <1>4, <1>5, <1>6, <1>7, <1>8 DEF AttemptInv, GoesOn

(* What a session step starts from. *)
LEMMA LeaseFacts ==
    ASSUME AttemptInv, NEW s \in Sessions
    PROVE  /\ lease \in [Sessions -> Lease] /\ lease[s] \in Lease /\ undeleted \subseteq Sessions
           /\ lease[s].of # Nobody => disk[LiveCache(s)].by = lease[s].of
           /\ disk[LiveCache(s)].size > 0 /\ s \notin undeleted => lease[s].live /\ lease[s].of # Nobody
           /\ NoSession \notin Sessions /\ LiveCache(s) \in Files
           /\ \A t \in Sessions : t # s => LiveCache(t) # LiveCache(s)
           /\ \A t \in Sessions : LiveCache(t) \in Files /\ LiveCache(t) # CompileCache
BY AttemptAssumption DEF AttemptInv, AttemptTypeOK, Owned, Present, LiveCache, CompileCache, Files, LiveCaches

(* The jobs of a live session are its one active job and idle ones. *)
LEMMA OneActive ==
    ASSUME AttemptInv, NEW i \in Jobs, attempt[i].session \in Sessions, attempt[i].pc \notin Inactive,
           lease[attempt[i].session].live
    PROVE  lease[attempt[i].session].running = i
BY AttemptAssumption DEF AttemptInv, SlotHeld, Active, Inactive, InSession, LeaseOf, SessionOf

(* The slot is taken by a job that starts. *)
LEMMA StartKeeps ==
    ASSUME AttemptInv, NEW j \in Jobs, Start(j)
    PROVE  AttemptInv'
<1> DEFINE a == [attempt[j] EXCEPT !.pc = "started"]
<1>1. /\ attempt[j].pc = "queued" /\ SlotFree(j) /\ attempt' = [attempt EXCEPT ![j] = a]
      /\ lease' = IF InSession(j) THEN [lease EXCEPT ![SessionOf(j)].running = j] ELSE lease
      /\ UNCHANGED <<storeVars, undeleted, containers, boundVars>> /\ faults' = faults
  BY AttemptFacts DEF Start, At, Goto
<1>2. /\ a \in Attempt /\ a.session = attempt[j].session /\ a.inputs = attempt[j].inputs
      /\ a.pc = "started" /\ a.try = attempt[j].try /\ a.seen = attempt[j].seen
      /\ a.warm = attempt[j].warm /\ a.end = attempt[j].end
  BY AttemptFacts DEF Attempt
<1> HIDE DEF a
<1>3. Locals(a) /\ NamedAs(j, a, containers) /\ UnmovedFor(a) /\ a.seen = Nobody
  BY <1>1, <1>2, AttemptFacts DEF Locals, NamedAs, UnmovedFor
<1>4. attempt' \in [Jobs -> Attempt] /\ \A i \in Jobs : attempt'[i] = IF i = j THEN a ELSE attempt[i]
  BY <1>1, <1>2, AttemptFacts
<1>5. /\ UNCHANGED <<disk, pub, stateBytes, pendingBytes, litter, undeleted, containers, isolated, up, crashes>>
      /\ faults' \in 0..MaxFaults
  BY <1>1 DEF storeVars, boundVars, AttemptInv, AttemptTypeOK
<1>6. StoreInv' /\ CacheOfJob'
  BY <1>5, StoreOfInv DEF StoreInv, StoreTypeOK, QuotaHeld, directorySize, Bytes, Reserving, AttemptInv, CacheOfJob, Present
<1>7. CASE InSession(j)
  <2> DEFINE s == SessionOf(j)
             l == [lease[s] EXCEPT !.running = j]
  <2>1. s \in Sessions /\ attempt[j].session = s
    BY <1>7, AttemptFacts DEF InSession, SessionOf, Attempt
  <2>2. /\ l \in Lease /\ l.live = lease[s].live /\ l.of = lease[s].of /\ l.running = j
        /\ lease' = [lease EXCEPT ![s] = l] /\ lease[s].live /\ lease[s].running = Nobody
    BY <1>1, <1>7, <2>1, LeaseFacts DEF Lease, SlotFree, LeaseOf
  <2> HIDE DEF l, s
  <2>3. \A i \in Jobs : attempt[i].session = s => attempt[i].pc \in Inactive
    BY <2>1, <2>2, OneActive, AttemptFacts
  <2>4. ASSUME NEW i \in Jobs PROVE GoesOn(i, s, l)
    <3>1. CASE i = j
      BY <1>2, <1>3, <1>4, <1>5, <2>1, <2>2, <3>1 DEF GoesOn
    <3>2. CASE i # j
      BY <1>4, <1>5, <2>3, <3>2, AttemptFacts DEF GoesOn
    <3>3. QED
      BY <3>1, <3>2
  <2>5. StillOwned(s, l)
    BY <1>5, <2>1, <2>2, LeaseFacts DEF StillOwned
  <2>6. undeleted' \subseteq Sessions /\ \A u \in Uploads : pub'[u] = pub[u]
    BY <1>5, <2>1, LeaseFacts
  <2>7. QED
    BY <1>1, <1>4, <1>5, <1>6, <2>1, <2>2, <2>4, <2>5, <2>6, SessionStep
<1>8. CASE ~InSession(j)
  <2>1. lease' = lease /\ attempt[j].session = NoSession
    BY <1>1, <1>8 DEF InSession, SessionOf
  <2>2. AttemptTypeOK' /\ QuotaHeld'
    BY <1>4, <1>5, <1>6, <2>1 DEF StoreInv, AttemptInv, AttemptTypeOK
  <2>3. (\A i \in Jobs : Locals(attempt'[i])) /\ Compared'
    <3>1. \A i \in Jobs : attempt'[i].inputs = attempt[i].inputs /\ (attempt'[i].seen # Nobody => attempt'[i].seen = attempt[i].seen)
      BY <1>2, <1>4
    <3>2. \A i \in Jobs : attempt'[i].seen \in Jobs \cup {Nobody}
      BY <1>4 DEF Attempt
    <3>3. QED
      BY <1>3, <1>4, <3>1, <3>2 DEF AttemptInv, Compared, CompatibleCacheInputs
  <2>4. SlotHeld'
    BY <1>2, <1>4, <2>1 DEF AttemptInv, SlotHeld, Active, InSession, LeaseOf, SessionOf
  <2>5. InPlace'
    BY <1>2, <1>4, <1>5 DEF AttemptInv, InPlace, Target, UsesSession, InSession, SessionOf
  <2>6. Owned'
    BY <1>5, <2>1 DEF AttemptInv, Owned, Present
  <2>7. Unmoved'
    <3>1. \A i \in Jobs : UnmovedFor(attempt'[i]) /\ attempt'[i] \in Attempt
      BY <1>3, <1>4 DEF AttemptInv, Unmoved
    <3>2. QED
      BY <1>5, <3>1 DEF Unmoved, UnmovedFor, Present, Attempt
  <2>8. Named'
    BY <1>3, <1>4, <1>5 DEF AttemptInv, Named
  <2>9. QED
    BY <1>6, <2>2, <2>3, <2>4, <2>5, <2>6, <2>7, <2>8 DEF AttemptInv
<1>9. QED
  BY <1>7, <1>8

(* The checkpoint of a session goes, or is known not to have gone. *)
LEMMA ClearFacts ==
    ASSUME AttemptInv, NEW s \in Sessions, ClearSessionCache(s)
    PROVE  /\ StoreInv' /\ CacheOfJob' /\ undeleted' \subseteq Sessions /\ faults' \in 0..MaxFaults
           /\ pub' = pub
           /\ disk'[LiveCache(s)].size > 0 => disk'[LiveCache(s)] = disk[LiveCache(s)]
           /\ \A l \in Lease : l.of = Nobody => StillOwned(s, l)
<1>1. CASE DeleteLiveCache(s) /\ UNCHANGED <<undeleted, faults>>
  <2>1. StoreInv' /\ pub' = pub /\ disk' = Without({LiveCache(s)})
    BY <1>1, StoreOfInv, DeletesKeep DEF DeleteLiveCache
  <2>2. CompileCache \in Files /\ LiveCache(s) \in Files /\ CompileCache # LiveCache(s)
    BY DEF Files, LiveCaches, LiveCache, CompileCache
  <2>3. /\ disk'[CompileCache] = disk[CompileCache]
        /\ \A t \in Sessions \ {s} : disk'[LiveCache(t)] = disk[LiveCache(t)]
        /\ disk'[LiveCache(s)] = NoFile
    BY <2>1, <2>2, LeaseFacts DEF Without
  <2>4. CacheOfJob'
    BY <2>3 DEF AttemptInv, CacheOfJob, Present
  <2>5. \A l \in Lease : l.of = Nobody => StillOwned(s, l)
    BY <1>1, <2>3 DEF StillOwned, NoFile
  <2>6. QED
    BY <1>1, <2>1, <2>3, <2>4, <2>5 DEF NoFile, AttemptInv, AttemptTypeOK
<1>2. CASE Present(LiveCache(s)) /\ Fault /\ undeleted' = undeleted \cup {s} /\ UNCHANGED storeVars
  <2>1. UNCHANGED <<disk, pub, stateBytes, pendingBytes, litter>>
    BY <1>2 DEF storeVars
  <2>2. StoreInv' /\ CacheOfJob'
    BY <2>1, StoreOfInv DEF StoreInv, StoreTypeOK, QuotaHeld, directorySize, Bytes, Reserving, AttemptInv, CacheOfJob, Present
  <2>3. \A l \in Lease : l.of = Nobody => StillOwned(s, l)
    BY <1>2, <2>1 DEF StillOwned
  <2>4. QED
    BY <1>2, <2>1, <2>2, <2>3, FaultCounts, LeaseFacts
<1>3. QED
  BY <1>1, <1>2 DEF ClearSessionCache

(* A lease that names no checkpoint any more. *)
LEMMA Cleared ==
    ASSUME NEW l \in Lease
    PROVE  NoCheckpoint(l) \in Lease /\ NoCheckpoint(l).of = Nobody /\ NoCheckpoint(l).live = l.live
           /\ NoCheckpoint(l).running = l.running
BY DEF NoCheckpoint, Lease

(* Everyone else stays where it is. *)
LEMMA StaysPut ==
    ASSUME AttemptInv, NEW i \in Jobs, NEW s \in Sessions, NEW l \in Lease, attempt'[i] = attempt[i], pub'[i] = pub[i],
           disk'[LiveCache(s)].size > 0 => disk'[LiveCache(s)] = disk[LiveCache(s)] \/ attempt[i].pc # "launch"
                                           \/ attempt[i].session # s,
           l.live /\ attempt[i].session = s /\ attempt[i].pc \notin Inactive => l.running = i
    PROVE  GoesOn(i, s, l)
BY AttemptFacts DEF GoesOn

(* A checkpoint that expires goes with its entry in the lease. *)
LEMMA ExpireKeeps ==
    ASSUME AttemptInv, NEW s \in Sessions, ExpireCheckpoint(s)
    PROVE  AttemptInv'
<1> DEFINE l == NoCheckpoint(lease[s])
<1>1. /\ lease' = [lease EXCEPT ![s] = l] /\ ClearSessionCache(s)
      /\ attempt' = attempt /\ UNCHANGED <<containers, boundVars>>
  BY LeaseFacts DEF ExpireCheckpoint
<1>2. l \in Lease /\ l.of = Nobody /\ l.live = lease[s].live /\ l.running = lease[s].running
  BY LeaseFacts, Cleared
<1> HIDE DEF l
<1>3. \A i \in Jobs : GoesOn(i, s, l)
  BY <1>1, <1>2, ClearFacts, StaysPut, OneActive
<1>4. attempt' \in [Jobs -> Attempt]
  BY <1>1 DEF AttemptInv, AttemptTypeOK
<1>5. QED
  BY <1>1, <1>2, <1>3, <1>4, ClearFacts, SessionStep

(* An old checkpoint is still that of its session. *)
LEMMA AgeCheckpointKeeps ==
    ASSUME AttemptInv, NEW s \in Sessions, AgeCheckpoint(s)
    PROVE  AttemptInv'
<1> DEFINE l == [lease[s] EXCEPT !.aged = TRUE]
<1>1. /\ lease' = [lease EXCEPT ![s] = l] /\ UNCHANGED <<disk, pub, stateBytes, pendingBytes, litter>>
      /\ attempt' = attempt /\ UNCHANGED <<containers, boundVars>> /\ faults' = faults /\ undeleted' = undeleted
  BY LeaseFacts DEF AgeCheckpoint, storeVars
<1>2. l \in Lease /\ l.of = lease[s].of /\ l.live = lease[s].live /\ l.running = lease[s].running
  BY LeaseFacts DEF Lease
<1> HIDE DEF l
<1>3. \A i \in Jobs : GoesOn(i, s, l)
  BY <1>1, <1>2, StaysPut, OneActive
<1>4. attempt' \in [Jobs -> Attempt] /\ faults' \in 0..MaxFaults /\ undeleted' \subseteq Sessions
  BY <1>1 DEF AttemptInv, AttemptTypeOK
<1>5. StoreInv' /\ CacheOfJob'
  BY <1>1, StoreOfInv DEF StoreInv, StoreTypeOK, QuotaHeld, directorySize, Bytes, Reserving, AttemptInv, CacheOfJob, Present
<1>6. StillOwned(s, l)
  BY <1>1, <1>2, LeaseFacts DEF StillOwned
<1>7. QED
  BY <1>1, <1>2, <1>3, <1>4, <1>5, <1>6, SessionStep

(* A cancelled job keeps its place; its row ends unless it has ended.      *)
LEMMA CancelFacts ==
    ASSUME AttemptInv, NEW js \in SUBSET Jobs
    PROVE  /\ CancelledIn(js) \in [Jobs -> Attempt]
           /\ \A i \in Jobs : LET a == CancelledIn(js)[i] IN
                 /\ a.session = attempt[i].session /\ a.inputs = attempt[i].inputs /\ a.pc = attempt[i].pc
                 /\ a.try = attempt[i].try /\ a.seen = attempt[i].seen /\ a.warm = attempt[i].warm
                 /\ a.end \in {attempt[i].end, "cancelled"} /\ (a.ctx => attempt[i].ctx)
<1>1. ASSUME NEW i \in Jobs
      PROVE  LET e == IF RowRunning(i) THEN "cancelled" ELSE attempt[i].end
                 a == [attempt[i] EXCEPT !.ctx = FALSE, !.end = e] IN
             /\ a \in Attempt /\ e \in {attempt[i].end, "cancelled"}
             /\ a.session = attempt[i].session /\ a.inputs = attempt[i].inputs /\ a.pc = attempt[i].pc
             /\ a.try = attempt[i].try /\ a.seen = attempt[i].seen /\ a.warm = attempt[i].warm /\ a.end = e
             /\ ~a.ctx
  <2> DEFINE e == IF RowRunning(i) THEN "cancelled" ELSE attempt[i].end
             a == [attempt[i] EXCEPT !.ctx = FALSE, !.end = e]
  <2>1. e \in {attempt[i].end, "cancelled"} /\ e \in {"none", "ok", "tex", "failed", "cancelled"}
    BY AttemptFacts DEF Attempt
  <2> HIDE DEF e
  <2>2. a \in Attempt
    BY <2>1, AttemptFacts DEF Attempt
  <2>3. /\ a.session = attempt[i].session /\ a.inputs = attempt[i].inputs /\ a.pc = attempt[i].pc
        /\ a.try = attempt[i].try /\ a.seen = attempt[i].seen /\ a.warm = attempt[i].warm /\ a.end = e
        /\ ~a.ctx
    BY AttemptFacts DEF Attempt
  <2>4. QED
    BY <2>1, <2>2, <2>3 DEF e
<1>2. \A i \in Jobs : CancelledIn(js)[i] = attempt[i] \/
          CancelledIn(js)[i] = [attempt[i] EXCEPT !.ctx = FALSE, !.end = IF RowRunning(i) THEN "cancelled" ELSE attempt[i].end]
  <2>1. \A i \in Jobs : attempt[i] \in Attempt
    BY AttemptFacts
  <2>2. QED
    BY <2>1 DEF CancelledIn, Attempt
<1>3. QED
  BY <1>1, <1>2, AttemptFacts DEF CancelledIn

(* Cancelling ends the context of a job, not its attempt. *)
LEMMA CancelKeeps ==
    ASSUME AttemptInv, NEW j \in Jobs, Cancel(j)
    PROVE  AttemptInv'
<1> DEFINE a == CancelledIn({j})[j]
<1>1. /\ attempt' = CancelledIn({j}) /\ RowRunning(j)
      /\ UNCHANGED <<storeVars, leaseVars, boundVars>> /\ containers' = containers /\ faults' = faults
  BY DEF Cancel
<1>2. attempt' = [attempt EXCEPT ![j] = a]
  <2>1. \A i \in Jobs \ {j} : CancelledIn({j})[i] = attempt[i]
    BY DEF CancelledIn
  <2>2. CancelledIn({j}) \in [Jobs -> Attempt] /\ attempt \in [Jobs -> Attempt]
    BY CancelFacts, AttemptFacts
  <2> HIDE DEF a
  <2>3. QED
    BY <1>1, <2>1, <2>2 DEF a
<1>3. /\ a \in Attempt
      /\ a.session = attempt[j].session /\ a.inputs = attempt[j].inputs /\ a.pc = attempt[j].pc
      /\ a.try = attempt[j].try /\ a.seen = attempt[j].seen /\ a.warm = attempt[j].warm
      /\ a.end \in {attempt[j].end, "cancelled"} /\ (a.ctx => attempt[j].ctx)
  BY CancelFacts
<1> HIDE DEF a
<1>4. Locals(a) /\ UnmovedFor(a) /\ NamedAs(j, a, containers')
  BY <1>1, <1>3, AttemptFacts DEF Locals, UnmovedFor, NamedAs
<1>5. Frame(j)
  BY <1>1, QuietFrame, AttemptFacts
<1>6. a.pc \notin {"staging", "commit"}
  BY <1>1, <1>3 DEF RowRunning
<1>7. QED
  BY <1>2, <1>3, <1>4, <1>5, <1>6, WorkerStep

(* Closing a session removes its checkpoint, or remembers that it could    *)
(* not.                                                                    *)
LEMMA CloseKeeps ==
    ASSUME AttemptInv, NEW s \in Sessions, CloseSession(s)
    PROVE  AttemptInv'
<1> DEFINE l == [NoCheckpoint(lease[s]) EXCEPT !.live = FALSE, !.running = Nobody]
           js == {lease[s].running} \cap Active
<1>1. /\ lease' = [lease EXCEPT ![s] = l] /\ ClearSessionCache(s)
      /\ attempt' = CancelledIn(js) /\ UNCHANGED <<containers, boundVars>>
  BY LeaseFacts DEF CloseSession
<1>2. l \in Lease /\ l.of = Nobody /\ l.live = FALSE
  <2>1. NoCheckpoint(lease[s]) \in Lease /\ NoCheckpoint(lease[s]).of = Nobody
    BY LeaseFacts, Cleared
  <2>2. QED
    BY <2>1 DEF Lease
<1>3. js \in SUBSET Jobs
  BY DEF Active
<1> HIDE DEF l, js
<1>4. /\ attempt' \in [Jobs -> Attempt]
      /\ \A i \in Jobs :
            /\ attempt'[i].session = attempt[i].session /\ attempt'[i].inputs = attempt[i].inputs /\ attempt'[i].pc = attempt[i].pc
            /\ attempt'[i].try = attempt[i].try /\ attempt'[i].seen = attempt[i].seen /\ attempt'[i].warm = attempt[i].warm
            /\ attempt'[i].end \in {attempt[i].end, "cancelled"} /\ (attempt'[i].ctx => attempt[i].ctx)
  BY <1>1, <1>3, CancelFacts
<1>5. ASSUME NEW i \in Jobs PROVE GoesOn(i, s, l)
  <2>1. Locals(attempt'[i]) /\ NamedAs(i, attempt'[i], containers)
    BY <1>4, AttemptFacts DEF Locals, NamedAs
  <2>2. QED
    BY <1>2, <1>4, <2>1, ClearFacts, <1>1 DEF GoesOn
<1>6. QED
  BY <1>1, <1>2, <1>4, <1>5, ClearFacts, SessionStep

(* Nobody else of the session is at work when a checkpoint is published.   *)
LEMMA CommitCheckpointKeeps ==
    ASSUME AttemptInv, NEW j \in Jobs, CommitCheckpoint(j)
    PROVE  AttemptInv'
<1> DEFINE s == SessionOf(j)
           l == [lease[s] EXCEPT !.of = j, !.aged = FALSE]
           r == Request(attempt[j], "settle")
           a == [r EXCEPT !.poison = FALSE]
<1>1. /\ attempt[j].pc = "commit" /\ UsesSession(j) /\ MayCheckpoint(j) /\ CommitLocked(j, j)
      /\ undeleted' = undeleted \ {s} /\ UNCHANGED <<containers, boundVars>> /\ faults' = faults
  BY DEF CommitCheckpoint, At
<1>2. s \in Sessions /\ attempt[j].session = s /\ lease[s].live /\ lease[s].running = j /\ pub[j].file = LiveCache(s)
  BY <1>1, TargetIsFile DEF MayCheckpoint, LeaseOf, AttemptInv, InPlace, SessionOf
<1>3. lease' = [lease EXCEPT ![s] = l]
  BY <1>2, LeaseFacts DEF CommitCheckpoint
<1>4. l \in Lease /\ l.of = j /\ l.live = lease[s].live /\ l.running = lease[s].running
  BY <1>2, LeaseFacts DEF Lease
<1>5. attempt' = [attempt EXCEPT ![j] = a]
  BY AttemptFacts DEF CommitCheckpoint, ToSettle
<1>6. /\ r \in Attempt /\ r.session = attempt[j].session /\ r.inputs = attempt[j].inputs
      /\ r.pc = "settle" /\ r.try = 1 /\ r.seen = Nobody /\ r.warm = Nobody /\ r.end = "none"
  BY RequestFields, AttemptFacts
<1> HIDE DEF r, l, s
<1>7. /\ a \in Attempt /\ a.session = attempt[j].session /\ a.inputs = attempt[j].inputs
      /\ a.pc = "settle" /\ a.try = 1 /\ a.seen = Nobody /\ a.warm = Nobody /\ a.end = "none"
  BY <1>6 DEF Attempt
<1> HIDE DEF a
<1>8. attempt' \in [Jobs -> Attempt] /\ \A i \in Jobs : attempt'[i] = IF i = j THEN a ELSE attempt[i]
  BY <1>5, <1>7, AttemptFacts
<1>9. StoreInv' /\ j \in Writers
  BY <1>1, CommitKeeps, StoreOfInv DEF Writers
<1>10. /\ pub \in [Writers -> Publication] /\ disk \in [Files -> File]
       /\ pub' = [pub EXCEPT ![j] = NoPublication]
       /\ disk' = [disk EXCEPT ![LiveCache(s)] = [size |-> StagedBytes, by |-> j, aged |-> FALSE]]
  BY <1>1, <1>2, StoreOfInv, StoreFacts DEF CommitLocked
<1>11. /\ \A w \in Writers \ {j} : pub'[w] = pub[w]
       /\ \A f \in Files \ {LiveCache(s)} : disk'[f] = disk[f]
       /\ disk'[LiveCache(s)].by = j
  BY <1>2, <1>10, LeaseFacts
<1>12. CompileCache \in Files \ {LiveCache(s)} /\ \A t \in Sessions \ {s} : LiveCache(t) \in Files \ {LiveCache(s)}
  BY <1>2, LeaseFacts DEF Files
<1>13. CacheOfJob'
  BY <1>11, <1>12 DEF AttemptInv, CacheOfJob, Present
<1>14. StillOwned(s, l)
  BY <1>1, <1>2, <1>4, <1>11, <1>12, AttemptFacts DEF StillOwned, s
<1>15. ASSUME NEW i \in Jobs PROVE GoesOn(i, s, l)
  <2>1. CASE i = j
    <3>1. Locals(a) /\ NamedAs(j, a, containers)
      BY <1>1, <1>7, AttemptFacts DEF Locals, NamedAs
    <3>2. QED
      BY <1>1, <1>2, <1>4, <1>7, <1>8, <2>1, <3>1 DEF GoesOn, Inactive
  <2>2. CASE i # j
    <3>1. attempt[i].session = s => attempt[i].pc \in Inactive
      BY <1>2, <2>2, OneActive
    <3>2. pub'[i] = pub[i] /\ attempt'[i] = attempt[i]
      BY <1>8, <1>11, <2>2 DEF Writers
    <3>3. QED
      BY <1>2, <1>4, <3>1, <3>2, StaysPut DEF Inactive
  <2>3. QED
    BY <2>1, <2>2
<1>16. /\ undeleted' \subseteq Sessions /\ faults' \in 0..MaxFaults
       /\ \A u \in Uploads : pub'[u] = pub[u]
  <2>1. undeleted' \subseteq Sessions
    BY <1>1, <1>2, LeaseFacts
  <2>2. faults' \in 0..MaxFaults
    BY <1>1 DEF AttemptInv, AttemptTypeOK
  <2>3. Uploads \subseteq Writers \ {j}
    BY StateStoreAssumption DEF Writers
  <2>4. QED
    BY <1>11, <2>1, <2>2, <2>3
<1>17. QED
  BY <1>1, <1>2, <1>3, <1>4, <1>8, <1>9, <1>13, <1>14, <1>15, <1>16, SessionStep

(* A job that ends gives back its place and its lease. *)
LEMMA SettleKeeps ==
    ASSUME AttemptInv, NEW j \in Jobs, Settle(j)
    PROVE  AttemptInv'
<1> DEFINE s == SessionOf(j)
           freed == [lease[s] EXCEPT !.running = Nobody]
           a == Request(attempt[j], "done")
<1>1. /\ attempt[j].pc = "settle" /\ attempt' = [attempt EXCEPT ![j] = a]
      /\ UNCHANGED <<containers, boundVars>>
  BY AttemptFacts DEF Settle, At
<1>2. /\ a \in Attempt /\ a.session = attempt[j].session /\ a.inputs = attempt[j].inputs
      /\ a.pc = "done" /\ a.try = 1 /\ a.seen = Nobody /\ a.warm = Nobody /\ a.end = "none"
  BY RequestFields, AttemptFacts
<1> HIDE DEF a
<1>3. Locals(a) /\ NamedAs(j, a, containers) /\ UnmovedFor(a)
  BY <1>1, <1>2, AttemptFacts DEF Locals, NamedAs, UnmovedFor
<1>4. attempt' \in [Jobs -> Attempt] /\ \A i \in Jobs : attempt'[i] = IF i = j THEN a ELSE attempt[i]
  BY <1>1, <1>2, AttemptFacts
<1>5. CASE ~Holds(j) /\ UNCHANGED <<storeVars, leaseVars, faults>>
  <2>1. Frame(j)
    BY <1>1, <1>5, QuietFrame, AttemptFacts
  <2>2. NamedAs(j, a, containers')
    BY <1>1, <1>3
  <2>3. QED
    BY <1>1, <1>2, <1>3, <2>1, <2>2, WorkerStep DEF Inactive
<1>6. CASE /\ Holds(j)
           /\ \/ lease' = [lease EXCEPT ![s] = freed] /\ UNCHANGED <<storeVars, undeleted, faults>>
              \/ lease' = [lease EXCEPT ![s] = NoCheckpoint(freed)] /\ ClearSessionCache(s)
  <2>1. s \in Sessions /\ attempt[j].session = s /\ lease[s].live /\ lease[s].running = j
    BY <1>6, AttemptFacts DEF Holds, InSession, LeaseOf, SessionOf, Attempt
  <2>2. freed \in Lease /\ freed.of = lease[s].of /\ freed.live = lease[s].live
    BY <2>1, LeaseFacts DEF Lease
  <2> HIDE DEF freed, s
  <2>3. PICK l \in Lease : /\ lease' = [lease EXCEPT ![s] = l]
                           /\ \/ l = freed /\ UNCHANGED <<storeVars, undeleted, faults>>
                              \/ l = NoCheckpoint(freed) /\ ClearSessionCache(s)
    BY <1>6, <2>2, Cleared DEF s, freed
  <2>4. /\ StoreInv' /\ CacheOfJob' /\ undeleted' \subseteq Sessions /\ faults' \in 0..MaxFaults
        /\ pub' = pub /\ (disk'[LiveCache(s)].size > 0 => disk'[LiveCache(s)] = disk[LiveCache(s)]) /\ StillOwned(s, l)
    <3>1. CASE l = freed /\ UNCHANGED <<storeVars, undeleted, faults>>
      <4>1. UNCHANGED <<disk, pub, stateBytes, pendingBytes, litter>>
        BY <3>1 DEF storeVars
      <4>2. StoreInv' /\ CacheOfJob'
        BY <4>1, StoreOfInv DEF StoreInv, StoreTypeOK, QuotaHeld, directorySize, Bytes, Reserving, AttemptInv, CacheOfJob, Present
      <4>3. StillOwned(s, l)
        BY <2>1, <2>2, <3>1, <4>1, LeaseFacts DEF StillOwned
      <4>4. QED
        BY <2>1, <3>1, <4>1, <4>2, <4>3, LeaseFacts, AttemptFacts
    <3>2. CASE l = NoCheckpoint(freed) /\ ClearSessionCache(s)
      BY <2>1, <2>2, <3>2, Cleared, ClearFacts
    <3>3. QED
      BY <2>3, <3>1, <3>2
  <2>5. ASSUME NEW i \in Jobs PROVE GoesOn(i, s, l)
    <3>1. CASE i = j
      BY <1>1, <1>2, <1>3, <1>4, <3>1 DEF GoesOn, Inactive
    <3>2. CASE i # j
      <4>1. attempt[i].session = s => attempt[i].pc \in Inactive
        BY <2>1, <3>2, OneActive
      <4>2. pub'[i] = pub[i] /\ attempt'[i] = attempt[i]
        BY <1>4, <2>4, <3>2
      <4>3. QED
        BY <2>1, <2>4, <4>1, <4>2, StaysPut
    <3>3. QED
      BY <3>1, <3>2
  <2>6. QED
    BY <1>1, <1>4, <2>1, <2>3, <2>4, <2>5, SessionStep
<1>7. QED
  BY <1>5, <1>6 DEF Settle, LeaseOf

-----------------------------------------------------------------------------
(* A state in which no worker is under way. *)
LEMMA AtRest ==
    ASSUME StoreInv', attempt' \in [Jobs -> Attempt], lease' \in [Sessions -> Lease], undeleted' \subseteq Sessions,
           containers' = {}, isolated' \in BOOLEAN, up' \in BOOLEAN, crashes' \in 0..MaxCrashes, faults' \in 0..MaxFaults,
           \A i \in Jobs : /\ attempt'[i].pc \in Inactive /\ attempt'[i].seen = Nobody /\ attempt'[i].warm = Nobody
                           /\ attempt'[i].try = 1 /\ attempt'[i].end # "tex"
                           /\ attempt'[i].pc = "new" <=> attempt'[i].inputs = NoInputs,
           \A u \in Uploads : pub'[u].phase = "none",
           \A s \in Sessions : lease'[s].of = Nobody /\ disk'[LiveCache(s)].size = 0, CacheOfJob'
    PROVE  AttemptInv'
<1>1. AttemptTypeOK' /\ QuotaHeld'
  BY DEF StoreInv, AttemptTypeOK
<1>2. \A i \in Jobs : Locals(attempt'[i])
  BY DEF Locals
<1>3. Compared' /\ SlotHeld' /\ InPlace'
  BY DEF Compared, SlotHeld, Active, Inactive, InPlace
<1>4. Owned'
  BY DEF Owned, Present
<1>5. Unmoved' /\ Named'
  BY DEF Unmoved, UnmovedFor, Named, NamedAs, Inactive
<1>6. QED
  BY <1>1, <1>2, <1>3, <1>4, <1>5 DEF AttemptInv

(* A restart begins with a new store, no live session and no container. *)
LEMMA RestartKeeps ==
    ASSUME AttemptInv, Restart
    PROVE  AttemptInv'
<1>1. /\ NewStore /\ containers' = {} /\ attempt' = [j \in Jobs |-> Recovered(j)]
      /\ lease' = [s \in Sessions |-> [OpenLease EXCEPT !.live = FALSE]] /\ undeleted' = {}
      /\ up' = TRUE /\ UNCHANGED <<isolated, crashes, faults>>
  BY DEF Restart, Orphans
<1>2. StoreInv' /\ isolated' \in BOOLEAN /\ up' \in BOOLEAN /\ crashes' \in 0..MaxCrashes /\ faults' \in 0..MaxFaults
  BY <1>1, StoreOfInv, NewStoreKeeps DEF AttemptInv, AttemptTypeOK
<1>3. ASSUME NEW i \in Jobs
      PROVE  /\ Recovered(i) \in Attempt
             /\ Recovered(i).pc \in Inactive /\ Recovered(i).seen = Nobody /\ Recovered(i).warm = Nobody
             /\ Recovered(i).try = 1 /\ Recovered(i).end # "tex"
             /\ Recovered(i).pc = "new" <=> Recovered(i).inputs = NoInputs
  <2>1. CASE attempt[i].pc = "new"
    <3>1. Recovered(i) = attempt[i]
      BY <2>1 DEF Recovered, RowRunning
    <3>2. QED
      BY <2>1, <3>1, AttemptFacts DEF Locals, Inactive
  <2>2. CASE attempt[i].pc # "new"
    <3>1. \E place \in {"queued", "done"} : Recovered(i) = Request(attempt[i], place)
      BY <2>2 DEF Recovered
    <3>2. attempt[i].inputs # NoInputs
      BY <2>2, AttemptFacts DEF Locals
    <3>3. QED
      BY <3>1, <3>2, RequestFields, AttemptFacts DEF Inactive
  <2>3. QED
    BY <2>1, <2>2
<1>4. attempt' \in [Jobs -> Attempt] /\ \A i \in Jobs : attempt'[i] = Recovered(i)
  BY <1>1, <1>3
<1>5. lease' \in [Sessions -> Lease] /\ \A s \in Sessions : lease'[s].of = Nobody
  BY <1>1 DEF OpenLease, Lease
<1>6. \A u \in Uploads : pub'[u].phase = "none"
  BY <1>1 DEF NewStore, NoPublication, Writers
<1>7. CompileCache \in Files \ LiveCaches /\ \A s \in Sessions : LiveCache(s) \in Files \cap LiveCaches
  BY DEF CompileCache, Files, LiveCaches, LiveCache
<1>8. disk'[CompileCache] = disk[CompileCache] /\ \A s \in Sessions : disk'[LiveCache(s)].size = 0
  BY <1>1, <1>7 DEF NewStore, Without, NoFile
<1>9. CacheOfJob'
  BY <1>8 DEF AttemptInv, CacheOfJob, Present
<1>10. undeleted' \subseteq Sessions
  BY <1>1
<1>11. QED
  BY <1>1, <1>2, <1>3, <1>4, <1>5, <1>6, <1>8, <1>9, <1>10, AtRest

-----------------------------------------------------------------------------
(* An empty directory, no job and no session. *)
LEMMA AttemptInitially == Init => AttemptInv
<1> SUFFICES ASSUME Init PROVE AttemptInv
  OBVIOUS
<1>1. StoreInv
  BY StoreInitially DEF Init
<1>2. /\ attempt = [j \in Jobs |-> Unsubmitted] /\ lease = [s \in Sessions |-> OpenLease] /\ undeleted = {}
      /\ containers = {} /\ isolated \in BOOLEAN /\ up = TRUE /\ crashes = 0 /\ faults = 0
      /\ disk = [f \in Files |-> NoFile] /\ pub = [w \in Writers |-> NoPublication]
  BY DEF Init, StoreInit
<1>3. Unsubmitted \in Attempt /\ OpenLease \in Lease
  BY DEF Unsubmitted, Attempt, OpenLease, Lease
<1>4. /\ Unsubmitted.pc = "new" /\ Unsubmitted.inputs = NoInputs /\ Unsubmitted.seen = Nobody
      /\ Unsubmitted.warm = Nobody /\ Unsubmitted.try = 1 /\ Unsubmitted.end = "none"
      /\ OpenLease.of = Nobody /\ NoFile.size = 0 /\ NoPublication.phase = "none"
  BY DEF Unsubmitted, OpenLease, NoFile, NoPublication
<1>5. AttemptTypeOK /\ QuotaHeld
  <2>1. attempt \in [Jobs -> Attempt] /\ lease \in [Sessions -> Lease] /\ undeleted \subseteq Sessions /\ containers \subseteq Names
    BY <1>2, <1>3
  <2>2. {isolated, up} \subseteq BOOLEAN /\ crashes \in 0..MaxCrashes /\ faults \in 0..MaxFaults
    BY <1>2, AttemptAssumption
  <2>3. QED
    BY <1>1, <2>1, <2>2 DEF StoreInv, AttemptTypeOK
<1>6. \A j \in Jobs : attempt[j] = Unsubmitted
  BY <1>2
<1>7. \A j \in Jobs : Locals(attempt[j])
  BY <1>4, <1>6 DEF Locals
<1>8. Compared /\ SlotHeld /\ Unmoved /\ Named
  BY <1>2, <1>4, <1>6 DEF Compared, SlotHeld, Active, Unmoved, UnmovedFor, Named, NamedAs
<1>9. InPlace
  BY <1>2, <1>4, <1>6 DEF InPlace, Writers
<1>10. Owned /\ CacheOfJob
  BY <1>2, <1>4 DEF Owned, CacheOfJob, Present, Files, LiveCaches
<1>11. QED
  BY <1>5, <1>7, <1>8, <1>9, <1>10 DEF AttemptInv

(* Every step of the specification keeps the invariant. *)
LEMMA AttemptStep == AttemptInv /\ [Next]_vars => AttemptInv'
<1> SUFFICES ASSUME AttemptInv, [Next]_vars PROVE AttemptInv'
  OBVIOUS
<1>1. CASE UNCHANGED vars
  BY <1>1, CrashKeeps
<1>2. ASSUME NEW j \in Jobs,
             \/ Submit(j) \/ Start(j) \/ Drop(j) \/ WorkspaceFails(j)
             \/ ChooseCheckpoint(j) \/ RestoreCompileCache(j) \/ RestoreFails(j)
             \/ SourcesFail(j) \/ Launch(j) \/ LaunchFails(j) \/ RunEnds(j) \/ ExportFails(j)
             \/ WorkerBreaks(j) \/ ResultRefused(j) \/ RunnerStays(j) \/ ResetFails(j)
      PROVE  AttemptInv'
  BY <1>2, SubmitKeeps, StartKeeps, DropKeeps, GivesUp, ChooseCheckpointKeeps, RestoreKeeps, SourcesFailKeeps,
     LaunchKeeps, RunKeeps
<1>3. ASSUME NEW j \in Jobs,
             \/ Archive(j) \/ ArchiveRefused(j) \/ Finish(j)
             \/ StageState(j) \/ SkipPublish(j) \/ CheckpointUnreadable(j) \/ WriteStaged(j) \/ WriteFails(j)
             \/ CommitCheckpoint(j) \/ CommitCache(j) \/ CommitNothing(j) \/ CommitFails(j)
             \/ Settle(j) \/ Cancel(j) \/ Deadline(j) \/ Download(j) \/ CleanupResult(j)
      PROVE  AttemptInv'
  BY <1>3, ArchiveKeeps, GivesUp, FinishKeeps, StagesKeep, DiscardsKeep, CommitCheckpointKeeps, CommitCacheKeeps,
     SettleKeeps, CancelKeeps, DeadlineKeeps, DownloadKeeps, CleanupsKeep
<1>4. ASSUME NEW s \in Sessions, CloseSession(s) \/ ExpireCheckpoint(s) \/ AgeCheckpoint(s)
      PROVE  AttemptInv'
  BY <1>4, CloseKeeps, ExpireKeeps, AgeCheckpointKeeps
<1>5. ASSUME NEW u \in Uploads, PutBlob(u) \/ PutBlobFails(u) PROVE AttemptInv'
  BY <1>5, PutBlobKeeps
<1>6. CASE Sweep \/ SweepFails \/ CleanupCache \/ CleanupBlobs \/ AgeCache \/ Crash \/ Restart
  BY <1>6, SweepsKeep, CleanupsKeep, AgeCacheKeeps, CrashKeeps, RestartKeeps
<1>7. QED
  BY <1>1, <1>2, <1>3, <1>4, <1>5, <1>6 DEF Next

(* The invariant gives every property a run checks. *)
LEMMA AttemptInvImplies ==
    ASSUME AttemptInv
    PROVE  AttemptTypeOK /\ QuotaHeld /\ CheckpointOwned /\ WarmCompatible /\ WarmHarmless /\ NameFree
<1>1. CheckpointOwned
  BY DEF AttemptInv, Owned, CheckpointOwned
<1>2. WarmCompatible /\ WarmHarmless
  BY DEF AttemptInv, Locals, Compared, WarmCompatible, WarmHarmless
<1>3. NameFree
  BY DEF AttemptInv, Named, NamedAs, NameFree, At
<1>4. QED
  BY <1>1, <1>2, <1>3 DEF AttemptInv

(* The inductive invariant of attempts and state. *)
LEMMA AttemptInvariant == Spec => []AttemptInv
BY AttemptInitially, AttemptStep, PTL DEF Spec

(* Every variable of a worker, a lease or the volume keeps its type.       *)
THEOREM AttemptTypeCorrect == Spec => []AttemptTypeOK
<1>1. AttemptInv => AttemptTypeOK
  BY AttemptInvImplies
<1>2. QED
  BY <1>1, AttemptInvariant, PTL

(* stageState, commitLocked, WriteResult, Prune and the deletions of       *)
(* project/store.go keep published and staged bytes within MaxStateBytes,  *)
(* for any number of jobs, sessions and uploads and for any sizes.         *)
THEOREM QuotaHeldAlways == Spec => []QuotaHeld
<1>1. AttemptInv => QuotaHeld
  BY AttemptInvImplies
<1>2. QED
  BY <1>1, AttemptInvariant, PTL

(* publishExecution and clearSessionCacheLocked keep a checkpoint file and *)
(* its session's record of it together.                                    *)
THEOREM CheckpointOwnedAlways == Spec => []CheckpointOwned
<1>1. AttemptInv => CheckpointOwned
  BY AttemptInvImplies
<1>2. QED
  BY <1>1, AttemptInvariant, PTL

(* A warm run opens the state that executeIsolated or RestoreCompileCache  *)
(* compared with the job's inputs.                                         *)
THEOREM WarmCompatibleAlways == Spec => []WarmCompatible
<1>1. AttemptInv => WarmCompatible
  BY AttemptInvImplies
<1>2. QED
  BY <1>1, AttemptInvariant, PTL

(* A job that ends with a compiler error while its compileCtx is live ran  *)
(* from clean sources.                                                     *)
THEOREM WarmHarmlessAlways == Spec => []WarmHarmless
<1>1. AttemptInv => WarmHarmless
  BY AttemptInvImplies
<1>2. QED
  BY <1>1, AttemptInvariant, PTL

(* sandbox.Run never starts a container under a name that is taken.        *)
THEOREM NameFreeAlways == Spec => []NameFree
<1>1. AttemptInv => NameFree
  BY AttemptInvImplies
<1>2. QED
  BY <1>1, AttemptInvariant, PTL

-----------------------------------------------------------------------------
(* The portable cache: what a step other than CommitCache leaves of it is  *)
(* of the same job.                                                        *)
KeptCache == disk'[CompileCache].size > 0 => disk'[CompileCache].by = disk[CompileCache].by

(* Removing another file, or none, does not replace the portable cache. *)
LEMMA CacheAside ==
    ASSUME NEW g, disk' = Without(g) \/ disk' = disk
    PROVE  KeptCache
<1>1. CompileCache \in Files
  BY DEF Files
<1>2. QED
  BY <1>1 DEF KeptCache, Without, NoFile

(* Nor does clearing a checkpoint. *)
LEMMA ClearKeepsCache ==
    ASSUME NEW s \in Sessions, ClearSessionCache(s)
    PROVE  KeptCache
<1>1. disk' = Without({LiveCache(s)}) \/ disk' = disk
  BY DEF ClearSessionCache, DeleteLiveCache, storeVars
<1>2. QED
  BY <1>1, CacheAside

(* Nor does stripping results. *)
LEMMA StripsOnlyResults ==
    ASSUME NEW d, NEW js \in SUBSET Jobs
    PROVE  Stripped(d, js)[CompileCache] = d[CompileCache]
BY DEF Stripped, Files, CompileCache, Result

(* Nor do the steps of a job before it publishes. *)
LEMMA WorkersKeepCache ==
    ASSUME AttemptInv, NEW j \in Jobs,
           \/ Submit(j) \/ Start(j) \/ Drop(j) \/ WorkspaceFails(j)
           \/ ChooseCheckpoint(j) \/ RestoreCompileCache(j) \/ RestoreFails(j)
           \/ SourcesFail(j) \/ Launch(j) \/ LaunchFails(j) \/ RunEnds(j) \/ ExportFails(j)
           \/ WorkerBreaks(j) \/ ResultRefused(j) \/ RunnerStays(j) \/ ResetFails(j)
           \/ ArchiveRefused(j) \/ Finish(j) \/ StageState(j) \/ SkipPublish(j) \/ CheckpointUnreadable(j)
           \/ WriteStaged(j) \/ WriteFails(j) \/ CommitNothing(j) \/ CommitFails(j) \/ Cancel(j) \/ Deadline(j)
    PROVE  KeptCache
<1>1. UNCHANGED storeVars \/ disk' = disk
  BY DEF Submit, Start, Drop, WorkspaceFails, ChooseCheckpoint, RestoreCompileCache, RestoreFails, SourcesFail, Launch,
         LaunchFails, RunEnds, ExportFails, WorkerBreaks, ResultRefused, RunnerStays, ResetFails, Breaks,
         ArchiveRefused, Finish, StageState, SkipPublish, CheckpointUnreadable, WriteStaged, WriteFails,
         CommitNothing, CommitFails, Cancel, Deadline, Reserve, Stage, Discard, StageLeaves, DiscardFails
<1>2. QED
  BY <1>1, CacheAside DEF storeVars

(* Nor do results, checkpoints and downloads. *)
LEMMA FilesKeepCache ==
    ASSUME AttemptInv, NEW j \in Jobs,
           Archive(j) \/ CommitCheckpoint(j) \/ Settle(j) \/ Download(j) \/ CleanupResult(j)
    PROVE  KeptCache
<1>1. /\ disk \in [Files -> File] /\ CompileCache \in Files /\ CompileCache # Result(j)
      /\ \A s \in Sessions : CompileCache # LiveCache(s)
  BY StoreOfInv, StoreFacts DEF Files, CompileCache, Result, LiveCache
<1>2. CASE Archive(j)
  BY <1>1, <1>2 DEF Archive, WriteResult, KeptCache
<1>3. CASE CommitCheckpoint(j)
  <2>1. UsesSession(j) /\ attempt[j].pc = "commit" /\ CommitLocked(j, j)
    BY <1>3 DEF CommitCheckpoint, At
  <2>2. pub[j].file = LiveCache(SessionOf(j)) /\ SessionOf(j) \in Sessions
    BY <2>1, TargetIsFile DEF AttemptInv, InPlace
  <2>3. QED
    BY <1>1, <2>1, <2>2 DEF CommitLocked, KeptCache
<1>4. CASE Settle(j)
  <2>1. disk' = disk \/ (Holds(j) /\ ClearSessionCache(SessionOf(j)))
    BY <1>4 DEF Settle, storeVars
  <2>2. Holds(j) => SessionOf(j) \in Sessions
    BY AttemptFacts DEF Holds, InSession, SessionOf, Attempt
  <2>3. QED
    BY <2>1, <2>2, ClearKeepsCache, CacheAside
<1>5. CASE Download(j)
  <2>1. disk' = Stripped(disk, {j})
    BY <1>5 DEF Download, PruneResultAuxiliary
  <2>2. QED
    BY <2>1, StripsOnlyResults DEF KeptCache
<1>6. CASE CleanupResult(j)
  BY <1>6, CacheAside DEF CleanupResult, DeleteResult
<1>7. QED
  BY <1>2, <1>3, <1>4, <1>5, <1>6

(* Nor do sessions, uploads, sweeps and restarts, which at most remove it. *)
LEMMA OthersKeepCache ==
    ASSUME AttemptInv,
           \/ \E s \in Sessions : CloseSession(s) \/ ExpireCheckpoint(s) \/ AgeCheckpoint(s)
           \/ \E u \in Uploads : PutBlob(u) \/ PutBlobFails(u)
           \/ Sweep \/ SweepFails \/ CleanupCache \/ CleanupBlobs \/ AgeCache \/ Crash \/ Restart
    PROVE  KeptCache
<1>1. disk \in [Files -> File] /\ CompileCache \in Files
  BY StoreOfInv, StoreFacts DEF Files
<1>2. ASSUME NEW s \in Sessions, CloseSession(s) \/ ExpireCheckpoint(s) \/ AgeCheckpoint(s) PROVE KeptCache
  <2>1. ClearSessionCache(s) \/ UNCHANGED storeVars
    BY <1>2 DEF CloseSession, ExpireCheckpoint, AgeCheckpoint
  <2>2. QED
    BY <2>1, ClearKeepsCache, CacheAside DEF storeVars
<1>3. ASSUME NEW u \in Uploads, PutBlob(u) \/ PutBlobFails(u) PROVE KeptCache
  <2>1. CASE CommitLocked(u, Nobody)
    <3>1. pub[u].file = Blob(u) /\ CompileCache # Blob(u)
      BY <2>1 DEF AttemptInv, InPlace, CommitLocked, CompileCache, Blob
    <3>2. QED
      BY <1>1, <2>1, <3>1 DEF CommitLocked, KeptCache
  <2>2. CASE ~CommitLocked(u, Nobody)
    <3>1. disk' = disk
      BY <1>3, <2>2 DEF PutBlob, PutBlobFails, Reserve, Stage, Discard, StageLeaves, DiscardFails
    <3>2. QED
      BY <3>1, CacheAside
  <2>3. QED
    BY <2>1, <2>2
<1>4. CASE Sweep \/ SweepFails
  <2>1. PICK g \in SUBSET Expirable, js \in SUBSET Jobs : disk' = Stripped(Without(g), js) \/ disk' = Without(g)
    BY <1>4 DEF Sweep, SweepFails, Prune, PruneFails
  <2>2. CASE disk' = Stripped(Without(g), js)
    BY <1>1, <2>2, StripsOnlyResults DEF KeptCache, Without, NoFile
  <2>3. QED
    BY <2>1, <2>2, CacheAside
<1>5. CASE CleanupCache \/ CleanupBlobs
  BY <1>5, CacheAside DEF CleanupCache, CleanupBlobs, DeleteCompileCaches, CollectUnreferencedBlobs
<1>6. CASE AgeCache
  <2>1. disk' = [disk EXCEPT ![CompileCache] = [disk[CompileCache] EXCEPT !.aged = TRUE]]
    BY <1>1, <1>6 DEF AgeCache, Age
  <2>2. [disk[CompileCache] EXCEPT !.aged = TRUE].by = disk[CompileCache].by
    BY <1>1 DEF File
  <2>3. QED
    BY <1>1, <2>1, <2>2 DEF KeptCache
<1>7. CASE Crash
  BY <1>7, CacheAside DEF Crash, storeVars
<1>8. CASE Restart
  BY <1>8, CacheAside DEF Restart, NewStore
<1>9. QED
  BY <1>2, <1>3, <1>4, <1>5, <1>6, <1>7, <1>8

(* SaveCompileCache never replaces a portable cache that can still be read *)
(* by that of a job submitted earlier.                                     *)
THEOREM CacheNeverOlderHolds == Spec => CacheNeverOlder
<1> DEFINE Step == LET old == disk[CompileCache] new == disk'[CompileCache] IN
                   old.size > 0 /\ ~old.aged /\ new.size > 0 => new.by >= old.by
<1>1. AttemptInv /\ [Next]_vars => [Step]_vars
  <2> SUFFICES ASSUME AttemptInv, Next PROVE Step
    OBVIOUS
  <2>1. disk[CompileCache].size > 0 => disk[CompileCache].by \in Nat
    BY StateStoreAssumption DEF AttemptInv, CacheOfJob, Present
  <2>2. CASE KeptCache
    BY <2>1, <2>2 DEF KeptCache
  <2>3. ASSUME NEW j \in Jobs, CommitCache(j) PROVE Step
    <3>1. attempt[j].pc = "commit" /\ ~UsesSession(j) /\ CommitLocked(j, j) /\ ~Newer(j) /\ j \in Nat
      BY <2>3, StateStoreAssumption DEF CommitCache, At
    <3>2. pub[j].file = CompileCache /\ disk \in [Files -> File] /\ CompileCache \in Files
      BY <3>1, TargetIsFile, StoreOfInv, StoreFacts DEF AttemptInv, InPlace, Files
    <3>3. disk'[CompileCache].by = j
      BY <3>1, <3>2 DEF CommitLocked
    <3>4. disk[CompileCache].size > 0 /\ ~disk[CompileCache].aged => ~(disk[CompileCache].by > j)
      BY <3>1 DEF Newer, Present
    <3>5. QED
      BY <2>1, <3>1, <3>3, <3>4
  <2>4. KeptCache \/ \E j \in Jobs : CommitCache(j)
    BY WorkersKeepCache, FilesKeepCache, OthersKeepCache DEF Next
  <2>5. QED
    BY <2>2, <2>3, <2>4
<1>2. QED
  BY <1>1, AttemptInvariant, PTL DEF Spec, CacheNeverOlder
=============================================================================
