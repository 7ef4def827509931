----------------------- MODULE StorageMigrationProofs -----------------------
(***************************************************************************)
(* Proofs about StorageMigration, for any number of replicas, objects,     *)
(* failures and charts and any page size: status.storedVersions never      *)
(* drops a version that an object is stored at.                            *)
(***************************************************************************)
EXTENDS StorageMigration, SumTheorems

(* The versions of the CRD. *)
Versions == {OldVersion, StorageVersion}
(* A migrator's pass over the objects. *)
Passes == [pc : {"off", "wait", "get", "list", "patch", "trim"}, page : SUBSET Nat, after : Nat,
           more : BOOLEAN]
(* Types; the version the CRD stores is always among the stored ones. *)
MigrationTypes ==
    /\ storage \in Versions /\ storage \in storedVersions /\ storedVersions \in SUBSET Versions
    /\ DOMAIN objects \subseteq Names /\ objects = [n \in DOMAIN objects |-> objects[n]]
    /\ mpass \in [Migrators -> Passes] /\ \A r \in Migrators : mpass[r].pc = "get" => mpass[r] = Fresh

(* While the CRD stores v1beta1, what a pass has put behind it is stored   *)
(* at v1beta1: every name up to the one the next page starts after, and    *)
(* every name when no page is left, but for what is still in its hands.    *)
Rewritten(p) ==
    /\ p.pc \in {"list", "patch"} =>
        \A n \in DOMAIN objects : n <= p.after /\ n \notin p.page => objects[n] = StorageVersion
    /\ p.pc = "list" => p.page = {}
    /\ p.pc = "patch" /\ ~p.more =>
        \A n \in DOMAIN objects : n \notin p.page => objects[n] = StorageVersion
    /\ p.pc = "trim" => \A n \in DOMAIN objects : objects[n] = StorageVersion

(* The inductive invariant: what each pass claims of the objects, and the  *)
(* promise.                                                                *)
MigrationInvariant ==
    /\ MigrationTypes /\ StoredTruthful
    /\ storage = StorageVersion => \A r \in Migrators : Rewritten(mpass[r])
-----------------------------------------------------------------------------
(* Pages *)

(* A page leaves out no name before its last: names come in list order. *)
LEMMA PagesAreInOrder ==
    ASSUME NEW S, S \subseteq Names, NEW n \in FirstOf(S), NEW k \in S, k < n
    PROVE  k \in FirstOf(S)
<1> DEFINE A == {j \in S : j < k}
           B == {j \in S : j < n}
<1>1. S \subseteq Nat /\ IsFiniteSet(S)
  BY MigrationBounds, FS_Subset
<1>2. n \in S /\ Cardinality(B) < PageSize
  BY DEF FirstOf
<1>3. A \subseteq B
  <2>1. ASSUME NEW j \in S, j < k
        PROVE  j < n
    <3>1. j \in Nat /\ k \in Nat /\ n \in Nat
      BY <1>1, <1>2
    <3> QED
      BY <2>1, <3>1
  <2> QED
    BY <2>1
<1>4. IsFiniteSet(B) /\ B \subseteq S
  BY <1>1, FS_Subset
<1> HIDE DEF A, B
<1>5. Cardinality(A) <= Cardinality(B) /\ IsFiniteSet(A)
  BY <1>3, <1>4, FS_Subset
<1>6. Cardinality(A) \in Nat /\ Cardinality(B) \in Nat
  BY <1>4, <1>5, FS_CardinalityType
<1>7. Cardinality(A) < PageSize
  BY <1>2, <1>5, <1>6, MigrationBounds
<1> QED
  BY <1>7 DEF FirstOf, A

(* A page that is not empty has a last name, after which the next starts. *)
LEMMA PagesHaveAnEnd ==
    ASSUME NEW S, S \subseteq Names, NEW page, page = FirstOf(S), page # {}
    PROVE  LET m == CHOOSE n \in page : \A k \in page : k <= n
           IN  m \in page /\ \A k \in page : k <= m
<1>1. page \in SUBSET Nat /\ IsFiniteSet(page)
  BY MigrationBounds, FS_Subset DEF FirstOf
<1>2. \E n \in page : \A k \in page : k <= n
  BY <1>1, GreatestInteger
<1> QED
  BY <1>2

-----------------------------------------------------------------------------
(* The invariant *)

(* A migrator starts with nothing rewritten and claims nothing. *)
LEMMA MigrationInit == SMInit => MigrationInvariant
<1> SUFFICES ASSUME SMInit PROVE MigrationInvariant
  OBVIOUS
<1>1. Fresh \in Passes /\ NoPass \in Passes /\ Fresh.pc = "get" /\ NoPass.pc = "off"
  BY DEF Fresh, NoPass, Passes
<1>2. PICK S \in SUBSET Names : objects \in [S -> storedVersions]
  BY DEF SMInit
<1>3. MigrationTypes
  BY <1>1, <1>2 DEF SMInit, MigrationTypes, Versions
<1>4. StoredTruthful
  BY <1>2 DEF StoredTruthful
<1>5. \A r \in Migrators : Rewritten(mpass[r])
  BY <1>1 DEF SMInit, Rewritten
<1> QED
  BY <1>3, <1>4, <1>5 DEF MigrationInvariant

(* A pass that ends, or waits, or starts from the beginning, claims nothing. *)
LEMMA IdlePasses ==
           /\ Fresh \in Passes /\ NoPass \in Passes /\ [NoPass EXCEPT !.pc = "wait"] \in Passes
           /\ Rewritten(Fresh) /\ Rewritten(NoPass) /\ Rewritten([NoPass EXCEPT !.pc = "wait"])
           /\ NoPass.pc = "off" /\ [NoPass EXCEPT !.pc = "wait"].pc = "wait"
  BY DEF Fresh, NoPass, Passes, Rewritten

(* A step of one pass that writes no object. *)
LEMMA PassMoves ==
    ASSUME MigrationInvariant, NEW r \in Migrators, NEW p \in Passes, Move(r, p),
           p.pc = "get" => p = Fresh, storage = StorageVersion => Rewritten(p),
           UNCHANGED <<storage, objects>>, storage \in storedVersions', storedVersions' \in SUBSET Versions,
           StoredTruthful'
    PROVE  MigrationInvariant'
<1>1. mpass' \in [Migrators -> Passes] /\ \A q \in Migrators : mpass'[q] = IF q = r THEN p ELSE mpass[q]
  BY DEF MigrationInvariant, MigrationTypes, Move
<1>2. MigrationTypes'
  BY <1>1 DEF MigrationInvariant, MigrationTypes
<1>3. ASSUME storage' = StorageVersion, NEW q \in Migrators
      PROVE  Rewritten(mpass[q])'
  BY <1>1, <1>3 DEF MigrationInvariant, Rewritten
<1> QED
  BY <1>2, <1>3 DEF MigrationInvariant

(* A pass that is given up claims nothing. *)
LEMMA PassEnds ==
    ASSUME MigrationInvariant, NEW r \in Migrators, Over(r),
           UNCHANGED <<storage, objects>>, storage \in storedVersions', storedVersions' \in SUBSET Versions,
           StoredTruthful'
    PROVE  MigrationInvariant'
<1>1. PICK p \in {NoPass, [NoPass EXCEPT !.pc = "wait"]} : Move(r, p)
  BY DEF Over
<1>2. p \in Passes /\ p.pc # "get" /\ Rewritten(p)
  BY <1>1, IdlePasses
<1> QED
  BY <1>1, <1>2, PassMoves

(* Users create and delete objects, and a patch rewrites one: what is       *)
(* written while the CRD stores v1beta1 is stored at v1beta1.               *)
LEMMA ObjectsChange ==
    ASSUME MigrationInvariant, UNCHANGED <<storage, storedVersions>>,
           mpass' \in [Migrators -> Passes], \A q \in Migrators : mpass'[q].pc = "get" => mpass'[q] = Fresh,
           DOMAIN objects' \subseteq Names, objects' = [n \in DOMAIN objects' |-> objects'[n]],
           \A n \in DOMAIN objects' : objects'[n] = storage \/ (n \in DOMAIN objects /\ objects'[n] = objects[n]),
           \A q \in Migrators : mpass'[q] = mpass[q] \/ (storage = StorageVersion => Rewritten(mpass[q])')
    PROVE  MigrationInvariant'
<1>1. MigrationTypes'
  BY DEF MigrationInvariant, MigrationTypes
<1>2. StoredTruthful'
  BY DEF MigrationInvariant, MigrationTypes, StoredTruthful
<1>3. ASSUME storage' = StorageVersion, NEW q \in Migrators
      PROVE  Rewritten(mpass[q])'
  BY <1>3 DEF MigrationInvariant, Rewritten
<1> QED
  BY <1>1, <1>2, <1>3 DEF MigrationInvariant

(* Every step of users, charts and migrators keeps the invariant. *)
LEMMA MigrationStep == MigrationInvariant /\ [SMNext]_smvars => MigrationInvariant'
<1> SUFFICES ASSUME MigrationInvariant, [SMNext]_smvars PROVE MigrationInvariant'
  OBVIOUS
<1>1. /\ MigrationTypes /\ StoredTruthful
      /\ storage \in storedVersions /\ storedVersions \in SUBSET Versions
      /\ \A r \in Migrators : mpass[r] \in Passes
  BY DEF MigrationInvariant, MigrationTypes
<1>2. ASSUME NEW r \in Migrators, storage = StorageVersion
      PROVE  Rewritten(mpass[r])
  BY <1>2 DEF MigrationInvariant
\* A step that leaves the objects, the CRD and its status alone.
<1>3. ASSUME UNCHANGED <<storage, storedVersions, objects>>
      PROVE  StoredTruthful' /\ storage \in storedVersions' /\ storedVersions' \in SUBSET Versions
  BY <1>1, <1>3 DEF StoredTruthful
<1>4. ASSUME NEW n \in Names, CreateObject(n)
      PROVE  MigrationInvariant'
  <2>1. /\ objects' = [k \in DOMAIN objects \cup {n} |-> IF k = n THEN storage ELSE objects[k]]
        /\ UNCHANGED <<storage, storedVersions, mpass>>
    BY <1>4 DEF CreateObject
  <2>2. /\ DOMAIN objects' \subseteq Names /\ objects' = [k \in DOMAIN objects' |-> objects'[k]]
        /\ \A k \in DOMAIN objects' : objects'[k] = storage \/ (k \in DOMAIN objects /\ objects'[k] = objects[k])
    <3>1. DOMAIN objects' = DOMAIN objects \cup {n} /\ DOMAIN objects \subseteq Names
      BY <1>1, <2>1 DEF MigrationTypes
    <3>2. \A k \in DOMAIN objects \cup {n} : objects'[k] = IF k = n THEN storage ELSE objects[k]
      BY <2>1
    <3>3. objects' = [k \in DOMAIN objects' |-> objects'[k]]
      BY <2>1
    <3>4. ASSUME NEW k \in DOMAIN objects'
          PROVE  objects'[k] = storage \/ (k \in DOMAIN objects /\ objects'[k] = objects[k])
      BY <3>1, <3>2
    <3>5. DOMAIN objects' \subseteq Names
      BY <1>4, <3>1
    <3> QED
      BY <3>3, <3>4, <3>5
  <2>3. mpass' \in [Migrators -> Passes] /\ \A q \in Migrators : mpass'[q].pc = "get" => mpass'[q] = Fresh
    BY <1>1, <2>1 DEF MigrationTypes
  <2> QED
    BY <2>1, <2>2, <2>3, ObjectsChange
<1>5. ASSUME NEW n \in Names, DeleteObject(n)
      PROVE  MigrationInvariant'
  <2>1. /\ objects' = [k \in DOMAIN objects \ {n} |-> objects[k]]
        /\ UNCHANGED <<storage, storedVersions, mpass>>
    BY <1>5 DEF DeleteObject
  <2>2. /\ DOMAIN objects' \subseteq Names /\ objects' = [k \in DOMAIN objects' |-> objects'[k]]
        /\ \A k \in DOMAIN objects' : objects'[k] = storage \/ (k \in DOMAIN objects /\ objects'[k] = objects[k])
    BY <1>1, <2>1 DEF MigrationTypes
  <2>3. mpass' \in [Migrators -> Passes] /\ \A q \in Migrators : mpass'[q].pc = "get" => mpass'[q] = Fresh
    BY <1>1, <2>1 DEF MigrationTypes
  <2> QED
    BY <2>1, <2>2, <2>3, ObjectsChange
<1>6. CASE ApplyChart
  <2>1. UNCHANGED <<objects, mpass>> /\ storage' \in Versions /\ storedVersions' = storedVersions \cup {storage'}
    BY <1>6 DEF ApplyChart, Versions
  <2>2. MigrationTypes' /\ StoredTruthful'
    BY <1>1, <2>1 DEF MigrationTypes, StoredTruthful
  <2>3. ASSUME storage' = StorageVersion, NEW r \in Migrators
        PROVE  Rewritten(mpass[r])'
    <3>1. storage = OldVersion
      BY <1>6, <2>3 DEF ApplyChart, OldVersion, StorageVersion
    <3>2. mpass'[r].pc \in {"off", "wait", "get"}
      BY <1>6, <2>1, <3>1 DEF ApplyChart
    <3> QED
      BY <3>2 DEF Rewritten
  <2> QED
    BY <2>2, <2>3 DEF MigrationInvariant
<1>7. ASSUME NEW r \in Migrators, LeadMoves(r)
      PROVE  MigrationInvariant'
  <2>1. Move(r, Fresh) /\ UNCHANGED <<storage, storedVersions, objects>>
    BY <1>7 DEF LeadMoves, Move
  <2> QED
    BY <1>3, <2>1, IdlePasses, PassMoves
<1>8. ASSUME NEW r \in Migrators, Start(r) \/ Deposed(r)
      PROVE  MigrationInvariant'
  <2>1. PICK p \in {Fresh, NoPass} : Move(r, p)
    BY <1>8 DEF Start, Deposed
  <2>2. UNCHANGED <<storage, storedVersions, objects>>
    BY <1>8 DEF Start, Deposed
  <2>3. p \in Passes /\ Rewritten(p) /\ (p.pc = "get" => p = Fresh)
    BY <2>1, IdlePasses
  <2> QED
    BY <1>3, <2>1, <2>2, <2>3, PassMoves
<1>9. ASSUME NEW r \in Migrators, GetCRD(r)
      PROVE  MigrationInvariant'
  <2>1. UNCHANGED <<storage, storedVersions, objects>> /\ mpass[r] = Fresh
    BY <1>1, <1>9 DEF GetCRD, MigrationTypes
  <2>2. CASE Over(r)
    BY <1>3, <2>1, <2>2, PassEnds
  <2>3. CASE Move(r, [mpass[r] EXCEPT !.pc = "list"])
    <3> DEFINE p == [mpass[r] EXCEPT !.pc = "list"]
    <3>1. p \in Passes /\ p.pc = "list" /\ p.page = {} /\ p.after = 0
      <4>1. Fresh \in Passes /\ Fresh.page = {} /\ Fresh.after = 0
        BY DEF Fresh, NoPass, Passes
      <4> QED
        BY <1>1, <2>1, <4>1 DEF Passes
    <3>2. \A n \in DOMAIN objects : ~(n <= 0)
      BY <1>1, MigrationBounds DEF MigrationTypes
    <3>3. Rewritten(p)
      <4> HIDE DEF p
      <4> QED
        BY <3>1, <3>2 DEF Rewritten
    <3> QED
      BY <1>3, <2>1, <2>3, <3>1, <3>3, PassMoves
  <2> QED
    BY <1>9, <2>2, <2>3 DEF GetCRD
<1>10. ASSUME NEW r \in Migrators, List(r)
       PROVE  MigrationInvariant'
  <2> DEFINE S == RestOf(r)
             page == FirstOf(S)
             m == CHOOSE n \in page : \A k \in page : k <= n
             p == [pc |-> "patch", page |-> page, more |-> more(r),
                   after |-> IF page = {} THEN mpass[r].after ELSE m]
  <2>1. /\ mpass[r].pc = "list" /\ Move(r, p) /\ UNCHANGED <<storage, storedVersions, objects>>
    BY <1>10 DEF List
  <2>2. /\ S \subseteq Names /\ page \subseteq S /\ S \subseteq Nat
        /\ \A n \in DOMAIN objects : n \in S <=> n > mpass[r].after
        /\ mpass[r].after \in Nat /\ \A n \in DOMAIN objects : n \in Nat
    BY <1>1, MigrationBounds DEF RestOf, FirstOf, MigrationTypes, Passes
  <2>3. more(r) \in BOOLEAN /\ (~more(r) => S = page)
    BY DEF more
  <2>4. page # {} => m \in page /\ \A k \in page : k <= m
    BY <2>2, PagesHaveAnEnd
  <2>5. \A n \in page : \A k \in S : k < n => k \in page
    BY <2>2, PagesAreInOrder
  <2> HIDE DEF S, page, m
  <2>6. p \in Passes
    BY <2>2, <2>3, <2>4 DEF Passes
  <2>7. ASSUME storage = StorageVersion
        PROVE  Rewritten(p)
    <3>1. \A n \in DOMAIN objects : n <= mpass[r].after => objects[n] = StorageVersion
      BY <1>2, <2>1, <2>7 DEF Rewritten
    <3>2. ASSUME NEW n \in DOMAIN objects, n <= p.after, n \notin page
          PROVE  objects[n] = StorageVersion
      <4>1. CASE n \in S
        <5>1. page # {} /\ n <= m
          BY <2>2, <3>2, <4>1
        <5>2. m \in page /\ m \in Nat /\ n \in Nat
          BY <2>2, <2>4, <5>1
        <5>3. n = m \/ n < m
          BY <5>1, <5>2
        <5> QED
          BY <2>5, <3>2, <4>1, <5>2, <5>3
      <4>2. CASE n \notin S
        BY <2>2, <3>1, <4>2
      <4> QED
        BY <4>1, <4>2
    <3>3. ASSUME ~more(r), NEW n \in DOMAIN objects, n \notin page
          PROVE  objects[n] = StorageVersion
      BY <2>2, <2>3, <3>1, <3>3
    <3> QED
      BY <3>2, <3>3 DEF Rewritten
  <2> QED
    BY <1>3, <2>1, <2>6, <2>7, PassMoves
<1>11. ASSUME NEW r \in Migrators, ReadFails(r)
       PROVE  MigrationInvariant'
  <2>1. Over(r) /\ UNCHANGED <<storage, storedVersions, objects>>
    BY <1>11 DEF ReadFails
  <2> QED
    BY <1>3, <2>1, PassEnds
<1>12. ASSUME NEW r \in Migrators, PatchObject(r)
       PROVE  MigrationInvariant'
  <2> DEFINE n == CHOOSE k \in mpass[r].page : \A j \in mpass[r].page : k <= j
             p == [mpass[r] EXCEPT !.page = mpass[r].page \ {n}]
  <2>1. mpass[r].pc = "patch" /\ mpass[r].page # {} /\ UNCHANGED <<storage, storedVersions>>
    BY <1>12 DEF PatchObject
  <2>2. CASE Over(r) /\ UNCHANGED objects
    BY <1>3, <2>1, <2>2, PassEnds
  <2>3. CASE n \in DOMAIN objects /\ objects' = [objects EXCEPT ![n] = storage] /\ Move(r, p)
    <3>1. p \in Passes /\ p.pc = "patch" /\ p.after = mpass[r].after /\ p.more = mpass[r].more
          /\ p.page = mpass[r].page \ {n} /\ mpass[r] \in Passes
      BY <1>1, <2>1 DEF Passes
    <3> HIDE DEF n, p
    <3>2. /\ DOMAIN objects' = DOMAIN objects /\ objects' = [k \in DOMAIN objects' |-> objects'[k]]
          /\ \A k \in DOMAIN objects : objects'[k] = IF k = n THEN storage ELSE objects[k]
      BY <1>1, <2>3 DEF MigrationTypes
    <3>3. /\ mpass' \in [Migrators -> Passes]
          /\ \A q \in Migrators : mpass'[q] = IF q = r THEN p ELSE mpass[q]
      BY <1>1, <2>3, <3>1 DEF Move, MigrationTypes
    <3>4. \A q \in Migrators : mpass'[q].pc = "get" => mpass'[q] = Fresh
      BY <1>1, <3>1, <3>3 DEF MigrationTypes
    <3>5. ASSUME storage = StorageVersion
          PROVE  Rewritten(mpass[r])'
      <4>1. mpass'[r] = p
        BY <3>3
      <4>2. Rewritten(mpass[r])
        BY <1>2, <3>5
      <4> QED
        BY <2>1, <3>1, <3>2, <3>5, <4>1, <4>2 DEF Rewritten
    <3>6. DOMAIN objects' \subseteq Names
      BY <1>1, <3>2 DEF MigrationTypes
    <3>7. \A q \in Migrators : mpass'[q] = mpass[q] \/ (storage = StorageVersion => Rewritten(mpass[q])')
      BY <3>3, <3>5
    <3>8. \A k \in DOMAIN objects' : objects'[k] = storage \/ (k \in DOMAIN objects /\ objects'[k] = objects[k])
      BY <3>2
    <3>9. objects' = [k \in DOMAIN objects' |-> objects'[k]]
      BY <3>2
    <3> QED
      BY <2>1, <3>3, <3>4, <3>6, <3>7, <3>8, <3>9, ObjectsChange
  <2> QED
    BY <1>12, <2>2, <2>3 DEF PatchObject
<1>13. ASSUME NEW r \in Migrators, PageDone(r)
       PROVE  MigrationInvariant'
  <2> DEFINE p == [mpass[r] EXCEPT !.pc = IF mpass[r].more THEN "list" ELSE "trim", !.more = FALSE]
  <2>1. /\ mpass[r].pc = "patch" /\ mpass[r].page = {} /\ Move(r, p)
        /\ UNCHANGED <<storage, storedVersions, objects>>
    BY <1>13 DEF PageDone
  <2>2. /\ p \in Passes /\ p.pc = (IF mpass[r].more THEN "list" ELSE "trim")
        /\ p.after = mpass[r].after /\ p.page = {} /\ mpass[r].more \in BOOLEAN
    BY <1>1, <2>1 DEF Passes
  <2> HIDE DEF p
  <2>3. ASSUME storage = StorageVersion
        PROVE  Rewritten(p)
    <3>1. Rewritten(mpass[r])
      BY <1>2, <2>3
    <3> QED
      BY <2>1, <2>2, <3>1 DEF Rewritten
  <2> QED
    BY <1>3, <2>1, <2>2, <2>3, PassMoves
<1>14. ASSUME NEW r \in Migrators, Trim(r)
       PROVE  MigrationInvariant'
  <2>1. mpass[r].pc = "trim" /\ Over(r) /\ UNCHANGED <<storage, objects>>
    BY <1>14 DEF Trim
  <2>2. CASE UNCHANGED storedVersions
    BY <1>3, <2>1, <2>2, PassEnds
  <2>3. CASE storage = StorageVersion /\ storedVersions' = {StorageVersion}
    <3>1. \A n \in DOMAIN objects : objects[n] = StorageVersion
      BY <1>2, <2>1, <2>3 DEF Rewritten
    <3>2. StoredTruthful'
      BY <2>1, <2>3, <3>1 DEF StoredTruthful
    <3>3. storage \in storedVersions' /\ storedVersions' \in SUBSET Versions
      BY <2>3 DEF Versions
    <3> QED
      BY <2>1, <3>2, <3>3, PassEnds
  <2> QED
    BY <1>14, <2>2, <2>3 DEF Trim
<1>15. CASE UNCHANGED smvars
  BY <1>15 DEF smvars, MigrationInvariant, MigrationTypes, StoredTruthful, Rewritten
<1> QED
  BY <1>4, <1>5, <1>6, <1>7, <1>8, <1>9, <1>10, <1>11, <1>12, <1>13, <1>14, <1>15 DEF SMNext, MigrateStep

(* status.storedVersions tells the truth whatever the number of replicas,   *)
(* objects, pages, failures and charts: the trim at the end of migrateKind  *)
(* rests on a walk that put every object at v1beta1 behind it.              *)
THEOREM StoredVersionsTruthful == SMSpec => []StoredTruthful
<1>1. MigrationInvariant => StoredTruthful
  BY DEF MigrationInvariant
<1> QED
  BY MigrationInit, MigrationStep, <1>1, PTL DEF SMSpec

=============================================================================
