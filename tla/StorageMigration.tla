-------------------------- MODULE StorageMigration --------------------------
(***************************************************************************)
(* The storage-version migrator: one pass reads a CRD, rewrites every      *)
(* object page by page and then trims status.storedVersions, while users   *)
(* create and delete objects, a chart is applied or rolled back, requests  *)
(* fail, and the lead passes to another replica in the middle of a pass.   *)
(* The API server is external: it stores an object it writes at the CRD's  *)
(* storage version, adds that version to storedVersions, and refuses to    *)
(* drop it from there.                                                     *)
(***************************************************************************)
EXTENDS Naturals, FiniteSets

CONSTANTS Migrators,          \* replicas of the controller
          Names,              \* names of objects of the kind, as numbers in list order
          PageSize,           \* objects in one page of the list
          MigTroubles,        \* failed requests and changes of the lead
          Applies             \* times a chart changes the CRD's storage version

ASSUME MigrationBounds == /\ Names \subseteq Nat \ {0} /\ IsFiniteSet(Names) /\ PageSize \in Nat \ {0}
                          /\ MigTroubles \in Nat /\ Applies \in Nat

VARIABLES storage,            \* the CRD's storage version
          storedVersions,     \* status.storedVersions
          objects,            \* name -> version its bytes are stored at
          leader,             \* the replica that leads
          mpass,              \* replica -> its pass
          chores, charts      \* what is left of MigTroubles and Applies

smvars == <<storage, storedVersions, objects, leader, mpass, chores, charts>>

StorageVersion == "v1beta1"
OldVersion == "v1alpha1"
\* A pass: where it is, the page in hand, and the name the next page starts after.
NoPass == [pc |-> "off", page |-> {}, after |-> 0, more |-> FALSE]
Fresh == [NoPass EXCEPT !.pc = "get"]
SMInit == /\ storage \in {OldVersion, StorageVersion}
          /\ storedVersions = {OldVersion, storage}
          /\ objects \in UNION {[S -> storedVersions] : S \in SUBSET Names}
          /\ leader \in Migrators /\ mpass = [r \in Migrators |-> IF r = leader THEN Fresh ELSE NoPass]
          /\ chores = MigTroubles /\ charts = Applies

(***************************************************************************)
(* Users, the chart and the lead.                                          *)
(***************************************************************************)
Chore == chores > 0 /\ chores' = chores - 1
CreateObject(n) == /\ n \notin DOMAIN objects /\ Chore
                   /\ objects' = [k \in DOMAIN objects \cup {n} |-> IF k = n THEN storage ELSE objects[k]]
                   /\ UNCHANGED <<storage, storedVersions, leader, mpass, charts>>
DeleteObject(n) == /\ n \in DOMAIN objects /\ Chore
                   /\ objects' = [k \in DOMAIN objects \ {n} |-> objects[k]]
                   /\ UNCHANGED <<storage, storedVersions, leader, mpass, charts>>
\* A chart rolled back during a pass is not applied again before that pass
\* ends: the trim, which names no resourceVersion, would not notice.
ApplyChart == /\ charts > 0 /\ charts' = charts - 1
              /\ storage = OldVersion => \A r \in Migrators : mpass[r].pc \in {"off", "wait", "get"}
              /\ storage' = (IF storage = OldVersion THEN StorageVersion ELSE OldVersion)
              /\ storedVersions' = storedVersions \cup {storage'}
              /\ UNCHANGED <<objects, leader, mpass, chores>>
\* The old leader's context ends; a request it has under way may still arrive.
LeadMoves(r) == /\ r # leader /\ Chore /\ leader' = r
                /\ mpass' = [mpass EXCEPT ![r] = Fresh]
                /\ UNCHANGED <<storage, storedVersions, objects, charts>>

(***************************************************************************)
(* A pass over one kind, by replica r.                                     *)
(***************************************************************************)
Move(r, p) == mpass' = [mpass EXCEPT ![r] = p]
\* Fault: a pass that ended is not run again.
OverForGood(r) == Move(r, NoPass)
\* A pass that ended, well or not: the leader waits and runs again.
Over(r) == Move(r, IF r = leader THEN [NoPass EXCEPT !.pc = "wait"] ELSE NoPass)
\* Start: the timer between two passes, or the context ended.
Start(r) == /\ mpass[r].pc = "wait"
            /\ Move(r, IF r = leader THEN Fresh ELSE NoPass)
            /\ UNCHANGED <<storage, storedVersions, objects, leader, chores, charts>>
migrated == storedVersions = {StorageVersion}
storesAt == storage = StorageVersion
\* migrateKind reads the CRD once.  Migrated: nothing to do; not storing at
\* v1beta1: the chart's CRDs were not applied, and the pass fails.
GetCRD(r) == /\ mpass[r].pc = "get"
             /\ IF migrated \/ ~storesAt THEN Over(r) ELSE Move(r, [mpass[r] EXCEPT !.pc = "list"])
             /\ UNCHANGED <<storage, storedVersions, objects, leader, chores, charts>>
RestOf(r) == {n \in DOMAIN objects : n > mpass[r].after}
FirstOf(S) == {n \in S : Cardinality({k \in S : k < n}) < PageSize}
\* Fault: the walk ends with the first page.
moreNever(r) == FALSE
\* A continue token came with the page.
more(r) == RestOf(r) # FirstOf(RestOf(r))
List(r) == LET page == FirstOf(RestOf(r))
           IN  /\ mpass[r].pc = "list"
               /\ Move(r, [pc |-> "patch", page |-> page, more |-> more(r),
                           after |-> IF page = {} THEN mpass[r].after ELSE CHOOSE n \in page : \A k \in page : k <= n])
               /\ UNCHANGED <<storage, storedVersions, objects, leader, chores, charts>>
\* A read fails, or its continue token expired.
ReadFails(r) == /\ mpass[r].pc \in {"get", "list"} /\ Chore /\ Over(r)
                /\ UNCHANGED <<storage, storedVersions, objects, leader, charts>>
\* The empty patch of the next object; a failure ends the pass over the kind.
PatchObject(r) ==
    LET n == CHOOSE k \in mpass[r].page : \A j \in mpass[r].page : k <= j
    IN  /\ mpass[r].pc = "patch" /\ mpass[r].page # {}
        /\ \/ /\ n \in DOMAIN objects /\ objects' = [objects EXCEPT ![n] = storage]
              /\ Move(r, [mpass[r] EXCEPT !.page = @ \ {n}]) /\ UNCHANGED chores
           \/ n \notin DOMAIN objects /\ Over(r) /\ UNCHANGED <<objects, chores>>   \* not found
           \/ Chore /\ Over(r) /\ UNCHANGED objects
        /\ UNCHANGED <<storage, storedVersions, leader, charts>>
PageDone(r) == /\ mpass[r].pc = "patch" /\ mpass[r].page = {}
               /\ Move(r, [mpass[r] EXCEPT !.pc = IF mpass[r].more THEN "list" ELSE "trim", !.more = FALSE])
               /\ UNCHANGED <<storage, storedVersions, objects, leader, chores, charts>>
\* The patch names no resourceVersion; the API server refuses to drop the storage version.
Trim(r) == /\ mpass[r].pc = "trim" /\ Over(r)
           /\ \/ storage = StorageVersion /\ storedVersions' = {StorageVersion} /\ UNCHANGED chores
              \/ storage # StorageVersion /\ UNCHANGED <<storedVersions, chores>>
              \/ Chore /\ UNCHANGED storedVersions
           /\ UNCHANGED <<storage, objects, leader, charts>>
\* A deposed leader's pass ends at its next request.
Deposed(r) == /\ r # leader /\ mpass[r] # NoPass /\ Move(r, NoPass)
              /\ UNCHANGED <<storage, storedVersions, objects, leader, chores, charts>>

MigrateStep(r) == Start(r) \/ GetCRD(r) \/ List(r) \/ ReadFails(r) \/ PatchObject(r) \/ PageDone(r) \/ Trim(r)
SMNext == \/ \E n \in Names : CreateObject(n) \/ DeleteObject(n)
          \/ ApplyChart
          \/ \E r \in Migrators : LeadMoves(r) \/ MigrateStep(r) \/ Deposed(r)
SMSpec == SMInit /\ [][SMNext]_smvars

(***************************************************************************)
(* What the migration promises.                                            *)
(***************************************************************************)
\* storedVersions tells the truth: a version it does not list is the version
\* of no stored object, so a later release may stop serving it.  The trim of a
\* pass rests on a list and a CRD read long before it, with objects created
\* and deleted, the lead moved and the chart rolled back in between.
StoredTruthful == \A n \in DOMAIN objects : objects[n] \in storedVersions

\* The CRD stores v1beta1 and lists nothing else, or does not store it.
Migrated == storage = StorageVersion => migrated
=============================================================================
