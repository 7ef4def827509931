-------------------------- MODULE EligibilityNotes --------------------------
(***************************************************************************)
(* The FallbackIneligible findings of a ModelProvider: the condition that  *)
(* lists the first few, the set the reconciler remembers in memory, and    *)
(* the Warning that names each new finding once its status is stored.      *)
(* Writes conflict, fail, or take effect although they returned an error;  *)
(* the manager restarts and loses its memory; the provider is deleted and  *)
(* created again under its name.                                           *)
(***************************************************************************)
EXTENDS Naturals, Sequences, FiniteSets

CONSTANTS Findings,        \* what the scan can find, as numbers in sorted order
          MaxListed,       \* maxListedEntries
          NoteTroubles     \* changes, failures, restarts and recreations in one behaviour

ASSUME NoteBounds == Findings \subseteq Nat /\ MaxListed \in Nat \ {0} /\ NoteTroubles \in Nat

VARIABLES found,           \* what a scan finds now
          mp, mpSeen,      \* the provider and the cached copy: [uid, rv, cond]
          known, pending,  \* fallbackFindingsMemory
          heldNote,        \* heldEvents: findings named by the held Warning
          npc, nread, nto, \* the pass: where it is, what it read, the condition it derived
          nqueue, nleft,
          told,            \* findings some Warning named since they appeared
          unsure           \* no memory, and the stored condition may hold findings nobody named

envars == <<found, mp, mpSeen, known, pending, heldNote, npc, nread, nto, nqueue, nleft, told, unsure>>

NoMemory == [uid |-> 0, keys |-> {}, note |-> {}]
\* A condition: absent, False, or True with the listed findings and the total.
Absent == [status |-> "absent", listed |-> {}, total |-> 0]
Cleared == [Absent EXCEPT !.status = "False"]
ENInit == /\ found \in SUBSET Findings
          /\ mp = [uid |-> 1, rv |-> 1, cond |-> Absent] /\ mpSeen = mp
          /\ known = NoMemory /\ pending = NoMemory /\ heldNote = {}
          /\ npc = "idle" /\ nread = mp /\ nto = Absent /\ nqueue = TRUE /\ nleft = NoteTroubles
          /\ told = {} /\ unsure = FALSE

(***************************************************************************)
(* What happens around the passes.                                         *)
(***************************************************************************)
forget == known' = NoMemory /\ pending' = NoMemory
NoteTrouble == nleft > 0 /\ nleft' = nleft - 1
\* Agents, tasks or providers change, and their watches run a pass.
FindingsChange == /\ NoteTrouble /\ found' \in SUBSET Findings \ {found} /\ nqueue' = TRUE
                  /\ UNCHANGED <<mp, mpSeen, known, pending, heldNote, npc, nread, nto, told, unsure>>
Refresh == /\ mpSeen # mp /\ mpSeen' = mp /\ nqueue' = TRUE
           /\ UNCHANGED <<found, mp, known, pending, heldNote, npc, nread, nto, nleft, told, unsure>>
RestartManager == /\ NoteTrouble /\ known' = NoMemory /\ pending' = NoMemory /\ heldNote' = {} /\ npc' = "idle"
                  /\ nread' = mp /\ nto' = Absent /\ mpSeen' = mp /\ nqueue' = TRUE
                  /\ unsure' = (mp.cond.status = "True")
                  /\ UNCHANGED <<found, mp, told>>
\* Deleted and created again: by the finalizer pass, which forgets, or with
\* the finalizer stripped by hand.
Recreate == /\ NoteTrouble /\ mp.uid = 1 /\ mp' = [uid |-> 2, rv |-> mp.rv + 1, cond |-> Absent]
            /\ told' = {} /\ unsure' = FALSE /\ nqueue' = TRUE
            /\ \/ npc = "idle" /\ forget
               \/ UNCHANGED <<known, pending>>
            /\ UNCHANGED <<found, mpSeen, heldNote, npc, nread, nto>>

(***************************************************************************)
(* The memory.                                                             *)
(***************************************************************************)
lookup == [ok |-> known.uid = nread.uid, keys |-> IF known.uid = nread.uid THEN known.keys ELSE {}]
stage(keys, note) == pending' = [uid |-> nread.uid, keys |-> keys, note |-> note]
\* The set of a stored pass is remembered, and its note sent by the caller.
settle(stored) == /\ pending' = NoMemory
                  /\ known' = IF stored /\ pending.uid # 0 THEN [pending EXCEPT !.note = {}] ELSE known

(***************************************************************************)
(* A pass.                                                                 *)
(***************************************************************************)
\* The first findings in order, and how many there are.
fallbackFindingsMessage(keys) ==
    [status |-> "True", total |-> Cardinality(keys),
     listed |-> {k \in keys : Cardinality({j \in keys : j < k}) < MaxListed}]
fallbackNewNote(old, keys) == keys \ old
\* A growing total is announced too, whatever the list shows.
fallbackListedNote(prev, msg) == msg.listed \ prev.listed

StartScan == /\ npc = "idle" /\ nqueue /\ nqueue' = FALSE /\ npc' = "scan" /\ nread' = mpSeen
             /\ UNCHANGED <<found, mp, mpSeen, known, pending, heldNote, nto, nleft, told, unsure>>
setFallbackEligibility ==
    LET prev == nread.cond
        remembered == lookup.ok \/ prev.status # "True"
        msg == fallbackFindingsMessage(found)
    IN  /\ npc = "scan" /\ npc' = "finish"
        /\ IF found = {} THEN /\ stage({}, {}) /\ UNCHANGED heldNote
                              /\ nto' = IF prev = Absent THEN Absent ELSE Cleared
           ELSE /\ nto' = msg
                /\ IF remembered THEN stage(found, fallbackNewNote(lookup.keys, found)) /\ UNCHANGED heldNote
                   ELSE stage(found, {}) /\ heldNote' = fallbackListedNote(prev, msg)
        /\ UNCHANGED <<found, mp, mpSeen, known, nread, nqueue, nleft, told, unsure>>
\* A read before finish fails: the deferred calls drop what the pass holds.
PassFails == /\ npc = "scan" /\ NoteTrouble /\ npc' = "idle" /\ nqueue' = TRUE
             /\ heldNote' = {} /\ pending' = NoMemory /\ nread' = mpSeen
             /\ UNCHANGED <<found, mp, mpSeen, known, nto, told, unsure>>

\* The Warnings of a pass whose status is stored.  The first set remembered
\* after the memory was lost is taken as it is.
Announce(note) ==
    LET base == IF unsure THEN pending.keys ELSE told \cap pending.keys
    IN  /\ told' = IF pending.uid = mp.uid THEN base \cup note ELSE told
        /\ unsure' = (unsure /\ pending.uid # mp.uid)
End(again) == npc' = "idle" /\ heldNote' = {} /\ nqueue' = (nqueue \/ again) /\ nread' = mpSeen /\ nto' = Absent
\* Fault: a pass that finds its status stored drops its note with the rest.
finishEqualDrops == /\ End(FALSE) /\ settle(TRUE) /\ Announce({}) /\ UNCHANGED <<mp, nleft>>
\* The status is stored already: the held Warning goes, the memory's note is sent.
finishEqual == /\ End(FALSE) /\ settle(TRUE) /\ Announce(pending.note) /\ UNCHANGED <<mp, nleft>>
finishNotes ==
    /\ npc = "finish"
    /\ \/ mpSeen.cond = nto /\ finishEqual
       \/ /\ mpSeen.cond # nto /\ nread.rv = mp.rv
          /\ mp' = [mp EXCEPT !.rv = @ + 1, !.cond = nto]
          /\ settle(TRUE) /\ Announce(pending.note \cup heldNote) /\ End(FALSE) /\ UNCHANGED nleft
       \/ /\ mpSeen.cond # nto /\ nread.rv # mp.rv
          /\ settle(FALSE) /\ End(TRUE) /\ UNCHANGED <<mp, told, unsure, nleft>>
       \/ /\ mpSeen.cond # nto /\ NoteTrouble /\ settle(FALSE) /\ End(TRUE) /\ UNCHANGED told
          /\ \/ UNCHANGED <<mp, unsure>>
             \/ /\ nread.rv = mp.rv /\ mp' = [mp EXCEPT !.rv = @ + 1, !.cond = nto]
                /\ unsure' = (unsure \/ ~lookup.ok)
    /\ UNCHANGED <<found, mpSeen>>

ENNext == FindingsChange \/ Refresh \/ RestartManager \/ Recreate \/ StartScan \/ setFallbackEligibility
          \/ PassFails \/ finishNotes

(***************************************************************************)
(* What the Warnings promise.                                              *)
(***************************************************************************)
\* With nothing left to run, every finding was named by a Warning since it
\* appeared, listed in the condition or not and whatever writes failed: "a
\* new finding the condition does not list leaves the message unchanged", and
\* finish must still send it.  Excepted is what a pass without memory finds
\* behind a condition that lists findings: after a restart, or after a first
\* write that took effect and returned an error.
QuietTold == ~nqueue /\ npc = "idle" /\ mpSeen = mp /\ ~unsure => found \subseteq told

\* A finding that was named is not named again while it stands, as long as
\* the reconciler has its memory: "a repeat pass finds nothing new".
ToldOnce == npc = "finish" /\ lookup.ok /\ ~unsure /\ nread.uid = mp.uid => pending.note \cap told = {}

\* Every finding is told, and told once (setFallbackEligibility, settle).
NotesTold == QuietTold /\ ToldOnce
=============================================================================
