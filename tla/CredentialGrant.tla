--------------------------- MODULE CredentialGrant ---------------------------
(***************************************************************************)
(* The Roles that scope a channel's credentials.  The controller keeps a   *)
(* check Role, which lets it read every Secret the channel names, and a    *)
(* gateway Role, which lists only the named Secrets that carry the opt-in  *)
(* label.  A pass reads Roles and bindings from a cache that may be old,   *)
(* reads each Secret once, and its writes may be refused or fail.  Others  *)
(* may hold an object of the same name, which the controller must not      *)
(* touch.                                                                  *)
(***************************************************************************)
EXTENDS Naturals, FiniteSets

CONSTANTS SecretNames,  \* Secrets of the namespace
          Kinds,        \* what a Secret can be, a subset of AllKinds
          Troubles      \* edits by others, failed writes and failed reads

AllKinds == {"absent", "bare", "unapproved", "nokey", "empty", "good"}
ASSUME GrantBounds == Kinds \subseteq AllKinds /\ Troubles \in Nat

Objects == {"checkRole", "checkBinding", "gwRole", "gwBinding"}
None == [by |-> "none", rules |-> {}]
Other == [by |-> "other", rules |-> {}]
Own(names) == [by |-> "channel", rules |-> names]
\* The spec names one Secret for inbound auth, perhaps one for the callback.
Specs == {[inbound |-> i, callback |-> c] : i \in SUBSET SecretNames, c \in SUBSET SecretNames}
authSecretNames(spec) == spec.inbound \cup spec.callback
OptedIn(kind) == kind \notin {"absent", "bare"}

VARIABLES spec, kind, seen,  \* the channel, its Secrets, and the watched copy
          grants, grantsSeen, exact, \* the objects, the cache, and if it is current
          labelled,          \* names that carried the label at some time
          granting, reason,      \* the running pass, and the status it wrote
          troubles           \* still to come

kvars == <<spec, kind, seen, grants, grantsSeen, exact, labelled, granting, reason, troubles>>

Rest == [pc |-> "rest", spec |-> [inbound |-> {}, callback |-> {}], want |-> {}, reason |-> "none",
         found |-> {}]

KInit ==
    /\ spec \in {s \in Specs : Cardinality(s.inbound) = 1 /\ Cardinality(s.callback) <= 1}
    /\ kind \in [SecretNames -> {k \in Kinds : k \in {"good", "bare"}}] /\ seen = kind
    /\ grants = [k \in Objects |-> None] /\ grantsSeen = grants /\ exact = [k \in Objects |-> TRUE]
    /\ labelled = {n \in SecretNames : OptedIn(kind[n])}
    /\ granting = Rest /\ reason = "none" /\ troubles = Troubles

(***************************************************************************)
(* The namespace's users.                                                  *)
(***************************************************************************)
EditSecret(n) ==
    /\ troubles > 0 /\ troubles' = troubles - 1
    /\ \E k \in Kinds \ {kind[n]} : kind' = [kind EXCEPT ![n] = k]
    /\ labelled' = labelled \cup {m \in {n} : OptedIn(kind'[n])}
    /\ UNCHANGED <<spec, seen, grants, grantsSeen, exact, granting, reason>>
\* A spec edit drops the callback, or the type no longer needs a Secret.
EditSpec ==
    /\ troubles > 0 /\ troubles' = troubles - 1
    /\ spec' \in {[spec EXCEPT !.callback = {}], [inbound |-> {}, callback |-> {}]} \ {spec}
    /\ UNCHANGED <<kind, seen, grants, grantsSeen, exact, labelled, granting, reason>>
\* Someone removes an object, or holds its name.
EditObject(k) ==
    /\ troubles > 0 /\ troubles' = troubles - 1
    /\ grants' = [grants EXCEPT ![k] = IF @ = None THEN Other ELSE None]
    /\ exact' = [exact EXCEPT ![k] = FALSE]
    /\ UNCHANGED <<spec, kind, seen, grantsSeen, labelled, granting, reason>>

SyncSecret(n) ==
    /\ seen[n] # kind[n] /\ seen' = [seen EXCEPT ![n] = kind[n]]
    /\ UNCHANGED <<spec, kind, grants, grantsSeen, exact, labelled, granting, reason, troubles>>
\* One informer per kind; it catches up in one step.
Informers == {{"checkRole", "gwRole"}, {"checkBinding", "gwBinding"}}
SyncObjects(ks) ==
    /\ \E k \in ks : ~exact[k]
    /\ grantsSeen' = [k \in Objects |-> IF k \in ks THEN grants[k] ELSE grantsSeen[k]]
    /\ exact' = [k \in Objects |-> k \in ks \/ exact[k]]
    /\ UNCHANGED <<spec, kind, seen, grants, labelled, granting, reason, troubles>>

(***************************************************************************)
(* One write of the pass.  Each result is [obj, troubles, outcome].        *)
(***************************************************************************)
Kept(outcome) == [obj |-> grants, troubles |-> troubles, outcome |-> outcome]
Put(k, o) == {[obj |-> [grants EXCEPT ![k] = o], troubles |-> troubles, outcome |-> "ok"]}
             \cup {[obj |-> grants, troubles |-> troubles - 1, outcome |-> e] :
                       e \in IF troubles > 0 THEN {"rejected", "error"} ELSE {}}
\* createControlled: a taken name is read again, from the same cache.
createControlled(k, o) ==
    IF grants[k] = None THEN Put(k, o)
    ELSE {Kept("error"), Kept(IF grants[k] = Other THEN "conflict" ELSE "ok")}
\* Create the object, keep it, update it from the cached version, or refuse.
ensure(k, names) ==
    IF grantsSeen[k] = None THEN createControlled(k, Own(names))
    ELSE IF grantsSeen[k] = Other THEN {Kept("conflict")}
    ELSE IF grantsSeen[k].rules = names THEN {Kept("ok")}
    ELSE IF exact[k] THEN Put(k, Own(names)) ELSE {Kept("error")}
\* A delete names the object and carries no version.
remove(k) == IF grants[k] = None THEN {Kept("ok")} ELSE Put(k, None)

Apply(w, p) ==
    /\ grants' = w.obj /\ troubles' = w.troubles /\ granting' = p
    /\ exact' = [k \in Objects |-> exact[k] /\ w.obj[k] = grants[k]]
    /\ UNCHANGED <<spec, kind, seen, grantsSeen, labelled>>

(***************************************************************************)
(* The pass.                                                               *)
(***************************************************************************)
Begin ==
    /\ granting.pc = "rest" /\ granting' = [Rest EXCEPT !.pc = "check", !.spec = spec]
    /\ UNCHANGED <<spec, kind, seen, grants, grantsSeen, exact, labelled, reason, troubles>>

\* A conflict and a refused write are reasons of the status; anything else is
\* an error of the pass.
roleWriteReason(e) == CASE e = "conflict" -> "ChildConflict" [] e = "rejected" -> "ChildWriteRejected"
                        [] OTHER -> "error"
WriteFailed == {"ChildConflict", "ChildWriteRejected", "error"}

\* A failed check Role empties the gateway Role, with the failure as reason.
checkDone(e, next) == [granting EXCEPT !.pc = IF e = "ok" THEN next ELSE "gwRole", !.reason = IF e = "ok" THEN "ok" ELSE roleWriteReason(e)]
\* ensureControllerSecretAccess: both objects are read first and must be ours;
\* with no names the binding found goes first, then the Role; else the Role
\* comes first.
ensureControllerSecretAccess ==
    LET names == authSecretNames(granting.spec)
        found == {k \in {"checkRole", "checkBinding"} : grantsSeen[k] # None}
        first == IF names # {} THEN ensure("checkRole", names)
                 ELSE IF "checkBinding" \in found THEN remove("checkBinding") ELSE {Kept("ok")}
        second == IF names = {} /\ "checkRole" \in granting.found THEN remove("checkRole")
                  ELSE IF names # {} /\ "checkBinding" \notin granting.found
                  THEN createControlled("checkBinding", Own({})) ELSE {Kept("ok")}
    IN  /\ \/ /\ granting.pc = "check"
              /\ IF \E k \in found : grantsSeen[k] = Other
                 THEN Apply(Kept("conflict"), checkDone("conflict", ""))
                 ELSE \E w \in first : Apply(w, [checkDone(w.outcome, "check2") EXCEPT !.found = found])
           \/ granting.pc = "check2" /\ \E w \in second : Apply(w, [checkDone(w.outcome, "read") EXCEPT !.found = {}])
        /\ UNCHANGED reason

\* The ordered checks over what the pass read; a failed read is "absent".
checkOne(kd, missing, empty, hosted) ==
    IF kd = "absent" THEN missing ELSE IF kd = "bare" THEN "SecretNotOptedIn"
    ELSE IF hosted /\ kd = "unapproved" THEN "CallbackHostNotApproved"
    ELSE IF kd = "nokey" THEN missing ELSE IF kd = "empty" THEN empty ELSE "ok"
checkChannelSecrets(sp, reads) ==
    LET inbound == {checkOne(reads[n], "CredentialsMissing", "CredentialsMissing", FALSE) : n \in sp.inbound}
        callback == {checkOne(reads[n], "CallbackAuthMissing", "CallbackAuthInvalid", TRUE) : n \in sp.callback}
        failed(rs) == rs \ {"ok"}
    IN  IF failed(inbound) # {} THEN CHOOSE r \in inbound : r # "ok"
        ELSE IF failed(callback) # {} THEN CHOOSE r \in callback : r # "ok" ELSE "ok"

readChannelSecrets(reads) == {n \in authSecretNames(granting.spec) : OptedIn(reads[n])}

\* validateSecrets: one read of each Secret; a refused read, where the Role is
\* missing or has not reached the authorizer, is not opted in.
validateSecrets ==
    /\ granting.pc = "read"
    /\ \E refused \in SUBSET authSecretNames(granting.spec) :
        LET allowed(n) == grants["checkBinding"].by = "channel" /\ n \in grants["checkRole"].rules
            reads == [n \in SecretNames |-> IF n \in refused \/ ~allowed(n) THEN "absent" ELSE seen[n]]
        IN  /\ Cardinality(refused) <= troubles /\ troubles' = troubles - Cardinality(refused)
            /\ granting' = [granting EXCEPT !.pc = "gwRole", !.want = readChannelSecrets(reads),
                                    !.reason = checkChannelSecrets(granting.spec, reads)]
    /\ UNCHANGED <<spec, kind, seen, grants, grantsSeen, exact, labelled, reason>>

\* The gateway Role and then its binding; after a failed check Role the
\* outcome of this write is only logged.
scopeCredentialRoles ==
    LET failed == granting.reason \in WriteFailed
        done(e, next) == [granting EXCEPT !.pc = IF e = "ok" THEN next ELSE "status",
                                      !.reason = IF e = "ok" \/ failed THEN @ ELSE roleWriteReason(e)]
    IN  /\ \/ granting.pc = "gwRole" /\ \E w \in ensure("gwRole", granting.want) : Apply(w, done(w.outcome, "gwBinding"))
           \/ granting.pc = "gwBinding" /\ \E w \in ensure("gwBinding", {}) : Apply(w, done(w.outcome, "status"))
        /\ UNCHANGED reason

\* An error ends the pass without a status; the next pass follows by itself,
\* by backoff, by an event of an object or by the requeue after a minute.
Finish ==
    /\ granting.pc = "status" /\ granting' = Rest
    /\ reason' = IF granting.reason = "error" THEN reason ELSE granting.reason
    /\ UNCHANGED <<spec, kind, seen, grants, grantsSeen, exact, labelled, troubles>>

KStep == Begin \/ ensureControllerSecretAccess \/ validateSecrets \/ scopeCredentialRoles \/ Finish
KNext == \/ (\E n \in SecretNames : EditSecret(n)) \/ EditSpec \/ (\E k \in Objects : EditObject(k))
         \/ (\E n \in SecretNames : SyncSecret(n)) \/ (\E ks \in Informers : SyncObjects(ks))
         \/ KStep

(***************************************************************************)
(* Properties.                                                             *)
(***************************************************************************)

\* The gateway is never granted a Secret that did not carry the opt-in label
\* at some time (ensureCredentialRole: "The Role lists only names, the
\* referenced Secrets that carry the rule 45 label").
NeverUnlabelled == grants["gwRole"].rules \subseteq labelled

\* A Role or binding that the controller reads as another's is left alone by
\* every step of the pass (ensureControllerSecretAccess: "never updated or
\* deleted").
OthersKept ==
    [][granting' # granting => \A k \in Objects : grantsSeen[k] = Other /\ k \notin granting.found /\ grants[k] = Other
                                                => grants'[k] = Other]_kvars

\* The gateway's grant is the named Secrets that carry the label, and none
\* while the check Role is held by another.
GrantRight ==
    LET checkLost == Other \in {grants["checkRole"], grants["checkBinding"]}
        usable == {n \in authSecretNames(spec) : OptedIn(kind[n])}
    IN  /\ grants["gwRole"] # Other => grants["gwRole"] = Own(IF checkLost THEN {} ELSE usable)
        /\ ~checkLost => grants["checkRole"].rules = authSecretNames(spec)

\* The reported reason is the one the checks give for the Secrets as they are,
\* or the conflict that prevents them.
ReasonRight ==
    reason = IF \E k \in Objects : grants[k] = Other THEN "ChildConflict" ELSE checkChannelSecrets(spec, kind)
==============================================================================
