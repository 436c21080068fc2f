--------------------------- MODULE SuperuserFloor ---------------------------
(***************************************************************************)
(* The administration of user accounts by superusers: PATCH and DELETE     *)
(* /admin/users/{id}, running concurrently, and the rule that the platform *)
(* keeps at least one active superuser.                                    *)
(*                                                                         *)
(* A request loads its actor and then its target with unlocked SELECTs and *)
(* decides by those copies. The guard that counts the active superusers    *)
(* locks the rows it counts until the COMMIT: the wait for the locks, the  *)
(* recount and the commit are one step. A row is counted if it matched     *)
(* when the statement began and still does when its lock is granted.       *)
(***************************************************************************)
EXTENDS Naturals, FiniteSets

CONSTANTS
    None,           \* a field the patch leaves out
    Users,          \* accounts
    Founders,       \* the active superusers to begin with
    WithTotp,       \* the accounts that have two-factor authentication
    Requests,       \* concurrent requests
    Patches,        \* the bodies of PATCH that are sent
    Deletes         \* whether DELETE is sent

Patch == [is_active : BOOLEAN \cup {None}, is_superuser : BOOLEAN \cup {None}]

ASSUME FloorAssumption ==
    /\ IsFiniteSet(Users)
    /\ Founders \subseteq Users /\ Founders # {}
    /\ None \notin BOOLEAN \cup Users
    /\ Patches \subseteq Patch
    /\ Deletes \in BOOLEAN

VARIABLES
    user,       \* user[u]: the committed row of account u
    tx          \* tx[r]: the transaction of request r

vars == <<user, tx>>

Account == [exists : BOOLEAN, is_superuser : BOOLEAN, is_active : BOOLEAN]

\* snap is the target as loaded, seen the rows the counting statement found.
Tx == [pc : {"idle", "load", "decide", "count", "delete"},
       actor : Users \cup {None}, target : Users \cup {None},
       patch : Patch, snap : Account, seen : SUBSET Users]

NoPatch == [is_active |-> None, is_superuser |-> None]
NoAccount == [exists |-> FALSE, is_superuser |-> FALSE, is_active |-> FALSE]
IdleTx == [pc |-> "idle", actor |-> None, target |-> None, patch |-> NoPatch,
           snap |-> NoAccount, seen |-> {}]

TypeOK ==
    /\ user \in [Users -> Account]
    /\ tx \in [Requests -> Tx]

Init ==
    /\ user = [u \in Users |-> [exists |-> TRUE, is_active |-> TRUE,
                                is_superuser |-> u \in Founders]]
    /\ tx = [r \in Requests |-> IdleTx]

IsActiveSuperuser(account) ==
    account.exists /\ account.is_superuser /\ account.is_active

ActiveSuperusers == {u \in Users : IsActiveSuperuser(user[u])}

Goto(r, new) ==
    /\ tx' = [tx EXCEPT ![r] = new]
    /\ user' = user

\* An error response, or the end of a request that changed nothing.
Refuse(r) == Goto(r, IdleTx)

-----------------------------------------------------------------------------
\* get_current_user and check_superuser.
Send(r, actor, target, patch) ==
    /\ tx[r].pc = "idle"
    /\ actor \in ActiveSuperusers
    /\ Goto(r, [IdleTx EXCEPT !.pc = "load", !.actor = actor,
                              !.target = target, !.patch = patch])

\* "Cannot delete your own account"; any other account, after one SELECT.
SendDelete(r, actor, target) ==
    /\ Deletes
    /\ tx[r].pc = "idle"
    /\ actor \in ActiveSuperusers
    /\ target # actor
    /\ user[target].exists
    /\ Goto(r, [IdleTx EXCEPT !.pc = "delete", !.actor = actor, !.target = target])

LoadTarget(r) ==
    /\ tx[r].pc = "load"
    /\ user[tx[r].target].exists
    /\ Goto(r, [tx[r] EXCEPT !.pc = "decide", !.snap = user[tx[r].target]])

TargetNotFound(r) ==
    /\ tx[r].pc = "load"
    /\ ~user[tx[r].target].exists
    /\ Refuse(r)

Deactivates(r) == tx[r].patch.is_active = FALSE
Demotes(r) == tx[r].patch.is_superuser = FALSE
Promotes(r) == tx[r].patch.is_superuser = TRUE

\* assert_can_deactivate and assert_can_demote_superuser count the active
\* superusers only when the target, as loaded, is one of them.
NeedsFloor(r) ==
    (Deactivates(r) \/ Demotes(r)) /\ IsActiveSuperuser(tx[r].snap)

\* "You cannot demote yourself", "You cannot deactivate yourself", and
\* promotion asks for two-factor authentication.
Forbidden(r) ==
    \/ (Deactivates(r) \/ Demotes(r)) /\ tx[r].actor = tx[r].target
    \/ Promotes(r) /\ ~tx[r].snap.is_superuser /\ tx[r].target \notin WithTotp

BeginCount(r) ==
    /\ tx[r].pc = "decide"
    /\ ~Forbidden(r) /\ NeedsFloor(r)
    /\ Goto(r, [tx[r] EXCEPT !.pc = "count", !.seen = ActiveSuperusers])

\* Faulty: one remaining superuser is taken for enough.
BugOneIsEnough(r) ==
    Cardinality({u \in tx[r].seen : IsActiveSuperuser(user[u])}) >= 1

CountedEnough(r) ==
    Cardinality({u \in tx[r].seen : IsActiveSuperuser(user[u])}) > 1

\* Faulty: fields the patch leaves out are written as null.
BugPatchedNull(r) ==
    [exists |-> TRUE, is_superuser |-> tx[r].patch.is_superuser,
     is_active |-> tx[r].patch.is_active]

\* The patch writes the columns in which it differs from the loaded target.
Patched(r) ==
    LET new == tx[r].patch
        old == tx[r].snap
        now == user[tx[r].target]
        column(value, loaded, committed) ==
            IF value \notin {None, loaded} THEN value ELSE committed IN
    [exists |-> TRUE,
     is_superuser |-> column(new.is_superuser, old.is_superuser, now.is_superuser),
     is_active |-> column(new.is_active, old.is_active, now.is_active)]

CommitPatch(r) ==
    /\ \/ tx[r].pc = "decide" /\ ~Forbidden(r) /\ ~NeedsFloor(r)
       \/ tx[r].pc = "count" /\ CountedEnough(r)
    /\ user[tx[r].target].exists
    /\ user' = [user EXCEPT ![tx[r].target] = Patched(r)]
    /\ tx' = [tx EXCEPT ![r] = IdleTx]

\* Refused by a guard; or the target was deleted since it was loaded.
RefusePatch(r) ==
    /\ \/ tx[r].pc = "decide" /\ Forbidden(r)
       \/ tx[r].pc = "count" /\ ~CountedEnough(r)
       \/ tx[r].pc \in {"decide", "count"} /\ ~user[tx[r].target].exists
    /\ Refuse(r)

\* DELETE FROM users: no guard looks at the superusers.
CommitDelete(r) ==
    /\ tx[r].pc = "delete"
    /\ user' = [user EXCEPT ![tx[r].target] = NoAccount]
    /\ tx' = [tx EXCEPT ![r] = IdleTx]

\* assert_can_delete: the target owns a project.
RefuseDelete(r) ==
    /\ tx[r].pc = "delete"
    /\ Refuse(r)

Step(r) ==
    \/ \E actor, target \in Users, patch \in Patches : Send(r, actor, target, patch)
    \/ \E actor, target \in Users : SendDelete(r, actor, target)
    \/ LoadTarget(r)
    \/ TargetNotFound(r)
    \/ BeginCount(r)
    \/ CommitPatch(r)
    \/ RefusePatch(r)
    \/ CommitDelete(r)
    \/ RefuseDelete(r)

Next == \E r \in Requests : Step(r)

Spec == Init /\ [][Next]_vars

-----------------------------------------------------------------------------
(* Properties                                                              *)

\* The platform always has somebody who can recover access ("as long as the
\* count stays >= 1"; "the floor cannot be raced to zero").
FloorHeld == ActiveSuperusers # {}

\* A copy has every flag the account now has.
Covers(copy, now) ==
    /\ now.is_superuser => copy.is_superuser
    /\ now.is_active => copy.is_active
    /\ now.exists => copy.exists

\* No PATCH takes the last active superuser away, whatever other patches and
\* deletions run at the same time, unless its target was promoted or
\* reactivated after the request loaded it (the one case in which the guard
\* is skipped by mistake).
PatchKeepsFloor ==
    [][\A r \in Requests :
         /\ ActiveSuperusers # {}
         /\ tx[r].pc \in {"decide", "count"} /\ tx'[r].pc = "idle"
         /\ Covers(tx[r].snap, user[tx[r].target])
         => ActiveSuperusers' # {}]_vars

\* Requests that only take flags away: every loaded copy of an account has
\* the flags it still has.
FlagsOnlyFall ==
    \A r \in Requests :
        tx[r].pc \in {"decide", "count"} => Covers(tx[r].snap, user[tx[r].target])

\* What each program point has established.
ControlState ==
    \A r \in Requests :
        /\ tx[r].pc # "idle" => tx[r].target \in Users
        /\ tx[r].pc = "count" => NeedsFloor(r)
        /\ tx[r].patch \in Patches \cup {NoPatch}
        /\ tx[r].pc = "delete" => Deletes

\* Types and program points.
FloorTypeOK == TypeOK /\ ControlState

FloorInv == FloorTypeOK /\ FlagsOnlyFall /\ FloorHeld

\* The requests sent only demote or deactivate.
OnlyLowering ==
    /\ ~Deletes
    /\ \A p \in Patches : p.is_active # TRUE /\ p.is_superuser # TRUE
=============================================================================
