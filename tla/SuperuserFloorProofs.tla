------------------------ MODULE SuperuserFloorProofs ------------------------
(***************************************************************************)
(* The superuser floor, for any number of accounts and of concurrent       *)
(* requests: it stands as long as the requests only demote and deactivate, *)
(* and whatever else they do, no patch decided on a current copy takes it. *)
(***************************************************************************)
EXTENDS SuperuserFloor, FiniteSetTheorems, TLAPS

\* The idle transaction and the empty account are well typed.
LEMMA IdleType == IdleTx \in Tx /\ NoPatch \in Patch /\ NoAccount \in Account
BY DEF IdleTx, Tx, NoPatch, Patch, NoAccount, Account

\* More than one counted account leaves one besides the target.
LEMMA AnotherCounted ==
  ASSUME NEW S, IsFiniteSet(S), Cardinality(S) > 1, NEW x
  PROVE  \E y \in S : y # x
<1>. SUFFICES ASSUME \A y \in S : y = x PROVE FALSE
  OBVIOUS
<1>1. S \in SUBSET {x}
  OBVIOUS
<1>2. IsFiniteSet({x}) /\ Cardinality({x}) = 1
  BY FS_Singleton
<1>3. Cardinality(S) <= 1 /\ Cardinality(S) \in Nat
  BY <1>1, <1>2, FS_Subset, FS_CardinalityType
<1>. QED
  BY <1>3

\* A patch builds a typed account.
LEMMA PatchedType ==
  ASSUME TypeOK, ControlState, NEW r \in Requests, tx[r].pc # "idle"
  PROVE  Patched(r) \in Account
<1>1. /\ tx[r].target \in Users /\ tx[r].patch \in Patch
      /\ tx[r].snap \in Account /\ user[tx[r].target] \in Account
  BY DEF TypeOK, ControlState, Tx
<1>. QED
  BY <1>1, FloorAssumption DEF Patched, Patch, Account

\* Every step keeps the types.
LEMMA TypeStep ==
  ASSUME TypeOK, ControlState, [Next]_vars
  PROVE  TypeOK'
<1>1. ASSUME NEW r \in Requests, NEW new \in Tx, Goto(r, new)
      PROVE  TypeOK'
  BY <1>1 DEF Goto, TypeOK
<1>2. ASSUME NEW r \in Requests, Step(r)
      PROVE  TypeOK'
  <2>0. tx[r] \in Tx /\ IdleTx \in Tx /\ NoAccount \in Account /\ ActiveSuperusers \in SUBSET Users
    BY IdleType DEF TypeOK, ActiveSuperusers
  <2>1. ASSUME NEW actor \in Users, NEW target \in Users, NEW patch \in Patches,
               Send(r, actor, target, patch)
        PROVE  TypeOK'
    <3>1. [IdleTx EXCEPT !.pc = "load", !.actor = actor, !.target = target,
                         !.patch = patch] \in Tx
      BY <2>0, FloorAssumption DEF Tx
    <3>. QED
      BY <1>1, <2>1, <3>1 DEF Send
  <2>2. ASSUME NEW actor \in Users, NEW target \in Users, SendDelete(r, actor, target)
        PROVE  TypeOK'
    <3>1. [IdleTx EXCEPT !.pc = "delete", !.actor = actor, !.target = target] \in Tx
      BY <2>0 DEF Tx
    <3>. QED
      BY <1>1, <2>2, <3>1 DEF SendDelete
  <2>3. CASE LoadTarget(r)
    <3>1. user[tx[r].target] \in Account
      BY <2>3 DEF LoadTarget, ControlState, TypeOK
    <3>2. [tx[r] EXCEPT !.pc = "decide", !.snap = user[tx[r].target]] \in Tx
      BY <2>0, <3>1 DEF Tx
    <3>. QED
      BY <1>1, <2>3, <3>2 DEF LoadTarget
  <2>4. CASE BeginCount(r)
    <3>1. [tx[r] EXCEPT !.pc = "count", !.seen = ActiveSuperusers] \in Tx
      BY <2>0 DEF Tx
    <3>. QED
      BY <1>1, <2>4, <3>1 DEF BeginCount
  <2>5. CASE CommitPatch(r)
    <3>1. Patched(r) \in Account
      BY <2>5, PatchedType DEF CommitPatch
    <3>. QED
      BY <2>0, <2>5, <3>1 DEF CommitPatch, TypeOK
  <2>6. CASE CommitDelete(r)
    BY <2>0, <2>6 DEF CommitDelete, TypeOK
  <2>7. CASE TargetNotFound(r) \/ RefusePatch(r) \/ RefuseDelete(r)
    BY <1>1, <2>0, <2>7 DEF TargetNotFound, RefusePatch, RefuseDelete, Refuse
  <2>. QED
    BY <1>2, <2>1, <2>2, <2>3, <2>4, <2>5, <2>6, <2>7 DEF Step
<1>3. CASE UNCHANGED vars
  BY <1>3 DEF vars, TypeOK
<1>. QED
  BY <1>2, <1>3 DEF Next

(***************************************************************************)
(* The inductive invariant.                                                *)
(***************************************************************************)

\* A transaction and the accounts as FloorInv wants them.
GoodTx(x) ==
  /\ x.pc # "idle" => x.target \in Users
  /\ x.pc = "count" =>
        (x.patch.is_active = FALSE \/ x.patch.is_superuser = FALSE)
        /\ IsActiveSuperuser(x.snap)
  /\ x.patch \in Patches \cup {NoPatch}
  /\ x.pc = "delete" => Deletes

\* The invariant, taken apart by transaction.
LEMMA InvSplit ==
  FloorInv <=> /\ TypeOK /\ FloorHeld
               /\ \A r \in Requests :
                    /\ GoodTx(tx[r])
                    /\ tx[r].pc \in {"decide", "count"} =>
                         Covers(tx[r].snap, user[tx[r].target])
BY DEF FloorInv, FloorTypeOK, ControlState, FlagsOnlyFall, GoodTx, Covers, NeedsFloor,
       Deactivates, Demotes

\* The same in the next state.
LEMMA InvJoin ==
  ASSUME TypeOK', FloorHeld',
         \A r \in Requests :
            /\ GoodTx(tx'[r])
            /\ tx'[r].pc \in {"decide", "count"} =>
                 Covers(tx'[r].snap, user'[tx'[r].target])
  PROVE  FloorInv'
BY DEF FloorInv, FloorTypeOK, ControlState, FlagsOnlyFall, GoodTx, Covers, NeedsFloor,
       Deactivates, Demotes

\* A transaction that is over owes nothing.
LEMMA IdleGood == GoodTx(IdleTx) /\ IdleTx.pc = "idle"
BY DEF GoodTx, IdleTx

\* A step that only moves one transaction.
LEMMA GotoStep ==
  ASSUME FloorInv, TypeOK', NEW r \in Requests, NEW new, Goto(r, new), GoodTx(new),
         new.pc \in {"decide", "count"} => Covers(new.snap, user[new.target])
  PROVE  FloorInv'
<1>1. user' = user /\ tx'[r] = new /\ \A q \in Requests : q # r => tx'[q] = tx[q]
  BY DEF Goto, FloorInv, FloorTypeOK, TypeOK
<1>2. FloorHeld'
  BY <1>1, InvSplit DEF FloorHeld, ActiveSuperusers
<1>3. ASSUME NEW q \in Requests
      PROVE  /\ GoodTx(tx'[q])
             /\ tx'[q].pc \in {"decide", "count"} =>
                  Covers(tx'[q].snap, user'[tx'[q].target])
  BY <1>1, InvSplit
<1>. QED
  BY <1>2, <1>3, InvJoin

\* A patch that only lowers flags lowers them.
LEMMA PatchedLowers ==
  ASSUME FloorInv, OnlyLowering, NEW r \in Requests, tx[r].pc # "idle",
         user[tx[r].target].exists
  PROVE  Covers(user[tx[r].target], Patched(r))
<1>1. tx[r].patch \in Patch /\ tx[r].patch \in Patches \cup {NoPatch}
  BY InvSplit DEF GoodTx, FloorInv, FloorTypeOK, TypeOK, Tx
<1>2. tx[r].patch.is_active # TRUE /\ tx[r].patch.is_superuser # TRUE
  <2>. DEFINE yes == TRUE
  <2>1. None # yes
    BY FloorAssumption
  <2>2. \A p \in Patches : p.is_active # yes /\ p.is_superuser # yes
    BY DEF OnlyLowering
  <2>. HIDE DEF yes
  <2>3. NoPatch.is_active # yes /\ NoPatch.is_superuser # yes
    BY <2>1 DEF NoPatch
  <2>4. tx[r].patch.is_active # yes /\ tx[r].patch.is_superuser # yes
    BY <1>1, <2>2, <2>3
  <2>. QED
    BY <2>4 DEF yes
<1>3. tx[r].patch.is_active \in {FALSE, None} /\ tx[r].patch.is_superuser \in {FALSE, None}
  BY <1>1, <1>2 DEF Patch
<1>. QED
  BY <1>3 DEF Covers, Patched

\* Whatever a lowering patch commits, an active superuser remains.
LEMMA LoweringKeepsFloor ==
  ASSUME FloorInv, NEW r \in Requests, CommitPatch(r)
  PROVE  FloorHeld'
<1>. DEFINE t == tx[r].target
<1>1. t \in Users /\ user \in [Users -> Account] /\ tx[r] \in Tx
  BY InvSplit DEF GoodTx, CommitPatch, FloorInv, FloorTypeOK, TypeOK
<1>2. \A u \in Users : u # t => user'[u] = user[u]
  BY <1>1 DEF CommitPatch
<1>3. CASE tx[r].pc = "count"
  <2>. DEFINE S == {u \in tx[r].seen : IsActiveSuperuser(user[u])}
  <2>1. S \in SUBSET Users /\ Cardinality(S) > 1
    BY <1>1, <1>3 DEF CommitPatch, CountedEnough, Tx
  <2>2. IsFiniteSet(S)
    BY <2>1, FS_Subset, FloorAssumption
  <2>3. PICK u \in S : u # t
    <3>. HIDE DEF S, t
    <3>. QED
      BY <2>1, <2>2, AnotherCounted
  <2>. QED
    BY <1>2, <2>1, <2>3 DEF FloorHeld, ActiveSuperusers, IsActiveSuperuser
<1>4. CASE tx[r].pc = "decide" /\ ~NeedsFloor(r)
  <2>1. PICK u \in Users : IsActiveSuperuser(user[u])
    BY InvSplit DEF FloorHeld, ActiveSuperusers
  <2>2. Covers(tx[r].snap, user[t])
    BY <1>4, InvSplit
  <2>3. CASE u = t
    <3>1. IsActiveSuperuser(tx[r].snap)
      BY <2>1, <2>2, <2>3 DEF Covers, IsActiveSuperuser
    <3>2. tx[r].patch.is_active # FALSE /\ tx[r].patch.is_superuser # FALSE
      BY <1>4, <3>1 DEF NeedsFloor, Deactivates, Demotes
    <3>3. tx[r].patch.is_active \in {TRUE, None} /\ tx[r].patch.is_superuser \in {TRUE, None}
      BY <1>1, <3>2 DEF Tx, Patch
    <3>4. user'[t] = Patched(r)
      BY <1>1 DEF CommitPatch
    <3>5. IsActiveSuperuser(Patched(r))
      BY <2>1, <2>3, <3>3 DEF IsActiveSuperuser, Patched
    <3>. QED
      BY <1>1, <3>4, <3>5 DEF FloorHeld, ActiveSuperusers
  <2>4. CASE u # t
    BY <1>2, <2>1, <2>4 DEF FloorHeld, ActiveSuperusers
  <2>. QED
    BY <2>3, <2>4
<1>. QED
  BY <1>3, <1>4 DEF CommitPatch

\* The UPDATE and COMMIT of patch_user preserve the invariant.
LEMMA CommitPatchPreserves ==
  ASSUME FloorInv, OnlyLowering, TypeOK', NEW r \in Requests, CommitPatch(r)
  PROVE  FloorInv'
<1>1. /\ tx[r].target \in Users /\ tx[r].pc # "idle"
      /\ user[tx[r].target].exists
      /\ user' = [user EXCEPT ![tx[r].target] = Patched(r)]
  BY InvSplit DEF GoodTx, CommitPatch
<1>2. tx'[r] = IdleTx /\ \A q \in Requests : q # r => tx'[q] = tx[q]
  BY DEF CommitPatch, FloorInv, FloorTypeOK, TypeOK
<1>3. \A u \in Users : Covers(user[u], user'[u])
  <2>1. Covers(user[tx[r].target], Patched(r))
    BY <1>1, PatchedLowers
  <2>2. user'[tx[r].target] = Patched(r)
    BY <1>1 DEF FloorInv, FloorTypeOK, TypeOK
  <2>3. \A u \in Users : u # tx[r].target => user'[u] = user[u]
    BY <1>1 DEF FloorInv, FloorTypeOK, TypeOK
  <2>. QED
    BY <2>1, <2>2, <2>3 DEF Covers
<1>4. ASSUME NEW q \in Requests
      PROVE  /\ GoodTx(tx'[q])
             /\ tx'[q].pc \in {"decide", "count"} =>
                  Covers(tx'[q].snap, user'[tx'[q].target])
  <2>1. CASE q = r
    BY <1>2, <2>1, IdleGood
  <2>2. CASE q # r
    <3>1. tx'[q] = tx[q] /\ GoodTx(tx[q])
      BY <1>2, <2>2, InvSplit
    <3>2. ASSUME tx[q].pc \in {"decide", "count"}
          PROVE  Covers(tx[q].snap, user'[tx[q].target])
      <4>1. tx[q].target \in Users /\ Covers(tx[q].snap, user[tx[q].target])
        BY <3>1, <3>2, InvSplit DEF GoodTx
      <4>2. Covers(user[tx[q].target], user'[tx[q].target])
        BY <1>3, <4>1
      <4>. QED
        BY <4>1, <4>2 DEF Covers
    <3>. QED
      BY <3>1, <3>2
  <2>. QED
    BY <2>1, <2>2
<1>. QED
  BY <1>4, LoweringKeepsFloor, InvJoin

\* Every step of requests that only lower preserves the invariant.
LEMMA NextInv ==
  ASSUME FloorInv, OnlyLowering, [Next]_vars
  PROVE  FloorInv'
<1>1. TypeOK'
  BY TypeStep DEF FloorInv, FloorTypeOK
<1>2. ASSUME NEW r \in Requests, Step(r)
      PROVE  FloorInv'
  <2>0. /\ tx[r] \in Tx /\ GoodTx(tx[r])
        /\ tx[r].pc \in {"decide", "count"} => Covers(tx[r].snap, user[tx[r].target])
    BY InvSplit DEF FloorInv, FloorTypeOK, TypeOK
  <2>1. ASSUME NEW actor \in Users, NEW target \in Users, NEW patch \in Patches,
               Send(r, actor, target, patch)
        PROVE  FloorInv'
    <3>. DEFINE new == [IdleTx EXCEPT !.pc = "load", !.actor = actor,
                                      !.target = target, !.patch = patch]
    <3>1. new.pc = "load" /\ new.target = target /\ new.patch = patch
      BY IdleType DEF Tx
    <3>2. Goto(r, new)
      BY <2>1 DEF Send
    <3>. HIDE DEF new
    <3>3. GoodTx(new)
      BY <3>1 DEF GoodTx
    <3>. QED
      BY <1>1, <3>1, <3>2, <3>3, GotoStep
  <2>2. ASSUME NEW actor \in Users, NEW target \in Users, SendDelete(r, actor, target)
        PROVE  FloorInv'
    BY <2>2 DEF SendDelete, OnlyLowering
  <2>3. CASE LoadTarget(r)
    <3>. DEFINE new == [tx[r] EXCEPT !.pc = "decide", !.snap = user[tx[r].target]]
    <3>1. /\ new.pc = "decide" /\ new.target = tx[r].target
          /\ new.patch = tx[r].patch /\ new.snap = user[tx[r].target]
      BY <2>0 DEF Tx
    <3>2. Goto(r, new) /\ tx[r].pc = "load"
      BY <2>3 DEF LoadTarget
    <3>. HIDE DEF new
    <3>3. GoodTx(new) /\ Covers(new.snap, user[new.target])
      BY <2>0, <3>1, <3>2 DEF GoodTx, Covers
    <3>. QED
      BY <1>1, <3>2, <3>3, GotoStep
  <2>4. CASE BeginCount(r)
    <3>. DEFINE new == [tx[r] EXCEPT !.pc = "count", !.seen = ActiveSuperusers]
    <3>1. /\ new.pc = "count" /\ new.target = tx[r].target
          /\ new.patch = tx[r].patch /\ new.snap = tx[r].snap
      BY <2>0 DEF Tx
    <3>2. Goto(r, new) /\ tx[r].pc = "decide" /\ NeedsFloor(r)
      BY <2>4 DEF BeginCount
    <3>. HIDE DEF new
    <3>3. GoodTx(new) /\ Covers(new.snap, user[new.target])
      BY <2>0, <3>1, <3>2 DEF GoodTx, NeedsFloor, Deactivates, Demotes
    <3>. QED
      BY <1>1, <3>2, <3>3, GotoStep
  <2>5. CASE CommitPatch(r)
    BY <1>1, <2>5, CommitPatchPreserves
  <2>6. CASE CommitDelete(r)
    BY <2>0, <2>6 DEF CommitDelete, GoodTx, OnlyLowering
  <2>7. CASE TargetNotFound(r) \/ RefusePatch(r) \/ RefuseDelete(r)
    BY <1>1, <2>7, IdleGood, GotoStep DEF TargetNotFound, RefusePatch, RefuseDelete, Refuse
  <2>. QED
    BY <1>2, <2>1, <2>2, <2>3, <2>4, <2>5, <2>6, <2>7 DEF Step
<1>3. CASE UNCHANGED vars
  <2>1. user' = user /\ tx' = tx
    BY <1>3 DEF vars
  <2>. QED
    BY <1>1, <2>1, InvSplit, InvJoin DEF FloorHeld, ActiveSuperusers
<1>. QED
  BY <1>2, <1>3 DEF Next

\* The invariant holds with the founders in place.
LEMMA InitInv == Init => FloorInv
<1>. SUFFICES ASSUME Init PROVE FloorInv
  OBVIOUS
<1>1. TypeOK
  BY IdleType DEF Init, TypeOK, Account
<1>2. \A r \in Requests : tx[r] = IdleTx
  BY DEF Init
<1>3. FloorHeld
  <2>1. PICK u \in Founders : TRUE
    BY FloorAssumption
  <2>2. u \in Users
    BY FloorAssumption
  <2>3. IsActiveSuperuser(user[u])
    BY <2>1, <2>2 DEF Init, IsActiveSuperuser
  <2>. QED
    BY <2>2, <2>3 DEF FloorHeld, ActiveSuperusers
<1>. QED
  BY <1>1, <1>2, <1>3, IdleGood, InvSplit

\* However many demotions and deactivations run at once, they cannot take the
\* last active superuser away.
THEOREM FloorCannotBeRacedToZero ==
  ASSUME OnlyLowering
  PROVE  Spec => []FloorHeld
<1>1. Init => FloorInv
  BY InitInv
<1>2. FloorInv /\ [Next]_vars => FloorInv'
  BY NextInv
<1>3. FloorInv => FloorHeld
  BY DEF FloorInv
<1>. QED
  BY <1>1, <1>2, <1>3, PTL DEF Spec

(***************************************************************************)
(* Every patch and deletion allowed.                                       *)
(***************************************************************************)

\* ControlState, taken apart by transaction.
LEMMA ControlSplit == ControlState <=> \A r \in Requests : GoodTx(tx[r])
BY DEF ControlState, GoodTx, NeedsFloor, Deactivates, Demotes

\* The same in the next state.
LEMMA ControlJoin ==
  ASSUME \A r \in Requests : GoodTx(tx'[r])
  PROVE  ControlState'
BY DEF ControlState, GoodTx, NeedsFloor, Deactivates, Demotes

\* A transaction that moves to a good state, whatever it does to accounts.
LEMMA GoodStep ==
  ASSUME FloorTypeOK, NEW r \in Requests, NEW new, GoodTx(new),
         tx' = [tx EXCEPT ![r] = new]
  PROVE  ControlState'
<1>1. tx'[r] = new /\ \A q \in Requests : q # r => tx'[q] = tx[q]
  BY DEF FloorTypeOK, TypeOK
<1>. QED
  BY <1>1, ControlSplit, ControlJoin DEF FloorTypeOK

\* Every step keeps types and program points.
LEMMA FloorTypeStep ==
  ASSUME FloorTypeOK, [Next]_vars
  PROVE  FloorTypeOK'
<1>1. TypeOK'
  BY TypeStep DEF FloorTypeOK
<1>2. ASSUME NEW r \in Requests, Step(r)
      PROVE  ControlState'
  <2>0. tx[r] \in Tx /\ GoodTx(tx[r])
    BY ControlSplit DEF FloorTypeOK, TypeOK
  <2>1. ASSUME NEW actor \in Users, NEW target \in Users, NEW patch \in Patches,
               Send(r, actor, target, patch)
        PROVE  ControlState'
    <3>. DEFINE new == [IdleTx EXCEPT !.pc = "load", !.actor = actor,
                                      !.target = target, !.patch = patch]
    <3>1. new.pc = "load" /\ new.target = target /\ new.patch = patch
      BY IdleType DEF Tx
    <3>2. tx' = [tx EXCEPT ![r] = new]
      BY <2>1 DEF Send, Goto
    <3>. HIDE DEF new
    <3>. QED
      BY <3>1, <3>2, GoodStep DEF GoodTx
  <2>2. ASSUME NEW actor \in Users, NEW target \in Users, SendDelete(r, actor, target)
        PROVE  ControlState'
    <3>. DEFINE new == [IdleTx EXCEPT !.pc = "delete", !.actor = actor, !.target = target]
    <3>1. new.pc = "delete" /\ new.target = target /\ new.patch = NoPatch
      BY IdleType DEF Tx, IdleTx
    <3>2. tx' = [tx EXCEPT ![r] = new] /\ Deletes
      BY <2>2 DEF SendDelete, Goto
    <3>. HIDE DEF new
    <3>. QED
      BY <3>1, <3>2, GoodStep DEF GoodTx
  <2>3. CASE LoadTarget(r)
    <3>. DEFINE new == [tx[r] EXCEPT !.pc = "decide", !.snap = user[tx[r].target]]
    <3>1. /\ new.pc = "decide" /\ new.target = tx[r].target
          /\ new.patch = tx[r].patch
      BY <2>0 DEF Tx
    <3>2. tx' = [tx EXCEPT ![r] = new] /\ tx[r].pc = "load"
      BY <2>3 DEF LoadTarget, Goto
    <3>. HIDE DEF new
    <3>. QED
      BY <2>0, <3>1, <3>2, GoodStep DEF GoodTx
  <2>4. CASE BeginCount(r)
    <3>. DEFINE new == [tx[r] EXCEPT !.pc = "count", !.seen = ActiveSuperusers]
    <3>1. /\ new.pc = "count" /\ new.target = tx[r].target
          /\ new.patch = tx[r].patch /\ new.snap = tx[r].snap
      BY <2>0 DEF Tx
    <3>2. /\ tx' = [tx EXCEPT ![r] = new]
          /\ tx[r].pc = "decide" /\ NeedsFloor(r)
      BY <2>4 DEF BeginCount, Goto
    <3>. HIDE DEF new
    <3>. QED
      BY <2>0, <3>1, <3>2, GoodStep DEF GoodTx, NeedsFloor, Deactivates, Demotes
  <2>5. CASE CommitPatch(r) \/ CommitDelete(r)
    BY <2>5, IdleGood, GoodStep DEF CommitPatch, CommitDelete
  <2>6. CASE TargetNotFound(r) \/ RefusePatch(r) \/ RefuseDelete(r)
    BY <2>6, IdleGood, GoodStep DEF TargetNotFound, RefusePatch, RefuseDelete, Refuse, Goto
  <2>. QED
    BY <1>2, <2>1, <2>2, <2>3, <2>4, <2>5, <2>6 DEF Step
<1>3. CASE UNCHANGED vars
  BY <1>1, <1>3, ControlSplit, ControlJoin DEF vars, FloorTypeOK
<1>. QED
  BY <1>1, <1>2, <1>3 DEF Next, FloorTypeOK

\* A patch decided on a copy that covers its target leaves a superuser.
LEMMA CoveredPatch ==
  ASSUME FloorTypeOK, ActiveSuperusers # {}, NEW r \in Requests, CommitPatch(r),
         Covers(tx[r].snap, user[tx[r].target])
  PROVE  ActiveSuperusers' # {}
<1>. DEFINE t == tx[r].target
<1>1. t \in Users /\ user \in [Users -> Account] /\ tx[r] \in Tx
  BY ControlSplit DEF GoodTx, CommitPatch, FloorTypeOK, TypeOK
<1>2. \A u \in Users : u # t => user'[u] = user[u]
  BY <1>1 DEF CommitPatch
<1>3. CASE tx[r].pc = "count"
  <2>. DEFINE S == {u \in tx[r].seen : IsActiveSuperuser(user[u])}
  <2>1. S \in SUBSET Users /\ Cardinality(S) > 1
    BY <1>1, <1>3 DEF CommitPatch, CountedEnough, Tx
  <2>2. IsFiniteSet(S)
    BY <2>1, FS_Subset, FloorAssumption
  <2>3. PICK u \in S : u # t
    <3>. HIDE DEF S, t
    <3>. QED
      BY <2>1, <2>2, AnotherCounted
  <2>. QED
    BY <1>2, <2>1, <2>3 DEF ActiveSuperusers, IsActiveSuperuser
<1>4. CASE tx[r].pc = "decide" /\ ~NeedsFloor(r)
  <2>1. PICK u \in Users : IsActiveSuperuser(user[u])
    BY DEF ActiveSuperusers
  <2>2. CASE u = t
    <3>1. IsActiveSuperuser(tx[r].snap)
      BY <2>1, <2>2 DEF Covers, IsActiveSuperuser
    <3>2. tx[r].patch.is_active # FALSE /\ tx[r].patch.is_superuser # FALSE
      BY <1>4, <3>1 DEF NeedsFloor, Deactivates, Demotes
    <3>3. tx[r].patch.is_active \in {TRUE, None} /\ tx[r].patch.is_superuser \in {TRUE, None}
      BY <1>1, <3>2 DEF Tx, Patch
    <3>4. user'[t] = Patched(r)
      BY <1>1 DEF CommitPatch
    <3>5. IsActiveSuperuser(Patched(r))
      BY <2>1, <2>2, <3>3 DEF IsActiveSuperuser, Patched
    <3>. QED
      BY <1>1, <3>4, <3>5 DEF ActiveSuperusers
  <2>3. CASE u # t
    BY <1>2, <2>1, <2>3 DEF ActiveSuperusers
  <2>. QED
    BY <2>2, <2>3
<1>. QED
  BY <1>3, <1>4 DEF CommitPatch

\* A step in which a patch that decided or counted comes to its end.
LEMMA PatchStep ==
  ASSUME FloorTypeOK, [Next]_vars, NEW r \in Requests, ActiveSuperusers # {},
         tx[r].pc \in {"decide", "count"}, tx'[r].pc = "idle",
         Covers(tx[r].snap, user[tx[r].target])
  PROVE  ActiveSuperusers' # {}
<1>1. CASE user' = user
  BY <1>1 DEF ActiveSuperusers
<1>2. ASSUME NEW q \in Requests, Step(q), user' # user
      PROVE  ActiveSuperusers' # {}
  <2>1. CommitPatch(q) \/ CommitDelete(q)
    BY <1>2 DEF Step, Send, SendDelete, LoadTarget, TargetNotFound, BeginCount,
                RefusePatch, RefuseDelete, Refuse, Goto
  <2>2. q = r
    BY <2>1 DEF CommitPatch, CommitDelete, FloorTypeOK, TypeOK
  <2>3. CommitPatch(r)
    BY <2>1, <2>2 DEF CommitDelete
  <2>. QED
    BY <2>3, CoveredPatch
<1>. QED
  BY <1>1, <1>2 DEF Next, vars

\* Whatever patches and deletions run concurrently, a patch takes the last
\* active superuser away only if it was decided on a copy older than a
\* promotion or reactivation of its target.
THEOREM PatchesSpareTheFloor == Spec => PatchKeepsFloor
<1>1. Init => FloorTypeOK
  BY InitInv DEF FloorInv
<1>2. FloorTypeOK /\ [Next]_vars => FloorTypeOK'
  BY FloorTypeStep
<1>3. FloorTypeOK /\ [Next]_vars =>
        [\A r \in Requests :
           /\ ActiveSuperusers # {}
           /\ tx[r].pc \in {"decide", "count"} /\ tx'[r].pc = "idle"
           /\ Covers(tx[r].snap, user[tx[r].target])
           => ActiveSuperusers' # {}]_vars
  BY PatchStep
<1>. QED
  BY <1>1, <1>2, <1>3, PTL DEF Spec, PatchKeepsFloor

\* Types and program points hold throughout.
THEOREM FloorTypesHold == Spec => []FloorTypeOK
<1>1. Init => FloorTypeOK
  BY InitInv DEF FloorInv
<1>. QED
  BY <1>1, FloorTypeStep, PTL DEF Spec
=============================================================================
