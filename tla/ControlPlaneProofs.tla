-------------------------- MODULE ControlPlaneProofs --------------------------
(***************************************************************************)
(* Theorems about the parts of MCControlPlane, for every value of its      *)
(* constants. A step of the sum is a step of one part, and leaves the      *)
(* variables of the others alone.                                          *)
(***************************************************************************)
EXTENDS MCControlPlane, Sequences, FiniteSetTheorems, WellFoundedInduction, TLAPS

\* The part of tenant isolation moves as TenantIsolation says, or not at all.
LEMMA IsolationMoves == Spec => Isolation!Spec
<1>1. Init => Isolation!Init
  BY DEF Init
<1>2. [Next]_vars => [Isolation!Next]_Isolation!vars
  BY DEF Next, KeyStep, CredentialStep, IsolationStep, PolicyStep, BundleStep, DocumentStep,
         ChainStep, vars, isolationVars, Isolation!vars
<1> QED BY <1>1, <1>2, PTL DEF Spec, Isolation!Spec

\* Where security is forced, no statement reaches rows of another tenant than its thread's,
\* for any number of requests, connections and tenants (database/__init__.py 24-57).
THEOREM SeparationHolds == Spec => []TenantsAreApart
<1>1. Isolation!Spec => []Isolation!TenantsAreApart
  BY PartsAssumption, Isolation!TenantsAreApartHolds DEF PartsAssumption
<1>2. Isolation!TenantsAreApart <=> TenantsAreApart
  BY DEF TenantsAreApart
<1> QED BY <1>1, <1>2, IsolationMoves, PTL

(***************************************************************************)
(* Policy bundles.                                                         *)
(***************************************************************************)

BundleMaps == [Pair -> Bundles!Numbers \union {None}]
ThreadRecord == [pc : {"new", "read", "empty", "fill", "done"}, tenant : Pair \union {None},
                 bundle : Bundles!Numbers \union {None}, map : BundleMaps]

\* One promotion at a time, from reading the active file on, takes what was promoted before.
BundleInv ==
    /\ bundles \subseteq Bundles!Manifest /\ IsFiniteSet(bundles)
    /\ thread \in [Calls -> ThreadRecord] /\ promoted \in BundleMaps /\ disturbed \in BOOLEAN
    /\ active \subseteq BundleMaps
    /\ ~disturbed =>
          /\ \A c, d \in Calls : Bundles!Promoting(c) /\ Bundles!Promoting(d) => c = d
          /\ \A c \in Calls : thread[c].pc \in {"empty", "fill"} => thread[c].map = promoted
          /\ Bundles!PromotionsStand

LEMMA OneMap == \A m : (CHOOSE x \in {m} : TRUE) = m
OBVIOUS

LEMMA BundleStepKeepsInv ==
    ASSUME BundleInv, [Bundles!Next]_Bundles!vars
    PROVE  BundleInv'
<1> USE DEF Bundles!At, Bundles!Promoting
<1>0. Bundles!NoneActive \in BundleMaps /\ Bundles!ActiveMap \in BundleMaps
  <2>1. Bundles!NoneActive \in BundleMaps
    BY DEF Bundles!NoneActive, BundleMaps
  <2>2. active # {} => (CHOOSE m \in active : TRUE) \in active
    OBVIOUS
  <2> QED BY <2>1, <2>2 DEF Bundles!ActiveMap, BundleInv
<1>1. CASE UNCHANGED Bundles!vars
  BY <1>1 DEF Bundles!vars, BundleInv, Bundles!PromotionsStand, Bundles!ActiveMap
<1>2. ASSUME NEW t \in Pair, Bundles!Build(t) PROVE BundleInv'
  <2> DEFINE n == 1 + Cardinality(bundles)
             b == [id |-> n, tenant |-> t, status |-> "built"]
  <2>1. n \in Nat /\ n >= 1
    BY FS_CardinalityType DEF BundleInv
  <2>0. n <= MaxBundles /\ bundles' = bundles \union {b} /\ UNCHANGED <<active, thread, promoted, disturbed>>
    BY <1>2 DEF Bundles!Build, Bundles!Cardinality, Cardinality
  <2>2. n \in Bundles!Numbers
    BY <2>0, <2>1 DEF Bundles!Numbers
  <2>3. bundles' \subseteq Bundles!Manifest /\ IsFiniteSet(bundles')
    <3>1. b \in Bundles!Manifest
      BY <2>2 DEF Bundles!Manifest
    <3> HIDE DEF b
    <3> QED BY <2>0, <3>1, FS_AddElement DEF BundleInv
  <2> HIDE DEF b
  <2> QED BY <2>0, <2>3 DEF BundleInv, Bundles!PromotionsStand, Bundles!ActiveMap
<1>3. ASSUME NEW c \in Calls, NEW t \in Pair, NEW b \in bundles, Bundles!Promote(c, t, b)
      PROVE  BundleInv'
  <2>0. b \in Bundles!Manifest /\ b.id \in Bundles!Numbers
    BY DEF BundleInv, Bundles!Manifest
  <2>1. PICK k : k = [Bundles!Idle EXCEPT !.pc = "read", !.tenant = t, !.bundle = b.id]
    OBVIOUS
  <2>2. k \in ThreadRecord /\ k.pc = "read"
    BY <1>0, <2>0, <2>1 DEF Bundles!Idle, ThreadRecord
  <2>3. /\ thread' = [thread EXCEPT ![c] = k] /\ thread[c].pc = "new"
        /\ disturbed' = (disturbed \/ \E d \in Calls : Bundles!Promoting(d))
        /\ UNCHANGED <<active, promoted>>
        /\ bundles' = (bundles \ {b}) \union {[b EXCEPT !.status = "active"]}
    BY <1>3, <2>1 DEF Bundles!Promote
  <2>4. /\ thread'[c] = k /\ \A d \in Calls : d # c => thread'[d] = thread[d]
        /\ thread' \in [Calls -> ThreadRecord]
    BY <2>2, <2>3 DEF BundleInv
  <2>5. Bundles!ActiveMap' = Bundles!ActiveMap
    BY <2>3 DEF Bundles!ActiveMap
  <2>6. bundles' \subseteq Bundles!Manifest /\ IsFiniteSet(bundles')
    <3>1. [b EXCEPT !.status = "active"] \in Bundles!Manifest
      BY <2>0 DEF Bundles!Manifest
    <3>2. IsFiniteSet(bundles \ {b})
      BY FS_RemoveElement DEF BundleInv
    <3> QED BY <2>3, <3>1, <3>2, FS_AddElement DEF BundleInv
  <2> QED BY <2>2, <2>3, <2>4, <2>5, <2>6 DEF BundleInv, Bundles!PromotionsStand
<1>4. ASSUME NEW c \in Calls, Bundles!ReadActive(c) PROVE BundleInv'
  <2>1. PICK k : k = [thread[c] EXCEPT !.pc = "empty", !.map = Bundles!ActiveMap]
    OBVIOUS
  <2>2. k \in ThreadRecord /\ k.pc = "empty" /\ k.map = Bundles!ActiveMap
    BY <1>0, <2>1 DEF BundleInv, ThreadRecord
  <2>3. /\ thread' = [thread EXCEPT ![c] = k] /\ thread[c].pc = "read"
        /\ UNCHANGED <<bundles, active, promoted, disturbed>>
    BY <1>4, <2>1 DEF Bundles!ReadActive, BundleInv
  <2>4. /\ thread'[c] = k /\ \A d \in Calls : d # c => thread'[d] = thread[d]
        /\ thread' \in [Calls -> ThreadRecord]
    BY <2>2, <2>3 DEF BundleInv
  <2>5. Bundles!ActiveMap' = Bundles!ActiveMap
    BY <2>3 DEF Bundles!ActiveMap
  <2>6. ~disturbed => Bundles!ActiveMap = promoted
    BY <2>3 DEF BundleInv, Bundles!PromotionsStand
  <2> QED BY <2>2, <2>3, <2>4, <2>5, <2>6 DEF BundleInv, Bundles!PromotionsStand
<1>5. ASSUME NEW c \in Calls, Bundles!Empty(c) PROVE BundleInv'
  <2>1. PICK k : k = [thread[c] EXCEPT !.pc = "fill"]
    OBVIOUS
  <2>2. k \in ThreadRecord /\ k.pc = "fill" /\ k.map = thread[c].map
    BY <2>1 DEF BundleInv, ThreadRecord
  <2>3. /\ thread' = [thread EXCEPT ![c] = k] /\ thread[c].pc = "empty" /\ active' = {}
        /\ UNCHANGED <<bundles, promoted, disturbed>>
    BY <1>5, <2>1 DEF Bundles!Empty, Bundles!Goto, BundleInv
  <2>4. /\ thread'[c] = k /\ \A d \in Calls : d # c => thread'[d] = thread[d]
        /\ thread' \in [Calls -> ThreadRecord]
    BY <2>2, <2>3 DEF BundleInv
  <2> QED BY <2>2, <2>3, <2>4 DEF BundleInv, Bundles!PromotionsStand
<1>6. ASSUME NEW c \in Calls, Bundles!Fill(c) PROVE BundleInv'
  <2>1. PICK k, t, m : /\ k = [Bundles!Idle EXCEPT !.pc = "done"] /\ t = thread[c].tenant
                       /\ m = [thread[c].map EXCEPT ![t] = thread[c].bundle]
    OBVIOUS
  <2>2. k \in ThreadRecord /\ k.pc = "done"
    BY <1>0, <2>1 DEF Bundles!Idle, ThreadRecord
  <2>3. /\ thread' = [thread EXCEPT ![c] = k] /\ thread[c].pc = "fill" /\ active' = {m}
        /\ promoted' = [promoted EXCEPT ![t] = thread[c].bundle] /\ UNCHANGED <<bundles, disturbed>>
    BY <1>6, <2>1 DEF Bundles!Fill
  <2>4. /\ thread'[c] = k /\ \A d \in Calls : d # c => thread'[d] = thread[d]
        /\ thread' \in [Calls -> ThreadRecord] /\ thread[c] \in ThreadRecord
    BY <2>2, <2>3 DEF BundleInv
  <2>5. m \in BundleMaps /\ promoted' \in BundleMaps
    BY <2>1, <2>3, <2>4 DEF BundleInv, BundleMaps, ThreadRecord
  <2>6. Bundles!ActiveMap' = m
    BY <2>3, OneMap DEF Bundles!ActiveMap
  <2>7. ~disturbed => promoted' = m
    BY <2>1, <2>3 DEF BundleInv
  <2>8. ~disturbed => \A d \in Calls : thread'[d].pc \in {"new", "done"}
    BY <2>2, <2>3, <2>4 DEF BundleInv
  <2> QED BY <2>3, <2>4, <2>5, <2>6, <2>7, <2>8 DEF BundleInv, Bundles!PromotionsStand
<1>7. ASSUME NEW c \in Calls, Bundles!Die(c) PROVE BundleInv'
  <2>1. PICK k : k = [Bundles!Idle EXCEPT !.pc = "done"]
    OBVIOUS
  <2>2. k \in ThreadRecord
    BY <1>0, <2>1 DEF Bundles!Idle, ThreadRecord
  <2> QED BY <1>7, <2>1, <2>2 DEF Bundles!Die, BundleInv
<1>8. ASSUME NEW c \in Calls, NEW t \in Pair, Bundles!PromoteOne(c, t) PROVE BundleInv'
  BY <1>3, <1>8 DEF Bundles!PromoteOne, Bundles!OfTenant
<1>9. ASSUME NEW c \in Calls, NEW t \in Pair, Bundles!Rollback(c, t) PROVE BundleInv'
  BY <1>3, <1>9 DEF Bundles!Rollback, Bundles!OfTenant
<1> QED BY <1>1, <1>2, <1>4, <1>5, <1>6, <1>7, <1>8, <1>9 DEF Bundles!Next

LEMMA BundlesMove == Spec => Bundles!Spec
<1>1. Init => Bundles!Init
  BY DEF Init
<1>2. [Next]_vars => [Bundles!Next]_Bundles!vars
  BY DEF Next, KeyStep, CredentialStep, IsolationStep, PolicyStep, BundleStep, DocumentStep, ChainStep,
         vars, bundleVars, Bundles!vars
<1> QED BY <1>1, <1>2, PTL DEF Spec, Bundles!Spec

LEMMA BundleInvHolds == Spec => []BundleInv
<1>1. Bundles!Init => BundleInv
  <2> SUFFICES ASSUME Bundles!Init PROVE BundleInv
    OBVIOUS
  <2>1. Bundles!NoneActive \in BundleMaps
    BY DEF Bundles!NoneActive, BundleMaps
  <2>2. Bundles!Idle \in ThreadRecord /\ Bundles!Idle.pc = "new"
    BY <2>1 DEF Bundles!Idle, ThreadRecord
  <2>3. Bundles!ActiveMap = promoted
    BY OneMap DEF Bundles!Init, Bundles!ActiveMap
  <2>4. IsFiniteSet(bundles)
    BY FS_EmptySet DEF Bundles!Init
  <2> QED BY <2>1, <2>2, <2>3, <2>4 DEF Bundles!Init, BundleInv, Bundles!PromotionsStand, Bundles!Promoting
<1>2. BundleInv /\ [Bundles!Next]_Bundles!vars => BundleInv'
  BY BundleStepKeepsInv
<1> QED BY <1>1, <1>2, BundlesMove, PTL DEF Bundles!Spec

\* The active file names the bundle each tenant promoted last, unless promotions ran at the same
\* time or one died, or one is about to fill the file (policy_bundle_manager.py 100-126, 193-199).
THEOREM PromotionsHold == Spec => []PromotionsStand
<1>1. ~disturbed /\ BundleInv => PromotionsStand
  BY DEF BundleInv, PromotionsStand
<1>2. disturbed => PromotionsStand
  BY DEF PromotionsStand, Bundles!PromotionsStand
<1> QED BY <1>1, <1>2, BundleInvHolds, PTL

(***************************************************************************)
(* API keys.                                                               *)
(***************************************************************************)

KeyCall == [pc : {"new", "replace", "count", "handle", "bypass", "done"}, worker : Pair \union {None},
            key : Calls \union {Original, None}]

\* A key that a call made is there only when the call is done, and so is one it has replaced or is
\* about to; a rotation that is under way ran beside those that have replaced its key before.
KeyInv ==
    /\ keys \subseteq Keys!KeyRow /\ call \in [Calls -> KeyCall]
    /\ \A k, l \in keys : k.id = l.id => k = l
    /\ \A k \in keys : /\ k.id \in Calls => call[k.id].pc = "done"
                       /\ k.of \in Calls => call[k.of].pc = "done"
    /\ \A c \in Calls : /\ call[c].pc = "replace" => call[c].key # None
                        /\ call[c].key \in Calls => call[call[c].key].pc = "done"
    /\ \A c, d \in Calls : c # d /\ c \in Keys!Rotating /\ d \in Keys!Rotating => {c, d} \in beside
    /\ \A c \in Calls, k \in keys :
          call[c].pc = "replace" /\ k.of = call[c].key => {k.id, c} \in beside
    /\ Keys!OneSuccessor

\* Keys stay as they are, or are revoked or expire; the call and what it replaces may change.
LEMMA KeysKeepInv ==
    ASSUME KeyInv, NEW c \in Calls, NEW r \in KeyCall, call' = [call EXCEPT ![c] = r],
           call[c].pc # "done", beside \subseteq beside',
           r.pc = "replace" =>
              \A d \in Calls : d # c /\ d \in Keys!Rotating => {c, d} \in beside',
           r.pc = "replace" => r.key # None /\ \A k \in keys : k.of # r.key,
           r.key \in Calls => r.key # c /\ call[r.key].pc = "done",
           keys' \subseteq Keys!KeyRow,
           \A k \in keys' : \E l \in keys : k.id = l.id /\ k.of = l.of /\ (l.revoked => k.revoked),
           \A k, l \in keys' : k.id = l.id => k = l
    PROVE  KeyInv'
<1>1. /\ call'[c] = r /\ \A d \in Calls : d # c => call'[d] = call[d]
      /\ call' \in [Calls -> KeyCall]
  BY DEF KeyInv
<1>2. \A k \in keys' : /\ k.id \in Calls => call'[k.id].pc = "done"
                       /\ k.of \in Calls => call'[k.of].pc = "done"
  BY <1>1 DEF KeyInv
<1>3. \A d \in Calls : /\ call'[d].pc = "replace" => call'[d].key # None
                       /\ call'[d].key \in Calls => call'[call'[d].key].pc = "done"
  <2> SUFFICES ASSUME NEW d \in Calls
               PROVE  /\ call'[d].pc = "replace" => call'[d].key # None
                      /\ call'[d].key \in Calls => call'[call'[d].key].pc = "done"
    OBVIOUS
  <2>1. CASE d = c
    BY <1>1, <2>1
  <2>2. CASE d # c
    BY <1>1, <2>2 DEF KeyInv
  <2> QED BY <2>1, <2>2
<1>4. \A a, b \in Calls : a # b /\ a \in Keys!Rotating' /\ b \in Keys!Rotating' => {a, b} \in beside'
  <2> SUFFICES ASSUME NEW a \in Calls, NEW b \in Calls, a # b,
                      call'[a].pc = "replace", call'[b].pc = "replace"
               PROVE  {a, b} \in beside'
    BY DEF Keys!Rotating, Keys!At
  <2>1. CASE a # c /\ b # c
    BY <1>1, <2>1 DEF KeyInv, Keys!Rotating, Keys!At
  <2>2. CASE a = c
    <3>1. b \in Keys!Rotating
      BY <1>1, <2>2 DEF Keys!Rotating, Keys!At
    <3> QED BY <1>1, <2>2, <3>1
  <2>3. CASE b = c
    <3>1. a \in Keys!Rotating /\ {a, b} = {b, a}
      BY <1>1, <2>3 DEF Keys!Rotating, Keys!At
    <3> QED BY <1>1, <2>3, <3>1
  <2> QED BY <2>1, <2>2, <2>3
<1>5. \A d \in Calls, k \in keys' :
         call'[d].pc = "replace" /\ k.of = call'[d].key => {k.id, d} \in beside'
  <2> SUFFICES ASSUME NEW d \in Calls, NEW k \in keys', call'[d].pc = "replace", k.of = call'[d].key
               PROVE  {k.id, d} \in beside'
    OBVIOUS
  <2>1. PICK l \in keys : k.id = l.id /\ k.of = l.of
    OBVIOUS
  <2>2. d # c
    BY <1>1, <2>1
  <2>3. {l.id, d} \in beside
    BY <1>1, <2>1, <2>2 DEF KeyInv
  <2> QED BY <2>1, <2>3
<1>6. Keys!OneSuccessor'
  <2> SUFFICES ASSUME NEW k \in keys', k.of # None
               PROVE  /\ \A l \in keys' : l.of = k.of /\ l # k => {k.id, l.id} \in beside'
                      /\ \A l \in keys' : l.id = k.of => l.revoked
    BY DEF Keys!OneSuccessor
  <2>1. PICK p \in keys : k.id = p.id /\ k.of = p.of
    OBVIOUS
  <2>2. ASSUME NEW l \in keys', l.of = k.of, l # k PROVE {k.id, l.id} \in beside'
    <3>1. PICK q \in keys : l.id = q.id /\ l.of = q.of
      BY <2>2
    <3>2. q # p
      BY <2>1, <2>2, <3>1
    <3> QED BY <2>1, <2>2, <3>1, <3>2 DEF KeyInv, Keys!OneSuccessor
  <2>3. ASSUME NEW l \in keys', l.id = k.of PROVE l.revoked
    <3>1. PICK q \in keys : l.id = q.id /\ (q.revoked => l.revoked)
      BY <2>3
    <3> QED BY <2>1, <2>3, <3>1 DEF KeyInv, Keys!OneSuccessor
  <2> QED BY <2>2, <2>3
<1> QED BY <1>1, <1>2, <1>3, <1>4, <1>5, <1>6 DEF KeyInv

\* A call adds a key, of none or of the one it has replaced.
LEMMA AddKeyKeepsInv ==
    ASSUME PartsAssumption, KeyInv, NEW c \in Calls, call[c].pc # "done",
           NEW n \in Keys!KeyRow, n.id = c,
           n.of # None => call[c].pc = "replace" /\ n.of = call[c].key,
           n \in keys', keys' \subseteq Keys!KeyRow,
           \A k \in keys' \ {n} :
              /\ \E l \in keys : k.id = l.id /\ k.of = l.of /\ (l.revoked => k.revoked)
              /\ \A l \in keys' \ {n} : k.id = l.id => k = l
              /\ n.of # None /\ k.id = n.of => k.revoked,
           NEW r \in KeyCall, r.pc = "done", call' = [call EXCEPT ![c] = r],
           r.key \in Calls => r.key # c /\ call[r.key].pc = "done",
           beside \subseteq beside'
    PROVE  KeyInv'
<1>0. None \notin Calls /\ Original \notin Calls
  BY DEF PartsAssumption, Keys!NoneAssumption
<1> PICK o : o = n.of
  OBVIOUS
<1> PICK base : base = keys' \ {n}
  OBVIOUS
<1> keys' = base \union {n}
  OBVIOUS
<1>1. /\ call'[c] = r /\ \A d \in Calls : d # c => call'[d] = call[d]
      /\ call' \in [Calls -> KeyCall]
  BY DEF KeyInv
<1>2. \A k \in base : k.id # c /\ k.of # c
  BY DEF KeyInv
<1>3. o # c
  BY <1>0 DEF KeyInv
<1>4. /\ keys' \subseteq Keys!KeyRow /\ \A k, l \in keys' : k.id = l.id => k = l
  BY <1>2
<1>5. \A k \in keys' : /\ k.id \in Calls => call'[k.id].pc = "done"
                       /\ k.of \in Calls => call'[k.of].pc = "done"
  <2>1. o \in Calls => call[o].pc = "done"
    BY <1>0 DEF KeyInv
  <2>2. \A k \in base : /\ k.id \in Calls => call'[k.id].pc = "done"
                        /\ k.of \in Calls => call'[k.of].pc = "done"
    BY <1>1, <1>2 DEF KeyInv
  <2> QED BY <1>1, <1>3, <2>1, <2>2
<1>6. \A d \in Calls : /\ call'[d].pc = "replace" => call'[d].key # None
                       /\ call'[d].key \in Calls => call'[call'[d].key].pc = "done"
  <2> SUFFICES ASSUME NEW d \in Calls
               PROVE  /\ call'[d].pc = "replace" => call'[d].key # None
                      /\ call'[d].key \in Calls => call'[call'[d].key].pc = "done"
    OBVIOUS
  <2>1. CASE d = c
    BY <1>1, <2>1
  <2>2. CASE d # c
    BY <1>1, <2>2 DEF KeyInv
  <2> QED BY <2>1, <2>2
<1>7. \A a, b \in Calls : a # b /\ a \in Keys!Rotating' /\ b \in Keys!Rotating' => {a, b} \in beside'
  BY <1>1 DEF KeyInv, Keys!Rotating, Keys!At
<1>8. \A d \in Calls, k \in keys' :
         call'[d].pc = "replace" /\ k.of = call'[d].key => {k.id, d} \in beside'
  <2> SUFFICES ASSUME NEW d \in Calls, NEW k \in keys', call'[d].pc = "replace", k.of = call'[d].key
               PROVE  {k.id, d} \in beside'
    OBVIOUS
  <2>1. d # c /\ call[d].pc = "replace" /\ k.of = call[d].key
    BY <1>1
  <2>2. CASE k = n
    <3>1. o # None
      BY <1>1, <2>1, <2>2 DEF KeyInv
    <3>2. c \in Keys!Rotating /\ d \in Keys!Rotating
      BY <2>1, <3>1 DEF Keys!Rotating, Keys!At
    <3> QED BY <2>1, <2>2, <3>2 DEF KeyInv
  <2>3. CASE k \in base
    <3>1. PICK l \in keys : k.id = l.id /\ k.of = l.of
      BY <2>3
    <3> QED BY <2>1, <3>1 DEF KeyInv
  <2> QED BY <2>2, <2>3
<1>9. Keys!OneSuccessor'
  <2> SUFFICES ASSUME NEW k \in keys', k.of # None
               PROVE  /\ \A l \in keys' : l.of = k.of /\ l # k => {k.id, l.id} \in beside'
                      /\ \A l \in keys' : l.id = k.of => l.revoked
    BY DEF Keys!OneSuccessor
  <2>1. \A l \in base : o # None /\ l.of = o => {l.id, c} \in beside'
    BY DEF KeyInv
  <2>2. CASE k = n
    <3>1. \A l \in keys' : l.of = k.of /\ l # k => {k.id, l.id} \in beside'
      <4> SUFFICES ASSUME NEW l \in keys', l.of = k.of, l # k PROVE {k.id, l.id} \in beside'
        OBVIOUS
      <4>1. {l.id, c} \in beside' /\ {l.id, c} = {c, l.id}
        BY <2>1, <2>2
      <4> QED BY <2>2, <4>1
    <3>2. \A l \in keys' : l.id = k.of => l.revoked
      BY <1>3, <2>2
    <3> QED BY <3>1, <3>2
  <2>3. CASE k \in base
    <3>1. PICK p \in keys : k.id = p.id /\ k.of = p.of
      BY <2>3
    <3>2. ASSUME NEW l \in keys', l.of = k.of, l # k PROVE {k.id, l.id} \in beside'
      <4>1. CASE l = n
        BY <2>1, <2>3, <3>2, <4>1
      <4>2. CASE l \in base
        <5>1. PICK q \in keys : l.id = q.id /\ l.of = q.of
          BY <4>2
        <5>2. q # p
          BY <2>3, <3>1, <3>2, <4>2, <5>1
        <5> QED BY <3>1, <3>2, <5>1, <5>2 DEF KeyInv, Keys!OneSuccessor
      <4> QED BY <4>1, <4>2
    <3>3. ASSUME NEW l \in keys', l.id = k.of PROVE l.revoked
      <4>1. l \in base
        BY <1>2, <2>3, <3>3
      <4>2. PICK q \in keys : l.id = q.id /\ (q.revoked => l.revoked)
        BY <4>1
      <4> QED BY <3>1, <3>3, <4>2 DEF KeyInv, Keys!OneSuccessor
    <3> QED BY <3>2, <3>3
  <2> QED BY <2>2, <2>3
<1> QED BY <1>1, <1>4, <1>5, <1>6, <1>7, <1>8, <1>9 DEF KeyInv

\* Revoking or expiring keys changes nothing else of them.
LEMMA RevokeFacts ==
    ASSUME KeyInv, NEW o
    PROVE  LET base == Keys!Revoke(o)
           IN /\ base \subseteq Keys!KeyRow
              /\ \A k \in base : \E l \in keys : k.id = l.id /\ k.of = l.of /\ (l.revoked => k.revoked)
              /\ \A k, l \in base : k.id = l.id => k = l
              /\ \A k \in base : k.id = o => k.revoked
<1>1. ASSUME NEW l \in keys
      PROVE  LET k == IF l.id = o THEN [l EXCEPT !.revoked = TRUE] ELSE l
             IN /\ k \in Keys!KeyRow /\ k.id = l.id /\ k.of = l.of /\ (l.revoked => k.revoked)
                /\ (k.id = o => k.revoked)
  <2>1. l \in Keys!KeyRow
    BY DEF KeyInv
  <2> QED BY <2>1 DEF Keys!KeyRow
<1>2. \A k \in Keys!Revoke(o) :
         \E l \in keys : /\ k = IF l.id = o THEN [l EXCEPT !.revoked = TRUE] ELSE l
                         /\ k \in Keys!KeyRow /\ k.id = l.id /\ k.of = l.of /\ (l.revoked => k.revoked)
                         /\ (k.id = o => k.revoked)
  BY <1>1 DEF Keys!Revoke
<1>3. ASSUME NEW k \in Keys!Revoke(o), NEW l \in Keys!Revoke(o), k.id = l.id PROVE k = l
  <2>1. PICK p \in keys : k = (IF p.id = o THEN [p EXCEPT !.revoked = TRUE] ELSE p) /\ k.id = p.id
    BY <1>2
  <2>2. PICK q \in keys : l = (IF q.id = o THEN [q EXCEPT !.revoked = TRUE] ELSE q) /\ l.id = q.id
    BY <1>2
  <2>3. p = q
    BY <1>3, <2>1, <2>2 DEF KeyInv
  <2> QED BY <2>1, <2>2, <2>3
<1> QED BY <1>2, <1>3

LEMMA KeyStepKeepsInv ==
    ASSUME PartsAssumption, KeyInv, [Keys!Next]_Keys!vars
    PROVE  KeyInv'
<1> USE DEF Keys!At
<1>0. /\ None \notin Calls /\ Original \notin Calls /\ None # Original
      /\ call \in [Calls -> KeyCall] /\ keys \subseteq Keys!KeyRow
      /\ \A k \in keys : k.id \in Calls \union {Original} /\ k.revoked \in BOOLEAN
      /\ \A k \in keys : k.id \in Calls => call[k.id].pc = "done"
  BY DEF PartsAssumption, Keys!NoneAssumption, KeyInv, Keys!KeyRow
<1>1. CASE UNCHANGED Keys!vars
  BY <1>1 DEF Keys!vars, KeyInv, Keys!Rotating, Keys!OneSuccessor
<1>2. ASSUME NEW c \in Calls, NEW r, Keys!Begin(c, r)
      PROVE  call' = [call EXCEPT ![c] = r] /\ call[c].pc = "new"
  BY <1>2 DEF Keys!Begin
<1>3. ASSUME NEW c \in Calls, Keys!Generate(c) PROVE KeyInv'
  <2>1. PICK r, n : /\ r = [Keys!Idle EXCEPT !.pc = "done"]
                    /\ n = [id |-> c, of |-> None, revoked |-> FALSE, expired |-> FALSE]
    OBVIOUS
  <2>2. /\ r \in KeyCall /\ r.pc = "done" /\ r.key = None
        /\ n \in Keys!KeyRow /\ n.id = c /\ n.of = None
    BY <2>1 DEF Keys!Idle, KeyCall, Keys!KeyRow
  <2>3. Keys!Begin(c, r) /\ keys' = keys \union {n} /\ beside' = beside
    BY <1>3, <2>1 DEF Keys!Generate
  <2>4. call' = [call EXCEPT ![c] = r] /\ call[c].pc = "new" /\ beside \subseteq beside'
    BY <1>2, <2>3
  <2>5. \A k, l \in keys : k.id = l.id => k = l
    BY DEF KeyInv
  <2>6. /\ r.key \in Calls => r.key # c /\ call[r.key].pc = "done"
        /\ n.of # None => call[c].pc = "replace" /\ n.of = call[c].key
        /\ call[c].pc # "done"
    BY <1>0, <2>2, <2>4
  <2>7. /\ n \in keys' /\ keys' \subseteq Keys!KeyRow
        /\ \A k \in keys' \ {n} :
              /\ \E l \in keys : k.id = l.id /\ k.of = l.of /\ (l.revoked => k.revoked)
              /\ \A l \in keys' \ {n} : k.id = l.id => k = l
              /\ n.of # None /\ k.id = n.of => k.revoked
    BY <1>0, <2>2, <2>3, <2>5
  <2> HIDE DEF Keys!At
  <2> QED BY <2>2, <2>4, <2>6, <2>7, AddKeyKeepsInv
<1>4. ASSUME NEW c \in Calls, Keys!RevokeKey(c) PROVE KeyInv'
  <2>1. PICK r : r = [Keys!Idle EXCEPT !.pc = "done"]
    OBVIOUS
  <2>2. r \in KeyCall /\ r.pc = "done" /\ r.key = None
    BY <2>1 DEF Keys!Idle, KeyCall
  <2>3. PICK k \in keys : Keys!Begin(c, r) /\ keys' = Keys!Revoke(k.id) /\ beside' = beside
    BY <1>4, <2>1 DEF Keys!RevokeKey
  <2>4. call' = [call EXCEPT ![c] = r] /\ call[c].pc = "new" /\ beside \subseteq beside'
    BY <1>2, <2>3
  <2> QED BY <1>0, <2>2, <2>3, <2>4, RevokeFacts, KeysKeepInv
<1>5. ASSUME NEW c \in Calls, Keys!Rotate(c) PROVE KeyInv'
  <2>1. PICK k \in keys : /\ ~k.revoked
                          /\ Keys!Begin(c, [Keys!Idle EXCEPT !.pc = "replace", !.key = k.id])
                          /\ beside' = beside \union {{c, d} : d \in Keys!Rotating}
                          /\ UNCHANGED <<Keys!limiter, keys>>
    BY <1>5, Zenon DEF Keys!Rotate
  <2>2. PICK r : r = [Keys!Idle EXCEPT !.pc = "replace", !.key = k.id]
    OBVIOUS
  <2>3. r \in KeyCall /\ r.pc = "replace" /\ r.key = k.id
    BY <1>0, <2>2 DEF Keys!Idle, KeyCall
  <2>4. /\ call' = [call EXCEPT ![c] = r] /\ call[c].pc = "new" /\ beside \subseteq beside'
        /\ \A d \in Calls : d # c /\ d \in Keys!Rotating => {c, d} \in beside'
    BY <1>2, <2>1, <2>2
  <2>5. k.id # None /\ \A l \in keys : l.of # k.id
    BY <1>0, <2>1 DEF KeyInv, Keys!OneSuccessor
  <2>6. k.id \in Calls => k.id # c /\ call[k.id].pc = "done"
    BY <1>0, <2>4
  <2>7. /\ \A l \in keys' : \E m \in keys : l.id = m.id /\ l.of = m.of /\ (m.revoked => l.revoked)
        /\ \A l, m \in keys' : l.id = m.id => l = m
    BY <2>1 DEF KeyInv
  <2>8. /\ r.key # None /\ \A l \in keys : l.of # r.key
        /\ r.key \in Calls => r.key # c /\ call[r.key].pc = "done"
        /\ keys' \subseteq Keys!KeyRow /\ r.pc # "done" /\ call[c].pc # "done"
    BY <1>0, <2>1, <2>3, <2>4, <2>5, <2>6
  <2> HIDE DEF Keys!At
  <2> QED BY <2>3, <2>4, <2>7, <2>8, KeysKeepInv
<1>6. ASSUME NEW c \in Calls, Keys!Replace(c) PROVE KeyInv'
  <2>1. PICK o, r, n : /\ o = call[c].key /\ r = [call[c] EXCEPT !.pc = "done"]
                       /\ n = [id |-> c, of |-> call[c].key, revoked |-> FALSE, expired |-> FALSE]
    OBVIOUS
  <2>2. /\ call[c].pc = "replace" /\ call[c] \in KeyCall /\ o # None
        /\ o \in Calls => o # c /\ call[o].pc = "done"
    BY <1>0, <1>6, <2>1 DEF Keys!Replace, KeyInv
  <2>3. /\ r \in KeyCall /\ r.pc = "done" /\ r.key = o /\ o \in Calls \union {Original, None}
        /\ n \in Keys!KeyRow /\ n.id = c /\ n.of = o
    BY <2>1, <2>2 DEF KeyCall, Keys!KeyRow
  <2>4. /\ call' = [call EXCEPT ![c] = r] /\ keys' = Keys!Revoke(o) \union {n} /\ beside' = beside
    BY <1>0, <1>6, <2>1 DEF Keys!Replace, Keys!Goto
  <2>5. PICK base : base = Keys!Revoke(o)
    OBVIOUS
  <2>6. /\ base \subseteq Keys!KeyRow
        /\ \A k \in base : \E l \in keys : k.id = l.id /\ k.of = l.of /\ (l.revoked => k.revoked)
        /\ \A k, l \in base : k.id = l.id => k = l
        /\ \A k \in base : k.id = o => k.revoked
    BY <2>5, RevokeFacts
  <2>7. /\ o = call[c].key /\ keys' = base \union {n} /\ beside \subseteq beside'
        /\ r.key \in Calls => r.key # c /\ call[r.key].pc = "done"
        /\ call[c].pc # "done" /\ o \in Calls \union {Original, None}
    BY <2>1, <2>2, <2>3, <2>4, <2>5
  <2>8. /\ n \in keys' /\ keys' \subseteq Keys!KeyRow
        /\ \A k \in keys' \ {n} :
              /\ \E l \in keys : k.id = l.id /\ k.of = l.of /\ (l.revoked => k.revoked)
              /\ \A l \in keys' \ {n} : k.id = l.id => k = l
              /\ n.of # None /\ k.id = n.of => k.revoked
        /\ n.of # None => call[c].pc = "replace" /\ n.of = call[c].key
    BY <2>2, <2>3, <2>6, <2>7
  <2> HIDE DEF Keys!At
  <2> QED BY <2>2, <2>3, <2>4, <2>7, <2>8, AddKeyKeepsInv
<1>7. CASE Keys!Expire
  <2>1. PICK k \in keys : /\ keys' = (keys \ {k}) \union {[k EXCEPT !.expired = TRUE]}
                          /\ UNCHANGED <<call, beside>>
    BY <1>7 DEF Keys!Expire
  <2>2. PICK n : n = [k EXCEPT !.expired = TRUE]
    OBVIOUS
  <2>3. n \in Keys!KeyRow /\ n.id = k.id /\ n.of = k.of /\ n.revoked = k.revoked
    BY <1>0, <2>2 DEF Keys!KeyRow
  <2>4. /\ keys' \subseteq Keys!KeyRow /\ \A l, m \in keys' : l.id = m.id => l = m
        /\ \A l \in keys' : \E m \in keys : l.id = m.id /\ l.of = m.of /\ l.revoked = m.revoked
    <3>1. \A l, m \in keys : l.id = m.id => l = m
      BY DEF KeyInv
    <3>2. \A l \in keys' : l = n \/ (l \in keys /\ l # k)
      BY <2>1, <2>2
    <3>3. \A l \in keys' : \E m \in keys : l.id = m.id /\ l.of = m.of /\ l.revoked = m.revoked
      BY <2>3, <3>2
    <3> QED BY <1>0, <2>3, <3>1, <3>2, <3>3
  <2>5. Keys!OneSuccessor'
    <3> SUFFICES ASSUME NEW x \in keys', x.of # None
                 PROVE  /\ \A l \in keys' : l.of = x.of /\ l # x => {x.id, l.id} \in beside
                        /\ \A l \in keys' : l.id = x.of => l.revoked
      BY <2>1 DEF Keys!OneSuccessor
    <3>1. PICK p \in keys : x.id = p.id /\ x.of = p.of
      BY <2>4
    <3>2. ASSUME NEW l \in keys', l.of = x.of, l # x PROVE {x.id, l.id} \in beside
      <4>1. PICK q \in keys : l.id = q.id /\ l.of = q.of
        BY <2>4
      <4>2. l.id # x.id
        BY <2>4, <3>2
      <4>3. Keys!OneSuccessor
        BY DEF KeyInv
      <4> QED BY <3>1, <3>2, <4>1, <4>2, <4>3 DEF Keys!OneSuccessor
    <3>3. \A l \in keys' : l.id = x.of => l.revoked
      BY <2>4, <3>1 DEF KeyInv, Keys!OneSuccessor
    <3> QED BY <3>2, <3>3
  <2> QED BY <2>1, <2>4, <2>5 DEF KeyInv, Keys!Rotating, Keys!At
<1>8. ASSUME NEW c \in Calls, NEW r \in KeyCall, UNCHANGED <<keys, beside>>, call' = [call EXCEPT ![c] = r],
             call[c].pc # "done", r.pc # "replace", r.key \in Calls => r.key # c /\ call[r.key].pc = "done"
      PROVE  KeyInv'
  <2>1. /\ \A l \in keys' : \E m \in keys : l.id = m.id /\ l.of = m.of /\ (m.revoked => l.revoked)
        /\ \A l, m \in keys' : l.id = m.id => l = m
    BY <1>8 DEF KeyInv
  <2> QED BY <1>0, <1>8, <2>1, KeysKeepInv
<1>9. ASSUME NEW c \in Calls, Keys!Resolve(c) PROVE KeyInv'
  <2>1. PICK k \in keys, w \in Pair :
           /\ \E pc \in {"count", "bypass"} : Keys!Begin(c, [Keys!Idle EXCEPT !.pc = pc, !.worker = w])
           /\ UNCHANGED <<setup, window, counts, keys, beside>>
    BY <1>9, Zenon DEF Keys!Resolve
  <2> PICK pc \in {"count", "bypass"} : Keys!Begin(c, [Keys!Idle EXCEPT !.pc = pc, !.worker = w])
    BY <2>1
  <2>2. PICK r : r = [Keys!Idle EXCEPT !.pc = pc, !.worker = w]
    OBVIOUS
  <2>3. r \in KeyCall /\ r.pc \in {"count", "bypass"} /\ r.key = None
    BY <1>0, <2>2 DEF Keys!Idle, KeyCall
  <2>4. call' = [call EXCEPT ![c] = r] /\ call[c].pc = "new"
    BY <1>2, <2>1, <2>2
  <2> QED BY <1>0, <1>8, <2>1, <2>3, <2>4
<1>10. ASSUME NEW c \in Calls, Keys!Consume(c) \/ Keys!Handle(c) \/ Keys!Bypass(c) PROVE KeyInv'
  <2>1. PICK pc \in {"handle", "bypass", "done"} : /\ call' = [call EXCEPT ![c].pc = pc]
                                                  /\ UNCHANGED <<keys, beside>>
                                                  /\ call[c].pc \in {"count", "handle", "bypass"}
    <3>1. ASSUME NEW S, NEW k, Keys!Decide(c, S, k)
          PROVE  \E pc \in {"handle", "bypass", "done"} : call' = [call EXCEPT ![c].pc = pc]
      BY <3>1 DEF Keys!Decide, Keys!Goto
    <3>2. ASSUME NEW S, Keys!FallBack(c, S)
          PROVE  \E pc \in {"handle", "bypass", "done"} : call' = [call EXCEPT ![c].pc = pc]
      BY <3>1, <3>2 DEF Keys!FallBack, Keys!Goto
    <3>3. CASE Keys!Consume(c)
      BY <3>1, <3>2, <3>3 DEF Keys!Consume
    <3>4. CASE Keys!Handle(c) \/ Keys!Bypass(c)
      BY <3>4 DEF Keys!Handle, Keys!Bypass, Keys!Goto
    <3> QED BY <1>10, <3>3, <3>4
  <2>2. PICK r : r = [call[c] EXCEPT !.pc = pc]
    OBVIOUS
  <2>3. call' = [call EXCEPT ![c] = r] /\ r \in KeyCall /\ r.pc = pc /\ r.key = call[c].key
    BY <1>0, <2>1, <2>2 DEF KeyCall
  <2>4. r.key \in Calls => r.key # c /\ call[r.key].pc = "done"
    BY <2>1, <2>3 DEF KeyInv
  <2> QED BY <1>8, <2>1, <2>3, <2>4
<1>11. CASE Keys!NextWindow \/ Keys!Forget
  BY <1>11 DEF Keys!NextWindow, Keys!Forget, KeyInv, Keys!Rotating, Keys!OneSuccessor
<1> QED BY <1>1, <1>3, <1>4, <1>5, <1>6, <1>7, <1>9, <1>10, <1>11 DEF Keys!Next

LEMMA KeysMove == Spec => Keys!Spec
<1>1. Init => Keys!Init
  BY DEF Init
<1>2. [Next]_vars => [Keys!Next]_Keys!vars
  BY DEF Next, KeyStep, CredentialStep, IsolationStep, PolicyStep, BundleStep, DocumentStep, ChainStep,
         vars, keyVars, Keys!vars
<1> QED BY <1>1, <1>2, PTL DEF Spec, Keys!Spec

LEMMA KeyInvHolds == Spec => []KeyInv
<1>1. Keys!Init => KeyInv
  <2> SUFFICES ASSUME Keys!Init PROVE KeyInv
    OBVIOUS
  <2>1. None \notin Calls /\ Original \notin Calls /\ None # Original
    BY PartsAssumption DEF PartsAssumption, Keys!NoneAssumption
  <2>2. Keys!Idle \in KeyCall /\ Keys!Idle.pc = "new" /\ Keys!Idle.key = None
    BY DEF Keys!Idle, KeyCall
  <2>3. PICK n : n = [id |-> Original, of |-> None, revoked |-> FALSE, expired |-> FALSE]
    OBVIOUS
  <2>4. n \in Keys!KeyRow /\ n.id = Original /\ n.of = None
    BY <2>3 DEF Keys!KeyRow
  <2>5. keys = {n} /\ call = [c \in Calls |-> Keys!Idle]
    BY <2>3 DEF Keys!Init
  <2> QED BY <2>1, <2>2, <2>4, <2>5 DEF KeyInv, Keys!Rotating, Keys!At, Keys!OneSuccessor
<1>2. KeyInv /\ [Keys!Next]_Keys!vars => KeyInv'
  BY PartsAssumption, KeyStepKeepsInv
<1> QED BY <1>1, <1>2, KeysMove, PTL DEF Keys!Spec

\* A key that was replaced is revoked, and has one successor but for rotations that ran at the
\* same time (main.py 6998-7033).
THEOREM SuccessionHolds == Spec => []OneSuccessor
<1>1. KeyInv => OneSuccessor
  BY DEF KeyInv, OneSuccessor
<1> QED BY <1>1, KeyInvHolds, PTL

(***************************************************************************)
(* The rate limiter.                                                       *)
(***************************************************************************)

\* A counter of a minute shows no more than the calls it has counted, and no less than those it
\* has let through: until the minute is over, or until no call of that minute can come to it.
Limited(v) == v >= window => Cardinality(Keys!Passed(v, "redis")) <= counts["redis"][v]
LimitedBy(k, v) == \/ Cardinality(Keys!Passed(v, k)) <= counts[k][v]
                   \/ v < window /\ \A c \in Calls : call[c].pc = "count" /\ call[c].worker = k
                                                        => token[c].window # v
Uncounted(c) == token[c].on = {} /\ token[c].by = None /\ ~token[c].passed
LimitInv ==
    /\ window \in Keys!Windows /\ counts \in [Keys!Counters -> [Keys!Windows -> Nat]]
    /\ token \in [Calls -> Keys!Token]
    /\ \A c \in Calls : /\ call[c].pc \in {"new", "replace", "count"} => Uncounted(c)
                        /\ call[c].pc = "count" => call[c].worker \in Pair
                        /\ token[c].window <= window
    /\ \A c, d \in Calls : call[c].pc = "count" /\ call[d].pc = "count" /\ c # d
                              => call[c].worker # call[d].worker
    /\ \A v \in Keys!Windows, k \in Keys!Counters : counts[k][v] <= Cardinality(Keys!CountedBy(v, k))
    /\ \A v \in Keys!Windows : Limited(v)
    /\ \A v \in Keys!Windows, k \in Pair : LimitedBy(k, v)
    /\ \A v \in Keys!Windows, k \in Keys!Counters : Cardinality(Keys!Passed(v, k)) <= Limit
    /\ \A v \in Keys!Windows, k \in Keys!Counters, c \in Calls :
          token[c].window = v /\ token[c].by = k /\ ~token[c].passed
             => Cardinality(Keys!CountedBy(v, k) \ {c}) >= Limit

LEMMA KeyCardinality == ASSUME NEW S PROVE Keys!Cardinality(S) = Cardinality(S)
BY DEF Keys!Cardinality, Cardinality

LEMMA CallSets ==
    ASSUME PartsAssumption, NEW S, S \subseteq Calls
    PROVE  /\ IsFiniteSet(S) /\ Cardinality(S) \in Nat
           /\ \A T : T \subseteq S => Cardinality(T) <= Cardinality(S)
           /\ \A c \in Calls : c \notin S => Cardinality(S \union {c}) = Cardinality(S) + 1
<1>1. IsFiniteSet(Calls)
  BY DEF PartsAssumption, Keys!CallsAssumption, Keys!IsFiniteSet, IsFiniteSet
<1>2. IsFiniteSet(S)
  BY <1>1, FS_Subset
<1> QED BY <1>2, FS_Subset, FS_CardinalityType, FS_AddElement

\* The facts of a window and of a counter.
LEMMA LimitFacts ==
    ASSUME PartsAssumption
    PROVE  /\ MaxWindow \in Nat /\ Limit \in Nat /\ "redis" \notin Pair /\ None \notin Keys!Counters
           /\ Keys!Windows \subseteq Nat /\ 0 \in Keys!Windows
           /\ "redis" \in Keys!Counters /\ Pair \subseteq Keys!Counters
           /\ \A k \in Keys!Counters : k = "redis" \/ k \in Pair
           /\ \A v, k : Keys!Passed(v, k) \subseteq Calls /\ Keys!CountedBy(v, k) \subseteq Calls
BY DEF PartsAssumption, Keys!CallsAssumption, Keys!NoneAssumption, Keys!Windows, Keys!Counters,
       Keys!Passed, Keys!CountedBy

\* A call moves, and nothing counts.
LEMMA MoveKeepsLimit ==
    ASSUME LimitInv, UNCHANGED <<window, counts, token>>,
           \A c \in Calls : /\ call'[c].pc = "count" => call[c].pc = "count" /\ call'[c].worker = call[c].worker
                            /\ call'[c].pc \in {"new", "replace"} => call[c].pc \in {"new", "replace"}
    PROVE  LimitInv'
<1>1. \A v, k : Keys!Passed(v, k)' = Keys!Passed(v, k) /\ Keys!CountedBy(v, k)' = Keys!CountedBy(v, k)
  BY DEF Keys!Passed, Keys!CountedBy
<1>2. \A c \in Calls : Uncounted(c)' <=> Uncounted(c)
  BY DEF Uncounted
<1>3. \A v \in Keys!Windows : Limited(v)'
  BY <1>1 DEF LimitInv, Limited
<1>4. \A v \in Keys!Windows, k \in Pair : LimitedBy(k, v)'
  BY <1>1 DEF LimitInv, LimitedBy
<1> QED BY <1>1, <1>2, <1>3, <1>4 DEF LimitInv

\* A call is counted by the counters of S; k decides on it, or none of them does.
LEMMA CountKeepsLimit ==
    ASSUME PartsAssumption, KeyInv, LimitInv, NEW c \in Calls, call[c].pc = "count",
           NEW S, S \subseteq Keys!Counters, \A j \in S : j = "redis" \/ j = call[c].worker,
           NEW k \in S \union {None}, NEW r \in Keys!Token, r.on = S, r.by = k,
           NEW w, w = token[c].window, r.window = w,
           r.passed => k # None /\ counts[k][w] + 1 <= Limit,
           k # None /\ ~r.passed => counts[k][w] >= Limit,
           k = "redis" => r.late = (window # w),
           counts' = Keys!Counted(S, w), token' = [token EXCEPT ![c] = r], UNCHANGED window,
           NEW pc \in {"handle", "bypass", "done"}, call' = [call EXCEPT ![c].pc = pc]
    PROVE  LimitInv'
<1> USE LimitFacts
<1>1. /\ call'[c].pc = pc /\ \A d \in Calls : d # c => call'[d] = call[d]
      /\ token'[c] = r /\ \A d \in Calls : d # c => token'[d] = token[d]
      /\ token' \in [Calls -> Keys!Token]
  BY DEF KeyInv, KeyCall, LimitInv
<1>2. /\ w \in Keys!Windows /\ w \in Nat /\ w <= window /\ window \in Nat
      /\ Uncounted(c) /\ call[c].worker \in Pair
  BY DEF LimitInv, Keys!Token
<1>3. /\ \A j \in Keys!Counters, v \in Keys!Windows :
            /\ counts[j][v] \in Nat
            /\ counts'[j][v] = IF j \in S /\ v = w THEN counts[j][v] + 1
                               ELSE IF j \in S \ {"redis"} /\ v < w - 1 THEN 0 ELSE counts[j][v]
      /\ counts' \in [Keys!Counters -> [Keys!Windows -> Nat]]
  <2>1. \A j \in Keys!Counters, v \in Keys!Windows : counts[j][v] \in Nat
    BY DEF LimitInv
  <2> QED BY <2>1 DEF Keys!Counted
<1>4. \A v, j : /\ c \notin Keys!CountedBy(v, j)
                /\ Keys!CountedBy(v, j)' = IF v = w /\ j \in S THEN Keys!CountedBy(v, j) \union {c}
                                           ELSE Keys!CountedBy(v, j)
  BY <1>1, <1>2 DEF Keys!CountedBy, Uncounted
<1>5. \A v, j : /\ c \notin Keys!Passed(v, j)
                /\ Keys!Passed(v, j)' = IF v = w /\ j = k /\ r.passed /\ (j = "redis" => ~r.late)
                                        THEN Keys!Passed(v, j) \union {c} ELSE Keys!Passed(v, j)
  <2> TAKE v, j
  <2>1. c \notin Keys!Passed(v, j)
    BY <1>2 DEF Keys!Passed, Uncounted
  <2>2. c \in Keys!Passed(v, j)' <=> v = w /\ j = k /\ r.passed /\ (j = "redis" => ~r.late)
    BY <1>1 DEF Keys!Passed
  <2>3. \A d : d # c => (d \in Keys!Passed(v, j)' <=> d \in Keys!Passed(v, j))
    BY <1>1 DEF Keys!Passed
  <2>4. CASE v = w /\ j = k /\ r.passed /\ (j = "redis" => ~r.late)
    <3>1. \A d : d \in Keys!Passed(v, j)' <=> d \in Keys!Passed(v, j) \union {c}
      <4> TAKE d
      <4>1. CASE d = c
        BY <2>2, <2>4, <4>1
      <4>2. CASE d # c
        BY <2>3, <4>2
      <4> QED BY <4>1, <4>2
    <3> QED BY <2>1, <2>4, <3>1
  <2>5. CASE ~(v = w /\ j = k /\ r.passed /\ (j = "redis" => ~r.late))
    <3>1. \A d : d \in Keys!Passed(v, j)' <=> d \in Keys!Passed(v, j)
      BY <2>1, <2>2, <2>3, <2>5, Zenon
    <3> QED BY <2>1, <2>5, <3>1
  <2> QED BY <2>4, <2>5
<1>6. \A v, j : /\ Cardinality(Keys!CountedBy(v, j)) \in Nat
                /\ Cardinality(Keys!CountedBy(v, j) \union {c}) = Cardinality(Keys!CountedBy(v, j)) + 1
                /\ Cardinality(Keys!Passed(v, j)) \in Nat
                /\ Cardinality(Keys!Passed(v, j) \union {c}) = Cardinality(Keys!Passed(v, j)) + 1
  BY <1>4, <1>5, CallSets
<1>7. \A v \in Keys!Windows, j \in Keys!Counters : (counts[j][v] <= Cardinality(Keys!CountedBy(v, j)))'
  <2> TAKE v \in Keys!Windows, j \in Keys!Counters
  <2>1. counts[j][v] <= Cardinality(Keys!CountedBy(v, j))
    BY DEF LimitInv
  <2> QED BY <1>3, <1>4, <1>6, <2>1
\* Before it counts, the counter shows what it has let through.
<1>8. ASSUME NEW j \in S, j = "redis" => window = w
      PROVE  Cardinality(Keys!Passed(w, j)) <= counts[j][w]
  <2>1. CASE j = "redis"
    BY <1>2, <1>8, <2>1 DEF LimitInv, Limited
  <2>2. CASE j # "redis"
    <3>1. j = call[c].worker /\ LimitedBy(j, w)
      BY <1>2, <2>2 DEF LimitInv
    <3> QED BY <3>1 DEF LimitedBy
  <2> QED BY <2>1, <2>2
<1>9. \A v \in Keys!Windows, j \in Keys!Counters : (Cardinality(Keys!Passed(v, j)) <= Limit)'
  <2> TAKE v \in Keys!Windows, j \in Keys!Counters
  <2>1. Cardinality(Keys!Passed(v, j)) <= Limit
    BY DEF LimitInv
  <2>2. CASE v = w /\ j = k /\ r.passed /\ (j = "redis" => ~r.late)
    <3>1. Cardinality(Keys!Passed(w, k)) <= counts[k][w] /\ counts[k][w] + 1 <= Limit /\ counts[k][w] \in Nat
      BY <1>3, <1>8, <2>2
    <3> QED BY <1>5, <1>6, <2>2, <3>1
  <2> QED BY <1>5, <2>1, <2>2
<1>10. \A v \in Keys!Windows : Limited(v)'
  <2> SUFFICES ASSUME NEW v \in Keys!Windows, v >= window
               PROVE  (Cardinality(Keys!Passed(v, "redis")) <= counts["redis"][v])'
    BY DEF Limited
  <2>1. Cardinality(Keys!Passed(v, "redis")) <= counts["redis"][v]
    BY DEF LimitInv, Limited
  <2>2. Cardinality(Keys!Passed(v, "redis"))' \in {Cardinality(Keys!Passed(v, "redis")),
                                                  Cardinality(Keys!Passed(v, "redis")) + 1}
    BY <1>5, <1>6
  <2>3. CASE v = w /\ "redis" \in S
    BY <1>3, <1>6, <2>1, <2>2, <2>3
  <2>4. CASE ~(v = w /\ "redis" \in S)
    BY <1>3, <1>5, <2>1, <2>4
  <2> QED BY <2>3, <2>4
<1>11. \A v \in Keys!Windows, j \in Pair : LimitedBy(j, v)'
  <2> TAKE v \in Keys!Windows, j \in Pair
  <2>0. v \in Nat /\ LimitedBy(j, v) /\ j # "redis" /\ j \in Keys!Counters
    BY DEF LimitInv
  <2>1. CASE v = w /\ j \in S
    <3>1. Cardinality(Keys!Passed(w, j)) <= counts[j][w]
      BY <1>8, <2>0, <2>1
    <3>2. Cardinality(Keys!Passed(v, j))' \in {Cardinality(Keys!Passed(v, j)), Cardinality(Keys!Passed(v, j)) + 1}
      BY <1>5, <1>6
    <3>3. counts'[j][v] = counts[j][v] + 1 /\ counts[j][v] \in Nat
      BY <1>3, <2>0, <2>1
    <3>4. (Cardinality(Keys!Passed(v, j)) <= counts[j][v])'
      BY <1>6, <2>1, <3>1, <3>2, <3>3
    <3> QED BY <3>4 DEF LimitedBy
  <2>2. CASE j \in S /\ v < w - 1
    <3>1. v < window
      BY <1>2, <2>0, <2>2
    <3>2. \A d \in Calls : ~(call'[d].pc = "count" /\ call'[d].worker = j)
      BY <1>1, <2>0, <2>2 DEF LimitInv
    <3> QED BY <3>1, <3>2 DEF LimitedBy
  <2>3. CASE ~(v = w /\ j \in S) /\ ~(j \in S /\ v < w - 1)
    <3>1. counts'[j][v] = counts[j][v] /\ Keys!Passed(v, j)' = Keys!Passed(v, j)
      BY <1>3, <1>5, <2>0, <2>3
    <3>2. \A d \in Calls : call'[d].pc = "count" /\ call'[d].worker = j
                              => call[d].pc = "count" /\ call[d].worker = j /\ token'[d] = token[d]
      BY <1>1
    <3> QED BY <2>0, <3>1, <3>2 DEF LimitedBy
  <2> QED BY <2>1, <2>2, <2>3
<1>12. \A v \in Keys!Windows, j \in Keys!Counters, d \in Calls :
          (token[d].window = v /\ token[d].by = j /\ ~token[d].passed
             => Cardinality(Keys!CountedBy(v, j) \ {d}) >= Limit)'
  <2> SUFFICES ASSUME NEW v \in Keys!Windows, NEW j \in Keys!Counters, NEW d \in Calls,
                      token'[d].window = v, token'[d].by = j, ~token'[d].passed
               PROVE  Cardinality(Keys!CountedBy(v, j)' \ {d}) >= Limit
    OBVIOUS
  <2>1. CASE d = c
    <3>1. v = w /\ j = k /\ ~r.passed /\ k # None
      BY <1>1, <2>1
    <3>2. counts[k][w] >= Limit /\ counts[k][w] <= Cardinality(Keys!CountedBy(w, k)) /\ counts[k][w] \in Nat
      BY <1>2, <1>3, <3>1 DEF LimitInv
    <3>3. Keys!CountedBy(v, j)' \ {d} = Keys!CountedBy(w, k)
      BY <1>4, <2>1, <3>1
    <3>4. Cardinality(Keys!CountedBy(w, k)) \in Nat
      BY <1>6
    <3>5. Cardinality(Keys!CountedBy(w, k)) >= Limit
      BY <3>2, <3>4
    <3> QED BY <3>3, <3>5
  <2>2. CASE d # c
    <3>1. Cardinality(Keys!CountedBy(v, j) \ {d}) >= Limit
      BY <1>1, <2>2 DEF LimitInv
    <3>2. PICK T : T = Keys!CountedBy(v, j)' \ {d}
      OBVIOUS
    <3>3. T \subseteq Calls /\ Keys!CountedBy(v, j) \ {d} \subseteq T
      BY <1>4, <3>2
    <3>4. Cardinality(Keys!CountedBy(v, j) \ {d}) <= Cardinality(T) /\ Cardinality(T) \in Nat
          /\ Cardinality(Keys!CountedBy(v, j) \ {d}) \in Nat
      BY <3>3, CallSets
    <3> QED BY <3>1, <3>2, <3>4
  <2> QED BY <2>1, <2>2
<1>13. \A d \in Calls : /\ call'[d].pc \in {"new", "replace", "count"} => Uncounted(d)'
                        /\ call'[d].pc = "count" => call'[d].worker \in Pair
                        /\ token'[d].window <= window
  BY <1>1, <1>2 DEF LimitInv, Uncounted
<1>14. \A d, e \in Calls : call'[d].pc = "count" /\ call'[e].pc = "count" /\ d # e
                              => call'[d].worker # call'[e].worker
  BY <1>1 DEF LimitInv
<1> QED BY <1>1, <1>3, <1>7, <1>9, <1>10, <1>11, <1>12, <1>13, <1>14 DEF LimitInv

LEMMA KeyStepKeepsLimit ==
    ASSUME PartsAssumption, KeyInv, LimitInv, [Keys!Next]_Keys!vars
    PROVE  LimitInv'
<1> USE LimitFacts
<1>0. call \in [Calls -> KeyCall]
  BY DEF KeyInv
<1>1. CASE UNCHANGED Keys!vars
  BY <1>1, MoveKeepsLimit DEF Keys!vars
<1>2. ASSUME NEW c \in Calls, Keys!Generate(c) \/ Keys!RevokeKey(c) \/ Keys!Rotate(c) PROVE LimitInv'
  <2>1. PICK r : Keys!Begin(c, r) /\ r.pc \in {"done", "replace"} /\ UNCHANGED Keys!limiter
    <3>1. /\ [Keys!Idle EXCEPT !.pc = "done"].pc = "done"
          /\ \A key : [Keys!Idle EXCEPT !.pc = "replace", !.key = key].pc = "replace"
      BY DEF Keys!Idle
    <3>2. CASE Keys!Generate(c) \/ Keys!RevokeKey(c)
      BY <3>1, <3>2 DEF Keys!Generate, Keys!RevokeKey
    <3>3. CASE Keys!Rotate(c)
      BY <3>1, <3>3 DEF Keys!Rotate
    <3> QED BY <1>2, <3>2, <3>3
  <2>2. call[c].pc = "new" /\ call'[c].pc \in {"done", "replace"} /\ \A d \in Calls : d # c => call'[d] = call[d]
    BY <1>0, <2>1 DEF Keys!Begin, Keys!At
  <2> QED BY <2>1, <2>2, MoveKeepsLimit DEF Keys!limiter
<1>3. ASSUME NEW c \in Calls, Keys!Replace(c) \/ Keys!Handle(c) \/ Keys!Bypass(c) PROVE LimitInv'
  <2>1. PICK pc \in {"done", "bypass"} : call' = [call EXCEPT ![c].pc = pc] /\ UNCHANGED Keys!limiter
    BY <1>3 DEF Keys!Replace, Keys!Handle, Keys!Bypass, Keys!Goto
  <2>2. call'[c].pc \in {"done", "bypass"} /\ \A d \in Calls : d # c => call'[d] = call[d]
    BY <1>0, <2>1 DEF KeyCall
  <2> QED BY <2>1, <2>2, MoveKeepsLimit DEF Keys!limiter
<1>4. CASE Keys!Expire
  BY <1>4, MoveKeepsLimit DEF Keys!Expire, Keys!limiter
\* A call reads the clock; its worker is free, and nothing has counted the call.
<1>5. ASSUME NEW c \in Calls, Keys!Resolve(c) PROVE LimitInv'
  <2>0. PICK key \in keys, wk \in Pair :
           /\ ~key.revoked /\ ~key.expired /\ Keys!Free(wk)
           /\ \E pc \in {"count", "bypass"} : Keys!Begin(c, [Keys!Idle EXCEPT !.pc = pc, !.worker = wk])
           /\ token' = [token EXCEPT ![c].window = window]
           /\ UNCHANGED <<setup, window, counts, keys, beside>>
    BY <1>5, Zenon DEF Keys!Resolve
  <2>1. PICK pc \in {"count", "bypass"} :
           /\ Keys!Free(wk) /\ Keys!Begin(c, [Keys!Idle EXCEPT !.pc = pc, !.worker = wk])
           /\ token' = [token EXCEPT ![c].window = window] /\ UNCHANGED <<window, counts>>
    BY <2>0
  <2>2. /\ call[c].pc = "new" /\ call'[c].pc = pc /\ call'[c].worker = wk
        /\ \A d \in Calls : d # c => call'[d] = call[d]
    BY <1>0, <2>1 DEF Keys!Begin, Keys!At, Keys!Idle
  <2>3. /\ token' \in [Calls -> Keys!Token] /\ \A d \in Calls : d # c => token'[d] = token[d]
        /\ token'[c] = [token[c] EXCEPT !.window = window]
    BY <2>1 DEF LimitInv, Keys!Token
  <2>4. Uncounted(c) /\ Uncounted(c)' /\ token'[c].window = window /\ window \in Nat
        /\ token[c] \in Keys!Token
    BY <2>2, <2>3 DEF LimitInv, Uncounted, Keys!Token
  <2>5. \A v, k : Keys!Passed(v, k)' = Keys!Passed(v, k) /\ Keys!CountedBy(v, k)' = Keys!CountedBy(v, k)
    <3>1. \A v, k : c \notin Keys!Passed(v, k) /\ c \notin Keys!CountedBy(v, k)
      BY <2>4 DEF Keys!Passed, Keys!CountedBy, Uncounted
    <3>2. \A v, k : c \notin Keys!Passed(v, k)' /\ c \notin Keys!CountedBy(v, k)'
      BY <2>4 DEF Keys!Passed, Keys!CountedBy, Uncounted
    <3>3. \A v, k, d : d # c => /\ d \in Keys!Passed(v, k)' <=> d \in Keys!Passed(v, k)
                                /\ d \in Keys!CountedBy(v, k)' <=> d \in Keys!CountedBy(v, k)
      BY <2>3 DEF Keys!Passed, Keys!CountedBy
    <3> QED BY <3>1, <3>2, <3>3
  <2>6. \A d \in Calls : /\ call'[d].pc \in {"new", "replace", "count"} => Uncounted(d)'
                         /\ call'[d].pc = "count" => call'[d].worker \in Pair
                         /\ token'[d].window <= window
    <3> SUFFICES ASSUME NEW d \in Calls
                 PROVE  /\ call'[d].pc \in {"new", "replace", "count"} => Uncounted(d)'
                        /\ call'[d].pc = "count" => call'[d].worker \in Pair
                        /\ token'[d].window <= window
      OBVIOUS
    <3>1. CASE d = c
      BY <2>1, <2>2, <2>4, <3>1
    <3>2. CASE d # c
      BY <2>2, <2>3, <3>2 DEF LimitInv, Uncounted
    <3> QED BY <3>1, <3>2
  <2>7. \A d, e \in Calls : call'[d].pc = "count" /\ call'[e].pc = "count" /\ d # e
                               => call'[d].worker # call'[e].worker
    <3>1. \A d \in Calls : ~(call[d].pc = "count" /\ call[d].worker = wk)
      BY <2>1 DEF Keys!Free, Keys!At
    <3>2. \A d, e \in Calls : call[d].pc = "count" /\ call[e].pc = "count" /\ d # e
                                  => call[d].worker # call[e].worker
      BY DEF LimitInv
    <3> QED BY <2>2, <3>1, <3>2
  <2>8. \A v \in Keys!Windows : Limited(v)'
    BY <2>1, <2>5 DEF LimitInv, Limited
  <2>9. \A v \in Keys!Windows, k \in Pair : LimitedBy(k, v)'
    <3> TAKE v \in Keys!Windows, k \in Pair
    <3>1. LimitedBy(k, v)
      BY DEF LimitInv
    <3>2. CASE Cardinality(Keys!Passed(v, k)) <= counts[k][v]
      BY <2>1, <2>5, <3>2 DEF LimitedBy
    <3>3. CASE v < window /\ \A d \in Calls : call[d].pc = "count" /\ call[d].worker = k => token[d].window # v
      <4>1. v \in Nat
        OBVIOUS
      <4>2. ASSUME NEW d \in Calls, call'[d].pc = "count", call'[d].worker = k PROVE token'[d].window # v
        <5>1. CASE d = c
          BY <2>4, <3>3, <4>1, <5>1
        <5>2. CASE d # c
          BY <2>2, <2>3, <3>3, <4>2, <5>2
        <5> QED BY <5>1, <5>2
      <4> QED BY <2>1, <3>3, <4>2 DEF LimitedBy
    <3> QED BY <3>1, <3>2, <3>3 DEF LimitedBy
  <2>10. \A v \in Keys!Windows, k \in Keys!Counters, d \in Calls :
            (token[d].window = v /\ token[d].by = k /\ ~token[d].passed
               => Cardinality(Keys!CountedBy(v, k) \ {d}) >= Limit)'
    <3> SUFFICES ASSUME NEW v \in Keys!Windows, NEW k \in Keys!Counters, NEW d \in Calls,
                        token'[d].window = v, token'[d].by = k, ~token'[d].passed
                 PROVE  Cardinality(Keys!CountedBy(v, k)' \ {d}) >= Limit
      OBVIOUS
    <3>1. d # c
      BY <2>4 DEF Uncounted
    <3>2. Cardinality(Keys!CountedBy(v, k) \ {d}) >= Limit
      BY <2>3, <3>1 DEF LimitInv
    <3> QED BY <2>5, <3>2
  <2> QED BY <2>1, <2>3, <2>5, <2>6, <2>7, <2>8, <2>9, <2>10 DEF LimitInv
\* What the three outcomes of a call have in common.
<1>6. ASSUME NEW c \in Calls, call[c].pc = "count", NEW S, NEW k \in S, S \subseteq Keys!Counters,
             \A j \in S : j = "redis" \/ j = call[c].worker, Keys!Decide(c, S, k), UNCHANGED window
      PROVE  LimitInv'
  <2>1. PICK w, p, r : /\ w = token[c].window /\ p = (Keys!Counted(S, w)[k][w] <= Limit)
                       /\ r = [window |-> w, on |-> S, by |-> k, passed |-> p, late |-> window # w]
    OBVIOUS
  <2>2. w \in Keys!Windows /\ counts[k][w] \in Nat /\ Keys!Counted(S, w)[k][w] = counts[k][w] + 1
    <3>1. w \in Keys!Windows
      BY <2>1 DEF LimitInv, Keys!Token
    <3> QED BY <1>6, <3>1 DEF LimitInv, Keys!Counted
  <2>3. r \in Keys!Token /\ r.on = S /\ r.by = k /\ r.window = w /\ r.passed = p /\ r.late = (window # w)
    BY <1>6, <2>1, <2>2 DEF Keys!Token
  <2>4. counts' = Keys!Counted(S, w) /\ token' = [token EXCEPT ![c] = r]
    BY <1>6, <2>1 DEF Keys!Decide
  <2>5. PICK pc \in {"handle", "bypass", "done"} : call' = [call EXCEPT ![c].pc = pc]
    <3>1. Keys!Goto(c, "handle") \/ Keys!Goto(c, "done")
      BY <1>6 DEF Keys!Decide
    <3> QED BY <3>1 DEF Keys!Goto
  <2>7. k = "redis" => r.late = (window # w)
    BY <2>3
  <2>6. /\ k \in S \union {None} /\ k # None
        /\ r.passed => k # None /\ counts[k][w] + 1 <= Limit
        /\ k # None /\ ~r.passed => counts[k][w] >= Limit
    <3>1. p <=> counts[k][w] + 1 <= Limit
      BY <2>1, <2>2
    <3> QED BY <1>6, <2>2, <2>3, <3>1
  <2>8. w = token[c].window /\ call[c].pc = "count" /\ UNCHANGED window
        /\ S \subseteq Keys!Counters /\ \A j \in S : j = "redis" \/ j = call[c].worker
    BY <1>6, <2>1
  <2> HIDE LimitFacts
  <2> QED BY <2>3, <2>4, <2>5, <2>6, <2>7, <2>8, CountKeepsLimit
<1>7. ASSUME NEW c \in Calls, Keys!Consume(c) PROVE LimitInv'
  <2>1. call[c].pc = "count" /\ call[c].worker \in Pair /\ UNCHANGED window
    BY <1>7 DEF Keys!Consume, Keys!At, LimitInv
  <2>2. CASE Keys!Decide(c, {"redis"}, "redis") \/ Keys!Decide(c, {call[c].worker}, call[c].worker)
    BY <1>6, <2>1, <2>2
  <2>3. ASSUME NEW S \in {{}, {"redis"}}, Keys!Decide(c, S \union {call[c].worker}, call[c].worker) PROVE LimitInv'
    BY <1>6, <2>1, <2>3
  <2>4. ASSUME NEW S \in {{}, {"redis"}}, counts' = Keys!Counted(S, token[c].window),
               token' = [token EXCEPT ![c].on = S], Keys!Goto(c, "bypass")
        PROVE  LimitInv'
    <3>1. PICK w, r : w = token[c].window /\ r = [token[c] EXCEPT !.on = S]
      OBVIOUS
    <3>2. token[c] \in Keys!Token /\ Uncounted(c)
      BY <2>1 DEF LimitInv
    <3>3. /\ r \in Keys!Token /\ r.on = S /\ r.by = None /\ r.window = w /\ ~r.passed
          /\ token' = [token EXCEPT ![c] = r] /\ S \subseteq Keys!Counters
      BY <2>4, <3>1, <3>2 DEF Keys!Token, Uncounted
    <3>4. /\ call' = [call EXCEPT ![c].pc = "bypass"] /\ counts' = Keys!Counted(S, w)
          /\ \A j \in S : j = "redis" \/ j = call[c].worker
          /\ None # "redis"
      BY <2>4, <3>1 DEF Keys!Goto
    <3> QED BY <2>1, <3>1, <3>3, <3>4, CountKeepsLimit
  <2> QED BY <1>7, <2>2, <2>3, <2>4 DEF Keys!Consume, Keys!FallBack
<1>8. CASE Keys!NextWindow
  <2>1. window' = window + 1 /\ window' \in Keys!Windows /\ window \in Nat /\ UNCHANGED <<counts, token, call>>
    BY <1>8 DEF Keys!NextWindow, LimitInv, Keys!Windows
  <2>2. \A v, k : Keys!Passed(v, k)' = Keys!Passed(v, k) /\ Keys!CountedBy(v, k)' = Keys!CountedBy(v, k)
    BY <2>1 DEF Keys!Passed, Keys!CountedBy
  <2>3. \A c \in Calls : (Uncounted(c)' <=> Uncounted(c)) /\ token[c].window <= window'
    <3>1. \A c \in Calls : token[c].window \in Nat /\ token[c].window <= window
      BY DEF LimitInv, Keys!Token
    <3> QED BY <2>1, <3>1 DEF Uncounted
  <2>4. \A v \in Keys!Windows : Limited(v)'
    BY <2>1, <2>2 DEF LimitInv, Limited
  <2>5. \A v \in Keys!Windows, k \in Pair : LimitedBy(k, v)'
    BY <2>1, <2>2 DEF LimitInv, LimitedBy
  <2> QED BY <2>1, <2>2, <2>3, <2>4, <2>5 DEF LimitInv
<1>9. CASE Keys!Forget
  <2>1. PICK v \in Keys!Windows : /\ v < window /\ counts' = [counts EXCEPT !["redis"] = [@ EXCEPT ![v] = 0]]
                                  /\ UNCHANGED <<window, token, call>>
    BY <1>9 DEF Keys!Forget
  <2>2. \A u, k : Keys!Passed(u, k)' = Keys!Passed(u, k) /\ Keys!CountedBy(u, k)' = Keys!CountedBy(u, k)
                  /\ Cardinality(Keys!CountedBy(u, k)) \in Nat
    BY <2>1, CallSets DEF Keys!Passed, Keys!CountedBy
  <2>3. /\ \A k \in Keys!Counters, u \in Keys!Windows :
              /\ counts[k][u] \in Nat
              /\ counts'[k][u] = IF k = "redis" /\ u = v THEN 0 ELSE counts[k][u]
        /\ counts' \in [Keys!Counters -> [Keys!Windows -> Nat]]
    BY <2>1 DEF LimitInv
  <2>4. \A c \in Calls : Uncounted(c)' <=> Uncounted(c)
    BY <2>1 DEF Uncounted
  <2>5. \A u \in Keys!Windows : Limited(u)'
    <3> TAKE u \in Keys!Windows
    <3>0. u \in Nat /\ v \in Nat /\ window \in Nat
      BY DEF LimitInv
    <3>1. u >= window => u # v
      BY <2>1, <3>0
    <3> QED BY <2>1, <2>2, <2>3, <3>1 DEF LimitInv, Limited
  <2>6. \A u \in Keys!Windows, k \in Pair : LimitedBy(k, u)'
    <3> TAKE u \in Keys!Windows, k \in Pair
    <3>1. counts'[k][u] = counts[k][u] /\ LimitedBy(k, u)
      BY <2>3 DEF LimitInv
    <3> QED BY <2>1, <2>2, <3>1 DEF LimitedBy
  <2>7. \A u \in Keys!Windows, k \in Keys!Counters : (counts[k][u] <= Cardinality(Keys!CountedBy(u, k)))'
    BY <2>2, <2>3 DEF LimitInv
  <2> QED BY <2>1, <2>2, <2>3, <2>4, <2>5, <2>6, <2>7 DEF LimitInv
<1> QED BY <1>1, <1>2, <1>3, <1>4, <1>5, <1>7, <1>8, <1>9 DEF Keys!Next

LEMMA LimitInvHolds == Spec => []LimitInv
<1>1. Keys!Init => LimitInv
  <2> SUFFICES ASSUME Keys!Init PROVE LimitInv
    OBVIOUS
  <2> USE PartsAssumption, LimitFacts
  <2>1. /\ window = 0 /\ counts = [k \in Keys!Counters |-> [v \in Keys!Windows |-> 0]]
        /\ \A c \in Calls : /\ token[c] = [window |-> 0, on |-> {}, by |-> None, passed |-> FALSE, late |-> FALSE]
                            /\ call[c].pc = "new"
        /\ token = [c \in Calls |-> [window |-> 0, on |-> {}, by |-> None, passed |-> FALSE, late |-> FALSE]]
    BY DEF Keys!Init, Keys!Idle
  <2>2. token \in [Calls -> Keys!Token]
    BY <2>1 DEF Keys!Token
  <2>3. \A v, k : Keys!Passed(v, k) = {} /\ Keys!CountedBy(v, k) = {}
    BY <2>1 DEF Keys!Passed, Keys!CountedBy
  <2>4. Cardinality({}) = 0
    BY FS_EmptySet
  <2>5. \A v \in Keys!Windows, k \in Keys!Counters : counts[k][v] = 0
    BY <2>1
  <2>6. \A v \in Keys!Windows : Limited(v)
    BY <2>3, <2>4, <2>5 DEF Limited
  <2>7. \A v \in Keys!Windows, k \in Pair : LimitedBy(k, v)
    BY <2>3, <2>4, <2>5 DEF LimitedBy
  <2>8. \A c \in Calls : Uncounted(c) /\ token[c].by \notin Keys!Counters
    BY <2>1 DEF Uncounted
  <2>9. window \in Keys!Windows /\ counts \in [Keys!Counters -> [Keys!Windows -> Nat]] /\ 0 <= Limit
    BY <2>1
  <2>10. \A v \in Keys!Windows, k \in Keys!Counters :
            /\ counts[k][v] <= Cardinality(Keys!CountedBy(v, k))
            /\ Cardinality(Keys!Passed(v, k)) <= Limit
    BY <2>3, <2>4, <2>5, <2>9
  <2>11. \A c \in Calls : token[c].window <= window
    BY <2>1
  <2> HIDE DEF Keys!Windows
  <2> QED BY <2>1, <2>2, <2>6, <2>7, <2>8, <2>9, <2>10, <2>11 DEF LimitInv
<1>2. KeyInv /\ LimitInv /\ [Keys!Next]_Keys!vars => LimitInv'
  BY PartsAssumption, KeyStepKeepsLimit
<1> QED BY <1>1, <1>2, KeyInvHolds, KeysMove, PTL DEF Keys!Spec

(***************************************************************************)
(* A counter lets no more than Limit calls of a minute through, and        *)
(* refuses none before it has counted Limit others, but for a call that    *)
(* comes to Redis when its minute is over (main.py 232-262).               *)
(***************************************************************************)
THEOREM LimitIsKept == Spec => []LimitHolds
<1>1. LimitInv => LimitHolds
  BY KeyCardinality DEF LimitInv, LimitHolds, Keys!LimitHolds
<1> QED BY <1>1, LimitInvHolds, PTL

(***************************************************************************)
(* Provider credentials.                                                   *)
(***************************************************************************)

CredentialCall ==
    [op : {"none", "connect", "disconnect", "test", "select"},
     pc : {"new", "put", "upsert", "delete", "revoke", "try", "record", "resolve", "any", "environment",
           "done", "failed", "dead"},
     provider : Pair \union {None}, version : Calls \union {None}, seen : SUBSET Credentials!Row,
     source : {"none", "tenant", "environment", "local", "legacy"}, good : BOOLEAN]

\* Where a call may be, by what it does.
Places(k) ==
    /\ k.pc = "new" => k.op = "none"
    /\ k.pc \in {"put", "upsert"} => k.op = "connect"
    /\ k.pc \in {"delete", "revoke"} => k.op = "disconnect"
    /\ k.pc \in {"try", "record"} => k.op = "test"
    /\ k.pc \in {"resolve", "any", "environment"} => k.op = "select"
    /\ k.op \in {"connect", "disconnect", "test"} => k.provider \in Pair
    /\ k.source # "none" => k.pc = "done" /\ k.op = "select"

Over == Credentials!Ended \ {"new"}
Connected(r) == /\ using[r.version].op = "connect" /\ using[r.version].pc = "done"
                /\ using[r.version].provider = r.provider
Disconnected(d, p) == using[d].op = "disconnect" /\ using[d].pc = "done" /\ using[d].provider = p

\* The secret is not one that a call put which had ended when the disconnect began; it is not where
\* another has been connected since.
Fresh(d) == LET s == store[using[d].provider] IN s = None \/ <<s, d>> \notin before
Since(x, d) == <<d, x>> \in before => Fresh(d)

\* A row that is live after a disconnect was not connected before it; nor is one that a request has
\* seen which began after it.
LateRows == \A d \in Calls, r \in rows : Disconnected(d, r.provider) =>
    Since(r.version, d) /\ (~r.revoked => <<r.version, d>> \notin before)
LateSeen == \A d, c \in Calls : using[c].pc = "resolve" =>
    \A r \in using[c].seen : Disconnected(d, r.provider) =>
        Since(r.version, d) /\ (<<d, c>> \in before => <<r.version, d>> \notin before)
LatePut == \A d, x \in Calls : using[x].pc = "upsert" /\ Disconnected(d, using[x].provider) => Since(x, d)

CredentialInv ==
    /\ using \in [Calls -> CredentialCall] /\ (\A c \in Calls : Places(using[c]))
    /\ rows \subseteq Credentials!Row /\ (\A r \in rows : Connected(r))
    /\ \A c \in Calls : using[c].pc = "resolve" => \A r \in using[c].seen : Connected(r)
    /\ store \in [Pair -> Calls \union {None}]
    /\ \A a, b \in Calls : <<a, b>> \in before => using[a].pc \in Over /\ using[b].pc # "new"
    /\ LateRows /\ LateSeen /\ LatePut
    /\ Credentials!DisconnectedIsUnused

\* One call moves.
LEMMA MoveKeepsCredentials ==
    ASSUME CredentialInv, NEW c \in Calls, NEW k \in CredentialCall, Places(k),
           using' = [using EXCEPT ![c] = k], k.pc # "new", using[c].pc \notin Over,
           \A a, b : <<a, b>> \in before' <=>
              <<a, b>> \in before \/ (a \in Calls /\ b = c /\ using[c].pc = "new" /\ using[a].pc \in Over),
           using[c].pc # "new" => k.op = using[c].op /\ (k.op # "select" => k.provider = using[c].provider),
           store' \in [Pair -> Calls \union {None}],
           \A p \in Pair : store'[p] \in {store[p], None, c},
           k.pc = "upsert" => store'[k.provider] = c,
           rows' \subseteq Credentials!Row,
           \A r \in rows' :
              \/ \E q \in rows : r.provider = q.provider /\ r.version = q.version /\ (q.revoked => r.revoked)
              \/ /\ r.version = c /\ r.provider = k.provider /\ using[c].pc = "upsert"
                 /\ k.pc = "done" /\ k.op = "connect",
           k.pc = "done" /\ k.op = "disconnect" => \A r \in rows' : r.provider = k.provider => r.revoked,
           k.pc = "resolve" => \A r \in k.seen : r \in rows /\ ~r.revoked,
           k.source = "tenant" =>
              /\ using[c].pc = "resolve" /\ k.version # None
              /\ \E r \in using[c].seen : k.provider = r.provider /\ k.version = store[r.provider]
    PROVE  CredentialInv'
<1>1. /\ using'[c] = k /\ \A d \in Calls : d # c => using'[d] = using[d]
      /\ using' \in [Calls -> CredentialCall] /\ using \in [Calls -> CredentialCall]
  BY DEF CredentialInv
<1>2. \A r : r.version \in Calls /\ Connected(r) => r.version # c /\ Connected(r)'
  BY <1>1 DEF Connected, Over, Credentials!Ended
<1>3. /\ \A r \in rows : r.version \in Calls /\ r.provider \in Pair
      /\ \A d \in Calls : using[d].pc = "resolve" => \A r \in using[d].seen : r.version \in Calls /\ r.provider \in Pair
      /\ \A r \in rows' : r.version \in Calls /\ r.provider \in Pair
  BY <1>1 DEF CredentialInv, Credentials!Row, CredentialCall
<1>4. \A r \in rows' : Connected(r)'
  BY <1>1, <1>2, <1>3 DEF CredentialInv, Connected, Places
<1>5. ASSUME NEW d \in Calls, using'[d].pc = "resolve"
      PROVE  \A r \in using'[d].seen : Connected(r)' /\ r.version \in Calls /\ r.provider \in Pair
  <2>1. CASE d = c
    BY <1>1, <1>2, <1>3, <1>5, <2>1 DEF CredentialInv
  <2>2. CASE d # c
    BY <1>1, <1>2, <1>3, <1>5, <2>2 DEF CredentialInv
  <2> QED BY <2>1, <2>2
<1>6. \A a, b \in Calls : <<a, b>> \in before' => using'[a].pc \in Over /\ using'[b].pc # "new"
  BY <1>1 DEF CredentialInv
\* What had ended before stays so; nothing had begun after the call.
<1>7. \A a, b : b # c => (<<a, b>> \in before' <=> <<a, b>> \in before)
  OBVIOUS
<1>8. \A b \in Calls : <<c, b>> \notin before /\ <<c, b>> \notin before'
  BY DEF CredentialInv, Over
<1>9. ASSUME NEW d \in Calls, NEW p, Disconnected(d, p)', d # c
      PROVE  Disconnected(d, p) /\ (Fresh(d) => Fresh(d)')
  <2>1. Disconnected(d, p)
    BY <1>1, <1>9 DEF Disconnected
  <2>2. using[d].provider \in Pair /\ using'[d].provider = using[d].provider
    BY <1>1, <1>9, <2>1 DEF CredentialInv, Places, Disconnected
  <2>3. ASSUME Fresh(d) PROVE Fresh(d)'
    <3>1. PICK q \in Pair : q = using[d].provider
      BY <2>2
    <3>2. store'[q] \in Calls \union {None} /\ store[q] \in Calls \union {None} /\ store'[q] \in {store[q], None, c}
      BY DEF CredentialInv
    <3>3. store[q] = None \/ <<store[q], d>> \notin before
      BY <2>3, <3>1 DEF Fresh
    <3>4. store'[q] = None \/ <<store'[q], d>> \notin before'
      BY <1>7, <1>8, <1>9, <3>2, <3>3
    <3> QED BY <2>2, <3>1, <3>4 DEF Fresh
  <2> QED BY <2>1, <2>3
<1>10. ASSUME NEW d \in Calls, NEW x \in Calls, NEW p, Disconnected(d, p)', d # c, x # c, Since(x, d)
       PROVE  Since(x, d)'
  BY <1>7, <1>9, <1>10 DEF Since
<1>11. ASSUME NEW x \in Calls PROVE Since(x, c)'
  BY <1>8 DEF Since
<1>12. LateRows'
  <2> SUFFICES ASSUME NEW d \in Calls, NEW r \in rows', Disconnected(d, r.provider)'
               PROVE  Since(r.version, d)' /\ (~r.revoked => <<r.version, d>> \notin before')
    BY DEF LateRows
  <2>1. CASE d = c
    BY <1>1, <1>3, <1>11, <2>1 DEF Disconnected
  <2>2. CASE d # c /\ r.version = c
    <3>1. <<r.version, d>> \notin before'
      BY <1>8, <2>2
    <3>2. CASE using[c].pc = "upsert" /\ r.provider = k.provider
      <4>1. using[c].op = "connect" /\ r.provider = using[c].provider /\ Disconnected(d, r.provider)
        BY <1>9, <2>2, <3>2 DEF CredentialInv, Places
      <4>2. Since(c, d)
        BY <3>2, <4>1 DEF CredentialInv, LatePut
      <4>3. <<c, d>> \notin before' /\ (<<d, c>> \in before' => <<d, c>> \in before)
        BY <1>8, <3>2
      <4>4. Since(c, d)'
        BY <1>9, <2>2, <4>2, <4>3 DEF Since
      <4> QED BY <2>2, <3>1, <4>4
    <3>3. CASE \E q \in rows : r.version = q.version
      BY <1>2, <1>3, <2>2, <3>3 DEF CredentialInv
    <3> QED BY <3>2, <3>3
  <2>3. CASE d # c /\ r.version # c
    <3>1. PICK q \in rows : r.provider = q.provider /\ r.version = q.version /\ (q.revoked => r.revoked)
      BY <2>3
    <3>2. Disconnected(d, q.provider)
      BY <1>9, <2>3, <3>1
    <3>3. Since(q.version, d) /\ (~q.revoked => <<q.version, d>> \notin before)
      BY <3>2 DEF CredentialInv, LateRows
    <3>4. Since(r.version, d)'
      BY <1>3, <1>10, <2>3, <3>1, <3>3
    <3> QED BY <1>3, <1>7, <2>3, <3>1, <3>3, <3>4
  <2> QED BY <2>1, <2>2, <2>3
<1>13. LateSeen'
  <2> SUFFICES ASSUME NEW d \in Calls, NEW a \in Calls, using'[a].pc = "resolve", NEW r \in using'[a].seen,
                      Disconnected(d, r.provider)'
               PROVE  Since(r.version, d)' /\ (<<d, a>> \in before' => <<r.version, d>> \notin before')
    BY DEF LateSeen
  <2>0. r.version \in Calls /\ r.version # c
    <3>1. CASE a = c
      BY <1>1, <1>2, <1>3, <3>1 DEF CredentialInv
    <3>2. CASE a # c
      BY <1>1, <1>2, <1>3, <3>2 DEF CredentialInv
    <3> QED BY <3>1, <3>2
  <2>1. CASE d = c
    BY <1>8, <1>11, <2>0, <2>1
  <2>2. CASE d # c /\ a = c
    <3>1. r \in rows /\ ~r.revoked
      BY <1>1, <2>2
    <3>2. Disconnected(d, r.provider)
      BY <1>9, <2>2
    <3>3. Since(r.version, d) /\ <<r.version, d>> \notin before
      BY <3>1, <3>2 DEF CredentialInv, LateRows
    <3> QED BY <1>7, <1>10, <2>0, <2>2, <3>3
  <2>3. CASE d # c /\ a # c
    <3>1. Disconnected(d, r.provider) /\ using[a] = using'[a]
      BY <1>1, <1>9, <2>3
    <3>2. Since(r.version, d) /\ (<<d, a>> \in before => <<r.version, d>> \notin before)
      BY <3>1 DEF CredentialInv, LateSeen
    <3> QED BY <1>7, <1>10, <2>0, <2>3, <3>2
  <2> QED BY <2>1, <2>2, <2>3
<1>14. LatePut'
  <2> SUFFICES ASSUME NEW d \in Calls, NEW x \in Calls, using'[x].pc = "upsert",
                      using'[d].op = "disconnect", using'[d].pc = "done",
                      using'[d].provider = using'[x].provider
               PROVE  Since(x, d)'
    BY DEF LatePut, Disconnected
  <2>0. PICK p : p = using'[x].provider /\ Disconnected(d, p)'
    BY DEF Disconnected
  <2>1. CASE d = c
    BY <1>11, <2>1
  <2>2. CASE d # c /\ x = c
    <3>1. k.pc = "upsert" /\ using'[d].provider = k.provider
      BY <1>1, <2>2
    <3>2. Fresh(d)'
      BY <1>8, <3>1 DEF Fresh
    <3> QED BY <3>2 DEF Since
  <2>3. CASE d # c /\ x # c
    <3>1. Disconnected(d, using[x].provider) /\ using[x] = using'[x]
      BY <1>1, <1>9, <2>0, <2>3
    <3>2. Since(x, d)
      BY <3>1 DEF CredentialInv, LatePut
    <3> QED BY <1>10, <2>0, <2>3, <3>2
  <2> QED BY <2>1, <2>2, <2>3
<1>15. Credentials!DisconnectedIsUnused'
  <2> SUFFICES ASSUME NEW a \in Calls, NEW d \in Calls,
                      using'[a].op = "select", using'[a].source = "tenant",
                      using'[d].op = "disconnect", using'[d].pc = "done",
                      using'[d].provider = using'[a].provider, <<d, a>> \in before',
                      <<using'[a].version, d>> \in before'
               PROVE  \E x \in Calls : /\ using'[x].op = "connect" /\ using'[x].provider = using'[d].provider
                                       /\ <<x, d>> \notin before' /\ <<d, x>> \notin before'
    BY DEF Credentials!DisconnectedIsUnused, Credentials!Beside, Credentials!At, Credentials!Provider
  <2>1. d # c
    BY <1>8
  <2>2. using'[d] = using[d] /\ Disconnected(d, using'[a].provider)
    BY <1>1, <2>1 DEF Disconnected
  <2>3. using'[a].version \in Calls \union {None}
    BY <1>1 DEF CredentialCall
  <2>4. CASE a = c
    <3>1. /\ using[c].pc = "resolve" /\ k.version # None /\ k.version \in Calls /\ <<d, c>> \in before
          /\ <<k.version, d>> \in before
      BY <1>1, <1>7, <2>1, <2>3, <2>4
    <3>2. PICK r \in using[c].seen : k.provider = r.provider /\ k.version = store[r.provider]
      BY <1>1, <2>4
    <3>3. /\ r.version \in Calls /\ Connected(r) /\ Disconnected(d, r.provider)
      BY <1>1, <1>3, <2>2, <2>4, <3>1, <3>2 DEF CredentialInv
    <3>4. Since(r.version, d) /\ <<r.version, d>> \notin before
      BY <3>1, <3>3 DEF CredentialInv, LateSeen
    <3>5. ~Fresh(d)
      BY <3>1, <3>2, <3>3 DEF Fresh, Disconnected
    <3>6. r.version # c /\ Connected(r)' /\ <<d, r.version>> \notin before
      BY <1>2, <3>3, <3>4, <3>5 DEF Since
    <3>7. <<r.version, d>> \notin before' /\ <<d, r.version>> \notin before'
      BY <1>7, <2>1, <3>4, <3>6
    <3>8. using'[r.version].op = "connect" /\ using'[r.version].provider = using'[d].provider
      BY <1>1, <2>4, <3>2, <3>6 DEF Connected
    <3> QED BY <3>3, <3>7, <3>8
  <2>5. CASE a # c
    <3>1. using'[a] = using[a] /\ <<d, a>> \in before
      BY <1>1, <1>7, <2>5
    <3>2. using[a].version \in Calls \union {None}
      BY <2>3, <3>1
    <3>3. <<using[a].version, d>> \in before
      BY <1>7, <2>1, <3>1, <3>2
    <3>4. PICK x \in Calls : /\ using[x].op = "connect" /\ using[x].provider = using[d].provider
                             /\ <<x, d>> \notin before /\ <<d, x>> \notin before
      <4>1. /\ using[a].op = "select" /\ using[a].source = "tenant"
            /\ using[d].op = "disconnect" /\ using[d].pc = "done" /\ using[d].provider = using[a].provider
        BY <2>2, <3>1
      <4>2. Credentials!DisconnectedIsUnused
        BY DEF CredentialInv
      <4> QED BY <3>1, <3>3, <4>1, <4>2
            DEF Credentials!DisconnectedIsUnused, Credentials!Beside, Credentials!At, Credentials!Provider
    <3>5. using[x].pc # "new"
      BY <3>4 DEF CredentialInv, Places
    <3>6. using'[x].op = "connect" /\ using'[x].provider = using[d].provider
      BY <1>1, <3>4, <3>5
    <3>7. <<x, d>> \notin before' /\ <<d, x>> \notin before'
      BY <2>1, <3>4, <3>5
    <3> QED BY <2>2, <3>6, <3>7
  <2> QED BY <2>4, <2>5
<1>16. \A d \in Calls : Places(using'[d])
  BY <1>1 DEF CredentialInv
<1> QED BY <1>1, <1>4, <1>5, <1>6, <1>12, <1>13, <1>14, <1>15, <1>16 DEF CredentialInv

\* A call begins, and writes nothing.
LEMMA BeginKeepsCredentials ==
    ASSUME CredentialInv, NEW c \in Calls,
           NEW op \in {"connect", "disconnect", "test", "select"}, NEW p \in Pair \union {None},
           NEW pc \in {"put", "delete", "revoke", "try", "resolve"}, NEW seen \in SUBSET rows,
           pc = "put" => op = "connect", pc \in {"delete", "revoke"} => op = "disconnect",
           pc = "try" => op = "test", pc = "resolve" => op = "select",
           op \in {"connect", "disconnect", "test"} => p \in Pair,
           pc = "resolve" => \A r \in seen : ~r.revoked,
           Credentials!Begin(c, op, p, pc, seen), UNCHANGED <<store, rows>>
    PROVE  CredentialInv'
<1>1. PICK k : k = [Credentials!Idle EXCEPT !.op = op, !.pc = pc, !.provider = p, !.seen = seen]
  OBVIOUS
<1>2. seen \in SUBSET Credentials!Row
  BY DEF CredentialInv
<1>3. /\ k \in CredentialCall /\ k.op = op /\ k.pc = pc /\ k.provider = p /\ k.seen = seen
      /\ k.source = "none"
  BY <1>1, <1>2 DEF Credentials!Idle, CredentialCall
<1>4. Places(k)
  BY <1>3 DEF Places
<1>5. /\ using' = [using EXCEPT ![c] = k] /\ using[c].pc = "new"
      /\ before' = before \union {<<d, c>> : d \in {x \in Calls : using[x].pc \in Over}}
  BY <1>1 DEF Credentials!Begin, Credentials!At, Over
<1>6. \A a, b : <<a, b>> \in before' <=>
         <<a, b>> \in before \/ (a \in Calls /\ b = c /\ using[c].pc = "new" /\ using[a].pc \in Over)
  BY <1>5
<1>7. /\ store' \in [Pair -> Calls \union {None}] /\ rows' \subseteq Credentials!Row
      /\ \A q \in Pair : store'[q] \in {store[q], None, c}
      /\ using[c].pc \notin Over
  BY <1>5 DEF CredentialInv, Over
<1> QED BY <1>3, <1>4, <1>5, <1>6, <1>7, MoveKeepsCredentials

\* A call goes on.
LEMMA GoOnKeepsCredentials ==
    ASSUME CredentialInv, NEW c \in Calls, NEW k \in CredentialCall, Places(k),
           using' = [using EXCEPT ![c] = k], k.pc # "new", using[c].pc \notin Credentials!Ended,
           k.op = using[c].op, k.op # "select" => k.provider = using[c].provider,
           store' \in [Pair -> Calls \union {None}],
           \A p \in Pair : store'[p] \in {store[p], None, c},
           k.pc = "upsert" => store'[k.provider] = c,
           rows' \subseteq Credentials!Row,
           \A r \in rows' :
              \/ \E q \in rows : r.provider = q.provider /\ r.version = q.version /\ (q.revoked => r.revoked)
              \/ /\ r.version = c /\ r.provider = k.provider /\ using[c].pc = "upsert"
                 /\ k.pc = "done" /\ k.op = "connect",
           k.pc = "done" /\ k.op = "disconnect" => \A r \in rows' : r.provider = k.provider => r.revoked,
           k.pc = "resolve" => \A r \in k.seen : r \in rows /\ ~r.revoked,
           k.source = "tenant" =>
              /\ using[c].pc = "resolve" /\ k.version # None
              /\ \E r \in using[c].seen : k.provider = r.provider /\ k.version = store[r.provider],
           UNCHANGED before
    PROVE  CredentialInv'
<1>1. using[c].pc \notin Over /\ using[c].pc # "new"
  BY DEF Over, Credentials!Ended
<1>2. \A a, b : <<a, b>> \in before' <=>
         <<a, b>> \in before \/ (a \in Calls /\ b = c /\ using[c].pc = "new" /\ using[a].pc \in Over)
  BY <1>1
<1> QED BY <1>1, <1>2, MoveKeepsCredentials

\* Rows that are revoked in place.
LEMMA RowsInPlace ==
    ASSUME CredentialInv, NEW p,
           rows' = {IF r.provider = p THEN [r EXCEPT !.revoked = TRUE, !.health = "revoked"] ELSE r : r \in rows}
    PROVE  /\ rows' \subseteq Credentials!Row
           /\ \A r \in rows' : /\ \E q \in rows : /\ r.provider = q.provider /\ r.version = q.version
                                                  /\ (q.revoked => r.revoked)
                               /\ r.provider = p => r.revoked
<1>1. ASSUME NEW q \in rows
      PROVE  LET r == IF q.provider = p THEN [q EXCEPT !.revoked = TRUE, !.health = "revoked"] ELSE q
             IN /\ r \in Credentials!Row /\ r.provider = q.provider /\ r.version = q.version
                /\ (q.revoked => r.revoked) /\ (r.provider = p => r.revoked)
  <2>1. q \in Credentials!Row
    BY DEF CredentialInv
  <2> QED BY <2>1 DEF Credentials!Row
<1> SUFFICES ASSUME NEW r \in rows'
             PROVE  /\ r \in Credentials!Row
                    /\ \E q \in rows : /\ r.provider = q.provider /\ r.version = q.version
                                       /\ (q.revoked => r.revoked)
                    /\ r.provider = p => r.revoked
  OBVIOUS
<1>2. PICK q \in rows : r = IF q.provider = p THEN [q EXCEPT !.revoked = TRUE, !.health = "revoked"] ELSE q
  OBVIOUS
<1> QED BY <1>1, <1>2

LEMMA CredentialStepKeepsInv ==
    ASSUME CredentialInv, [Credentials!Next]_Credentials!vars
    PROVE  CredentialInv'
<1> USE DEF Credentials!At, Credentials!Goto, Credentials!Provider
<1>0. /\ \A c \in Calls : using[c] \in CredentialCall /\ Places(using[c])
      /\ using \in [Calls -> CredentialCall] /\ store \in [Pair -> Calls \union {None}]
      /\ rows \subseteq Credentials!Row /\ \A r \in rows : r.provider \in Pair /\ r.version \in Calls
  BY DEF CredentialInv, Credentials!Row
<1>1. CASE UNCHANGED Credentials!vars
  <2>1. rows' = rows /\ using' = using /\ store' = store /\ before' = before
    BY <1>1 DEF Credentials!vars
  <2>2. LateRows' /\ LateSeen' /\ LatePut'
    BY <2>1 DEF CredentialInv, LateRows, LateSeen, LatePut, Disconnected, Since, Fresh
  <2>3. Credentials!DisconnectedIsUnused'
    BY <2>1 DEF CredentialInv, Credentials!DisconnectedIsUnused, Credentials!Beside
  <2>4. /\ using' \in [Calls -> CredentialCall] /\ (\A c \in Calls : Places(using'[c]))
        /\ rows' \subseteq Credentials!Row /\ (\A r \in rows' : Connected(r)')
        /\ \A c \in Calls : using'[c].pc = "resolve" => \A r \in using'[c].seen : Connected(r)'
        /\ store' \in [Pair -> Calls \union {None}]
        /\ \A a, b \in Calls : <<a, b>> \in before' => using'[a].pc \in Over /\ using'[b].pc # "new"
    BY <2>1 DEF CredentialInv, Connected
  <2> QED BY <2>2, <2>3, <2>4 DEF CredentialInv
<1>2. ASSUME NEW c \in Calls, NEW p \in Pair, Credentials!Connect(c, p) PROVE CredentialInv'
  <2>1. Credentials!Begin(c, "connect", p, "put", {}) /\ UNCHANGED <<store, rows>>
    BY <1>2 DEF Credentials!Connect
  <2> QED BY <2>1, BeginKeepsCredentials
<1>3. ASSUME NEW c \in Calls, NEW p \in Pair, Credentials!Disconnect(c, p) PROVE CredentialInv'
  <2>1. PICK pc \in {"delete", "revoke"} : /\ Credentials!Begin(c, "disconnect", p, pc, Credentials!RowsOf(p))
                                           /\ UNCHANGED <<store, rows>>
    BY <1>3 DEF Credentials!Disconnect
  <2>2. Credentials!RowsOf(p) \in SUBSET rows
    BY DEF Credentials!RowsOf
  <2> QED BY <2>1, <2>2, BeginKeepsCredentials
<1>4. ASSUME NEW c \in Calls, NEW p \in Pair, Credentials!TestStored(c, p) PROVE CredentialInv'
  <2>1. Credentials!Begin(c, "test", p, "try", Credentials!RowsOf(p)) /\ UNCHANGED <<store, rows>>
    BY <1>4 DEF Credentials!TestStored
  <2>2. Credentials!RowsOf(p) \in SUBSET rows
    BY DEF Credentials!RowsOf
  <2> QED BY <2>1, <2>2, BeginKeepsCredentials
<1>5. ASSUME NEW c \in Calls, Credentials!Select(c) PROVE CredentialInv'
  <2>1. PICK route \in Pair \union {None} :
           Credentials!Begin(c, "select", route, "resolve", {r \in Credentials!Live : route \in {None, r.provider}})
    BY <1>5 DEF Credentials!Select
  <2>2. PICK seen : seen = {r \in Credentials!Live : route \in {None, r.provider}}
    OBVIOUS
  <2>3. seen \in SUBSET rows /\ \A r \in seen : ~r.revoked
    BY <2>2 DEF Credentials!Live
  <2>4. UNCHANGED <<store, rows>>
    BY <1>5 DEF Credentials!Select
  <2> QED BY <2>1, <2>2, <2>3, <2>4, BeginKeepsCredentials
<1>6. ASSUME NEW c \in Calls, NEW k, k \in CredentialCall, k.op = using[c].op, k.provider = using[c].provider,
             using' = [using EXCEPT ![c] = k], using[c].pc \notin Credentials!Ended,
             k.pc \in {"upsert", "failed", "done", "revoke", "record", "environment", "any"}, Places(k),
             k.source = "none", UNCHANGED before,
             store' \in [Pair -> Calls \union {None}],
             \A p \in Pair : store'[p] \in {store[p], None, c},
             k.pc = "upsert" => store'[k.provider] = c,
             rows' \subseteq Credentials!Row,
             \A r \in rows' :
                \/ \E q \in rows : r.provider = q.provider /\ r.version = q.version /\ (q.revoked => r.revoked)
                \/ /\ r.version = c /\ r.provider = k.provider /\ using[c].pc = "upsert"
                   /\ k.pc = "done" /\ k.op = "connect",
             k.pc = "done" /\ k.op = "disconnect" => \A r \in rows' : r.provider = k.provider => r.revoked
      PROVE  CredentialInv'
  BY <1>6, GoOnKeepsCredentials DEF Places
<1>7. ASSUME NEW c \in Calls, Credentials!Put(c) PROVE CredentialInv'
  <2>1. PICK p \in Pair : p = using[c].provider /\ using[c].pc = "put" /\ using[c].op = "connect"
    BY <1>0, <1>7 DEF Credentials!Put, Places
  <2>2. PICK pc \in {"upsert", "failed", "done"} :
              /\ using' = [using EXCEPT ![c].pc = pc]
              /\ store' = [store EXCEPT ![p] = c] \/ (pc = "done" /\ UNCHANGED store)
              /\ UNCHANGED <<rows, before>>
    BY <1>7, <2>1 DEF Credentials!Put
  <2>3. PICK k : k = [using[c] EXCEPT !.pc = pc]
    OBVIOUS
  <2>4. /\ k \in CredentialCall /\ k.pc = pc /\ k.op = "connect" /\ k.provider = p /\ k.source = using[c].source
        /\ using' = [using EXCEPT ![c] = k]
    BY <1>0, <2>1, <2>2, <2>3 DEF CredentialCall
  <2>5. Places(k) /\ k.source = "none"
    BY <1>0, <2>1, <2>4 DEF Places
  <2>6. /\ store' \in [Pair -> Calls \union {None}] /\ (\A q \in Pair : store'[q] \in {store[q], None, c})
        /\ k.pc = "upsert" => store'[p] = c
    BY <1>0, <2>2, <2>4
  <2> QED BY <1>0, <1>6, <2>1, <2>2, <2>4, <2>5, <2>6 DEF Credentials!Ended
<1>8. ASSUME NEW c \in Calls, Credentials!Upsert(c) PROVE CredentialInv'
  <2>1. PICK p \in Pair : p = using[c].provider /\ using[c].pc = "upsert" /\ using[c].op = "connect"
    BY <1>0, <1>8 DEF Credentials!Upsert, Places
  <2>2. PICK n : n = [provider |-> p, version |-> c, revoked |-> FALSE, health |-> "good"]
    OBVIOUS
  <2>3. n \in Credentials!Row /\ n.version = c /\ n.provider = p
    BY <2>2 DEF Credentials!Row
  <2>4. PICK k : k = [using[c] EXCEPT !.pc = "done"]
    OBVIOUS
  <2>5. /\ rows' = {r \in rows : r.provider # p} \union {n} /\ UNCHANGED <<store, before>>
        /\ using' = [using EXCEPT ![c] = k]
    BY <1>0, <1>8, <2>1, <2>2, <2>4 DEF Credentials!Upsert
  <2>6. /\ k \in CredentialCall /\ k.pc = "done" /\ k.op = "connect" /\ k.provider = p /\ k.source = using[c].source
    BY <1>0, <2>1, <2>4 DEF CredentialCall
  <2>7. Places(k) /\ k.source = "none"
    BY <1>0, <2>1, <2>6 DEF Places
  <2>8. /\ rows' \subseteq Credentials!Row
        /\ \A r \in rows' : r \in rows \/ (r.version = c /\ r.provider = p)
    BY <1>0, <2>3, <2>5
  <2> QED BY <1>0, <1>6, <2>1, <2>5, <2>6, <2>7, <2>8 DEF Credentials!Ended
<1>9. ASSUME NEW c \in Calls, Credentials!DeleteSecret(c) PROVE CredentialInv'
  <2>1. PICK p \in Pair : p = using[c].provider /\ using[c].pc = "delete" /\ using[c].op = "disconnect"
    BY <1>0, <1>9 DEF Credentials!DeleteSecret, Places
  <2>2. PICK k : k = [using[c] EXCEPT !.pc = "revoke"]
    OBVIOUS
  <2>3. /\ using' = [using EXCEPT ![c] = k] /\ UNCHANGED <<rows, before>>
        /\ store' = [store EXCEPT ![p] = None] \/ store' = store
    BY <1>0, <1>9, <2>1, <2>2 DEF Credentials!DeleteSecret
  <2>4. /\ k \in CredentialCall /\ k.pc = "revoke" /\ k.op = "disconnect" /\ k.provider = p
        /\ k.source = using[c].source
    BY <1>0, <2>1, <2>2 DEF CredentialCall
  <2>5. Places(k) /\ k.source = "none"
    BY <1>0, <2>1, <2>4 DEF Places
  <2>6. /\ store' \in [Pair -> Calls \union {None}] /\ (\A q \in Pair : store'[q] \in {store[q], None, c})
    BY <1>0, <2>3
  <2> QED BY <1>0, <1>6, <2>1, <2>3, <2>4, <2>5, <2>6 DEF Credentials!Ended
<1>10. ASSUME NEW c \in Calls, Credentials!RevokeRow(c) PROVE CredentialInv'
  <2>1. PICK p \in Pair : p = using[c].provider /\ using[c].pc = "revoke" /\ using[c].op = "disconnect"
    BY <1>0, <1>10 DEF Credentials!RevokeRow, Places
  <2>2. PICK k : k = [using[c] EXCEPT !.pc = "done"]
    OBVIOUS
  <2>3. /\ using' = [using EXCEPT ![c] = k] /\ UNCHANGED <<store, before>>
        /\ rows' = {IF r.provider = p THEN [r EXCEPT !.revoked = TRUE, !.health = "revoked"] ELSE r : r \in rows}
    BY <1>0, <1>10, <2>1, <2>2 DEF Credentials!RevokeRow
  <2>4. /\ k \in CredentialCall /\ k.pc = "done" /\ k.op = "disconnect" /\ k.provider = p
        /\ k.source = using[c].source
    BY <1>0, <2>1, <2>2 DEF CredentialCall
  <2>5. Places(k) /\ k.source = "none"
    BY <1>0, <2>1, <2>4 DEF Places
  <2>8. /\ rows' \subseteq Credentials!Row
        /\ \A r \in rows' : /\ \E q \in rows : /\ r.provider = q.provider /\ r.version = q.version
                                               /\ (q.revoked => r.revoked)
                            /\ r.provider = p => r.revoked
    BY <2>3, RowsInPlace
  <2>9. /\ k.pc = "done" /\ k.op = "disconnect" => \A r \in rows' : r.provider = k.provider => r.revoked
        /\ store' \in [Pair -> Calls \union {None}] /\ (\A q \in Pair : store'[q] \in {store[q], None, c})
        /\ using[c].pc \notin Credentials!Ended /\ UNCHANGED before
    BY <1>0, <2>1, <2>3, <2>4, <2>8 DEF Credentials!Ended
  <2> QED BY <1>6, <2>1, <2>3, <2>4, <2>5, <2>8, <2>9
<1>11. ASSUME NEW c \in Calls, Credentials!Try(c) PROVE CredentialInv'
  <2>1. PICK good \in BOOLEAN : using' = [using EXCEPT ![c].pc = "record", ![c].good = good]
    BY <1>11 DEF Credentials!Try
  <2>2. using[c].pc = "try" /\ using[c].op = "test" /\ UNCHANGED <<store, rows, before>>
    BY <1>0, <1>11 DEF Credentials!Try, Places
  <2>3. PICK k : k = [using[c] EXCEPT !.pc = "record", !.good = good]
    OBVIOUS
  <2>4. /\ k \in CredentialCall /\ k.pc = "record" /\ k.op = "test" /\ k.provider = using[c].provider
        /\ k.source = using[c].source /\ using' = [using EXCEPT ![c] = k]
    <3>1. PICK q : q = [using[c] EXCEPT !.pc = "record"]
      OBVIOUS
    <3>2. /\ q \in CredentialCall /\ q.pc = "record" /\ q.op = using[c].op
          /\ q.provider = using[c].provider /\ q.source = using[c].source
      BY <1>0, <3>1 DEF CredentialCall
    <3>3. k = [q EXCEPT !.good = good]
      BY <1>0, <2>3, <3>1 DEF CredentialCall
    <3>4. /\ k \in CredentialCall /\ k.pc = q.pc /\ k.op = q.op /\ k.provider = q.provider
          /\ k.source = q.source
      BY <3>2, <3>3 DEF CredentialCall
    <3>5. using' = [using EXCEPT ![c] = k]
      BY <1>0, <2>1, <2>3
    <3> QED BY <2>2, <3>2, <3>4, <3>5
  <2>5. Places(k) /\ k.source = "none"
    BY <1>0, <2>2, <2>4 DEF Places
  <2> QED BY <1>0, <1>6, <2>2, <2>4, <2>5 DEF Credentials!Ended
<1>12. ASSUME NEW c \in Calls, Credentials!Record(c) PROVE CredentialInv'
  <2>1. PICK p \in Pair : p = using[c].provider /\ using[c].pc = "record" /\ using[c].op = "test"
    BY <1>0, <1>12 DEF Credentials!Record, Places
  <2>2. PICK k, h : k = [using[c] EXCEPT !.pc = "done"] /\ h = IF using[c].good THEN "good" ELSE "unhealthy"
    OBVIOUS
  <2>3. /\ using' = [using EXCEPT ![c] = k] /\ UNCHANGED <<store, before>>
        /\ rows' = {IF r.provider = p THEN [r EXCEPT !.health = h] ELSE r : r \in rows}
    BY <1>0, <1>12, <2>1, <2>2 DEF Credentials!Record
  <2>4. /\ k \in CredentialCall /\ k.pc = "done" /\ k.op = "test" /\ k.provider = p
        /\ k.source = using[c].source /\ h \in {"good", "unhealthy", "revoked"}
    BY <1>0, <2>1, <2>2 DEF CredentialCall
  <2>5. Places(k) /\ k.source = "none"
    BY <1>0, <2>1, <2>4 DEF Places
  <2>6. ASSUME NEW q \in rows
        PROVE  LET r == IF q.provider = p THEN [q EXCEPT !.health = h] ELSE q
               IN /\ r \in Credentials!Row /\ r.provider = q.provider /\ r.version = q.version
                  /\ r.revoked = q.revoked
    <3>1. q \in Credentials!Row
      BY <1>0
    <3> QED BY <2>4, <3>1 DEF Credentials!Row
  <2>8. ASSUME NEW r \in rows'
        PROVE  /\ r \in Credentials!Row
               /\ \E q \in rows : /\ r.provider = q.provider /\ r.version = q.version
                                  /\ (q.revoked => r.revoked)
    <3>1. PICK q \in rows : r = IF q.provider = p THEN [q EXCEPT !.health = h] ELSE q
      BY <2>3
    <3> QED BY <2>6, <3>1
  <2> QED BY <1>0, <1>6, <2>1, <2>3, <2>4, <2>5, <2>8 DEF Credentials!Ended
<1>13. ASSUME NEW c \in Calls, NEW from \in {"tenant", "environment", "local", "legacy"},
              NEW p \in Pair \union {None}, NEW v \in Calls \union {None},
              Credentials!Selected(c, from, p, v), using[c].pc \in {"resolve", "environment"},
              from = "tenant" => /\ using[c].pc = "resolve" /\ v # None
                                   /\ \E r \in using[c].seen : p = r.provider /\ v = store[r.provider],
              UNCHANGED <<store, rows, before>>
       PROVE  CredentialInv'
  <2>1. PICK k : k = [using[c] EXCEPT !.pc = "done", !.source = from, !.provider = p, !.version = v]
    OBVIOUS
  <2>2. using[c].op = "select"
    BY <1>0, <1>13 DEF Places
  <2>3. /\ k \in CredentialCall /\ k.pc = "done" /\ k.op = "select" /\ k.source = from /\ k.provider = p
        /\ k.version = v /\ using' = [using EXCEPT ![c] = k]
    <3>1. PICK a : a = [using[c] EXCEPT !.pc = "done", !.source = from]
      OBVIOUS
    <3>2. a \in CredentialCall /\ a.pc = "done" /\ a.op = "select" /\ a.source = from
      <4>1. using[c] \in CredentialCall /\ from \in {"none", "tenant", "environment", "local", "legacy"}
        BY <1>0, <1>13
      <4>2. /\ a \in CredentialCall /\ a.pc = "done" /\ a.source = from /\ a.op = using[c].op
        BY <3>1, <4>1 DEF CredentialCall
      <4> QED BY <2>2, <4>2
    <3>3. PICK b : b = [a EXCEPT !.provider = p]
      OBVIOUS
    <3>4. b \in CredentialCall /\ b.pc = "done" /\ b.op = "select" /\ b.source = from /\ b.provider = p
      BY <1>13, <3>2, <3>3 DEF CredentialCall
    <3>5. k = [b EXCEPT !.version = v]
      BY <1>0, <2>1, <3>1, <3>3 DEF CredentialCall
    <3>6. /\ k \in CredentialCall /\ k.pc = "done" /\ k.op = "select" /\ k.source = from /\ k.provider = p
          /\ k.version = v
      BY <1>13, <3>4, <3>5 DEF CredentialCall
    <3>7. using' = [using EXCEPT ![c] = k]
      BY <1>0, <1>13, <2>1 DEF Credentials!Selected
    <3> QED BY <3>6, <3>7
  <2>4. Places(k)
    BY <2>3 DEF Places
  <2> QED BY <1>0, <1>13, <2>2, <2>3, <2>4, GoOnKeepsCredentials DEF Credentials!Ended
<1>14. ASSUME NEW c \in Calls, Credentials!Resolve(c) PROVE CredentialInv'
  <2>1. using[c].pc = "resolve" /\ using[c].op = "select" /\ UNCHANGED <<store, rows, before>>
    BY <1>0, <1>14 DEF Credentials!Resolve, Places
  <2>2. CASE \E r \in using[c].seen : store[r.provider] # None /\ Credentials!Selected(c, "tenant", r.provider, store[r.provider])
    <3>1. PICK r \in using[c].seen : store[r.provider] # None /\ Credentials!Selected(c, "tenant", r.provider, store[r.provider])
      BY <2>2
    <3>2. r.provider \in Pair /\ store[r.provider] \in Calls \union {None}
      BY <1>0 DEF CredentialCall, Credentials!Row
    <3> QED BY <1>13, <2>1, <3>1, <3>2
  <2>3. CASE \E pc \in {"environment", "any"} : using' = [using EXCEPT ![c].pc = pc]
    <3>1. PICK pc \in {"environment", "any"} : using' = [using EXCEPT ![c].pc = pc]
      BY <2>3
    <3>2. PICK k : k = [using[c] EXCEPT !.pc = pc]
      OBVIOUS
    <3>3. /\ k \in CredentialCall /\ k.pc = pc /\ k.op = "select" /\ k.provider = using[c].provider
          /\ k.source = using[c].source /\ using' = [using EXCEPT ![c] = k]
      BY <1>0, <2>1, <3>1, <3>2 DEF CredentialCall
    <3>4. Places(k) /\ k.source = "none"
      BY <1>0, <2>1, <3>3 DEF Places
    <3> QED BY <1>0, <1>6, <2>1, <3>3, <3>4 DEF Credentials!Ended
  <2> QED BY <1>14, <2>2, <2>3 DEF Credentials!Resolve
<1>15. ASSUME NEW c \in Calls, Credentials!ResolveAny(c) PROVE CredentialInv'
  <2>1. PICK k : k = [using[c] EXCEPT !.pc = "resolve", !.provider = None, !.seen = Credentials!Live]
    OBVIOUS
  <2>2. Credentials!Live \in SUBSET Credentials!Row /\ \A r \in Credentials!Live : r \in rows /\ ~r.revoked
    BY <1>0 DEF Credentials!Live
  <2>3. using[c].pc = "any" /\ using[c].op = "select" /\ using[c].source = "none" /\ UNCHANGED <<store, rows, before>>
    BY <1>0, <1>15 DEF Credentials!ResolveAny, Places
  <2>4. /\ k \in CredentialCall /\ k.pc = "resolve" /\ k.op = "select" /\ k.seen = Credentials!Live
        /\ k.source = "none" /\ using' = [using EXCEPT ![c] = k]
    BY <1>0, <1>15, <2>1, <2>2, <2>3 DEF CredentialCall, Credentials!ResolveAny
  <2>5. Places(k)
    BY <2>4 DEF Places
  <2> QED BY <1>0, <2>2, <2>3, <2>4, <2>5, GoOnKeepsCredentials DEF Credentials!Ended
<1>16. ASSUME NEW c \in Calls, Credentials!UseEnvironment(c) PROVE CredentialInv'
  <2>1. PICK from \in {"environment", "local", "legacy"}, p \in Pair \union {None} :
           Credentials!Selected(c, from, p, None)
    BY <1>16 DEF Credentials!UseEnvironment
  <2>2. using[c].pc = "environment" /\ UNCHANGED <<store, rows, before>>
    BY <1>16 DEF Credentials!UseEnvironment
  <2> QED BY <1>13, <2>1, <2>2
<1>17. CASE Credentials!Restart
  <2>1. /\ using' = [c \in Calls |-> IF c \in Credentials!Running THEN [using[c] EXCEPT !.pc = "dead"] ELSE using[c]]
        /\ UNCHANGED <<rows, before>>
        /\ store' = [p \in Pair |-> None] \/ store' = store
    BY <1>17 DEF Credentials!Restart
  <2>2. ASSUME NEW c \in Calls
        PROVE  /\ using'[c] \in CredentialCall /\ Places(using'[c])
               /\ using'[c].op = using[c].op /\ using'[c].provider = using[c].provider
               /\ using'[c].source = using[c].source /\ using'[c].version = using[c].version
               /\ \/ using'[c].pc = using[c].pc /\ using[c].pc \in Credentials!Ended
                  \/ using'[c].pc = "dead" /\ using[c].pc \notin Credentials!Ended
    <3>1. CASE c \in Credentials!Running
      <4>1. PICK k : k = [using[c] EXCEPT !.pc = "dead"]
        OBVIOUS
      <4>2. /\ k \in CredentialCall /\ k.op = using[c].op /\ k.provider = using[c].provider /\ k.pc = "dead"
            /\ k.source = using[c].source /\ k.version = using[c].version /\ using'[c] = k
        BY <1>0, <2>1, <3>1, <4>1 DEF CredentialCall
      <4>3. using[c].pc \notin Credentials!Ended
        BY <3>1 DEF Credentials!Running
      <4> QED BY <1>0, <4>2, <4>3 DEF Places, Credentials!Ended
    <3>2. CASE c \notin Credentials!Running
      BY <1>0, <2>1, <3>2 DEF Credentials!Running
    <3> QED BY <3>1, <3>2
  <2>3. using' \in [Calls -> CredentialCall] /\ store' \in [Pair -> Calls \union {None}]
    BY <1>0, <2>1, <2>2
  <2>4. \A p \in Pair : store'[p] \in {store[p], None}
    BY <2>1
  <2>5. \A c \in Calls : using'[c].pc \notin {"resolve", "upsert"} /\ (using'[c].pc = "done" <=> using[c].pc = "done")
    BY <2>2 DEF Credentials!Ended
  <2>6. \A r \in rows : Connected(r)'
    BY <1>0, <2>2, <2>5 DEF CredentialInv, Connected
  <2>7. \A a, b \in Calls : <<a, b>> \in before' => using'[a].pc \in Over /\ using'[b].pc # "new"
    BY <2>1, <2>2 DEF CredentialInv, Over, Credentials!Ended
  <2>8. ASSUME NEW d \in Calls, NEW x, NEW p \in Pair, Disconnected(d, p)', Since(x, d) PROVE Since(x, d)'
    <3>1. using'[d].provider = p /\ using[d].provider = p
      BY <2>2, <2>8 DEF Disconnected
    <3> QED BY <2>1, <2>4, <2>8, <3>1 DEF Since, Fresh
  <2>9. LateRows'
    BY <1>0, <2>1, <2>2, <2>5, <2>8 DEF CredentialInv, LateRows, Disconnected
  <2>10. LateSeen' /\ LatePut'
    BY <2>5 DEF LateSeen, LatePut
  <2>11. Credentials!DisconnectedIsUnused'
    <3>1. \A c \in Calls : /\ using'[c].op = using[c].op /\ using'[c].provider = using[c].provider
                           /\ using'[c].source = using[c].source /\ using'[c].version = using[c].version
                           /\ (using'[c].pc = "done" <=> using[c].pc = "done")
      BY <2>2, <2>5
    <3>2. before' = before /\ Credentials!DisconnectedIsUnused
      BY <2>1 DEF CredentialInv
    <3> SUFFICES ASSUME NEW a \in Calls, NEW d \in Calls,
                        using'[a].op = "select", using'[a].source = "tenant",
                        using'[d].op = "disconnect", using'[d].pc = "done",
                        using'[d].provider = using'[a].provider, <<d, a>> \in before',
                        <<using'[a].version, d>> \in before'
                 PROVE  \E x \in Calls : /\ using'[x].op = "connect" /\ using'[x].provider = using'[d].provider
                                         /\ <<x, d>> \notin before' /\ <<d, x>> \notin before'
      BY DEF Credentials!DisconnectedIsUnused, Credentials!Beside, Credentials!At, Credentials!Provider
    <3>3. PICK x \in Calls : /\ using[x].op = "connect" /\ using[x].provider = using[d].provider
                             /\ <<x, d>> \notin before /\ <<d, x>> \notin before
      <4>1. /\ using[a].op = "select" /\ using[a].source = "tenant"
            /\ using[d].op = "disconnect" /\ using[d].pc = "done" /\ using[d].provider = using[a].provider
            /\ <<d, a>> \in before /\ <<using[a].version, d>> \in before
        BY <3>1, <3>2
      <4> QED BY <3>2, <4>1
            DEF Credentials!DisconnectedIsUnused, Credentials!Beside, Credentials!At, Credentials!Provider
    <3> QED BY <3>1, <3>2, <3>3
  <2> QED BY <1>0, <2>1, <2>2, <2>3, <2>5, <2>6, <2>7, <2>9, <2>10, <2>11 DEF CredentialInv
<1> QED BY <1>1, <1>2, <1>3, <1>4, <1>5, <1>7, <1>8, <1>9, <1>10, <1>11, <1>12, <1>14, <1>15, <1>16, <1>17
        DEF Credentials!Next

LEMMA CredentialsMove == Spec => Credentials!Spec
<1>1. Init => Credentials!Init
  BY DEF Init
<1>2. [Next]_vars => [Credentials!Next]_Credentials!vars
  BY DEF Next, KeyStep, CredentialStep, IsolationStep, PolicyStep, BundleStep, DocumentStep, ChainStep,
         vars, credentialVars, Credentials!vars
<1> QED BY <1>1, <1>2, PTL DEF Spec, Credentials!Spec

LEMMA CredentialInvHolds == Spec => []CredentialInv
<1>1. Credentials!Init => CredentialInv
  <2> SUFFICES ASSUME Credentials!Init PROVE CredentialInv
    OBVIOUS
  <2>1. /\ Credentials!Idle \in CredentialCall /\ Credentials!Idle.pc = "new" /\ Credentials!Idle.op = "none"
        /\ Credentials!Idle.source = "none"
    BY DEF Credentials!Idle, CredentialCall
  <2>2. /\ using = [c \in Calls |-> Credentials!Idle] /\ rows = {} /\ before = {}
        /\ store \in [Pair -> Calls \union {None}]
    BY DEF Credentials!Init
  <2>3. Places(Credentials!Idle)
    BY <2>1 DEF Places
  <2> QED BY <2>1, <2>2, <2>3 DEF CredentialInv, LateRows, LateSeen, LatePut, Credentials!DisconnectedIsUnused
<1>2. CredentialInv /\ [Credentials!Next]_Credentials!vars => CredentialInv'
  BY CredentialStepKeepsInv
<1> QED BY <1>1, <1>2, CredentialsMove, PTL DEF Credentials!Spec

\* A secret connected before a disconnect is not used after it, unless another connect ran beside
\* the disconnect (main.py 7088-7134, 7290-7311; provider_router.py 124-158).
THEOREM DisconnectionHolds == Spec => []DisconnectedIsUnused
<1>1. CredentialInv => DisconnectedIsUnused
  BY DEF CredentialInv, DisconnectedIsUnused
<1> QED BY <1>1, CredentialInvHolds, PTL

(***************************************************************************)
(* Policies.                                                               *)
(***************************************************************************)

Editing == Calls \union {Original}
EditRecord == [op : {"none", "update", "publish", "approve", "reject", "archive", "target", "rollback", "done"},
               seen : SUBSET Policies!PolicyRow, target : SUBSET Policies!VersionRow,
               rules : Policies!Rules \union {None}, status : Policies!Statuses \union {None}]
AtWork == {"update", "publish", "approve", "reject", "archive", "rollback"}
PutInForce == {"published", "active"}

\* What an edit has read, and what it knows of the rules it will write.
Informed(e, k) ==
    /\ k.op \in AtWork => k.seen # {}
    /\ \A p, q \in k.seen : p = q
    /\ k.op = "update" => k.rules \in Policies!Rules /\ k.rules.by = e
    /\ k.op = "publish" => \A p \in k.seen : p.rules.valid
    /\ k.op \in {"target", "rollback"} => k.rules \in Policies!Rules /\ k.rules.valid

\* The row is of the newest version, and has its rules.
Newest == \A p \in policy, w \in versions :
    w.version <= p.version /\ (w.version = p.version => w.rules = p.rules)

\* Rules that are in force, unchecked, were put there by the edit that brought them, which is over.
Meant(p) == edit[p.rules.by].op = "done" /\ edit[p.rules.by].status \in PutInForce

PolicyInv ==
    /\ Policies!TypeOK /\ edit \in [Editing -> EditRecord]
    /\ created \in BOOLEAN /\ stale \in BOOLEAN
    /\ \A p, q \in policy : p = q
    /\ \A e \in Editing : Informed(e, edit[e])
    /\ ~created => policy = {} /\ versions = {}
    /\ ~stale => Newest
    /\ \A p \in Policies!InForce : p.rules.valid \/ stale \/ Meant(p)

VersionsKept == \A v \in versions, w \in versions' : v.version = w.version => v.rules = w.rules \/ stale'

\* One edit moves.
LEMMA EditKeepsPolicies ==
    ASSUME PolicyInv, NEW e \in Editing, NEW k \in EditRecord, edit' = [edit EXCEPT ![e] = k],
           edit[e].op # "done" \/ policy = {}, Informed(e, k),
           Policies!TypeOK', created' \in BOOLEAN, stale' \in BOOLEAN, stale => stale',
           \A p, q \in policy' : p = q,
           ~created' => policy' = {} /\ versions' = {},
           ~stale' => Newest',
           \A p \in policy' : p.status \in PutInForce =>
              \/ p.rules.valid \/ stale'
              \/ \E q \in policy : q.rules = p.rules /\ q.status \in PutInForce
              \/ p.rules.by = e /\ k.op = "done" /\ k.status \in PutInForce
    PROVE  PolicyInv'
<1>1. /\ edit'[e] = k /\ \A d \in Editing : d # e => edit'[d] = edit[d]
      /\ edit' \in [Editing -> EditRecord]
  BY DEF PolicyInv
<1>2. \A d \in Editing : Informed(d, edit'[d])
  BY <1>1 DEF PolicyInv
<1>3. \A p \in policy : p.rules.by \in Editing
  BY DEF PolicyInv, Policies!TypeOK, Policies!PolicyRow, Policies!Rules, Editing
<1>4. ASSUME NEW p \in policy', p.status \in PutInForce
      PROVE  p.rules.valid \/ stale' \/ Meant(p)'
  <2>1. CASE p.rules.valid \/ stale'
    BY <2>1
  <2>2. CASE \E q \in policy : q.rules = p.rules /\ q.status \in PutInForce
    <3>1. PICK q \in policy : q.rules = p.rules /\ q.status \in PutInForce
      BY <2>2
    <3>2. q \in Policies!InForce
      BY <3>1 DEF Policies!InForce, PutInForce
    <3>3. q.rules.valid \/ stale \/ Meant(q)
      BY <3>2 DEF PolicyInv
    <3>4. Meant(q) => Meant(p)'
      BY <1>1, <1>3, <3>1 DEF Meant
    <3> QED BY <3>1, <3>3, <3>4
  <2>3. CASE p.rules.by = e /\ k.op = "done" /\ k.status \in PutInForce
    BY <1>1, <2>3 DEF Meant
  <2> QED BY <1>4, <2>1, <2>2, <2>3
<1>5. \A p \in Policies!InForce' : p.rules.valid \/ stale' \/ Meant(p)'
  BY <1>4 DEF Policies!InForce, PutInForce
<1> QED BY <1>1, <1>2, <1>5 DEF PolicyInv

\* A step that leaves the policy and its versions alone.
LEMMA LookKeepsPolicies ==
    ASSUME PolicyInv, NEW e \in Editing, NEW k \in EditRecord, edit' = [edit EXCEPT ![e] = k],
           edit[e].op # "done", Informed(e, k), approvals' \subseteq Policies!ApprovalRow,
           stale' \in BOOLEAN, stale => stale', UNCHANGED <<policy, versions, created>>
    PROVE  PolicyInv' /\ VersionsKept
<1>1. Policies!TypeOK'
  BY DEF PolicyInv, Policies!TypeOK
<1>2. \A p \in policy' : p \in policy
  OBVIOUS
<1>3. /\ \A p, q \in policy' : p = q
      /\ created' \in BOOLEAN
      /\ ~created' => policy' = {} /\ versions' = {}
      /\ ~stale' => Newest'
  BY DEF PolicyInv, Newest
<1>4. PolicyInv'
  BY <1>1, <1>2, <1>3, EditKeepsPolicies
<1>5. VersionsKept
  BY DEF VersionsKept, PolicyInv, Policies!TypeOK
<1> QED BY <1>4, <1>5

\* The row of a version is written.
LEMMA Persisted ==
    ASSUME PolicyInv, NEW v \in 1..MaxVersion, NEW status \in Policies!Statuses \union {"approved"},
           NEW rules \in Policies!Rules, Policies!PersistVersion(v, status, rules)
    PROVE  /\ versions' \subseteq Policies!VersionRow
           /\ \A w, x \in versions' : w.version = x.version => w = x
           /\ \A w \in versions' : \/ w \in versions /\ w.version # v
                                   \/ w.version = v /\ w.rules = rules
<1>1. PICK n : n = [version |-> v, status |-> status, rules |-> rules]
  OBVIOUS
<1>2. n \in Policies!VersionRow /\ n.version = v /\ n.rules = rules
  BY <1>1 DEF Policies!VersionRow
<1>3. versions' = {w \in versions : w.version # v} \union {n}
  BY <1>1 DEF Policies!PersistVersion
<1> QED BY <1>2, <1>3 DEF PolicyInv, Policies!TypeOK

\* An edit has written the row and a version's: the version it has read, or the one after it.
Wrote(e, k, p, n, v, status, rules) ==
    /\ e \in Editing /\ k \in EditRecord /\ p \in policy /\ n \in Policies!PolicyRow
    /\ v \in 1..MaxVersion /\ status \in Policies!Statuses \union {"approved"} /\ rules \in Policies!Rules
    /\ edit' = [edit EXCEPT ![e] = k] /\ edit[e].op # "done" /\ Informed(e, k)
    /\ policy' = {n} /\ Policies!PersistVersion(v, status, rules)
    /\ approvals' \subseteq Policies!ApprovalRow
    /\ stale' \in BOOLEAN /\ (stale => stale') /\ created' = created
    /\ ~stale' => /\ v \in {p.version, p.version + 1} /\ n.version = v /\ n.rules = rules
                  /\ v = p.version => rules = p.rules
    /\ n.status \in PutInForce =>
          \/ n.rules.valid \/ stale'
          \/ n.rules = p.rules /\ p.status \in PutInForce
          \/ n.rules.by = e /\ k.op = "done" /\ k.status \in PutInForce

LEMMA WriteKeepsPolicies ==
    ASSUME PartsAssumption, PolicyInv, NEW e, NEW k, NEW p, NEW n, NEW v, NEW status, NEW rules,
           Wrote(e, k, p, n, v, status, rules)
    PROVE  PolicyInv' /\ VersionsKept
<1>1. /\ versions' \subseteq Policies!VersionRow
      /\ \A w, x \in versions' : w.version = x.version => w = x
      /\ \A w \in versions' : \/ w \in versions /\ w.version # v
                              \/ w.version = v /\ w.rules = rules
  BY Persisted DEF Wrote
<1>2. Policies!TypeOK'
  BY <1>1 DEF Policies!TypeOK, Wrote
<1>3. /\ p.version \in Nat /\ n.version \in Nat /\ created
      /\ \A w \in versions : w.version \in Nat
      /\ \A w, x \in versions : w.version = x.version => w = x
  BY DEF PolicyInv, Policies!TypeOK, Policies!PolicyRow, Policies!VersionRow, PartsAssumption,
         Policies!VersionAssumption, Wrote
<1>4. ~stale' => \A w \in versions : w.version <= p.version /\ (w.version = p.version => w.rules = p.rules)
  BY DEF PolicyInv, Newest, Wrote
<1>5. ~stale' => Newest'
  BY <1>1, <1>3, <1>4 DEF Newest, Wrote
<1>6. VersionsKept
  <2> SUFFICES ASSUME NEW x \in versions, NEW w \in versions', x.version = w.version, ~stale'
               PROVE  x.rules = w.rules
    BY DEF VersionsKept
  <2>1. CASE w \in versions
    BY <1>3, <2>1
  <2>2. CASE w.version = v /\ w.rules = rules
    BY <1>3, <1>4, <2>2 DEF Wrote
  <2> QED BY <1>1, <2>1, <2>2
<1>7. PolicyInv'
  <2>1. /\ \A q, r \in policy' : q = r
        /\ created' \in BOOLEAN
        /\ ~created' => policy' = {} /\ versions' = {}
    BY <1>3 DEF Wrote
  <2>2. \A q \in policy' : q.status \in PutInForce =>
              \/ q.rules.valid \/ stale'
              \/ \E r \in policy : r.rules = q.rules /\ r.status \in PutInForce
              \/ q.rules.by = e /\ k.op = "done" /\ k.status \in PutInForce
    BY DEF Wrote
  <2> QED BY <1>2, <1>5, <2>1, <2>2, EditKeepsPolicies DEF Wrote
<1> QED BY <1>6, <1>7

\* What an edit that commits has read.
LEMMA SeenRow ==
    ASSUME PolicyInv, NEW e \in Editing, edit[e].op \in AtWork
    PROVE  \E s \in Policies!PolicyRow : /\ s = Policies!Seen(e) /\ edit[e].seen = {s}
                                         /\ edit[e].op = "publish" => s.rules.valid
<1>0. edit[e] \in EditRecord /\ Informed(e, edit[e])
  BY DEF PolicyInv
<1>1. edit[e].seen # {} /\ \A p, q \in edit[e].seen : p = q
  BY <1>0 DEF Informed
<1>2. Policies!Seen(e) \in edit[e].seen
  BY <1>1 DEF Policies!Seen
<1>3. edit[e].seen \subseteq Policies!PolicyRow
  BY <1>0 DEF EditRecord
<1>4. edit[e].op = "publish" => \A p \in edit[e].seen : p.rules.valid
  BY <1>0 DEF Informed
<1> QED BY <1>1, <1>2, <1>3, <1>4

\* The record of an edit that ends.
LEMMA Ended ==
    ASSUME PolicyInv, NEW e \in Editing,
           NEW status \in Policies!Statuses \union {None}
    PROVE  \E k \in EditRecord : /\ k = [edit[e] EXCEPT !.op = "done", !.status = status]
                                 /\ k.op = "done" /\ k.status = status
                                 /\ Informed(e, k)
<1>1. PICK k : k = [edit[e] EXCEPT !.op = "done", !.status = status]
  OBVIOUS
<1>2. edit[e] \in EditRecord /\ Informed(e, edit[e])
  BY DEF PolicyInv
<1>3. k \in EditRecord /\ k.op = "done" /\ k.status = status /\ k.seen = edit[e].seen
  BY <1>1, <1>2 DEF EditRecord
<1>4. Informed(e, k)
  BY <1>2, <1>3 DEF Informed, AtWork
<1> QED BY <1>1, <1>3, <1>4

LEMMA EndedAsIs ==
    ASSUME PolicyInv, NEW e \in Editing
    PROVE  \E k \in EditRecord : /\ k = [edit[e] EXCEPT !.op = "done"]
                                 /\ k.op = "done" /\ Informed(e, k)
<1>1. PICK k : k = [edit[e] EXCEPT !.op = "done"]
  OBVIOUS
<1>2. edit[e] \in EditRecord /\ Informed(e, edit[e])
  BY DEF PolicyInv
<1>3. k \in EditRecord /\ k.op = "done" /\ k.seen = edit[e].seen
  BY <1>1, <1>2 DEF EditRecord
<1>4. Informed(e, k)
  BY <1>2, <1>3 DEF Informed, AtWork
<1> QED BY <1>1, <1>3, <1>4

\* An edit reads the row.
LEMMA ReadKeepsPolicies ==
    ASSUME PolicyInv, NEW e \in Editing, NEW op \in AtWork \ {"rollback"},
           NEW rules \in Policies!Rules \union {None}, NEW status \in Policies!Statuses \union {None},
           op = "update" => rules \in Policies!Rules /\ rules.by = e,
           op = "publish" => \A p \in policy : p.rules.valid,
           Policies!Read(e, op, rules, status)
    PROVE  PolicyInv' /\ VersionsKept
<1>1. PICK k : k = [op |-> op, seen |-> policy, target |-> {}, rules |-> rules, status |-> status]
  OBVIOUS
<1>2. k \in EditRecord
  BY <1>1 DEF EditRecord, AtWork, PolicyInv, Policies!TypeOK
<1>3. Informed(e, k)
  BY <1>1 DEF Informed, AtWork, PolicyInv, Policies!Read
<1>4. /\ edit' = [edit EXCEPT ![e] = k] /\ edit[e].op = "none"
      /\ UNCHANGED <<policy, versions, approvals, created, stale>>
  BY <1>1 DEF Policies!Read
<1>5. approvals' \subseteq Policies!ApprovalRow /\ stale' \in BOOLEAN /\ (stale => stale')
  BY <1>4 DEF PolicyInv, Policies!TypeOK
<1> QED BY <1>2, <1>3, <1>4, <1>5, LookKeepsPolicies

\* What an edit writes, of the row it has read and of the row there is.
LEMMA CommitFacts ==
    ASSUME PolicyInv, NEW e \in Editing, NEW s \in Policies!PolicyRow, edit[e].seen = {s},
           stale' = (stale \/ edit[e].seen # policy)
    PROVE  /\ stale' \in BOOLEAN /\ (stale => stale')
           /\ \A p \in policy : ~stale' => s = p
           /\ s.version \in 1..MaxVersion /\ s.rules \in Policies!Rules /\ s.status \in Policies!Statuses
BY DEF PolicyInv, Policies!PolicyRow

LEMMA ApprovalsKeepType ==
    ASSUME PolicyInv, NEW v \in 1..MaxVersion \union {None}, NEW status \in {"pending", "approved", "rejected"},
           Policies!PersistApproval(v, status)
    PROVE  approvals' \subseteq Policies!ApprovalRow
BY DEF PolicyInv, Policies!TypeOK, Policies!PersistApproval, Policies!ApprovalRow

\* The transaction of an edit whose policy has gone, or which writes approvals at most.
LEMMA FailedKeepsPolicies ==
    ASSUME PolicyInv, NEW e \in Editing, NEW k \in EditRecord, edit' = [edit EXCEPT ![e] = k],
           edit[e].op # "done", Informed(e, k),
           stale' \in BOOLEAN, stale => stale', UNCHANGED created, Policies!Fails
    PROVE  PolicyInv' /\ VersionsKept
<1>1. UNCHANGED <<policy, versions, approvals, created>>
  BY DEF Policies!Fails
<1>2. approvals' \subseteq Policies!ApprovalRow
  BY <1>1 DEF PolicyInv, Policies!TypeOK
<1> QED BY <1>1, <1>2, LookKeepsPolicies

\* A version is written, new or over the one that was read, with the row.
LEMMA NextVersionKeepsPolicies ==
    ASSUME PartsAssumption, PolicyInv, NEW e \in Editing, edit[e].op \in AtWork, NEW k \in EditRecord,
           edit' = [edit EXCEPT ![e] = k], Informed(e, k), k.op = "done",
           NEW v, v = Policies!Seen(e).version + 1, v <= MaxVersion, NEW status \in Policies!Statuses,
           NEW rules \in Policies!Rules, NEW approval \in {"pending", "approved"},
           rules.valid \/ (rules.by = e /\ k.status = status),
           stale' = (stale \/ edit[e].seen # policy), UNCHANGED created,
           IF policy = {} THEN Policies!Fails
           ELSE /\ Policies!Store([version |-> v, status |-> status, rules |-> rules])
                /\ Policies!PersistVersion(v, status, rules)
                /\ Policies!PersistApproval(v, approval)
    PROVE  PolicyInv' /\ VersionsKept
<1>1. PICK s \in Policies!PolicyRow : s = Policies!Seen(e) /\ edit[e].seen = {s}
  BY SeenRow
<1>2. /\ stale' \in BOOLEAN /\ (stale => stale')
      /\ \A p \in policy : ~stale' => s = p
      /\ s.version \in 1..MaxVersion
  BY <1>1, CommitFacts
<1>3. v \in 1..MaxVersion
  BY <1>1, <1>2
<1>4. edit[e].op # "done"
  BY DEF AtWork
<1>5. CASE policy = {}
  BY <1>2, <1>4, <1>5, FailedKeepsPolicies
<1>6. CASE policy # {}
  <2>1. PICK p \in policy : TRUE
    BY <1>6
  <2>2. PICK n : n = [version |-> v, status |-> status, rules |-> rules]
    OBVIOUS
  <2>3. n \in Policies!PolicyRow /\ n.version = v /\ n.status = status /\ n.rules = rules
    BY <1>3, <2>2 DEF Policies!PolicyRow
  <2>4. policy' = {n} /\ Policies!PersistVersion(v, status, rules) /\ Policies!PersistApproval(v, approval)
    BY <1>6, <2>2 DEF Policies!Store
  <2>5. approvals' \subseteq Policies!ApprovalRow
    BY <1>3, <2>4, ApprovalsKeepType
  <2>6. ~stale' => v = p.version + 1
    BY <1>1, <1>2
  <2>7. Wrote(e, k, p, n, v, status, rules)
    BY <1>2, <1>3, <1>4, <2>1, <2>3, <2>4, <2>5, <2>6 DEF Wrote
  <2> QED BY <2>7, WriteKeepsPolicies
<1> QED BY <1>5, <1>6

LEMMA PolicyStepKeepsInv ==
    ASSUME PartsAssumption, PolicyInv, [Policies!Next]_Policies!vars
    PROVE  PolicyInv' /\ (VersionsKept \/ UNCHANGED Policies!vars)
<1>1. CASE UNCHANGED Policies!vars
  BY <1>1 DEF Policies!vars, PolicyInv, Policies!TypeOK, Newest, Meant, Policies!InForce
<1> DEFINE Kept == PolicyInv' /\ VersionsKept
<1>2. ASSUME NEW e \in Editing, NEW valid \in BOOLEAN, NEW status \in {"published", "draft", "active"},
             NEW rules, rules = [by |-> e, valid |-> valid],
             ~created, created' = TRUE, policy' = {[version |-> 1, status |-> status, rules |-> rules]},
             Policies!PersistVersion(1, status, rules),
             approvals' \subseteq approvals \union {[version |-> 1, status |-> "approved"],
                                                     [version |-> 1, status |-> "pending"]},
             edit' = [edit EXCEPT ![e] = [Policies!Idle EXCEPT !.op = "done", !.rules = rules, !.status = status]],
             UNCHANGED stale
      PROVE  Kept
  <2>0. 1 \in 1..MaxVersion /\ status \in Policies!Statuses
    BY DEF PartsAssumption, Policies!VersionAssumption, Policies!Statuses
  <2>1. rules \in Policies!Rules /\ rules.by = e
    BY <1>2 DEF Policies!Rules, Editing
  <2>2. PICK n : n = [version |-> 1, status |-> status, rules |-> rules]
    OBVIOUS
  <2>3. n \in Policies!PolicyRow /\ n \in Policies!VersionRow /\ n.version = 1 /\ n.rules = rules /\ n.status = status
    BY <2>0, <2>1, <2>2 DEF Policies!PolicyRow, Policies!VersionRow
  <2>4. PICK k : k = [Policies!Idle EXCEPT !.op = "done", !.rules = rules, !.status = status]
    OBVIOUS
  <2>5. k \in EditRecord /\ k.op = "done" /\ k.status = status /\ k.seen = {}
    BY <2>0, <2>1, <2>4 DEF EditRecord, Policies!Idle
  <2>6. Informed(e, k)
    BY <2>5 DEF Informed, AtWork
  <2>7. policy = {} /\ versions = {}
    BY <1>2 DEF PolicyInv
  <2>8. policy' = {n} /\ versions' = {n} /\ edit' = [edit EXCEPT ![e] = k]
    BY <1>2, <2>2, <2>4, <2>7 DEF Policies!PersistVersion
  <2>9. approvals' \subseteq Policies!ApprovalRow
    <3>1. /\ [version |-> 1, status |-> "approved"] \in Policies!ApprovalRow
          /\ [version |-> 1, status |-> "pending"] \in Policies!ApprovalRow
      BY <2>0 DEF Policies!ApprovalRow
    <3>2. approvals \subseteq Policies!ApprovalRow
      BY DEF PolicyInv, Policies!TypeOK
    <3> QED BY <1>2, <3>1, <3>2
  <2>10. Policies!TypeOK' /\ Newest' /\ \A p, q \in policy' : p = q
    BY <2>3, <2>8, <2>9 DEF Policies!TypeOK, Newest
  <2>11. \A p \in policy' : p.rules.by = e /\ p.status = k.status
    BY <2>1, <2>3, <2>5, <2>8
  <2>12. stale' \in BOOLEAN /\ (stale => stale') /\ created'
    BY <1>2 DEF PolicyInv
  <2>13. PolicyInv'
    <3>1. \A p \in policy' : p.status \in PutInForce =>
              \/ p.rules.valid \/ stale'
              \/ \E q \in policy : q.rules = p.rules /\ q.status \in PutInForce
              \/ p.rules.by = e /\ k.op = "done" /\ k.status \in PutInForce
      BY <2>5, <2>11
    <3>2. created' \in BOOLEAN /\ (~created' => policy' = {} /\ versions' = {})
      BY <1>2
    <3> QED BY <2>5, <2>6, <2>7, <2>8, <2>10, <2>12, <3>1, <3>2, EditKeepsPolicies
  <2>14. VersionsKept
    BY <2>7 DEF VersionsKept
  <2> QED BY <2>13, <2>14
<1>3. ASSUME NEW e \in Editing, Policies!Create(e) PROVE Kept
  <2>1. PICK valid \in BOOLEAN, status \in {"published", "draft", "active"} :
           Policies!Create(e)!(valid, status)
    BY <1>3 DEF Policies!Create
  <2> QED BY <1>2, <2>1 DEF Policies!PersistApproval
<1>4. ASSUME NEW e \in Editing, Policies!Update(e) PROVE Kept
  <2>1. PICK valid \in BOOLEAN, given \in {None, "published", "draft"} :
           Policies!Read(e, "update", [by |-> e, valid |-> valid], given)
    BY <1>4 DEF Policies!Update
  <2>2. PICK rules : rules = [by |-> e, valid |-> valid]
    OBVIOUS
  <2>3. rules \in Policies!Rules /\ rules.by = e
    BY <2>2 DEF Policies!Rules, Editing
  <2>4. given \in Policies!Statuses \union {None} /\ "update" \in AtWork \ {"rollback"}
    BY DEF Policies!Statuses, AtWork
  <2> QED BY <2>1, <2>2, <2>3, <2>4, ReadKeepsPolicies
<1>5. ASSUME NEW e \in Editing, Policies!CommitUpdate(e) PROVE Kept
  <2>0. edit[e].op = "update" /\ edit[e].op \in AtWork
    BY <1>5 DEF Policies!CommitUpdate, AtWork
  <2>1. PICK s \in Policies!PolicyRow : s = Policies!Seen(e) /\ edit[e].seen = {s}
    BY <2>0, SeenRow
  <2>2. s.status \in Policies!Statuses /\ edit[e] \in EditRecord /\ Informed(e, edit[e])
    BY DEF PolicyInv, Policies!PolicyRow
  <2>3. PICK status : status = Policies!NewStatus(e)
    OBVIOUS
  <2>4. status \in Policies!Statuses
    BY <2>1, <2>2, <2>3 DEF Policies!NewStatus, EditRecord
  <2>5. PICK k \in EditRecord : /\ k = [edit[e] EXCEPT !.op = "done", !.status = status]
                                /\ k.op = "done" /\ k.status = status /\ Informed(e, k)
    BY <2>4, Ended
  <2>6. edit[e].rules \in Policies!Rules /\ edit[e].rules.by = e
    BY <2>0, <2>2 DEF Informed
  <2>7. edit' = [edit EXCEPT ![e] = k]
    BY <1>5, <2>3, <2>5 DEF Policies!CommitUpdate, PolicyInv
  <2>8. PICK approval \in {"pending", "approved"} :
           approval = IF status = "published" THEN "approved" ELSE "pending"
    OBVIOUS
  <2>9. PICK v : v = Policies!Seen(e).version + 1
    OBVIOUS
  <2>10. PICK rules : rules = edit[e].rules
    OBVIOUS
  <2>11. /\ v <= MaxVersion /\ stale' = (stale \/ edit[e].seen # policy) /\ UNCHANGED created
         /\ IF policy = {} THEN Policies!Fails
            ELSE /\ Policies!Store([version |-> v, status |-> status, rules |-> rules])
                 /\ Policies!PersistVersion(v, status, rules)
                 /\ Policies!PersistApproval(v, approval)
    BY <1>5, <2>3, <2>8, <2>9, <2>10 DEF Policies!CommitUpdate
  <2> QED BY <2>0, <2>4, <2>5, <2>6, <2>7, <2>9, <2>10, <2>11, NextVersionKeepsPolicies
<1>6. ASSUME NEW e \in Editing, Policies!Publish(e) PROVE Kept
  <2>1. "publish" \in AtWork \ {"rollback"} /\ None \in Policies!Rules \union {None}
        /\ None \in Policies!Statuses \union {None}
    BY DEF AtWork
  <2> QED BY <1>6, <2>1, ReadKeepsPolicies DEF Policies!Publish
<1>7. ASSUME NEW e \in Editing, \/ Policies!Approve(e) \/ Policies!Reject(e) \/ Policies!Archive(e) PROVE Kept
  <2>1. PICK op \in {"approve", "reject", "archive"} : Policies!Read(e, op, None, None)
    BY <1>7 DEF Policies!Approve, Policies!Reject, Policies!Archive
  <2>2. op \in AtWork \ {"rollback"} /\ op # "update" /\ op # "publish"
        /\ None \in Policies!Rules \union {None} /\ None \in Policies!Statuses \union {None}
    BY DEF AtWork
  <2> QED BY <2>1, <2>2, ReadKeepsPolicies
<1>8. ASSUME NEW e \in Editing, Policies!CommitPublish(e) PROVE Kept
  <2>0. edit[e].op = "publish" /\ edit[e].op \in AtWork
    BY <1>8 DEF Policies!CommitPublish, AtWork
  <2>1. PICK s \in Policies!PolicyRow : s = Policies!Seen(e) /\ edit[e].seen = {s} /\ s.rules.valid
    BY <2>0, SeenRow
  <2>2. PICK k \in EditRecord : /\ k = [edit[e] EXCEPT !.op = "done"] /\ k.op = "done" /\ Informed(e, k)
    BY EndedAsIs
  <2>3. /\ edit' = [edit EXCEPT ![e] = k] /\ stale' = (stale \/ edit[e].seen # policy) /\ UNCHANGED created
    BY <1>8, <2>2 DEF Policies!CommitPublish, Policies!Ends, PolicyInv
  <2>4. /\ stale' \in BOOLEAN /\ (stale => stale')
        /\ \A p \in policy : ~stale' => s = p
        /\ s.version \in 1..MaxVersion /\ s.rules \in Policies!Rules
    BY <2>1, <2>3, CommitFacts
  <2>5. CASE policy = {}
    BY <1>8, <2>0, <2>2, <2>3, <2>4, <2>5, FailedKeepsPolicies DEF Policies!CommitPublish
  <2>6. CASE policy # {}
    <3>1. PICK p \in policy : TRUE
      BY <2>6
    <3>2. policy = {p} /\ p \in Policies!PolicyRow
      BY DEF PolicyInv, Policies!TypeOK
    <3>3. PICK n : n = [p EXCEPT !.status = "published"]
      OBVIOUS
    <3>4. n \in Policies!PolicyRow /\ n.rules = p.rules /\ n.version = p.version
      BY <3>2, <3>3 DEF Policies!PolicyRow, Policies!Statuses
    <3>5. /\ policy' = {n} /\ Policies!PersistVersion(s.version, "published", s.rules)
          /\ Policies!PersistApproval(s.version, "approved")
      BY <1>8, <2>1, <2>6, <3>2, <3>3 DEF Policies!CommitPublish
    <3>6. approvals' \subseteq Policies!ApprovalRow
      BY <2>4, <3>5, ApprovalsKeepType
    <3>7. "published" \in Policies!Statuses
      BY DEF Policies!Statuses
    <3>8. Wrote(e, k, p, n, s.version, "published", s.rules)
      BY <2>0, <2>1, <2>2, <2>3, <2>4, <3>1, <3>4, <3>5, <3>6, <3>7 DEF Wrote
    <3> QED BY <3>8, WriteKeepsPolicies
  <2> QED BY <2>5, <2>6
<1>9. ASSUME NEW e \in Editing, Policies!CommitApprove(e) PROVE Kept
  <2>0. edit[e].op = "approve" /\ edit[e].op \in AtWork
    BY <1>9 DEF Policies!CommitApprove, AtWork
  <2>1. PICK s \in Policies!PolicyRow : s = Policies!Seen(e) /\ edit[e].seen = {s}
    BY <2>0, SeenRow
  <2>2. PICK k \in EditRecord : /\ k = [edit[e] EXCEPT !.op = "done"] /\ k.op = "done" /\ Informed(e, k)
    BY EndedAsIs
  <2>3. /\ edit' = [edit EXCEPT ![e] = k] /\ stale' = (stale \/ edit[e].seen # policy) /\ UNCHANGED created
    BY <1>9, <2>2 DEF Policies!CommitApprove, Policies!Ends, PolicyInv
  <2>4. /\ stale' \in BOOLEAN /\ (stale => stale')
        /\ \A p \in policy : ~stale' => s = p
        /\ s.version \in 1..MaxVersion /\ s.rules \in Policies!Rules
    BY <2>1, <2>3, CommitFacts
  <2>5. CASE policy = {}
    BY <1>9, <2>0, <2>2, <2>3, <2>4, <2>5, FailedKeepsPolicies DEF Policies!CommitApprove
  <2>6. CASE policy # {}
    <3>1. PICK p \in policy : TRUE
      BY <2>6
    <3>2. policy = {p} /\ p \in Policies!PolicyRow
      BY DEF PolicyInv, Policies!TypeOK
    <3>5. /\ policy' = {p} /\ Policies!PersistVersion(s.version, "approved", s.rules)
          /\ Policies!PersistApproval(s.version, "approved")
      BY <1>9, <2>1, <2>6, <3>2 DEF Policies!CommitApprove
    <3>6. approvals' \subseteq Policies!ApprovalRow
      BY <2>4, <3>5, ApprovalsKeepType
    <3>8. Wrote(e, k, p, p, s.version, "approved", s.rules)
      BY <2>0, <2>1, <2>2, <2>3, <2>4, <3>1, <3>2, <3>5, <3>6 DEF Wrote
    <3> QED BY <3>8, WriteKeepsPolicies
  <2> QED BY <2>5, <2>6
<1>10. ASSUME NEW e \in Editing, Policies!CommitReject(e) PROVE Kept
  <2>1. PICK k \in EditRecord : /\ k = [edit[e] EXCEPT !.op = "done"] /\ k.op = "done" /\ Informed(e, k)
    BY EndedAsIs
  <2>2. /\ edit' = [edit EXCEPT ![e] = k] /\ edit[e].op # "done"
        /\ UNCHANGED <<policy, versions, created, stale>>
    BY <1>10, <2>1 DEF Policies!CommitReject, PolicyInv
  <2>3. approvals' \subseteq Policies!ApprovalRow
    BY <1>10, ApprovalsKeepType DEF Policies!CommitReject, PolicyInv, Policies!TypeOK
  <2>4. stale' \in BOOLEAN /\ (stale => stale')
    BY <2>2 DEF PolicyInv
  <2> QED BY <2>1, <2>2, <2>3, <2>4, LookKeepsPolicies
<1>11. ASSUME NEW e \in Editing, Policies!CommitArchive(e) PROVE Kept
  <2>1. PICK k \in EditRecord : /\ k = [edit[e] EXCEPT !.op = "done"] /\ k.op = "done" /\ Informed(e, k)
    BY EndedAsIs
  <2>2. /\ edit' = [edit EXCEPT ![e] = k] /\ edit[e].op # "done" /\ UNCHANGED <<approvals, created>>
        /\ stale' = (stale \/ edit[e].seen # policy)
        /\ policy' = {[p EXCEPT !.status = "archived"] : p \in policy}
        /\ versions' = {IF w.version = Policies!Seen(e).version THEN [w EXCEPT !.status = "archived"]
                        ELSE w : w \in versions}
    BY <1>11, <2>1 DEF Policies!CommitArchive, Policies!Ends, PolicyInv
  <2>3. stale' \in BOOLEAN /\ (stale => stale') /\ created' \in BOOLEAN
    BY <2>2 DEF PolicyInv
  <2>4. \A p \in policy' : \E q \in policy : /\ p \in Policies!PolicyRow /\ p.status = "archived"
                                            /\ p.rules = q.rules /\ p.version = q.version
    <3> SUFFICES ASSUME NEW p \in policy' PROVE \E q \in policy : /\ p \in Policies!PolicyRow /\ p.status = "archived"
                                            /\ p.rules = q.rules /\ p.version = q.version
      OBVIOUS
    <3>1. PICK q \in policy : p = [q EXCEPT !.status = "archived"]
      BY <2>2
    <3>2. q \in Policies!PolicyRow
      BY DEF PolicyInv, Policies!TypeOK
    <3> QED BY <3>1, <3>2 DEF Policies!PolicyRow, Policies!Statuses
  <2>5. \A p, q \in policy' : p = q
    BY <2>2 DEF PolicyInv
  <2>6. \A w \in versions' : \E x \in versions : /\ w \in Policies!VersionRow /\ w.version = x.version
                                                 /\ w.rules = x.rules
                                                 /\ \/ w = x /\ x.version # Policies!Seen(e).version
                                                    \/ /\ w = [x EXCEPT !.status = "archived"]
                                                       /\ x.version = Policies!Seen(e).version
    <3> SUFFICES ASSUME NEW w \in versions'
                 PROVE  \E x \in versions : /\ w \in Policies!VersionRow /\ w.version = x.version
                                            /\ w.rules = x.rules
                                            /\ \/ w = x /\ x.version # Policies!Seen(e).version
                                               \/ /\ w = [x EXCEPT !.status = "archived"]
                                                  /\ x.version = Policies!Seen(e).version
      OBVIOUS
    <3>1. PICK x \in versions : w = IF x.version = Policies!Seen(e).version THEN [x EXCEPT !.status = "archived"] ELSE x
      BY <2>2
    <3>2. x \in Policies!VersionRow
      BY DEF PolicyInv, Policies!TypeOK
    <3> QED BY <3>1, <3>2 DEF Policies!VersionRow, Policies!Statuses
  <2>7. \A w, x \in versions' : w.version = x.version => w = x
    BY <2>6 DEF PolicyInv, Policies!TypeOK
  <2>8. Policies!TypeOK'
    BY <2>2, <2>4, <2>6, <2>7 DEF Policies!TypeOK, PolicyInv
  <2>9. ~stale' => Newest'
    BY <2>2, <2>4, <2>6 DEF PolicyInv, Newest
  <2>10. ~created' => policy' = {} /\ versions' = {}
    BY <2>2 DEF PolicyInv
  <2>11. \A p \in policy' : p.status \notin PutInForce
    BY <2>4 DEF PutInForce
  <2>12. PolicyInv'
    BY <2>1, <2>2, <2>3, <2>5, <2>8, <2>9, <2>10, <2>11, EditKeepsPolicies
  <2>13. VersionsKept
    BY <2>6 DEF VersionsKept, PolicyInv, Policies!TypeOK
  <2> QED BY <2>12, <2>13
<1>12. ASSUME NEW e \in Editing, Policies!Rollback(e) PROVE Kept
  <2>1. PICK w \in versions : Policies!Rollback(e)!(w)
    BY <1>12 DEF Policies!Rollback
  <2>2. w \in Policies!VersionRow /\ w.rules \in Policies!Rules
    BY DEF PolicyInv, Policies!TypeOK, Policies!VersionRow
  <2>3. PICK k : k = [Policies!Idle EXCEPT !.op = "target", !.target = {w}, !.rules = w.rules]
    OBVIOUS
  <2>4. k \in EditRecord /\ k.op = "target" /\ k.seen = {} /\ k.rules = w.rules
    BY <2>2, <2>3 DEF EditRecord, Policies!Idle
  <2>5. w.rules.valid /\ edit[e].op # "done" /\ edit' = [edit EXCEPT ![e] = k]
        /\ UNCHANGED <<policy, versions, approvals, created, stale>>
    BY <2>1, <2>3
  <2>6. Informed(e, k)
    BY <2>2, <2>4, <2>5 DEF Informed, AtWork
  <2>7. approvals' \subseteq Policies!ApprovalRow /\ stale' \in BOOLEAN /\ (stale => stale')
    BY <2>5 DEF PolicyInv, Policies!TypeOK
  <2> QED BY <2>4, <2>5, <2>6, <2>7, LookKeepsPolicies
<1>13. ASSUME NEW e \in Editing, Policies!ReadCurrent(e) PROVE Kept
  <2>0. edit[e] \in EditRecord /\ Informed(e, edit[e]) /\ edit[e].op = "target"
    BY <1>13 DEF PolicyInv, Policies!ReadCurrent
  <2>1. PICK k : k = [edit[e] EXCEPT !.op = IF policy = {} THEN "done" ELSE "rollback", !.seen = policy]
    OBVIOUS
  <2>2. /\ k \in EditRecord /\ k.op \in {"done", "rollback"} /\ (k.op = "rollback" => policy # {})
        /\ k.seen = policy /\ k.rules = edit[e].rules
    BY <2>0, <2>1 DEF EditRecord, PolicyInv, Policies!TypeOK
  <2>3. edit' = [edit EXCEPT ![e] = k] /\ UNCHANGED <<policy, versions, approvals, created, stale>>
    BY <1>13, <2>1 DEF Policies!ReadCurrent, PolicyInv
  <2>4. Informed(e, k)
    BY <2>0, <2>2 DEF Informed, AtWork, PolicyInv
  <2>5. approvals' \subseteq Policies!ApprovalRow /\ stale' \in BOOLEAN /\ (stale => stale') /\ edit[e].op # "done"
    BY <2>0, <2>3 DEF PolicyInv, Policies!TypeOK
  <2> QED BY <2>2, <2>3, <2>4, <2>5, LookKeepsPolicies
<1>14. ASSUME NEW e \in Editing, Policies!CommitRollback(e) PROVE Kept
  <2>0. edit[e].op = "rollback" /\ edit[e].op \in AtWork
    BY <1>14 DEF Policies!CommitRollback, AtWork
  <2>1. edit[e] \in EditRecord /\ Informed(e, edit[e])
    BY DEF PolicyInv
  <2>2. PICK k \in EditRecord : /\ k = [edit[e] EXCEPT !.op = "done"] /\ k.op = "done" /\ Informed(e, k)
    BY EndedAsIs
  <2>3. PICK rules : rules = edit[e].rules
    OBVIOUS
  <2>4. rules \in Policies!Rules /\ rules.valid
    BY <2>0, <2>1, <2>3 DEF Informed
  <2>5. PICK v : v = Policies!Seen(e).version + 1
    OBVIOUS
  <2>6. /\ edit' = [edit EXCEPT ![e] = k]
        /\ v <= MaxVersion /\ stale' = (stale \/ edit[e].seen # policy) /\ UNCHANGED created
        /\ IF policy = {} THEN Policies!Fails
            ELSE /\ Policies!Store([version |-> v, status |-> "published", rules |-> rules])
                 /\ Policies!PersistVersion(v, "published", rules)
                 /\ Policies!PersistApproval(v, "approved")
    BY <1>14, <2>2, <2>3, <2>5 DEF Policies!CommitRollback, Policies!Ends, PolicyInv
  <2>7. "published" \in Policies!Statuses /\ "approved" \in {"pending", "approved"}
    BY DEF Policies!Statuses
  <2> QED BY <2>0, <2>2, <2>4, <2>5, <2>6, <2>7, NextVersionKeepsPolicies
<1>15. ASSUME NEW e \in Editing, Policies!Delete(e) PROVE Kept
  <2>1. PICK k \in EditRecord : /\ k = [edit[e] EXCEPT !.op = "done"] /\ k.op = "done" /\ Informed(e, k)
    BY EndedAsIs
  <2>2. /\ edit' = [edit EXCEPT ![e] = k] /\ edit[e].op # "done" /\ UNCHANGED <<created, stale>>
        /\ policy' = {} /\ versions' = {} /\ approvals' = {}
    BY <1>15, <2>1 DEF Policies!Delete, PolicyInv
  <2>3. Policies!TypeOK' /\ Newest'
    BY <2>2 DEF Policies!TypeOK, Newest
  <2>4. stale' \in BOOLEAN /\ (stale => stale') /\ created' \in BOOLEAN
    BY <2>2 DEF PolicyInv
  <2>5. PolicyInv'
    BY <2>1, <2>2, <2>3, <2>4, EditKeepsPolicies
  <2> QED BY <2>2, <2>5 DEF VersionsKept
<1> HIDE DEF Kept
<1>16. (\E e \in Editing : \/ Policies!Create(e) \/ Policies!Update(e) \/ Policies!CommitUpdate(e)
                          \/ Policies!Publish(e) \/ Policies!CommitPublish(e) \/ Policies!Approve(e)
                          \/ Policies!CommitApprove(e) \/ Policies!Reject(e) \/ Policies!CommitReject(e)
                          \/ Policies!Archive(e) \/ Policies!CommitArchive(e) \/ Policies!Rollback(e)
                          \/ Policies!ReadCurrent(e) \/ Policies!CommitRollback(e) \/ Policies!Delete(e)) => Kept
  BY <1>3, <1>4, <1>5, <1>6, <1>7, <1>8, <1>9, <1>10, <1>11, <1>12, <1>13, <1>14, <1>15
<1>17. Policies!Next => Kept
  BY <1>16 DEF Policies!Next, Editing
<1>18. Policies!Next \/ UNCHANGED Policies!vars
  OBVIOUS
<1> QED BY <1>1, <1>17, <1>18 DEF Kept

LEMMA PoliciesMove == Spec => Policies!Spec
<1>1. Init => Policies!Init
  BY DEF Init
<1>2. [Next]_vars => [Policies!Next]_Policies!vars
  BY DEF Next, KeyStep, CredentialStep, IsolationStep, PolicyStep, BundleStep, DocumentStep, ChainStep,
         vars, policyVars, Policies!vars
<1> QED BY <1>1, <1>2, PTL DEF Spec, Policies!Spec

LEMMA PolicyInvHolds == Spec => []PolicyInv
<1>1. Policies!Init => PolicyInv
  <2> SUFFICES ASSUME Policies!Init PROVE PolicyInv
    OBVIOUS
  <2>1. Policies!Idle \in EditRecord /\ Policies!Idle.op = "none" /\ Policies!Idle.seen = {}
    BY DEF Policies!Idle, EditRecord
  <2>2. edit = [e \in Editing |-> Policies!Idle]
    BY DEF Policies!Init, Editing
  <2>3. edit \in [Editing -> EditRecord] /\ \A e \in Editing : Informed(e, edit[e])
    BY <2>1, <2>2 DEF Informed, AtWork
  <2> QED BY <2>3 DEF Policies!Init, PolicyInv, Policies!TypeOK, Newest, Policies!InForce
<1>2. PolicyInv /\ [Policies!Next]_Policies!vars => PolicyInv'
  BY PolicyStepKeepsInv, PartsAssumption
<1> QED BY <1>1, <1>2, PoliciesMove, PTL DEF Policies!Spec

(***************************************************************************)
(* Rules in force have been validated, or the edit that wrote them put     *)
(* them in force itself, unless an edit has written over what it had not   *)
(* read: publish_policy validates what it reads and publishes what there   *)
(* is (main.py 3054-3364).                                                 *)
(***************************************************************************)
THEOREM InForceHolds == Spec => []InForceIsChecked
<1>1. PolicyInv => InForceIsChecked
  BY DEF PolicyInv, InForceIsChecked, Policies!InForceIsChecked, Meant, PutInForce
<1> QED BY <1>1, PolicyInvHolds, PTL

(***************************************************************************)
(* The rules of a version never change, unless an edit has written over    *)
(* what it had not read: the row is of the newest version, so an update or *)
(* a rollback makes a new one, and publish and approve write the rules the *)
(* version has (main.py 2509-2566, 3054-3364).                             *)
(***************************************************************************)
THEOREM VersionsHold == Spec => VersionsStay
<1>1. PolicyInv /\ [Policies!Next]_Policies!vars => [VersionsKept]_Policies!vars
  BY PolicyStepKeepsInv, PartsAssumption
<1>2. [][VersionsKept]_Policies!vars => VersionsStay
  <2>1. [VersionsKept]_Policies!vars =>
           [\A v \in versions, w \in versions' : v.version = w.version => v.rules = w.rules \/ stale']_Policies!vars
    BY DEF VersionsKept
  <2> QED BY <2>1, PTL DEF VersionsStay, Policies!VersionsStay
<1> QED BY <1>1, <1>2, PolicyInvHolds, PoliciesMove, PTL DEF Policies!Spec

\* The list and the row that VersionRegister is about.
Numbers == {w.version : w \in versions}
RulesOf(n) == (CHOOSE w \in versions : w.version = n).rules
History == [n \in Numbers |-> RulesOf(n)]
Content(p) == [version |-> p.version, rules |-> p.rules]
Current == {Content(p) : p \in policy}

\* The versions are numbered from one to the row's; without a row there is none.
Numbered == IF policy = {} THEN versions = {} ELSE \A p \in policy : Numbers = 1..p.version
RegisterInv == ~stale => Numbered

AddRules(r) == History' = Append(History, r) /\ Current' = {[version |-> Len(History) + 1, rules |-> r]}
Emptied == History' = <<>> /\ Current' = {}
Same == History' = History /\ Current' = Current
RegisterStep == \/ stale' = TRUE
                \/ UNCHANGED stale /\ (Same \/ Emptied \/ \E r \in Policies!Rules : AddRules(r))

\* Each version has its rules in the history.
RulesKept == \A w \in versions : w.version \in Numbers /\ History[w.version] = w.rules
LEMMA RulesAtVersion == PolicyInv => RulesKept
<1> SUFFICES ASSUME PolicyInv, NEW w \in versions
             PROVE  w.version \in Numbers /\ History[w.version] = w.rules
  BY DEF RulesKept
<1>1. w.version \in Numbers
  BY DEF Numbers
<1>2. \E x \in versions : x.version = w.version
  OBVIOUS
<1>3. PICK x : x = CHOOSE y \in versions : y.version = w.version
  OBVIOUS
<1>4. x \in versions /\ x.version = w.version
  BY <1>2, <1>3
<1>5. x = w
  BY <1>4 DEF PolicyInv, Policies!TypeOK
<1>6. RulesOf(w.version) = w.rules
  BY <1>3, <1>5 DEF RulesOf
<1> QED BY <1>1, <1>6 DEF History

\* What no step has changed: the numbers and rules of the versions and of the row.
LEMMA SameRegister ==
    ASSUME PolicyInv, PolicyInv', Numbers' = Numbers, UNCHANGED stale,
           \A w \in versions' : \E x \in versions : x.version = w.version /\ x.rules = w.rules,
           \A p \in policy' : \E q \in policy : Content(p) = Content(q),
           policy # {} => policy' # {}
    PROVE  RegisterStep /\ (RegisterInv => RegisterInv')
<1>0. RulesKept /\ RulesKept'
  BY RulesAtVersion, PTL
<1>1. \A w \in versions : w.version \in Numbers /\ History[w.version] = w.rules
  BY <1>0 DEF RulesKept
<1>2. \A w \in versions' : w.version \in Numbers' /\ History'[w.version] = w.rules
  BY <1>0 DEF RulesKept
<1>3. \A n \in Numbers : History'[n] = History[n]
  <2> SUFFICES ASSUME NEW n \in Numbers PROVE History'[n] = History[n]
    OBVIOUS
  <2>1. n \in Numbers'
    OBVIOUS
  <2>2. PICK w \in versions' : w.version = n
    BY <2>1 DEF Numbers
  <2>3. PICK x \in versions : x.version = n /\ x.rules = w.rules
    BY <2>2
  <2> QED BY <1>1, <1>2, <2>2, <2>3
<1>4. History' = History
  BY <1>3 DEF History
<1>5. \A p, q \in policy : p = q
  BY DEF PolicyInv
<1>6. Current' = Current
  <2>1. \A c \in Current' : c \in Current
    BY DEF Current
  <2>2. \A q \in policy : Content(q) \in Current'
    <3> SUFFICES ASSUME NEW q \in policy PROVE Content(q) \in Current'
      OBVIOUS
    <3>1. PICK p \in policy' : TRUE
      OBVIOUS
    <3>2. Content(p) = Content(q)
      BY <1>5
    <3> QED BY <3>2 DEF Current, Content
  <2> QED BY <2>1, <2>2 DEF Current
<1>7. ASSUME RegisterInv PROVE RegisterInv'
  <2> SUFFICES ASSUME ~stale' PROVE Numbered'
    BY DEF RegisterInv
  <2>1. Numbered
    BY <1>7 DEF RegisterInv
  <2>2. CASE policy = {}
    BY <2>1, <2>2 DEF Numbered, Numbers
  <2>3. CASE policy # {}
    <3>1. \A p \in policy' : \E q \in policy : p.version = q.version
      BY DEF Content
    <3> QED BY <2>1, <2>3, <3>1 DEF Numbered
  <2> QED BY <2>2, <2>3
<1> QED BY <1>4, <1>6, <1>7 DEF RegisterStep, Same

\* A version is added.
LEMMA AddedToRegister ==
    ASSUME PartsAssumption, PolicyInv, PolicyInv', ~stale, Numbered, UNCHANGED stale,
           NEW v \in 1..MaxVersion, NEW status \in Policies!Statuses, NEW rules \in Policies!Rules,
           IF policy = {} THEN v = 1 ELSE \A p \in policy : v = p.version + 1,
           policy' = {[version |-> v, status |-> status, rules |-> rules]},
           Policies!PersistVersion(v, status, rules)
    PROVE  RegisterStep /\ RegisterInv'
<1>0. RulesKept /\ RulesKept'
  BY RulesAtVersion, PTL
<1>1. /\ \A w \in versions : w.version \in Numbers /\ History[w.version] = w.rules
      /\ \A w \in versions' : w.version \in Numbers' /\ History'[w.version] = w.rules
  BY <1>0 DEF RulesKept
<1>2. v \in Nat \ {0} /\ Numbers = 1..(v - 1)
  <2>1. CASE policy = {}
    BY <2>1 DEF Numbered, Numbers
  <2>2. CASE policy # {}
    <3>1. PICK p \in policy : TRUE
      BY <2>2
    <3>2. v = p.version + 1 /\ Numbers = 1..p.version
      BY <2>2 DEF Numbered
    <3>3. p.version \in Nat
      BY DEF PolicyInv, Policies!TypeOK, Policies!PolicyRow
    <3> QED BY <3>2, <3>3
  <2> QED BY <2>1, <2>2
<1>3. PICK n : n = [version |-> v, status |-> status, rules |-> rules]
  OBVIOUS
<1>4. n.version = v /\ n.rules = rules
  BY <1>3
<1>5. versions' = {w \in versions : w.version # v} \union {n} /\ policy' = {n}
  BY <1>3 DEF Policies!PersistVersion
<1>6. \A w \in versions : w.version \in 1..(v - 1)
  BY <1>1, <1>2
<1>7. versions' = versions \union {n}
  BY <1>2, <1>5, <1>6
<1>8. Numbers' = 1..v
  <2>1. Numbers' = Numbers \union {v}
    BY <1>4, <1>7 DEF Numbers
  <2> QED BY <1>2, <2>1
<1>9. History = [i \in 1..(v - 1) |-> RulesOf(i)] /\ Len(History) = v - 1
  BY <1>2 DEF History
<1>10. \A i \in 1..(v - 1) : History'[i] = History[i]
  <2> SUFFICES ASSUME NEW i \in 1..(v - 1) PROVE History'[i] = History[i]
    OBVIOUS
  <2>1. PICK w \in versions : w.version = i
    BY <1>2 DEF Numbers
  <2>2. w \in versions'
    BY <1>7
  <2> QED BY <1>1, <2>1, <2>2
<1>11. History'[v] = rules
  BY <1>1, <1>4, <1>7
<1>12. History' = Append(History, rules)
  <2>1. History' = [i \in 1..v |-> History'[i]]
    BY <1>8 DEF History
  <2>2. \A i \in 1..v : History'[i] = IF i = v THEN rules ELSE History[i]
    BY <1>2, <1>10, <1>11
  <2>3. Append(History, rules) = [i \in 1..v |-> IF i = v THEN rules ELSE History[i]]
    BY <1>2, <1>9
  <2> QED BY <2>1, <2>2, <2>3
<1>13. Current' = {[version |-> Len(History) + 1, rules |-> rules]}
  BY <1>2, <1>4, <1>5, <1>9 DEF Current, Content
<1>14. AddRules(rules)
  BY <1>12, <1>13 DEF AddRules
<1>15. Numbered'
  BY <1>4, <1>5, <1>8 DEF Numbered
<1> QED BY <1>14, <1>15 DEF RegisterStep, RegisterInv

\* The version that is the row's is written again, with the rules it has.
LEMMA RewrittenIsSame ==
    ASSUME PolicyInv, PolicyInv', ~stale, Numbered, UNCHANGED stale, NEW s, policy = {s},
           NEW status \in Policies!Statuses \union {"approved"},
           Policies!PersistVersion(s.version, status, s.rules),
           policy' # {}, \A p \in policy' : Content(p) = Content(s)
    PROVE  RegisterStep /\ RegisterInv'
<1>1. s.version \in 1..MaxVersion /\ s.rules \in Policies!Rules
  BY DEF PolicyInv, Policies!TypeOK, Policies!PolicyRow
<1>2. PICK n : n = [version |-> s.version, status |-> status, rules |-> s.rules]
  OBVIOUS
<1>3. n.version = s.version /\ n.rules = s.rules
  BY <1>2
<1>4. versions' = {w \in versions : w.version # s.version} \union {n}
  BY <1>2 DEF Policies!PersistVersion
<1>5. Numbers = 1..s.version
  BY DEF Numbered
<1>6. PICK x \in versions : x.version = s.version
  <2>1. s.version \in Numbers
    BY <1>1, <1>5
  <2> QED BY <2>1 DEF Numbers
<1>7. x.rules = s.rules
  BY <1>6 DEF PolicyInv, Newest
<1>8. \A w \in versions' : \E y \in versions : y.version = w.version /\ y.rules = w.rules
  BY <1>3, <1>4, <1>6, <1>7
<1>9. Numbers' = Numbers
  <2>1. \A k \in Numbers' : k \in Numbers
    BY <1>8 DEF Numbers
  <2>2. \A w \in versions : w.version \in Numbers'
    BY <1>3, <1>4 DEF Numbers
  <2> QED BY <2>1, <2>2 DEF Numbers
<1>10. \A p \in policy' : \E q \in policy : Content(p) = Content(q)
  OBVIOUS
<1> QED BY <1>8, <1>9, <1>10, SameRegister DEF RegisterInv

\* An edit that adds the version after the one it has read, which is still the row's.
LEMMA EditAddsVersion ==
    ASSUME PartsAssumption, PolicyInv, PolicyInv', RegisterInv, NEW e \in Editing, edit[e].op \in AtWork,
           ~stale', stale' = (stale \/ edit[e].seen # policy),
           NEW v, v = Policies!Seen(e).version + 1, v <= MaxVersion,
           NEW status \in Policies!Statuses, NEW rules \in Policies!Rules,
           policy # {} => /\ Policies!Store([version |-> v, status |-> status, rules |-> rules])
                          /\ Policies!PersistVersion(v, status, rules)
    PROVE  RegisterStep /\ RegisterInv'
<1>1. PICK s \in Policies!PolicyRow : s = Policies!Seen(e) /\ edit[e].seen = {s}
  BY SeenRow
<1>2. stale \in BOOLEAN /\ stale' \in BOOLEAN
  BY DEF PolicyInv
<1>3. ~stale /\ UNCHANGED stale /\ policy = {s}
  BY <1>1, <1>2
<1>4. s.version \in 1..MaxVersion
  BY DEF Policies!PolicyRow
<1>5. v \in 1..MaxVersion /\ \A p \in policy : v = p.version + 1
  BY <1>1, <1>3, <1>4
<1>6. policy' = {[version |-> v, status |-> status, rules |-> rules]} /\ Policies!PersistVersion(v, status, rules)
  BY <1>3 DEF Policies!Store
<1>7. Numbered /\ policy # {}
  BY <1>3 DEF RegisterInv
<1> QED BY <1>3, <1>5, <1>6, <1>7, AddedToRegister

LEMMA PolicyStepIsRegister ==
    ASSUME PartsAssumption, PolicyInv, PolicyInv', RegisterInv, [Policies!Next]_Policies!vars
    PROVE  RegisterStep /\ RegisterInv'
<1> DEFINE Goal == RegisterStep /\ RegisterInv'
<1>0. CASE stale'
  BY <1>0 DEF RegisterStep, RegisterInv, PolicyInv
<1> SUFFICES ASSUME ~stale' PROVE Goal
  BY <1>0
<1>1. stale \in BOOLEAN /\ stale' \in BOOLEAN
  BY DEF PolicyInv
<1>2. ASSUME UNCHANGED <<policy, versions, stale>> PROVE Goal
  <2>1. Numbers' = Numbers
    BY <1>2 DEF Numbers
  <2>2. /\ \A w \in versions' : \E x \in versions : x.version = w.version /\ x.rules = w.rules
        /\ \A p \in policy' : \E q \in policy : Content(p) = Content(q)
        /\ policy # {} => policy' # {}
    BY <1>2
  <2> QED BY <1>2, <2>1, <2>2, SameRegister
<1>3. ASSUME NEW e \in Editing, Policies!Create(e) PROVE Goal
  <2>1. PICK valid \in BOOLEAN, status \in {"published", "draft", "active"} :
           Policies!Create(e)!(valid, status)
    BY <1>3 DEF Policies!Create
  <2>2. PICK rules : rules = [by |-> e, valid |-> valid]
    OBVIOUS
  <2>3. rules \in Policies!Rules
    BY <2>2 DEF Policies!Rules, Editing
  <2>4. /\ ~created /\ UNCHANGED stale
        /\ policy' = {[version |-> 1, status |-> status, rules |-> rules]}
        /\ Policies!PersistVersion(1, status, rules)
    BY <2>1, <2>2
  <2>5. policy = {} /\ versions = {} /\ ~stale
    BY <1>1, <2>4 DEF PolicyInv
  <2>6. Numbered
    BY <2>5 DEF Numbered
  <2>7. 1 \in 1..MaxVersion /\ status \in Policies!Statuses
    BY DEF PartsAssumption, Policies!VersionAssumption, Policies!Statuses
  <2> QED BY <2>3, <2>4, <2>5, <2>6, <2>7, AddedToRegister
<1>4. ASSUME NEW e \in Editing, Policies!CommitUpdate(e) PROVE Goal
  <2>0. edit[e].op = "update" /\ edit[e].op \in AtWork
    BY <1>4 DEF Policies!CommitUpdate, AtWork
  <2>1. PICK s \in Policies!PolicyRow : s = Policies!Seen(e) /\ edit[e].seen = {s}
    BY <2>0, SeenRow
  <2>2. s.status \in Policies!Statuses /\ edit[e] \in EditRecord /\ Informed(e, edit[e])
    BY DEF PolicyInv, Policies!PolicyRow
  <2>3. PICK status : status = Policies!NewStatus(e)
    OBVIOUS
  <2>4. status \in Policies!Statuses
    BY <2>1, <2>2, <2>3 DEF Policies!NewStatus, EditRecord
  <2>5. edit[e].rules \in Policies!Rules
    BY <2>0, <2>2 DEF Informed
  <2>6. PICK v : v = Policies!Seen(e).version + 1
    OBVIOUS
  <2>7. PICK rules : rules = edit[e].rules
    OBVIOUS
  <2>8. /\ v <= MaxVersion /\ stale' = (stale \/ edit[e].seen # policy)
        /\ policy # {} => /\ Policies!Store([version |-> v, status |-> status, rules |-> rules])
                          /\ Policies!PersistVersion(v, status, rules)
    BY <1>4, <2>3, <2>6, <2>7 DEF Policies!CommitUpdate
  <2> QED BY <2>0, <2>4, <2>5, <2>6, <2>7, <2>8, EditAddsVersion
<1>5. ASSUME NEW e \in Editing, Policies!CommitRollback(e) PROVE Goal
  <2>0. edit[e].op = "rollback" /\ edit[e].op \in AtWork
    BY <1>5 DEF Policies!CommitRollback, AtWork
  <2>1. PICK rules : rules = edit[e].rules
    OBVIOUS
  <2>2. rules \in Policies!Rules
    BY <2>0, <2>1 DEF PolicyInv, Informed
  <2>3. PICK v : v = Policies!Seen(e).version + 1
    OBVIOUS
  <2>4. /\ v <= MaxVersion /\ stale' = (stale \/ edit[e].seen # policy)
        /\ policy # {} => /\ Policies!Store([version |-> v, status |-> "published", rules |-> rules])
                          /\ Policies!PersistVersion(v, "published", rules)
    BY <1>5, <2>1, <2>3 DEF Policies!CommitRollback, Policies!Ends
  <2>5. "published" \in Policies!Statuses
    BY DEF Policies!Statuses
  <2> QED BY <2>0, <2>2, <2>3, <2>4, <2>5, EditAddsVersion
<1>6. ASSUME NEW e \in Editing, Policies!CommitPublish(e) \/ Policies!CommitApprove(e) PROVE Goal
  <2>0. edit[e].op \in AtWork /\ stale' = (stale \/ edit[e].seen # policy)
    BY <1>6 DEF Policies!CommitPublish, Policies!CommitApprove, Policies!Ends, AtWork
  <2>1. PICK s \in Policies!PolicyRow : s = Policies!Seen(e) /\ edit[e].seen = {s}
    BY <2>0, SeenRow
  <2>2. ~stale /\ UNCHANGED stale /\ policy = {s}
    BY <1>1, <2>0, <2>1
  <2>3. Numbered
    BY <2>2 DEF RegisterInv
  <2>4. PICK n : n = [s EXCEPT !.status = "published"]
    OBVIOUS
  <2>5. Content(n) = Content(s)
    BY <2>4 DEF Content, Policies!PolicyRow
  <2>6. CASE Policies!CommitPublish(e)
    <3>1. policy' = {n} /\ Policies!PersistVersion(s.version, "published", s.rules)
      BY <2>1, <2>2, <2>4, <2>6 DEF Policies!CommitPublish
    <3>2. "published" \in Policies!Statuses
      BY DEF Policies!Statuses
    <3> QED BY <2>2, <2>3, <2>5, <3>1, <3>2, RewrittenIsSame
  <2>7. CASE Policies!CommitApprove(e)
    <3>1. policy' = {s} /\ Policies!PersistVersion(s.version, "approved", s.rules)
      BY <2>1, <2>2, <2>7 DEF Policies!CommitApprove
    <3> QED BY <2>2, <2>3, <3>1, RewrittenIsSame
  <2> QED BY <1>6, <2>6, <2>7
<1>7. ASSUME NEW e \in Editing, Policies!CommitArchive(e) PROVE Goal
  <2>1. /\ stale' = (stale \/ edit[e].seen # policy)
        /\ policy' = {[p EXCEPT !.status = "archived"] : p \in policy}
        /\ versions' = {IF w.version = Policies!Seen(e).version THEN [w EXCEPT !.status = "archived"]
                        ELSE w : w \in versions}
    BY <1>7 DEF Policies!CommitArchive, Policies!Ends
  <2>2. UNCHANGED stale
    BY <1>1, <2>1
  <2>3. \A p \in policy' : \E q \in policy : Content(p) = Content(q)
    <3> SUFFICES ASSUME NEW p \in policy' PROVE \E q \in policy : Content(p) = Content(q)
      OBVIOUS
    <3>1. PICK q \in policy : p = [q EXCEPT !.status = "archived"]
      BY <2>1
    <3>2. q \in Policies!PolicyRow
      BY DEF PolicyInv, Policies!TypeOK
    <3> QED BY <3>1, <3>2 DEF Content, Policies!PolicyRow
  <2>4. PICK Archived : Archived = [w \in versions |-> IF w.version = Policies!Seen(e).version
                                                       THEN [w EXCEPT !.status = "archived"] ELSE w]
    OBVIOUS
  <2>5. \A w \in versions : Archived[w].version = w.version /\ Archived[w].rules = w.rules
    <3> SUFFICES ASSUME NEW w \in versions
                 PROVE  Archived[w].version = w.version /\ Archived[w].rules = w.rules
      OBVIOUS
    <3>1. w \in Policies!VersionRow
      BY DEF PolicyInv, Policies!TypeOK
    <3>2. Archived[w] = IF w.version = Policies!Seen(e).version THEN [w EXCEPT !.status = "archived"] ELSE w
      BY <2>4
    <3> QED BY <3>1, <3>2 DEF Policies!VersionRow
  <2>6. versions' = {Archived[w] : w \in versions}
    BY <2>1, <2>4
  <2>7. \A w \in versions' : \E x \in versions : x.version = w.version /\ x.rules = w.rules
    BY <2>5, <2>6
  <2>8. Numbers' = Numbers
    <3>1. \A k \in Numbers' : k \in Numbers
      BY <2>7 DEF Numbers
    <3>2. \A w \in versions : w.version \in Numbers'
      BY <2>5, <2>6 DEF Numbers
    <3> QED BY <3>1, <3>2 DEF Numbers
  <2>9. policy # {} => policy' # {}
    BY <2>1
  <2> QED BY <2>2, <2>3, <2>7, <2>8, <2>9, SameRegister
<1>8. ASSUME NEW e \in Editing, Policies!Delete(e) PROVE Goal
  <2>1. policy' = {} /\ versions' = {} /\ UNCHANGED stale
    BY <1>8 DEF Policies!Delete
  <2>2. Numbers' = {} /\ Current' = {}
    BY <2>1 DEF Numbers, Current
  <2>3. History' = <<>>
    BY <2>2 DEF History
  <2>4. Numbered'
    BY <2>1 DEF Numbered
  <2> QED BY <2>1, <2>2, <2>3, <2>4 DEF RegisterStep, Emptied, RegisterInv
<1>9. ASSUME NEW e \in Editing,
             \/ Policies!Update(e) \/ Policies!Publish(e) \/ Policies!Approve(e) \/ Policies!Reject(e)
             \/ Policies!Archive(e) \/ Policies!CommitReject(e) \/ Policies!Rollback(e) \/ Policies!ReadCurrent(e)
      PROVE  UNCHANGED <<policy, versions, stale>>
  <2>1. \A op, rules, status : Policies!Read(e, op, rules, status) => UNCHANGED <<policy, versions, stale>>
    BY DEF Policies!Read
  <2>2. \/ Policies!Publish(e) \/ Policies!Approve(e) \/ Policies!Reject(e) \/ Policies!Archive(e)
        => UNCHANGED <<policy, versions, stale>>
    BY <2>1 DEF Policies!Publish, Policies!Approve, Policies!Reject, Policies!Archive
  <2>3. Policies!Update(e) => UNCHANGED <<policy, versions, stale>>
    BY <2>1 DEF Policies!Update
  <2>4. Policies!CommitReject(e) \/ Policies!ReadCurrent(e) => UNCHANGED <<policy, versions, stale>>
    BY DEF Policies!CommitReject, Policies!ReadCurrent
  <2>5. Policies!Rollback(e) => UNCHANGED <<policy, versions, stale>>
    BY DEF Policies!Rollback
  <2> QED BY <1>9, <2>2, <2>3, <2>4, <2>5
<1>10. ASSUME UNCHANGED Policies!vars PROVE UNCHANGED <<policy, versions, stale>>
  BY <1>10 DEF Policies!vars
<1> HIDE DEF Goal
<1>11. ASSUME Policies!Next PROVE Goal
  <2>1. PICK e \in Editing :
           \/ Policies!Create(e) \/ Policies!Update(e) \/ Policies!CommitUpdate(e)
           \/ Policies!Publish(e) \/ Policies!CommitPublish(e) \/ Policies!Approve(e)
           \/ Policies!CommitApprove(e) \/ Policies!Reject(e) \/ Policies!CommitReject(e)
           \/ Policies!Archive(e) \/ Policies!CommitArchive(e) \/ Policies!Rollback(e)
           \/ Policies!ReadCurrent(e) \/ Policies!CommitRollback(e) \/ Policies!Delete(e)
    BY <1>11 DEF Policies!Next, Editing
  <2> QED BY <2>1, <1>2, <1>3, <1>4, <1>5, <1>6, <1>7, <1>8, <1>9
<1> QED BY <1>2, <1>10, <1>11

(***************************************************************************)
(* The versions are a register: an edit adds the rules that it brings, or  *)
(* that a rollback brings back, after the last, and the row is the last;   *)
(* unless an edit has written over what it had not read. Publish, approve  *)
(* and archive leave numbers and rules as they are, and delete takes all   *)
(* versions away (main.py 2509-2566, 2972-3364, 3522-3578).                *)
(***************************************************************************)
THEOREM RegisterHolds == Spec => RegisterSpec
<1>1. Policies!Init => Policies!Register!Init /\ RegisterInv
  <2> SUFFICES ASSUME Policies!Init PROVE Policies!Register!Init /\ RegisterInv
    OBVIOUS
  <2>1. policy = {} /\ versions = {} /\ stale = FALSE
    BY DEF Policies!Init
  <2>2. Numbers = {} /\ Current = {}
    BY <2>1 DEF Numbers, Current
  <2>3. History = <<>>
    BY <2>2 DEF History
  <2>4. Numbered
    BY <2>1 DEF Numbered
  <2> QED BY <2>1, <2>2, <2>3, <2>4
       DEF Policies!Register!Init, RegisterInv, History, Numbers, RulesOf, Current, Content
<1>2. PolicyInv /\ PolicyInv' /\ RegisterInv /\ [Policies!Next]_Policies!vars => RegisterStep /\ RegisterInv'
  BY PolicyStepIsRegister, PartsAssumption
<1>3. RegisterStep => [Policies!Register!Next]_Policies!Register!vars
  <2>1. Same /\ UNCHANGED stale => UNCHANGED Policies!Register!vars
    BY DEF Same, History, Numbers, RulesOf, Current, Content, Policies!Register!vars
  <2>2. Emptied => Policies!Register!Remove
    BY DEF Emptied, History, Numbers, RulesOf, Current, Content, Policies!Register!Remove
  <2>3. ASSUME NEW r \in Policies!Rules, AddRules(r) PROVE Policies!Register!Add(r)
    BY <2>3 DEF AddRules, History, Numbers, RulesOf, Current, Content, Policies!Register!Add
  <2> QED BY <2>1, <2>2, <2>3 DEF RegisterStep, Policies!Register!Next
<1> QED BY <1>1, <1>2, <1>3, PolicyInvHolds, PoliciesMove, PTL
        DEF Policies!Spec, RegisterSpec, Policies!RegisterSpec, Policies!Register!Spec

(***************************************************************************)
(* Documents.                                                              *)
(***************************************************************************)

Listed == Sizes \union {Documents!Unsized, Mock}
PassRecord == [pc : {"idle", "check", "mark", "lookup", "register", "resize", "fetch", "start", "save"},
               size : Listed, listed : BOOLEAN, doc : Nat, todo : SUBSET Nat,
               bytes : Sizes \union {Mock, None}]

\* The documents a pass works on are there, and a pass that judges has what it judges.
InPlace(k, ds) ==
    /\ k.pc \in {"resize", "fetch", "start", "save"} => k.doc \in DOMAIN ds
    /\ k.pc \in {"start", "save"} => k.bytes \in Sizes \union {Mock}
    /\ k.todo \subseteq DOMAIN ds

\* Alone, a pass registers the first document, and judges what it has recorded the size of.
Undisturbed(k, ds) ==
    /\ k.pc = "register" => ds = <<>>
    /\ k.pc = "save" => ds[k.doc].size = k.bytes

Registering == {p \in Pair : pass[p].pc = "register"}

OneVerdict(ds) == /\ Len(ds) <= 1
                  /\ \A d \in DOMAIN ds : ds[d].status \in Documents!Judged => ds[d].size = ds[d].judged

\* Once there is a document, only the passes that were about to register one add another.
DocumentInv ==
    /\ file \subseteq Sizes \union {Mock} /\ docs \in Seq(Documents!Document)
    /\ pass \in [Pair -> PassRecord] /\ overlapped \in BOOLEAN
    /\ \A p \in Pair : InPlace(pass[p], docs)
    /\ docs # <<>> => Len(docs) + Cardinality(Registering) <= Cardinality(Pair)
    /\ ~overlapped =>
          /\ \A p, q \in Pair : pass[p].pc # "idle" /\ pass[q].pc # "idle" => p = q
          /\ \A p \in Pair : Undisturbed(pass[p], docs)
          /\ OneVerdict(docs)

\* A pass moves.
LEMMA MoveKeepsDocuments ==
    ASSUME IsFiniteSet(Pair), DocumentInv, NEW p \in Pair, NEW k \in PassRecord, pass' = [pass EXCEPT ![p] = k],
           UNCHANGED file, docs' \in Seq(Documents!Document), InPlace(k, docs'),
           \/ Len(docs') = Len(docs) /\ (k.pc = "register" => docs = <<>> \/ pass[p].pc = "register")
           \/ Len(docs') = Len(docs) + 1 /\ pass[p].pc = "register" /\ k.pc # "register",
           overlapped' \in BOOLEAN, overlapped => overlapped',
           ~overlapped' => /\ pass[p].pc # "idle" \/ \A q \in Pair : pass[q].pc = "idle"
                           /\ Undisturbed(k, docs') /\ OneVerdict(docs')
    PROVE  DocumentInv'
<1>1. /\ pass'[p] = k /\ \A q \in Pair : q # p => pass'[q] = pass[q]
      /\ pass' \in [Pair -> PassRecord]
  BY DEF DocumentInv
<1>2. PICK m \in Nat, n \in Nat : /\ m = Len(docs) /\ n = Len(docs')
                                    /\ (n = m \/ n = m + 1)
                                    /\ (docs = <<>> <=> m = 0)
                                    /\ (docs' = <<>> <=> n = 0)
                                    /\ DOMAIN docs = 1..m /\ DOMAIN docs' = 1..n
  <2>1. docs \in Seq(Documents!Document)
    BY DEF DocumentInv
  <2>2. Len(docs) \in Nat /\ DOMAIN docs = 1..Len(docs) /\ (docs = <<>> <=> Len(docs) = 0)
    BY <2>1
  <2>3. Len(docs') \in Nat /\ DOMAIN docs' = 1..Len(docs') /\ (docs' = <<>> <=> Len(docs') = 0)
    OBVIOUS
  <2>4. Len(docs') = Len(docs) \/ Len(docs') = Len(docs) + 1
    OBVIOUS
  <2> QED BY <2>2, <2>3, <2>4
<1>3. DOMAIN docs \subseteq DOMAIN docs'
  BY <1>2
<1>4. \A q \in Pair : InPlace(pass'[q], docs')
  BY <1>1, <1>3 DEF DocumentInv, InPlace
<1>5. ~overlapped' => \A q \in Pair : q # p => pass'[q].pc = "idle"
  BY <1>1 DEF DocumentInv
<1>6. ~overlapped' => /\ \A q, r \in Pair : pass'[q].pc # "idle" /\ pass'[r].pc # "idle" => q = r
                      /\ \A q \in Pair : Undisturbed(pass'[q], docs')
                      /\ OneVerdict(docs')
  BY <1>1, <1>5 DEF Undisturbed
<1>7. /\ IsFiniteSet(Registering) /\ IsFiniteSet(Registering') /\ IsFiniteSet(Registering \ {p})
      /\ Cardinality(Registering) \in Nat /\ Cardinality(Registering') \in Nat
      /\ Cardinality(Registering \ {p}) \in Nat /\ Cardinality(Pair) \in Nat
      /\ Cardinality(Registering') <= Cardinality(Pair)
      /\ Cardinality(Registering \ {p}) <= Cardinality(Registering)
  <2>1. Registering \subseteq Pair /\ Registering' \subseteq Pair /\ Registering \ {p} \subseteq Pair
    BY DEF Registering
  <2>2. /\ IsFiniteSet(Registering) /\ IsFiniteSet(Registering') /\ IsFiniteSet(Registering \ {p})
        /\ Cardinality(Registering') <= Cardinality(Pair)
    BY <2>1, FS_Subset
  <2>3. Cardinality(Registering \ {p}) <= Cardinality(Registering)
    BY <2>2, FS_Subset
  <2> QED BY <2>2, <2>3, FS_CardinalityType
<1>8. docs' # <<>> => Len(docs') + Cardinality(Registering') <= Cardinality(Pair)
  <2>1. CASE Len(docs') = Len(docs) /\ (k.pc = "register" => docs = <<>> \/ pass[p].pc = "register")
    <3>1. CASE docs = <<>>
      BY <1>2, <2>1, <3>1
    <3>2. CASE docs # <<>>
      <4>1. Registering' \subseteq Registering
        BY <1>1, <2>1, <3>2 DEF Registering
      <4>2. Cardinality(Registering') <= Cardinality(Registering)
        BY <1>7, <4>1, FS_Subset
      <4> QED BY <1>2, <1>7, <2>1, <3>2, <4>2 DEF DocumentInv
    <3> QED BY <3>1, <3>2
  <2>2. CASE Len(docs') = Len(docs) + 1 /\ pass[p].pc = "register" /\ k.pc # "register"
    <3>1. Registering' = Registering \ {p} /\ p \in Registering
      BY <1>1, <2>2 DEF Registering
    <3>2. Cardinality(Registering') = Cardinality(Registering) - 1
      BY <1>7, <3>1, FS_RemoveElement
    <3>3. Cardinality(Registering) <= Cardinality(Pair)
      BY FS_Subset DEF Registering
    <3>4. docs # <<>> => Len(docs) + Cardinality(Registering) <= Cardinality(Pair)
      BY DEF DocumentInv
    <3> QED BY <1>2, <1>7, <2>2, <3>2, <3>3, <3>4
  <2> QED BY <2>1, <2>2
<1> QED BY <1>1, <1>4, <1>6, <1>8 DEF DocumentInv

LEMMA DocumentStepKeepsInv ==
    ASSUME IsFiniteSet(Pair), DocumentInv, [Documents!Next]_Documents!vars
    PROVE  DocumentInv'
<1> USE DEF Documents!At
<1>0. /\ docs \in Seq(Documents!Document) /\ Len(docs) \in Nat /\ DOMAIN docs = 1..Len(docs)
      /\ \A d \in DOMAIN docs : docs[d] \in Documents!Document
      /\ pass \in [Pair -> PassRecord] /\ overlapped \in BOOLEAN
      /\ \A p \in Pair : pass[p] \in PassRecord /\ InPlace(pass[p], docs)
  BY DEF DocumentInv
<1>1. Documents!Idle \in PassRecord /\ Documents!Idle.pc = "idle" /\ Documents!Idle.todo = {}
  BY DEF Documents!Idle, PassRecord, Listed
<1>2. /\ InPlace(Documents!Idle, docs) /\ Undisturbed(Documents!Idle, docs)
      /\ \A ds : Undisturbed(Documents!Idle, ds) /\ InPlace(Documents!Idle, ds)
  BY <1>1 DEF InPlace, Undisturbed
<1>3. ~overlapped => OneVerdict(docs) /\ \A p \in Pair : Undisturbed(pass[p], docs)
  BY DEF DocumentInv
<1>4. CASE UNCHANGED Documents!vars
  BY <1>4 DEF Documents!vars, DocumentInv, Registering
<1>5. CASE Documents!Change
  <2>1. file' \subseteq Sizes \union {Mock} /\ UNCHANGED <<docs, pass, overlapped>>
    BY <1>5 DEF Documents!Change
  <2> QED BY <2>1 DEF DocumentInv, Registering
<1>6. ASSUME NEW p \in Pair, NEW k \in PassRecord, pass' = [pass EXCEPT ![p] = k], UNCHANGED <<file, docs, overlapped>>,
             pass[p].pc # "idle", InPlace(k, docs), k.pc = "register" => docs = <<>>, k.pc # "save"
      PROVE  DocumentInv'
  <2>1. ~overlapped => Undisturbed(k, docs)
    BY <1>6 DEF Undisturbed
  <2> QED BY <1>0, <1>3, <1>6, <2>1, MoveKeepsDocuments
<1>7. ASSUME NEW p \in Pair, Documents!End(p), UNCHANGED <<file, docs, overlapped>>, pass[p].pc # "idle"
      PROVE  DocumentInv'
  <2>1. PICK k : k = Documents!Idle
    OBVIOUS
  <2>2. pass' = [pass EXCEPT ![p] = k]
    BY <1>7, <2>1 DEF Documents!End
  <2> QED BY <1>1, <1>2, <1>6, <1>7, <2>1, <2>2
<1>8. ASSUME NEW p \in Pair, Documents!List(p) PROVE DocumentInv'
  <2>1. PICK up \in BOOLEAN, pc \in {"check", "lookup"}, size \in Listed :
           pass' = [pass EXCEPT ![p] = [Documents!Idle EXCEPT !.pc = pc, !.listed = up /\ file # {}, !.size = size]]
    <3>1. \A f \in file : f \in Listed
      BY DEF DocumentInv, Listed
    <3>2. (IF source.kind = "drive" \/ ~source.real \/ file = {} THEN Documents!Unsized
           ELSE CHOOSE c \in file : TRUE) \in Listed
      BY <3>1 DEF Listed
    <3>3. (IF Documents!Cloud THEN "check" ELSE "lookup") \in {"check", "lookup"}
      OBVIOUS
    <3> QED BY <1>8, <3>2, <3>3 DEF Documents!List
  <2>2. PICK k : k = [Documents!Idle EXCEPT !.pc = pc, !.listed = up /\ file # {}, !.size = size]
    OBVIOUS
  <2>3. k \in PassRecord /\ k.pc = pc /\ k.todo = {}
    BY <2>2 DEF Documents!Idle, PassRecord
  <2>4. pass' = [pass EXCEPT ![p] = k] /\ pass[p].pc = "idle" /\ UNCHANGED <<file, docs>>
        /\ overlapped' = (overlapped \/ \E q \in Pair \ {p} : pass[q].pc # "idle")
    BY <1>8, <2>1, <2>2 DEF Documents!List
  <2>5. ~overlapped' => ~overlapped /\ \A q \in Pair : pass[q].pc = "idle"
    BY <2>4
  <2>6. InPlace(k, docs') /\ Undisturbed(k, docs') /\ k.pc # "register"
    BY <2>3 DEF InPlace, Undisturbed
  <2>7. overlapped' \in BOOLEAN /\ (overlapped => overlapped')
    BY <1>0, <2>4
  <2> QED BY <1>0, <1>3, <2>3, <2>4, <2>5, <2>6, <2>7, MoveKeepsDocuments
<1>9. ASSUME NEW p \in Pair, Documents!Check(p) PROVE DocumentInv'
  <2>1. PICK todo \in SUBSET (DOMAIN docs) :
           pass' = [pass EXCEPT ![p].pc = "mark", ![p].todo = todo]
    BY <1>9 DEF Documents!Check
  <2>2. PICK k : k = [pass[p] EXCEPT !.pc = "mark", !.todo = todo]
    OBVIOUS
  <2>3. k \in PassRecord /\ k.pc = "mark" /\ k.todo = todo
    <3>1. todo \subseteq Nat
      BY <1>0
    <3> QED BY <1>0, <2>2, <3>1 DEF PassRecord
  <2>4. pass' = [pass EXCEPT ![p] = k] /\ pass[p].pc # "idle" /\ UNCHANGED <<file, docs, overlapped>>
    BY <1>0, <1>9, <2>1, <2>2 DEF Documents!Check
  <2>5. InPlace(k, docs)
    BY <2>3 DEF InPlace
  <2> QED BY <1>6, <2>3, <2>4, <2>5
<1>10. ASSUME NEW p \in Pair, NEW pc \in {"lookup", "register"}, Documents!Goto(p, pc), pc = "register" => docs = <<>>,
              UNCHANGED <<file, docs, overlapped>>, pass[p].pc # "idle"
       PROVE  DocumentInv'
  <2>1. PICK k : k = [pass[p] EXCEPT !.pc = pc]
    OBVIOUS
  <2>2. k \in PassRecord /\ k.pc = pc /\ k.todo = pass[p].todo
    BY <1>0, <2>1 DEF PassRecord
  <2>3. pass' = [pass EXCEPT ![p] = k]
    BY <1>0, <1>10, <2>1 DEF Documents!Goto
  <2>4. InPlace(k, docs)
    BY <1>0, <2>2 DEF InPlace
  <2> QED BY <1>6, <1>10, <2>2, <2>3, <2>4
<1>11. ASSUME NEW p \in Pair, Documents!MarkDeleted(p) PROVE DocumentInv'
  <2>1. CASE pass[p].todo = {}
    BY <1>10, <1>11, <2>1 DEF Documents!MarkDeleted
  <2>2. CASE pass[p].todo # {}
    <3>1. PICK d \in pass[p].todo :
             /\ docs' = [docs EXCEPT ![d].status = "deleted", ![d].judged = None]
             /\ pass' = [pass EXCEPT ![p].todo = @ \ {d}]
      BY <1>11, <2>2 DEF Documents!MarkDeleted
    <3>2. PICK n : n = [docs[d] EXCEPT !.status = "deleted", !.judged = None]
      OBVIOUS
    <3>3. d \in DOMAIN docs /\ docs[d] \in Documents!Document
      BY <1>0 DEF InPlace
    <3>4. n \in Documents!Document /\ n.status = "deleted"
      BY <3>2, <3>3 DEF Documents!Document
    <3>5. docs' = [docs EXCEPT ![d] = n]
      BY <3>1, <3>2, <3>3
    <3>6. /\ docs' \in Seq(Documents!Document) /\ Len(docs') = Len(docs) /\ DOMAIN docs' = DOMAIN docs
          /\ docs'[d] = n /\ \A c \in DOMAIN docs : c # d => docs'[c] = docs[c]
      BY <1>0, <3>3, <3>4, <3>5
    <3>7. PICK k : k = [pass[p] EXCEPT !.todo = @ \ {d}]
      OBVIOUS
    <3>8. k \in PassRecord /\ k.pc = pass[p].pc /\ k.todo \subseteq pass[p].todo
      BY <1>0, <3>7 DEF PassRecord
    <3>9. pass' = [pass EXCEPT ![p] = k] /\ pass[p].pc = "mark" /\ UNCHANGED <<file, overlapped>>
      BY <1>0, <1>11, <3>1, <3>7 DEF Documents!MarkDeleted
    <3>10. InPlace(k, docs') /\ Undisturbed(k, docs') /\ k.pc # "register"
      BY <1>0, <3>6, <3>8, <3>9 DEF InPlace, Undisturbed
    <3>11. ~overlapped => OneVerdict(docs')
      BY <1>3, <3>4, <3>6 DEF OneVerdict, Documents!Judged
    <3> QED BY <1>0, <3>6, <3>8, <3>9, <3>10, <3>11, MoveKeepsDocuments
  <2> QED BY <2>1, <2>2
<1>12. ASSUME NEW p \in Pair, Documents!Lookup(p) PROVE DocumentInv'
  <2>0. pass[p].pc = "lookup" /\ UNCHANGED <<file, docs, overlapped>>
    BY <1>12 DEF Documents!Lookup
  <2>1. CASE Documents!End(p)
    BY <1>7, <2>0, <2>1
  <2>2. CASE docs = <<>> /\ Documents!Goto(p, "register")
    BY <1>10, <2>0, <2>2
  <2>3. ASSUME NEW d \in DOMAIN docs, pass' = [pass EXCEPT ![p].pc = "resize", ![p].doc = d] PROVE DocumentInv'
    <3>1. PICK k : k = [pass[p] EXCEPT !.pc = "resize", !.doc = d]
      OBVIOUS
    <3>2. k \in PassRecord /\ k.pc = "resize" /\ k.doc = d /\ k.todo = pass[p].todo
      <4>1. d \in Nat
        BY <1>0
      <4> QED BY <1>0, <3>1, <4>1 DEF PassRecord
    <3>3. pass' = [pass EXCEPT ![p] = k]
      BY <1>0, <2>3, <3>1
    <3>4. InPlace(k, docs)
      BY <1>0, <3>2 DEF InPlace
    <3> QED BY <1>6, <2>0, <3>2, <3>3, <3>4
  <2>4. \/ Documents!End(p)
        \/ docs = <<>> /\ Documents!Goto(p, "register")
        \/ \E d \in DOMAIN docs : pass' = [pass EXCEPT ![p].pc = "resize", ![p].doc = d]
    <3>1. CASE ~pass[p].listed
      BY <1>12, <3>1 DEF Documents!Lookup
    <3>2. CASE pass[p].listed /\ docs = <<>>
      BY <1>12, <3>2 DEF Documents!Lookup
    <3>3. CASE pass[p].listed /\ docs # <<>>
      <4>1. PICK d \in DOMAIN docs :
               IF docs[d].size = pass[p].size THEN Documents!End(p)
               ELSE pass' = [pass EXCEPT ![p].pc = "resize", ![p].doc = d]
        BY <1>12, <3>3 DEF Documents!Lookup
      <4> QED BY <4>1
    <3> QED BY <3>1, <3>2, <3>3
  <2> QED BY <2>1, <2>2, <2>3, <2>4
<1>13. ASSUME NEW p \in Pair, NEW d \in Nat, pass' = [pass EXCEPT ![p] = [Documents!Idle EXCEPT !.pc = "fetch", !.doc = d]],
              UNCHANGED <<file, overlapped>>, pass[p].pc # "idle", docs' \in Seq(Documents!Document), d \in DOMAIN docs',
              Len(docs') = Len(docs) \/ (Len(docs') = Len(docs) + 1 /\ pass[p].pc = "register"),
              ~overlapped => OneVerdict(docs')
       PROVE  DocumentInv'
  <2>1. PICK k : k = [Documents!Idle EXCEPT !.pc = "fetch", !.doc = d]
    OBVIOUS
  <2>2. k \in PassRecord /\ k.pc = "fetch" /\ k.doc = d /\ k.todo = {}
    BY <2>1 DEF Documents!Idle, PassRecord, Listed
  <2>3. InPlace(k, docs') /\ Undisturbed(k, docs')
    BY <1>13, <2>2 DEF InPlace, Undisturbed
  <2> QED BY <1>0, <1>13, <2>1, <2>2, <2>3, MoveKeepsDocuments
<1>14. ASSUME NEW p \in Pair, Documents!Register(p) PROVE DocumentInv'
  <2>1. PICK n : n = [status |-> "pending", size |-> pass[p].size, judged |-> None]
    OBVIOUS
  <2>2. n \in Documents!Document /\ n.status = "pending"
    BY <1>0, <2>1 DEF Documents!Document, PassRecord, Listed
  <2>3. /\ docs' = Append(docs, n) /\ pass[p].pc = "register" /\ UNCHANGED <<file, overlapped>>
        /\ pass' = [pass EXCEPT ![p] = [Documents!Idle EXCEPT !.pc = "fetch", !.doc = Len(docs) + 1]]
    BY <1>14, <2>1 DEF Documents!Register
  <2>4. /\ docs' \in Seq(Documents!Document) /\ Len(docs') = Len(docs) + 1 /\ Len(docs) + 1 \in DOMAIN docs'
        /\ docs'[Len(docs) + 1] = n /\ DOMAIN docs' = 1..(Len(docs) + 1)
    BY <1>0, <2>2, <2>3
  <2>5. ~overlapped => OneVerdict(docs')
    <3> SUFFICES ASSUME ~overlapped PROVE OneVerdict(docs')
      OBVIOUS
    <3>1. docs = <<>>
      BY <1>3, <2>3 DEF Undisturbed
    <3>2. Len(docs) = 0
      BY <3>1
    <3>3. DOMAIN docs' = {1} /\ docs'[1] = n /\ Len(docs') = 1
      BY <2>4, <3>2
    <3> QED BY <2>2, <3>3 DEF OneVerdict, Documents!Judged
  <2>6. PICK d \in Nat : d = Len(docs) + 1
    BY <1>0
  <2>7. pass' = [pass EXCEPT ![p] = [Documents!Idle EXCEPT !.pc = "fetch", !.doc = d]]
    BY <2>3, <2>6
  <2>8. docs' \in Seq(Documents!Document) /\ d \in DOMAIN docs' /\ Len(docs') = Len(docs) + 1
    BY <2>4, <2>6
  <2>9. pass[p].pc = "register" /\ pass[p].pc # "idle" /\ UNCHANGED <<file, overlapped>>
    BY <2>3
  <2> QED BY <1>13, <2>5, <2>7, <2>8, <2>9
\* A document is written over.
<1>15. ASSUME NEW d \in DOMAIN docs, NEW n \in Documents!Document, docs' = [docs EXCEPT ![d] = n]
       PROVE  /\ docs' \in Seq(Documents!Document) /\ Len(docs') = Len(docs) /\ DOMAIN docs' = DOMAIN docs
              /\ docs'[d] = n
              /\ ~overlapped /\ (n.status \in Documents!Judged => n.size = n.judged) => OneVerdict(docs')
  <2>1. /\ docs' \in Seq(Documents!Document) /\ Len(docs') = Len(docs) /\ DOMAIN docs' = DOMAIN docs
        /\ docs'[d] = n /\ \A c \in DOMAIN docs : c # d => docs'[c] = docs[c]
    BY <1>0, <1>15
  <2> QED BY <1>3, <2>1 DEF OneVerdict
<1>16. ASSUME NEW p \in Pair, Documents!Resize(p) PROVE DocumentInv'
  <2>0. PICK d : d = pass[p].doc
    OBVIOUS
  <2>1. PICK n : n = [status |-> "scanning", size |-> pass[p].size, judged |-> None]
    OBVIOUS
  <2>2. n \in Documents!Document /\ n.status \notin Documents!Judged
    BY <1>0, <2>1 DEF Documents!Document, PassRecord, Listed, Documents!Judged
  <2>3. /\ docs' = [docs EXCEPT ![d] = n] /\ pass[p].pc = "resize" /\ UNCHANGED <<file, overlapped>>
        /\ pass' = [pass EXCEPT ![p] = [Documents!Idle EXCEPT !.pc = "fetch", !.doc = d]]
    BY <1>16, <2>0, <2>1 DEF Documents!Resize
  <2>4. d \in DOMAIN docs /\ d \in Nat
    BY <1>0, <2>0, <2>3 DEF InPlace
  <2>5. /\ docs' \in Seq(Documents!Document) /\ Len(docs') = Len(docs) /\ DOMAIN docs' = DOMAIN docs
        /\ (~overlapped => OneVerdict(docs'))
    BY <1>15, <2>2, <2>3, <2>4
  <2> QED BY <1>13, <2>3, <2>4, <2>5
<1>17. ASSUME NEW p \in Pair, Documents!Fetch(p) PROVE DocumentInv'
  <2>0. pass[p].pc = "fetch" /\ UNCHANGED <<file, docs, overlapped>>
    BY <1>17 DEF Documents!Fetch
  <2>1. CASE Documents!End(p)
    BY <1>7, <2>0, <2>1
  <2>2. ASSUME NEW c \in Sizes \union {Mock}, pass' = [pass EXCEPT ![p].pc = "start", ![p].bytes = c] PROVE DocumentInv'
    <3>1. PICK k : k = [pass[p] EXCEPT !.pc = "start", !.bytes = c]
      OBVIOUS
    <3>2. k \in PassRecord /\ k.pc = "start" /\ k.bytes = c /\ k.doc = pass[p].doc /\ k.todo = pass[p].todo
      BY <1>0, <3>1 DEF PassRecord
    <3>3. pass' = [pass EXCEPT ![p] = k]
      BY <1>0, <2>2, <3>1
    <3>4. InPlace(k, docs)
      BY <1>0, <2>0, <3>2 DEF InPlace
    <3> QED BY <1>6, <2>0, <3>2, <3>3, <3>4
  <2>3. Documents!End(p) \/ \E c \in Sizes \union {Mock} : pass' = [pass EXCEPT ![p].pc = "start", ![p].bytes = c]
    BY <1>17 DEF Documents!Fetch, DocumentInv
  <2> QED BY <2>1, <2>2, <2>3
<1>18. ASSUME NEW p \in Pair, Documents!Start(p) PROVE DocumentInv'
  <2>0. PICK d, c : d = pass[p].doc /\ c = pass[p].bytes
    OBVIOUS
  <2>1. PICK n : n = [status |-> "scanning", size |-> c, judged |-> None]
    OBVIOUS
  <2>2. pass[p].pc = "start" /\ c \in Sizes \union {Mock} /\ d \in DOMAIN docs
    BY <1>0, <1>18, <2>0 DEF InPlace, Documents!Start
  <2>3. n \in Documents!Document /\ n.status \notin Documents!Judged /\ n.size = c
    BY <2>1, <2>2 DEF Documents!Document, Documents!Judged
  <2>4. docs' = [docs EXCEPT ![d] = n] /\ UNCHANGED <<file, overlapped>>
    BY <1>18, <2>0, <2>1 DEF Documents!Start
  <2>5. PICK k : k = [pass[p] EXCEPT !.pc = "save"]
    OBVIOUS
  <2>6. k \in PassRecord /\ k.pc = "save" /\ k.doc = d /\ k.bytes = c /\ k.todo = pass[p].todo
    BY <1>0, <2>0, <2>5 DEF PassRecord
  <2>7. pass' = [pass EXCEPT ![p] = k]
    BY <1>0, <1>18, <2>5 DEF Documents!Start, Documents!Goto
  <2>8. /\ docs' \in Seq(Documents!Document) /\ Len(docs') = Len(docs) /\ DOMAIN docs' = DOMAIN docs
        /\ docs'[d] = n /\ (~overlapped => OneVerdict(docs'))
    BY <1>15, <2>2, <2>3, <2>4
  <2>9. InPlace(k, docs') /\ Undisturbed(k, docs')
    BY <1>0, <2>2, <2>3, <2>6, <2>8 DEF InPlace, Undisturbed
  <2> QED BY <1>0, <2>2, <2>4, <2>6, <2>7, <2>8, <2>9, MoveKeepsDocuments
<1>19. ASSUME NEW p \in Pair, Documents!Save(p) PROVE DocumentInv'
  <2>0. PICK d, c : d = pass[p].doc /\ c = pass[p].bytes
    OBVIOUS
  <2>1. PICK verdict \in Documents!Judged :
           docs' = [docs EXCEPT ![d].status = verdict, ![d].judged = c]
    BY <1>19, <2>0 DEF Documents!Save
  <2>2. /\ pass[p].pc = "save" /\ c \in Sizes \union {Mock} /\ d \in DOMAIN docs
        /\ docs[d] \in Documents!Document
    BY <1>0, <1>19, <2>0 DEF InPlace, Documents!Save
  <2>3. PICK n : n = [docs[d] EXCEPT !.status = verdict, !.judged = c]
    OBVIOUS
  <2>4. n \in Documents!Document /\ n.size = docs[d].size /\ n.judged = c
    BY <2>2, <2>3 DEF Documents!Document
  <2>5. docs' = [docs EXCEPT ![d] = n]
    BY <1>0, <2>1, <2>2, <2>3
  <2>6. ~overlapped => docs[d].size = c
    BY <1>3, <2>0, <2>2 DEF Undisturbed
  <2>7. /\ docs' \in Seq(Documents!Document) /\ Len(docs') = Len(docs) /\ DOMAIN docs' = DOMAIN docs
        /\ (~overlapped => OneVerdict(docs'))
    BY <1>15, <2>2, <2>4, <2>5, <2>6
  <2>8. PICK k : k = Documents!Idle
    OBVIOUS
  <2>9. pass' = [pass EXCEPT ![p] = k] /\ UNCHANGED <<file, overlapped>>
    BY <1>19, <2>8 DEF Documents!Save, Documents!End
  <2>10. k \in PassRecord /\ InPlace(k, docs') /\ Undisturbed(k, docs') /\ k.pc # "register"
    BY <1>1, <1>2, <2>8
  <2> QED BY <1>0, <2>2, <2>7, <2>9, <2>10, MoveKeepsDocuments
<1>20. ASSUME NEW p \in Pair, Documents!Abort(p) PROVE DocumentInv'
  BY <1>7, <1>20 DEF Documents!Abort
<1> QED BY <1>4, <1>5, <1>8, <1>9, <1>11, <1>12, <1>14, <1>16, <1>17, <1>18, <1>19, <1>20 DEF Documents!Next

LEMMA DocumentsMove == Spec => Documents!Spec
<1>1. Init => Documents!Init
  BY DEF Init
<1>2. [Next]_vars => [Documents!Next]_Documents!vars
  BY DEF Next, KeyStep, CredentialStep, IsolationStep, PolicyStep, BundleStep, DocumentStep, ChainStep,
         vars, documentVars, Documents!vars
<1> QED BY <1>1, <1>2, PTL DEF Spec, Documents!Spec

LEMMA DocumentInvHolds == Spec => []DocumentInv
<1>0. IsFiniteSet(Pair)
  BY PartsAssumption DEF Documents!PassesAssumption, Documents!IsFiniteSet, IsFiniteSet
<1>1. Documents!Init => DocumentInv
  <2> SUFFICES ASSUME Documents!Init PROVE DocumentInv
    OBVIOUS
  <2>1. Documents!Idle \in PassRecord /\ Documents!Idle.pc = "idle" /\ Documents!Idle.todo = {}
    BY DEF Documents!Idle, PassRecord, Listed
  <2>2. pass = [p \in Pair |-> Documents!Idle] /\ docs = <<>> /\ overlapped = FALSE /\ file \subseteq {Mock}
    BY DEF Documents!Init
  <2>3. pass \in [Pair -> PassRecord] /\ \A p \in Pair : InPlace(pass[p], docs) /\ Undisturbed(pass[p], docs)
    BY <2>1, <2>2 DEF InPlace, Undisturbed
  <2>4. docs \in Seq(Documents!Document) /\ OneVerdict(docs)
    BY <2>2 DEF OneVerdict
  <2> QED BY <2>1, <2>2, <2>3, <2>4 DEF DocumentInv
<1>2. DocumentInv /\ [Documents!Next]_Documents!vars => DocumentInv'
  BY <1>0, DocumentStepKeepsInv
<1> QED BY <1>1, <1>2, DocumentsMove, PTL DEF Documents!Spec

(***************************************************************************)
(* A file has one document, and the verdict on it is on a content of the   *)
(* size it records, unless two passes have run at the same time: a pass    *)
(* alone registers only what it has not found, and records the size of the *)
(* bytes it scans before it judges them (monitoring.py 65-115, 213-290;    *)
(* orchestrator.py 31-40, 292-325).                                        *)
(***************************************************************************)
THEOREM VerdictsHold == Spec => []VerdictsAreOfTheirSize
<1>1. DocumentInv => VerdictsAreOfTheirSize
  BY DEF DocumentInv, OneVerdict, VerdictsAreOfTheirSize, Documents!VerdictsAreOfTheirSize
<1> QED BY <1>1, DocumentInvHolds, PTL

LEMMA Least ==
    ASSUME NEW S, S \subseteq Nat, S # {}
    PROVE  \E n \in S : \A m \in S : n <= m
<1>1. PICK n \in S : \A m \in S : ~ (<<m, n>> \in OpToRel(<, Nat))
  BY NatLessThanWellFounded, WFMin, Zenon
<1>2. \A m \in S : ~(m < n)
  BY <1>1 DEF OpToRel
<1> QED BY <1>2

LEMMA Most ==
    ASSUME NEW b \in Nat, NEW S, S \subseteq 1..b, S # {}
    PROVE  \E n \in S : \A m \in S : m <= n
<1> DEFINE T == {b - n : n \in S}
<1>0. \A n \in S : b - n \in Nat
  OBVIOUS
<1>1. T \subseteq Nat /\ T # {}
  BY <1>0
<1>2. PICK x \in T : \A y \in T : x <= y
  <2> HIDE DEF T
  <2> QED BY <1>1, Least
<1>3. PICK n \in S : x = b - n
  OBVIOUS
<1>4. \A m \in S : b - m \in T
  OBVIOUS
<1>5. \A m \in S : b - n <= b - m
  <2> HIDE DEF T
  <2> QED BY <1>2, <1>3, <1>4
<1> QED BY <1>5

(***************************************************************************)
(* The audit chain.                                                        *)
(***************************************************************************)

Writing == [pc : Chain!Working \union {"idle", "done"}, tenant : {quiet, busy} \union {None},
            body : Bodies \union {None}, id : Nat \union {None}, prev : Chain!Hashes \union {None}]
ExportRecord == [stage : Chain!Stages, tenant : {quiet, busy} \union {None}, listed : SUBSET Chain!Ids,
                 claimed : 0..MaxId, checked : 0..MaxId, root : Chain!Hashes]

AtWorkOn(c) == writing[c].pc \in Chain!Working

\* A call at work has the row it writes, and its hash.
AtItsRow(c) ==
    AtWorkOn(c) =>
        /\ writing[c].tenant \in {quiet, busy} /\ writing[c].body \in Bodies /\ writing[c].id \in 1..(nextId - 1)
        /\ writing[c].pc = "linking" => writing[c].prev \in Chain!Hashes

ChainTypeInv ==
    /\ blocks \in [Chain!Ids -> Chain!RowType \union {None}] /\ nextId \in 1..(MaxId + 1)
    /\ writing \in [Calls -> Writing] /\ tampered \subseteq {quiet, busy} /\ export \in ExportRecord
    /\ \A c \in Calls : AtItsRow(c)

LEMMA HashFacts ==
    ASSUME NEW p \in Chain!Hashes, NEW i \in Chain!Ids, NEW b \in Bodies, NEW h, h = Chain!Hash(i, b, p)
    PROVE  /\ h \in Chain!Hashes /\ h # <<>> /\ Chain!Last(h) = <<i, b>> /\ Chain!Last(h)[1] = i /\ Chain!Last(h)[2] = b
           /\ Len(h) = Len(p) + 1 /\ Len(p) \in Nat /\ h[Len(p) + 1][1] = i
           /\ \A k \in 1..Len(p) : h[k] = p[k]
<1>1. PICK x : x = <<i, b>>
  OBVIOUS
<1>2. x \in Chain!Ids \X Bodies
  BY <1>1
<1> PICK T : T = Chain!Ids \X Bodies
  OBVIOUS
<1>3. p \in Seq(T) /\ x \in T /\ h = Append(p, x)
  BY <1>1, <1>2 DEF Chain!Hashes, Chain!Hash
<1>4. /\ h \in Seq(T) /\ h # <<>> /\ Len(h) = Len(p) + 1 /\ Len(p) \in Nat /\ h[Len(p) + 1] = x
      /\ \A k \in 1..Len(p) : h[k] = p[k]
  BY <1>3
<1>5. Chain!Last(h) = x
  BY <1>4 DEF Chain!Last
<1> QED BY <1>1, <1>4, <1>5 DEF Chain!Hashes

LEMMA Bounds == MaxId \in Nat /\ MaxId + 1 \in Nat /\ Chain!Ids = 1..MaxId
BY PartsAssumption DEF Chain!IdAssumption, Chain!Ids

\* A set of ids that is not empty has a greatest.
LEMMA GreatestId ==
    ASSUME NEW S, S \subseteq Chain!Ids, S # {}, NEW g, g = Chain!Greatest(S)
    PROVE  g \in S /\ \A j \in S : j <= g
<1>1. \E n \in S : \A m \in S : m <= n
  BY Most, Bounds
<1> QED BY <1>1 DEF Chain!Greatest

\* A row is not None, and neither is a hash.
LEMMA RowFacts ==
    ASSUME ChainTypeInv, NEW i \in Chain!Ids, blocks[i] # None
    PROVE  /\ blocks[i] \in Chain!RowType /\ blocks[i].tenant \in {quiet, busy} /\ blocks[i].body \in Bodies
           /\ blocks[i].hash # None => blocks[i].hash \in Chain!Hashes
           /\ blocks[i].prev # None => blocks[i].prev \in Chain!Hashes
<1>1. blocks[i] \in Chain!RowType
  BY DEF ChainTypeInv
<1> QED BY <1>1 DEF Chain!RowType

LEMMA GenesisIsHash == Chain!Genesis \in Chain!Hashes /\ Chain!Genesis = <<>>
BY DEF Chain!Hashes, Chain!Genesis

LEMMA PreviousIsHash ==
    ASSUME ChainTypeInv, NEW t, NEW n PROVE Chain!Previous(t, n) \in Chain!Hashes
<1> DEFINE below == {i \in Chain!Hashed(t) : i < n}
<1> PICK g : g = Chain!Greatest(below)
  OBVIOUS
<1>1. below \subseteq Chain!Ids
  BY DEF Chain!Hashed
<1>2. CASE below = {}
  BY <1>2, GenesisIsHash DEF Chain!Previous
<1>3. CASE below # {}
  <2>1. g \in below
    <3> HIDE DEF below
    <3> QED BY <1>1, <1>3, GreatestId
  <2>2. g \in Chain!Ids /\ blocks[g] # None /\ blocks[g].hash # None
    BY <2>1 DEF Chain!Hashed
  <2>3. blocks[g].hash \in Chain!Hashes
    BY <2>2, RowFacts
  <2> QED BY <1>3, <2>3 DEF Chain!Previous
<1> QED BY <1>2, <1>3

\* The hash of a block is the list of the quiet tenant's blocks up to it.
UpTo(i) == {j \in Chain!Hashed(quiet) : j <= i}
Covers(h, S) == /\ Len(h) = Cardinality(S)
                /\ \A j \in Chain!Ids : j \in S <=> \E k \in 1..Len(h) : h[k][1] = j
Linked(i) == /\ blocks[i].prev = Chain!Previous(quiet, i)
             /\ blocks[i].hash = Chain!Hash(i, blocks[i].body, blocks[i].prev)
             /\ Covers(blocks[i].hash, UpTo(i))

\* The row a call is making is where the call has left it; the quiet tenant's comes after the
\* others of the tenant, and is to be linked to the last of them.
RowInPlace(c) ==
    LET k == writing[c] IN
    AtWorkOn(c) =>
        /\ k.id > Legacy
        /\ k.pc = "inserting" => blocks[k.id] = None
        /\ blocks[k.id] # None => blocks[k.id].tenant = k.tenant
        /\ k.tenant = quiet =>
              /\ \A i \in Chain!RowsOf(quiet) : i <= k.id
              /\ k.pc # "inserting" => /\ blocks[k.id] # None /\ blocks[k.id].hash = None
                                       /\ blocks[k.id].body = k.body
              /\ k.pc = "linking" => k.prev = Chain!Previous(quiet, k.id)
Making(c, i) == writing[c].pc \in {"unlinked", "linking"} /\ writing[c].tenant = quiet /\ writing[c].id = i
Apart(c, d) == AtWorkOn(c) /\ AtWorkOn(d) => /\ writing[c].id # writing[d].id
                                             /\ ~(writing[c].tenant = quiet /\ writing[d].tenant = quiet)

\* The quiet tenant's rows: those without a hash are old, or being made; the others are linked.
QuietInv ==
    /\ \A c \in Calls : RowInPlace(c)
    /\ \A c, d \in Calls : c # d => Apart(c, d)
    /\ nextId > Legacy /\ \A i \in Chain!Ids : blocks[i] # None => i < nextId
    /\ \A i \in Chain!RowsOf(quiet) :
          IF blocks[i].hash = None THEN i <= Legacy \/ \E c \in Calls : Making(c, i)
          ELSE i > Legacy /\ Linked(i)

\* Where the quiet tenant's hashed rows stay, their links stay.
LEMMA LinksStay ==
    ASSUME Chain!Hashed(quiet)' = Chain!Hashed(quiet),
           \A i \in Chain!Hashed(quiet) : blocks'[i] = blocks[i]
    PROVE  /\ \A n : Chain!Previous(quiet, n)' = Chain!Previous(quiet, n)
           /\ \A i \in Chain!Hashed(quiet) : Linked(i) => Linked(i)'
<1>1. ASSUME NEW n PROVE Chain!Previous(quiet, n)' = Chain!Previous(quiet, n)
  <2>1. PICK below : below = {i \in Chain!Hashed(quiet) : i < n}
    OBVIOUS
  <2>2. PICK g : g = Chain!Greatest(below)
    OBVIOUS
  <2>3. Chain!Previous(quiet, n) = IF below = {} THEN Chain!Genesis ELSE blocks[g].hash
    BY <2>1, <2>2 DEF Chain!Previous
  <2>4. Chain!Previous(quiet, n)' = IF below = {} THEN Chain!Genesis ELSE blocks'[g].hash
    BY <2>1, <2>2 DEF Chain!Previous, Chain!Greatest, Chain!Genesis
  <2>5. below # {} => g \in below
    BY <2>1, <2>2, GreatestId DEF Chain!Hashed
  <2> QED BY <2>1, <2>3, <2>4, <2>5
<1>2. ASSUME NEW i \in Chain!Hashed(quiet), Linked(i) PROVE Linked(i)'
  <2>1. UpTo(i)' = UpTo(i) /\ blocks'[i] = blocks[i]
    BY DEF UpTo
  <2>2. UpTo(i) \subseteq Chain!Ids /\ Cardinality(UpTo(i)') = Cardinality(UpTo(i))
    BY <2>1 DEF UpTo, Chain!Hashed
  <2>3. blocks'[i].prev = Chain!Previous(quiet, i)'
    BY <1>1, <1>2, <2>1 DEF Linked
  <2>4. blocks'[i].hash = Chain!Hash(i, blocks'[i].body, blocks'[i].prev)
    BY <1>2, <2>1 DEF Linked
  <2>5. PICK u, h : u = UpTo(i) /\ h = blocks[i].hash
    OBVIOUS
  <2>6. Covers(h, u)
    BY <1>2, <2>5 DEF Linked
  <2>7. Covers(h, u)'
    BY <2>6 DEF Covers
  <2>8. UpTo(i)' = u /\ blocks'[i].hash = h
    BY <2>1, <2>5
  <2>9. Covers(blocks[i].hash, UpTo(i))'
    BY <2>7, <2>8 DEF Covers
  <2> QED BY <2>3, <2>4, <2>9 DEF Linked, Chain!Hash
<1> QED BY <1>1, <1>2

\* A call moves, and the rows stay.
LEMMA MoveKeepsChain ==
    ASSUME ChainTypeInv, QuietInv, UNCHANGED <<blocks, tampered, export>>,
           NEW c \in Calls, NEW k \in Writing, writing' = [writing EXCEPT ![c] = k],
           nextId' \in 1..(MaxId + 1), nextId <= nextId',
           AtItsRow(c)', RowInPlace(c)', \A d \in Calls : c # d => Apart(c, d)',
           \A i \in Chain!Ids : Making(c, i) => Making(c, i)'
    PROVE  ChainTypeInv' /\ QuietInv' /\ Chain!Hashed(quiet) \subseteq Chain!Hashed(quiet)'
<1>1. /\ writing'[c] = k /\ \A d \in Calls : d # c => writing'[d] = writing[d]
      /\ writing' \in [Calls -> Writing]
  BY DEF ChainTypeInv
<1>2. nextId \in Nat /\ nextId' \in Nat /\ Legacy \in Nat
  BY Bounds, PartsAssumption DEF ChainTypeInv, Chain!IdAssumption
<1>3. \A d \in Calls : AtItsRow(d)'
  BY <1>1, <1>2 DEF ChainTypeInv, AtItsRow, AtWorkOn
<1>4. ChainTypeInv'
  BY <1>1, <1>3 DEF ChainTypeInv
<1>5. Chain!Hashed(quiet)' = Chain!Hashed(quiet) /\ Chain!RowsOf(quiet)' = Chain!RowsOf(quiet)
  BY DEF Chain!Hashed, Chain!RowsOf
<1>6. /\ \A n : Chain!Previous(quiet, n)' = Chain!Previous(quiet, n)
      /\ \A i \in Chain!Hashed(quiet) : Linked(i) => Linked(i)'
  BY <1>5, LinksStay
<1>7. \A d \in Calls : RowInPlace(d)'
  BY <1>1, <1>5, <1>6 DEF QuietInv, RowInPlace, AtWorkOn
<1>8. \A d, e \in Calls : d # e => Apart(d, e)'
  BY <1>1 DEF QuietInv, Apart, AtWorkOn
<1>9. nextId' > Legacy /\ \A i \in Chain!Ids : blocks'[i] # None => i < nextId'
  BY <1>2 DEF QuietInv, Chain!Ids
<1>10. ASSUME NEW i \in Chain!RowsOf(quiet)'
       PROVE  IF blocks'[i].hash = None THEN i <= Legacy \/ \E d \in Calls : Making(d, i)'
              ELSE i > Legacy /\ Linked(i)'
  <2>0. i \in Chain!RowsOf(quiet) /\ i \in Chain!Ids
    BY <1>5 DEF Chain!RowsOf
  <2>1. CASE blocks[i].hash = None
    <3>1. \A d \in Calls : Making(d, i) => Making(d, i)'
      BY <1>1, <2>0 DEF Making
    <3> QED BY <2>0, <2>1, <3>1 DEF QuietInv
  <2>2. CASE blocks[i].hash # None
    <3>1. i \in Chain!Hashed(quiet)
      BY <2>0, <2>2 DEF Chain!Hashed, Chain!RowsOf
    <3> QED BY <1>6, <2>0, <2>2, <3>1 DEF QuietInv
  <2> QED BY <2>1, <2>2
<1> QED BY <1>4, <1>5, <1>7, <1>8, <1>9, <1>10 DEF QuietInv

\* A call stays where it is, beside row i, or it is not the quiet tenant's.
Aside(d, i) ==
    \/ writing'[d] = writing[d] /\ (AtWorkOn(d) /\ writing[d].id = i => RowInPlace(d)')
    \/ /\ writing'[d].tenant # quiet /\ writing[d].tenant # quiet
       /\ AtWorkOn(d)' => AtWorkOn(d) /\ writing'[d].id = writing[d].id
       /\ AtItsRow(d)' /\ RowInPlace(d)'

\* A row that is not the quiet tenant's is written, or deleted.
LEMMA OtherRowKeepsChain ==
    ASSUME ChainTypeInv, QuietInv, UNCHANGED <<nextId, export>>, tampered' \subseteq {quiet, busy},
           NEW i \in Chain!Ids, NEW n \in Chain!RowType \union {None}, blocks' = [blocks EXCEPT ![i] = n],
           blocks[i] # None => blocks[i].tenant # quiet, n # None => n.tenant # quiet /\ i < nextId,
           writing' \in [Calls -> Writing],
           \A d \in Calls : Aside(d, i)
    PROVE  ChainTypeInv' /\ QuietInv' /\ Chain!Hashed(quiet) \subseteq Chain!Hashed(quiet)'
<1>1. /\ blocks'[i] = n /\ \A j \in Chain!Ids : j # i => blocks'[j] = blocks[j]
      /\ blocks' \in [Chain!Ids -> Chain!RowType \union {None}]
  BY DEF ChainTypeInv
<1>2. \A d \in Calls : AtItsRow(d)'
  BY DEF ChainTypeInv, AtItsRow, AtWorkOn, Aside
<1>3. ChainTypeInv'
  BY <1>1, <1>2 DEF ChainTypeInv
<1>4. Chain!Hashed(quiet)' = Chain!Hashed(quiet) /\ Chain!RowsOf(quiet)' = Chain!RowsOf(quiet)
  BY <1>1 DEF Chain!Hashed, Chain!RowsOf, Chain!Ids
<1>5. \A j \in Chain!RowsOf(quiet) : blocks'[j] = blocks[j]
  BY <1>1 DEF Chain!RowsOf
<1>6. \A j \in Chain!Hashed(quiet) : blocks'[j] = blocks[j]
  BY <1>1 DEF Chain!Hashed
<1>7. /\ \A m : Chain!Previous(quiet, m)' = Chain!Previous(quiet, m)
      /\ \A j \in Chain!Hashed(quiet) : Linked(j) => Linked(j)'
  BY <1>4, <1>6, LinksStay
<1>8. ASSUME NEW d \in Calls PROVE RowInPlace(d)'
  <2>1. CASE writing'[d] = writing[d] /\ AtWorkOn(d) /\ writing[d].id # i
    <3>1. writing[d].id \in Chain!Ids
      BY <2>1, Bounds DEF ChainTypeInv, AtItsRow
    <3>2. blocks'[writing[d].id] = blocks[writing[d].id]
      BY <1>1, <2>1, <3>1
    <3> QED BY <1>4, <1>7, <2>1, <3>2 DEF QuietInv, RowInPlace, AtWorkOn
  <2>2. CASE writing'[d] = writing[d] /\ ~AtWorkOn(d)
    BY <2>2 DEF RowInPlace, AtWorkOn
  <2>3. CASE writing'[d] # writing[d] \/ (AtWorkOn(d) /\ writing[d].id = i)
    BY <2>3 DEF Aside
  <2> QED BY <2>1, <2>2, <2>3
<1>9. \A d, e \in Calls : d # e => Apart(d, e)'
  BY DEF QuietInv, Apart, AtWorkOn, Aside
<1>10. nextId' > Legacy /\ \A j \in Chain!Ids : blocks'[j] # None => j < nextId'
  BY <1>1 DEF QuietInv
<1>11. ASSUME NEW j \in Chain!RowsOf(quiet)'
       PROVE  IF blocks'[j].hash = None THEN j <= Legacy \/ \E d \in Calls : Making(d, j)'
              ELSE j > Legacy /\ Linked(j)'
  <2>0. j \in Chain!RowsOf(quiet) /\ blocks'[j] = blocks[j]
    BY <1>4, <1>5
  <2>1. CASE blocks[j].hash = None
    <3>1. \A d \in Calls : Making(d, j) => Making(d, j)'
      BY DEF Making, Aside
    <3> QED BY <2>0, <2>1, <3>1 DEF QuietInv
  <2>2. CASE blocks[j].hash # None
    <3>1. j \in Chain!Hashed(quiet)
      BY <2>0, <2>2 DEF Chain!Hashed, Chain!RowsOf
    <3> QED BY <1>7, <2>0, <2>2, <3>1 DEF QuietInv
  <2> QED BY <2>1, <2>2
<1> QED BY <1>3, <1>4, <1>8, <1>9, <1>10, <1>11 DEF QuietInv

\* The quiet tenant's call writes the row it makes; its hash comes after the others.
WritesOwnRow(c, i, n, k) ==
    /\ c \in Calls /\ AtWorkOn(c) /\ writing[c].tenant = quiet /\ i = writing[c].id
    /\ n \in Chain!RowType /\ blocks' = [blocks EXCEPT ![i] = n]
    /\ n.tenant = quiet /\ n.body = writing[c].body
    /\ k \in Writing /\ writing' = [writing EXCEPT ![c] = k]
    /\ k.id = i /\ k.tenant = quiet /\ k.body = writing[c].body
    /\ nextId' = nextId /\ tampered' = tampered /\ export' = export
    /\ \/ writing[c].pc = "inserting" /\ k.pc = "unlinked" /\ n.hash = None
       \/ /\ writing[c].pc = "linking" /\ k.pc = "done" /\ n.prev = writing[c].prev
          /\ n.hash = Chain!Hash(i, n.body, n.prev)

LEMMA OwnRowKeepsChain ==
    ASSUME ChainTypeInv, QuietInv, NEW c, NEW i, NEW n, NEW k, WritesOwnRow(c, i, n, k)
    PROVE  ChainTypeInv' /\ QuietInv' /\ Chain!Hashed(quiet) \subseteq Chain!Hashed(quiet)'
<1> USE DEF WritesOwnRow
<1>0. i \in Chain!Ids /\ AtItsRow(c) /\ RowInPlace(c) /\ i \in Nat /\ nextId \in Nat /\ i < nextId
  BY Bounds DEF ChainTypeInv, AtItsRow, QuietInv
<1>1. /\ blocks'[i] = n /\ \A j \in Chain!Ids : j # i => blocks'[j] = blocks[j]
      /\ blocks' \in [Chain!Ids -> Chain!RowType \union {None}]
      /\ writing'[c] = k /\ \A d \in Calls : d # c => writing'[d] = writing[d]
      /\ writing' \in [Calls -> Writing]
  BY <1>0 DEF ChainTypeInv
<1>2. \A d \in Calls : AtItsRow(d)'
  BY <1>0, <1>1 DEF ChainTypeInv, AtItsRow, AtWorkOn
<1>3. ChainTypeInv'
  BY <1>1, <1>2 DEF ChainTypeInv
<1>4. n # None
  BY PartsAssumption DEF Chain!NoneAssumption
<1>5. Chain!RowsOf(quiet)' = Chain!RowsOf(quiet) \union {i}
  BY <1>0, <1>1, <1>4 DEF Chain!RowsOf, Chain!Ids
<1>6. \A j \in Chain!RowsOf(quiet) : j <= i
  BY DEF RowInPlace, QuietInv
<1>7. /\ \A d \in Calls : d # c => Apart(c, d)
      /\ \A d \in Calls : d # c /\ AtWorkOn(d) => writing[d].id # i /\ writing[d].tenant # quiet
  BY DEF QuietInv, Apart
<1>8. ASSUME NEW d \in Calls PROVE RowInPlace(d)'
  <2>1. CASE d # c /\ AtWorkOn(d)
    <3>1. writing[d].id \in Chain!Ids /\ writing[d].id # i
      BY <1>7, <2>1, Bounds DEF ChainTypeInv, AtItsRow
    <3>2. blocks'[writing[d].id] = blocks[writing[d].id] /\ writing[d].tenant # quiet /\ writing'[d] = writing[d]
      BY <1>1, <1>7, <2>1, <3>1
    <3> QED BY <2>1, <3>2 DEF QuietInv, RowInPlace, AtWorkOn
  <2>2. CASE d # c /\ ~AtWorkOn(d)
    BY <1>1, <2>2 DEF RowInPlace, AtWorkOn
  <2>3. CASE d = c
    BY <1>0, <1>1, <1>4, <1>5, <1>6, <2>3 DEF RowInPlace, AtWorkOn, Chain!Working
  <2> QED BY <2>1, <2>2, <2>3
<1>9. \A d, e \in Calls : d # e => Apart(d, e)'
  BY <1>1 DEF QuietInv, Apart, AtWorkOn, Chain!Working
<1>10. nextId' > Legacy /\ \A j \in Chain!Ids : blocks'[j] # None => j < nextId'
  BY <1>0, <1>1 DEF QuietInv
<1>11. \A j \in Chain!Ids, d \in Calls : Making(d, j) /\ j # i => Making(d, j)'
  BY <1>1 DEF Making
<1>12. CASE writing[c].pc = "inserting" /\ k.pc = "unlinked" /\ n.hash = None
  <2>1. blocks[i] = None
    BY <1>0, <1>12 DEF RowInPlace
  <2>2. Chain!Hashed(quiet)' = Chain!Hashed(quiet) /\ \A j \in Chain!Hashed(quiet) : blocks'[j] = blocks[j] /\ j # i
    BY <1>0, <1>1, <1>12, <2>1 DEF Chain!Hashed, Chain!Ids
  <2>3. \A j \in Chain!Hashed(quiet) : Linked(j) => Linked(j)'
    BY <2>2, LinksStay
  <2>4. Making(c, i)'
    BY <1>1, <1>12 DEF Making
  <2>5. ASSUME NEW j \in Chain!RowsOf(quiet)'
        PROVE  IF blocks'[j].hash = None THEN j <= Legacy \/ \E d \in Calls : Making(d, j)'
               ELSE j > Legacy /\ Linked(j)'
    <3>1. CASE j = i
      BY <1>1, <1>12, <2>4, <3>1
    <3>2. CASE j # i
      <4>1. j \in Chain!RowsOf(quiet) /\ blocks'[j] = blocks[j] /\ j \in Chain!Ids
        BY <1>1, <1>5, <3>2 DEF Chain!RowsOf
      <4>2. blocks[j].hash # None => j \in Chain!Hashed(quiet)
        BY <4>1 DEF Chain!Hashed, Chain!RowsOf
      <4> QED BY <1>11, <2>3, <3>2, <4>1, <4>2 DEF QuietInv
    <3> QED BY <3>1, <3>2
  <2> QED BY <1>3, <1>8, <1>9, <1>10, <2>2, <2>5 DEF QuietInv
<1>13. CASE /\ writing[c].pc = "linking" /\ k.pc = "done" /\ n.prev = writing[c].prev
            /\ n.hash = Chain!Hash(i, n.body, n.prev)
  <2>1. blocks[i] # None /\ blocks[i].hash = None /\ n.prev = Chain!Previous(quiet, i)
    BY <1>0, <1>13 DEF RowInPlace
  <2>2. n.prev \in Chain!Hashes /\ n.body \in Bodies
    BY <1>0, <1>13 DEF AtItsRow
  <2>3. n.hash \in Chain!Hashes /\ n.hash # None
    BY <1>0, <1>13, <2>2, HashFacts, PartsAssumption DEF Chain!NoneAssumption
  <2>4. PICK H : H = Chain!Hashed(quiet)
    OBVIOUS
  <2>5. /\ Chain!Hashed(quiet)' = H \union {i} /\ i \notin H /\ H \subseteq Chain!Ids
        /\ \A j \in H : j < i /\ j \in Nat /\ j \in Chain!RowsOf(quiet) /\ blocks'[j] = blocks[j] /\ blocks[j].hash # None
    <3>1. Chain!Hashed(quiet)' = H \union {i} /\ i \notin H /\ H \subseteq Chain!Ids
      BY <1>0, <1>1, <1>4, <2>1, <2>3, <2>4 DEF Chain!Hashed, Chain!Ids
    <3>2. \A j \in H : j \in Chain!RowsOf(quiet) /\ j \in Chain!Ids /\ blocks[j].hash # None
      BY <2>4 DEF Chain!Hashed, Chain!RowsOf
    <3> QED BY <1>0, <1>1, <1>6, <3>1, <3>2, Bounds
  <2>6. \A m \in Chain!Ids : m <= i => Chain!Previous(quiet, m)' = Chain!Previous(quiet, m)
    <3> SUFFICES ASSUME NEW m \in Chain!Ids, m <= i PROVE Chain!Previous(quiet, m)' = Chain!Previous(quiet, m)
      OBVIOUS
    <3>1. PICK below : below = {j \in H : j < m}
      OBVIOUS
    <3>2. PICK g : g = Chain!Greatest(below)
      OBVIOUS
    <3>3. below = {j \in H \union {i} : j < m}
      BY <1>0, <2>5, <3>1, Bounds
    <3>4. Chain!Previous(quiet, m) = IF below = {} THEN Chain!Genesis ELSE blocks[g].hash
      BY <2>4, <3>1, <3>2 DEF Chain!Previous
    <3>5. Chain!Previous(quiet, m)' = IF below = {} THEN Chain!Genesis ELSE blocks'[g].hash
      BY <2>5, <3>2, <3>3 DEF Chain!Previous, Chain!Greatest, Chain!Genesis
    <3>6. below # {} => g \in H
      BY <2>5, <3>1, <3>2, GreatestId
    <3> QED BY <2>5, <3>4, <3>5, <3>6
  <2>7. \A j \in H : UpTo(j)' = UpTo(j)
    BY <1>0, <2>4, <2>5 DEF UpTo
  <2>8. \A j \in H : Linked(j) => Linked(j)'
    <3> SUFFICES ASSUME NEW j \in H, Linked(j) PROVE Linked(j)'
      OBVIOUS
    <3>1. Chain!Previous(quiet, j)' = Chain!Previous(quiet, j)
      BY <1>0, <2>5, <2>6
    <3>2. PICK u : u = UpTo(j)
      OBVIOUS
    <3>3. UpTo(j)' = u /\ blocks'[j] = blocks[j]
      BY <2>5, <2>7, <3>2
    <3>4. /\ blocks[j].prev = Chain!Previous(quiet, j)
          /\ blocks[j].hash = Chain!Hash(j, blocks[j].body, blocks[j].prev)
          /\ Covers(blocks[j].hash, u)
      BY <3>2 DEF Linked
    <3> QED BY <3>1, <3>3, <3>4 DEF Linked, Chain!Hash, Covers
  <2>9. Linked(i)'
    <3>1. Chain!Previous(quiet, i)' = n.prev
      BY <1>0, <2>1, <2>6
    <3>2. Covers(n.prev, H)
      <4>1. PICK below : below = {j \in H : j < i}
        OBVIOUS
      <4>2. PICK g : g = Chain!Greatest(below)
        OBVIOUS
      <4>3. below = H
        BY <2>5, <4>1
      <4>4. n.prev = IF H = {} THEN Chain!Genesis ELSE blocks[g].hash
        BY <2>1, <2>4, <4>1, <4>2, <4>3 DEF Chain!Previous
      <4>5. CASE H = {}
        <5>1. n.prev = <<>> /\ Cardinality(H) = 0
          BY <4>4, <4>5, FS_EmptySet, GenesisIsHash
        <5> QED BY <4>5, <5>1 DEF Covers
      <4>6. CASE H # {}
        <5>1. g \in H /\ \A j \in H : j <= g
          BY <2>5, <4>2, <4>3, <4>6, GreatestId
        <5>2. UpTo(g) = H
          BY <2>4, <5>1 DEF UpTo
        <5>3. Linked(g)
          BY <2>5, <5>1 DEF QuietInv
        <5> QED BY <4>4, <4>6, <5>2, <5>3 DEF Linked
      <4> QED BY <4>5, <4>6
    <3>3. UpTo(i)' = H \union {i}
      <4>1. UpTo(i)' = {j \in H \union {i} : j <= i}
        BY <2>5 DEF UpTo
      <4>2. \A j \in H \union {i} : j <= i
        BY <1>0, <2>5
      <4> QED BY <4>1, <4>2
    <3>4. Cardinality(H \union {i}) = Cardinality(H) + 1
      <4>1. IsFiniteSet(Chain!Ids)
        BY Bounds, FS_Interval
      <4>2. IsFiniteSet(H)
        BY <2>5, <4>1, FS_Subset
      <4> QED BY <2>5, <4>2, FS_AddElement
    <3>5. /\ Len(n.hash) = Len(n.prev) + 1 /\ Len(n.prev) \in Nat /\ n.hash[Len(n.prev) + 1][1] = i
          /\ \A m \in 1..Len(n.prev) : n.hash[m] = n.prev[m]
      <4>1. n.prev \in Chain!Hashes /\ n.body \in Bodies /\ n.hash = Chain!Hash(i, n.body, n.prev)
        BY <1>13, <2>2
      <4> QED BY <1>0, <4>1, HashFacts
    <3>6. ASSUME NEW j \in Chain!Ids PROVE j \in H \union {i} <=> \E m \in 1..Len(n.hash) : n.hash[m][1] = j
      <4>1. j \in H <=> \E m \in 1..Len(n.prev) : n.prev[m][1] = j
        BY <3>2 DEF Covers
      <4>2. 1..Len(n.hash) = 1..Len(n.prev) \union {Len(n.prev) + 1}
        BY <3>5
      <4>3. (\E m \in 1..Len(n.hash) : n.hash[m][1] = j) <=> (\E m \in 1..Len(n.prev) : n.prev[m][1] = j) \/ i = j
        BY <3>5, <4>2
      <4> QED BY <4>1, <4>3
    <3>7. Covers(n.hash, H \union {i})
      BY <3>2, <3>4, <3>5, <3>6 DEF Covers
    <3>8. PICK u : u = H \union {i}
      OBVIOUS
    <3>9. UpTo(i)' = u /\ blocks'[i] = n /\ Covers(n.hash, u)
      BY <1>1, <3>3, <3>7, <3>8
    <3>10. n.hash = Chain!Hash(i, n.body, n.prev) /\ Chain!Previous(quiet, i)' = n.prev
      BY <1>13, <3>1
    <3> QED BY <3>9, <3>10 DEF Linked, Chain!Hash, Covers
  <2>10. ASSUME NEW j \in Chain!RowsOf(quiet)'
         PROVE  IF blocks'[j].hash = None THEN j <= Legacy \/ \E d \in Calls : Making(d, j)'
                ELSE j > Legacy /\ Linked(j)'
    <3>1. CASE j = i
      BY <1>0, <1>1, <1>13, <2>3, <2>9, <3>1 DEF RowInPlace
    <3>2. CASE j # i
      <4>1. j \in Chain!RowsOf(quiet) /\ blocks'[j] = blocks[j] /\ j \in Chain!Ids
        BY <1>1, <1>5, <3>2 DEF Chain!RowsOf
      <4>2. blocks[j].hash # None => j \in H
        BY <2>4, <4>1 DEF Chain!Hashed, Chain!RowsOf
      <4> QED BY <1>11, <2>8, <3>2, <4>1, <4>2 DEF QuietInv
    <3> QED BY <3>1, <3>2
  <2> QED BY <1>3, <1>8, <1>9, <1>10, <2>4, <2>5, <2>10 DEF QuietInv
<1> QED BY <1>12, <1>13

LEMMA ChainStepKeepsInv ==
    ASSUME quiet # busy, ChainTypeInv, QuietInv, Chain!Next, UNCHANGED export
    PROVE  ChainTypeInv' /\ QuietInv' /\ Chain!Hashed(quiet) \subseteq Chain!Hashed(quiet)'
<1> DEFINE Kept == ChainTypeInv' /\ QuietInv' /\ Chain!Hashed(quiet) \subseteq Chain!Hashed(quiet)'
<1>0. /\ nextId \in Nat /\ MaxId \in Nat /\ Legacy \in Nat /\ nextId \in 1..(MaxId + 1)
      /\ \A c \in Calls : AtItsRow(c) /\ RowInPlace(c) /\ writing[c] \in Writing
      /\ None \notin Chain!RowType /\ None \notin Chain!Hashes
  BY Bounds, PartsAssumption DEF ChainTypeInv, QuietInv, Chain!IdAssumption, Chain!NoneAssumption
<1>1. ASSUME NEW c \in Calls, NEW t \in {quiet, busy}, NEW b \in Bodies, Chain!Insert(c, t, b) PROVE Kept
  <2>0. /\ writing[c].pc = "idle" /\ nextId <= MaxId /\ nextId' = nextId + 1 /\ UNCHANGED <<blocks, tampered>>
        /\ t = quiet => ~Chain!Busy(quiet)
    BY <1>1 DEF Chain!Insert
  <2>1. PICK k : k = Chain!Call("inserting", t, b, nextId, None)
    OBVIOUS
  <2>2. /\ k \in Writing /\ k.pc = "inserting" /\ k.tenant = t /\ k.body = b /\ k.id = nextId /\ k.prev = None
    BY <1>0, <2>1 DEF Chain!Call, Writing, Chain!Working
  <2>3. /\ writing' = [writing EXCEPT ![c] = k] /\ writing'[c] = k
        /\ \A d \in Calls : d # c => writing'[d] = writing[d]
    BY <1>1, <2>1 DEF Chain!Insert, ChainTypeInv
  <2>4. nextId' \in 1..(MaxId + 1) /\ nextId <= nextId' /\ nextId \in Chain!Ids
    BY <1>0, <2>0, Bounds
  <2>5. AtItsRow(c)'
    BY <1>0, <2>0, <2>2, <2>3 DEF AtItsRow, AtWorkOn
  <2>6. blocks[nextId] = None /\ \A i \in Chain!RowsOf(quiet) : i <= nextId
    BY <1>0, <2>4, Bounds DEF QuietInv, Chain!RowsOf
  <2>7. RowInPlace(c)'
    BY <1>0, <2>0, <2>2, <2>3, <2>6 DEF RowInPlace, AtWorkOn, QuietInv, Chain!RowsOf
  <2>8. \A d \in Calls : AtWorkOn(d) => writing[d].id # nextId /\ (t = quiet => writing[d].tenant # quiet)
    BY <1>0, <2>0 DEF AtItsRow, AtWorkOn, Chain!Busy
  <2>9. \A d \in Calls : c # d => Apart(c, d)'
    BY <2>2, <2>3, <2>8 DEF Apart, AtWorkOn
  <2>10. \A i \in Chain!Ids : Making(c, i) => Making(c, i)'
    BY <2>0 DEF Making
  <2> QED BY <2>0, <2>2, <2>3, <2>4, <2>5, <2>7, <2>9, <2>10, MoveKeepsChain
<1>2. ASSUME NEW c \in Calls, Chain!CommitInsert(c) PROVE Kept
  <2>0. /\ AtWorkOn(c) /\ writing[c].pc = "inserting" /\ UNCHANGED <<nextId, tampered>>
        /\ AtItsRow(c) /\ RowInPlace(c)
    BY <1>0, <1>2 DEF Chain!CommitInsert, AtWorkOn, Chain!Working
  <2>1. PICK i, t, b : i = writing[c].id /\ t = writing[c].tenant /\ b = writing[c].body
    OBVIOUS
  <2>2. i \in Chain!Ids /\ i < nextId /\ t \in {quiet, busy} /\ b \in Bodies /\ blocks[i] = None
    BY <1>0, <2>0, <2>1, Bounds DEF AtItsRow, RowInPlace
  <2>3. PICK n : n = Chain!Row(t, b, None, None)
    OBVIOUS
  <2>4. n \in Chain!RowType /\ n.tenant = t /\ n.body = b /\ n.hash = None
    BY <2>2, <2>3 DEF Chain!Row, Chain!RowType
  <2>5. PICK k : k = [writing[c] EXCEPT !.pc = "unlinked"]
    OBVIOUS
  <2>6. k \in Writing /\ k.pc = "unlinked" /\ k.tenant = t /\ k.body = b /\ k.id = i
    BY <1>0, <2>1, <2>5 DEF Writing, Chain!Working
  <2>7. /\ blocks' = [blocks EXCEPT ![i] = n] /\ writing' = [writing EXCEPT ![c] = k]
        /\ writing' \in [Calls -> Writing] /\ writing'[c] = k
        /\ \A d \in Calls : d # c => writing'[d] = writing[d]
    BY <1>2, <2>1, <2>3, <2>5, <2>6 DEF Chain!CommitInsert, ChainTypeInv
  <2>8. CASE t = quiet
    <3>1. writing[c].tenant = quiet /\ n.tenant = quiet /\ k.tenant = quiet
          /\ n.body = writing[c].body /\ k.body = writing[c].body /\ i = writing[c].id /\ k.id = i
      BY <2>1, <2>4, <2>6, <2>8
    <3>2. blocks' = [blocks EXCEPT ![i] = n] /\ writing' = [writing EXCEPT ![c] = k]
          /\ n \in Chain!RowType /\ k \in Writing
      BY <2>4, <2>6, <2>7
    <3>3. WritesOwnRow(c, i, n, k)
      BY <1>2, <2>0, <2>4, <2>6, <3>1, <3>2 DEF Chain!CommitInsert, WritesOwnRow
    <3> QED BY <3>3, OwnRowKeepsChain
  <2>9. CASE t # quiet
    <3>1. AtItsRow(c)'
      BY <1>0, <2>0, <2>2, <2>6, <2>7, Bounds DEF AtItsRow, AtWorkOn
    <3>2. blocks'[i] = n
      BY <2>2, <2>7 DEF ChainTypeInv
    <3>3. RowInPlace(c)'
      BY <2>0, <2>1, <2>4, <2>6, <2>7, <2>9, <3>2 DEF RowInPlace, AtWorkOn
    <3>4. \A d \in Calls : d # c /\ AtWorkOn(d) => writing[d].id # i
      BY <2>0, <2>1 DEF QuietInv, Apart
    <3>5. \A d \in Calls : Aside(d, i)
      BY <2>0, <2>1, <2>6, <2>7, <2>9, <3>1, <3>3, <3>4 DEF Aside
    <3>6. /\ blocks[i] # None => blocks[i].tenant # quiet
          /\ n # None => n.tenant # quiet /\ i < nextId
          /\ tampered' \subseteq {quiet, busy} /\ n \in Chain!RowType \union {None}
      BY <2>0, <2>2, <2>4, <2>9 DEF ChainTypeInv
    <3> QED BY <2>0, <2>2, <2>7, <3>5, <3>6, OtherRowKeepsChain
  <2> QED BY <2>8, <2>9
<1>3. ASSUME NEW c \in Calls, Chain!FindPrevious(c) PROVE Kept
  <2>0. /\ AtWorkOn(c) /\ writing[c].pc = "unlinked" /\ UNCHANGED <<blocks, nextId, tampered>>
        /\ AtItsRow(c) /\ RowInPlace(c)
    BY <1>0, <1>3 DEF Chain!FindPrevious, AtWorkOn, Chain!Working
  <2>1. PICK p : p = Chain!Previous(writing[c].tenant, writing[c].id)
    OBVIOUS
  <2>2. p \in Chain!Hashes
    BY <2>1, PreviousIsHash
  <2>3. PICK k : k = [writing[c] EXCEPT !.pc = "linking", !.prev = p]
    OBVIOUS
  <2>4. /\ k \in Writing /\ k.pc = "linking" /\ k.tenant = writing[c].tenant /\ k.body = writing[c].body
        /\ k.id = writing[c].id /\ k.prev = p
    BY <1>0, <2>2, <2>3 DEF Writing, Chain!Working
  <2>5. /\ writing' = [writing EXCEPT ![c] = k] /\ writing'[c] = k
        /\ \A d \in Calls : d # c => writing'[d] = writing[d]
    BY <1>0, <1>3, <2>1, <2>3 DEF Chain!FindPrevious, ChainTypeInv
  <2>6. AtItsRow(c)'
    BY <2>0, <2>2, <2>4, <2>5 DEF AtItsRow, AtWorkOn
  <2>7. RowInPlace(c)'
    <3>1. \A n : Chain!Previous(quiet, n)' = Chain!Previous(quiet, n)
      BY <2>0, LinksStay DEF Chain!Hashed
    <3>2. Chain!RowsOf(quiet)' = Chain!RowsOf(quiet)
      BY <2>0 DEF Chain!RowsOf
    <3> QED BY <2>0, <2>1, <2>4, <2>5, <3>1, <3>2 DEF RowInPlace, AtWorkOn
  <2>8. \A d \in Calls : c # d => Apart(c, d)'
    BY <2>0, <2>4, <2>5 DEF QuietInv, Apart, AtWorkOn
  <2>9. \A i \in Chain!Ids : Making(c, i) => Making(c, i)'
    BY <2>4, <2>5 DEF Making
  <2>10. nextId' \in 1..(MaxId + 1) /\ nextId <= nextId'
    BY <1>0, <2>0
  <2> QED BY <2>0, <2>4, <2>5, <2>6, <2>7, <2>8, <2>9, <2>10, MoveKeepsChain
<1>4. ASSUME NEW c \in Calls, Chain!Link(c) PROVE Kept
  <2>0. /\ AtWorkOn(c) /\ writing[c].pc = "linking" /\ UNCHANGED <<nextId, tampered>>
        /\ AtItsRow(c) /\ RowInPlace(c)
    BY <1>0, <1>4 DEF Chain!Link, AtWorkOn, Chain!Working
  <2>1. PICK i, t, b, p : i = writing[c].id /\ t = writing[c].tenant /\ b = writing[c].body /\ p = writing[c].prev
    OBVIOUS
  <2>2. /\ i \in Chain!Ids /\ i < nextId /\ t \in {quiet, busy} /\ b \in Bodies /\ p \in Chain!Hashes
        /\ blocks[i] # None => blocks[i].tenant = t
    BY <1>0, <2>0, <2>1, Bounds DEF AtItsRow, RowInPlace
  <2>3. PICK k : k = [writing[c] EXCEPT !.pc = "done"]
    OBVIOUS
  <2>4. k \in Writing /\ k.pc = "done" /\ k.tenant = t /\ k.body = b /\ k.id = i
    BY <1>0, <2>1, <2>3 DEF Writing, Chain!Working
  <2>5. /\ writing' = [writing EXCEPT ![c] = k]
        /\ writing' \in [Calls -> Writing] /\ writing'[c] = k
        /\ \A d \in Calls : d # c => writing'[d] = writing[d]
    BY <1>4, <2>3, <2>4 DEF Chain!Link, ChainTypeInv
  <2>6. PICK h : h = Chain!Hash(i, b, p)
    OBVIOUS
  <2>7. h \in Chain!Hashes
    BY <2>2, <2>6, HashFacts
  <2>8. PICK n : n = IF blocks[i] = None THEN None ELSE [blocks[i] EXCEPT !.hash = h, !.prev = p]
    OBVIOUS
  <2>9. /\ n \in Chain!RowType \union {None} /\ (n = None <=> blocks[i] = None)
        /\ n # None => n.tenant = t /\ n.body = blocks[i].body /\ n.hash = h /\ n.prev = p
    BY <1>0, <2>2, <2>7, <2>8 DEF ChainTypeInv, Chain!RowType
  <2>10. blocks' = [blocks EXCEPT ![i] = n]
    BY <1>4, <2>1, <2>2, <2>6, <2>8 DEF Chain!Link, ChainTypeInv
  <2>11. CASE t = quiet
    <3>1. blocks[i] # None /\ blocks[i].body = b
      BY <2>0, <2>1, <2>11 DEF RowInPlace
    <3>2. n \in Chain!RowType /\ n.body = b /\ n.tenant = quiet /\ n.prev = p /\ n.hash = Chain!Hash(i, n.body, n.prev)
      BY <2>6, <2>9, <2>11, <3>1
    <3>3. writing[c].tenant = quiet /\ k.tenant = quiet
          /\ n.body = writing[c].body /\ k.body = writing[c].body /\ i = writing[c].id /\ k.id = i
          /\ n.prev = writing[c].prev
      BY <2>1, <2>4, <2>11, <3>2
    <3>4. WritesOwnRow(c, i, n, k)
      BY <2>0, <2>4, <2>5, <2>10, <3>2, <3>3 DEF WritesOwnRow
    <3> QED BY <3>4, OwnRowKeepsChain
  <2>12. CASE t # quiet
    <3>1. AtItsRow(c)' /\ RowInPlace(c)'
      BY <2>4, <2>5 DEF AtItsRow, RowInPlace, AtWorkOn, Chain!Working
    <3>4. \A d \in Calls : d # c /\ AtWorkOn(d) => writing[d].id # i
      BY <2>0, <2>1 DEF QuietInv, Apart
    <3>5. \A d \in Calls : Aside(d, i)
      BY <2>0, <2>1, <2>4, <2>5, <2>12, <3>1, <3>4 DEF Aside
    <3>6. /\ blocks[i] # None => blocks[i].tenant # quiet
          /\ n # None => n.tenant # quiet /\ i < nextId
          /\ tampered' \subseteq {quiet, busy}
      BY <2>0, <2>2, <2>9, <2>12 DEF ChainTypeInv
    <3> QED BY <2>0, <2>2, <2>5, <2>9, <2>10, <3>5, <3>6, OtherRowKeepsChain
  <2> QED BY <2>11, <2>12
<1>5. ASSUME NEW c \in Calls, Chain!Die(c) PROVE Kept
  <2>0. /\ AtWorkOn(c) /\ writing[c].tenant = busy /\ UNCHANGED <<blocks, nextId, tampered>>
    BY <1>5 DEF Chain!Die, AtWorkOn
  <2>1. PICK k : k = [writing[c] EXCEPT !.pc = "done"]
    OBVIOUS
  <2>2. k \in Writing /\ k.pc = "done"
    BY <1>0, <2>1 DEF Writing, Chain!Working
  <2>3. writing' = [writing EXCEPT ![c] = k] /\ writing'[c] = k
    BY <1>5, <2>1 DEF Chain!Die, ChainTypeInv
  <2>4. AtItsRow(c)' /\ RowInPlace(c)' /\ \A d \in Calls : c # d => Apart(c, d)'
    BY <2>2, <2>3 DEF AtItsRow, RowInPlace, Apart, AtWorkOn, Chain!Working
  <2>5. \A i \in Chain!Ids : Making(c, i) => Making(c, i)'
    BY <2>0 DEF Making
  <2>6. nextId' \in 1..(MaxId + 1) /\ nextId <= nextId'
    BY <1>0, <2>0
  <2> QED BY <2>0, <2>2, <2>3, <2>4, <2>5, <2>6, MoveKeepsChain
\* A row is edited or deleted by hand.
<1>6. ASSUME NEW i \in Chain!Ids, blocks[i] # None, blocks[i].tenant = busy, NEW n \in Chain!RowType \union {None},
             n # None => n.tenant = busy, blocks' = [blocks EXCEPT ![i] = n],
             tampered' = tampered \union {blocks[i].tenant}, UNCHANGED <<nextId, writing>>
      PROVE  Kept
  <2>1. tampered' \subseteq {quiet, busy} /\ i < nextId /\ writing' \in [Calls -> Writing]
    BY <1>6 DEF ChainTypeInv, QuietInv
  <2>2. ASSUME NEW d \in Calls, AtWorkOn(d), writing[d].id = i PROVE RowInPlace(d)'
    <3>1. writing[d].tenant = busy /\ writing[d].pc # "inserting"
      BY <1>0, <1>6, <2>2 DEF RowInPlace
    <3>2. blocks'[i] = n
      BY <1>6 DEF ChainTypeInv
    <3> QED BY <1>0, <1>6, <2>2, <3>1, <3>2 DEF RowInPlace, AtWorkOn
  <2>3. \A d \in Calls : Aside(d, i)
    BY <1>6, <2>2 DEF Aside
  <2> QED BY <1>6, <2>1, <2>3, OtherRowKeepsChain
<1>7. ASSUME NEW i \in Chain!Ids, NEW b \in Bodies, Chain!Edit(i, b) PROVE Kept
  <2>1. PICK n : n = [blocks[i] EXCEPT !.body = b]
    OBVIOUS
  <2>2. /\ blocks[i] # None /\ blocks[i].tenant = busy /\ UNCHANGED <<nextId, writing>>
        /\ tampered' = tampered \union {blocks[i].tenant} /\ blocks' = [blocks EXCEPT ![i] = n]
    BY <1>7, <2>1 DEF Chain!Edit, ChainTypeInv
  <2>3. n \in Chain!RowType /\ n.tenant = busy
    BY <2>1, <2>2, RowFacts DEF Chain!RowType
  <2> QED BY <1>6, <2>2, <2>3
<1>8. ASSUME NEW i \in Chain!Ids, Chain!Delete(i) PROVE Kept
  <2>1. PICK n : n = None
    OBVIOUS
  <2> QED BY <1>6, <1>8, <2>1 DEF Chain!Delete
<1> HIDE DEF Kept
<1>9. Kept
  BY <1>1, <1>2, <1>3, <1>4, <1>5, <1>7, <1>8 DEF Chain!Next
<1> QED BY <1>9 DEF Kept

\* What a verification of the quiet tenant's chain passes is all of its hashed rows.
LEMMA QuietIsScanned ==
    ASSUME ChainTypeInv, QuietInv
    PROVE  LET S == Chain!RowsOf(quiet) IN
           /\ \A i \in Chain!Scanned(S) : i \in S /\ (blocks[i].hash # None => ~Chain!Fault(S, i))
           /\ \A i \in Chain!Hashed(quiet) : i \in Chain!Scanned(S)
           /\ \A i \in Chain!Scanned(S), j \in Chain!Hashed(quiet) : i <= j => i \in Chain!Hashed(quiet)
           /\ ~Chain!Busy(quiet) => Chain!Scanned(S) \subseteq Chain!Hashed(quiet)
<1> DEFINE S == Chain!RowsOf(quiet)
<1>1. \A i \in S : i \in Chain!Ids /\ i \in Nat /\ blocks[i] # None
  BY Bounds DEF Chain!RowsOf
<1>2. \A i : i \in Chain!Hashed(quiet) <=> i \in S /\ blocks[i].hash # None
  BY DEF Chain!Hashed, Chain!RowsOf
<1>3. \A i \in S : blocks[i].hash # None => i > Legacy /\ Linked(i)
  BY DEF QuietInv
<1>4. Legacy \in Nat
  BY PartsAssumption DEF Chain!IdAssumption
<1>5. ASSUME NEW i \in Chain!Scanned(S), blocks[i].hash = None
      PROVE  \E c \in Calls : Making(c, i)
  <2>1. PICK j \in S : j <= i /\ blocks[j].hash # None
    BY DEF Chain!Scanned
  <2>2. i \in S /\ i > Legacy
    BY <1>1, <1>3, <1>4, <2>1 DEF Chain!Scanned
  <2> QED BY <1>1, <1>4, <1>5, <2>2 DEF QuietInv
<1>6. ASSUME NEW i \in Chain!Scanned(S), NEW j \in Chain!Hashed(quiet), i <= j PROVE i \in Chain!Hashed(quiet)
  <2> SUFFICES ASSUME blocks[i].hash = None PROVE FALSE
    BY <1>2 DEF Chain!Scanned
  <2>1. PICK c \in Calls : Making(c, i)
    BY <1>5
  <2>2. j \in S /\ j # i /\ i \in S
    BY <1>2 DEF Chain!Scanned
  <2>3. j <= i
    BY <2>1, <2>2 DEF QuietInv, RowInPlace, Making, AtWorkOn, Chain!Working
  <2> QED BY <1>1, <1>6, <2>2, <2>3
<1>7. \A i \in Chain!Hashed(quiet) : i \in Chain!Scanned(S)
  BY <1>1, <1>2 DEF Chain!Scanned
<1>8. ASSUME NEW i \in Chain!Hashed(quiet) PROVE ~Chain!Fault(S, i)
  <2>1. Linked(i) /\ i \in S /\ blocks[i].hash # None
    BY <1>2, <1>3
  <2>2. Chain!Earlier(S, i) = {j \in Chain!Hashed(quiet) : j < i}
    <3>1. \A j \in Chain!Scanned(S) : j < i => j \in Chain!Hashed(quiet)
      BY <1>1, <1>6, <2>1 DEF Chain!Scanned
    <3>2. Chain!Earlier(S, i) = {j \in Chain!Scanned(S) : j < i}
      BY DEF Chain!Earlier
    <3> QED BY <1>7, <3>1, <3>2
  <2>3. Chain!Expected(S, i) = Chain!Previous(quiet, i)
    BY <2>2 DEF Chain!Expected, Chain!Previous
  <2> QED BY <2>1, <2>3 DEF Chain!Fault, Chain!MissingHash, Chain!BrokenLink, Chain!Modified, Linked
<1>9. ~Chain!Busy(quiet) => Chain!Scanned(S) \subseteq Chain!Hashed(quiet)
  <2> SUFFICES ASSUME ~Chain!Busy(quiet), NEW i \in Chain!Scanned(S), blocks[i].hash = None PROVE FALSE
    BY <1>2 DEF Chain!Scanned
  <2> QED BY <1>5 DEF Making, Chain!Busy, Chain!Working
<1> QED BY <1>2, <1>6, <1>7, <1>8, <1>9 DEF Chain!Scanned

LEMMA HashedIsFinite ==
    /\ Chain!Hashed(quiet) \subseteq Chain!Ids /\ IsFiniteSet(Chain!Hashed(quiet))
    /\ Cardinality(Chain!Hashed(quiet)) \in 0..MaxId
<1>1. IsFiniteSet(Chain!Ids) /\ Cardinality(Chain!Ids) = MaxId
  BY Bounds, FS_Interval
<1>2. Chain!Hashed(quiet) \subseteq Chain!Ids
  BY DEF Chain!Hashed
<1>3. IsFiniteSet(Chain!Hashed(quiet)) /\ Cardinality(Chain!Hashed(quiet)) <= MaxId
  BY <1>1, <1>2, FS_Subset
<1> QED BY <1>2, <1>3, FS_CardinalityType, Bounds

LEMMA QuietIsChecked ==
    ASSUME ChainTypeInv, QuietInv PROVE Chain!RecordsChecked(quiet) = Cardinality(Chain!Hashed(quiet))
<1> DEFINE S == Chain!RowsOf(quiet)
           Passed == {i \in Chain!Scanned(S) : \A j \in Chain!Scanned(S) : j <= i => ~Chain!Fault(S, j)}
<1>1. ASSUME NEW i \in Passed PROVE i \in Chain!Hashed(quiet)
  <2>1. i \in Chain!Scanned(S) /\ i \in S /\ i <= i
    BY Bounds, QuietIsScanned DEF Chain!RowsOf, Chain!Scanned
  <2>2. blocks[i].hash # None
    BY <2>1 DEF Chain!Fault, Chain!MissingHash
  <2> QED BY <2>1, <2>2 DEF Chain!Hashed, Chain!RowsOf
<1>2. ASSUME NEW i \in Chain!Hashed(quiet) PROVE i \in Passed
  <2>1. i \in Chain!Scanned(S)
    BY QuietIsScanned
  <2>2. \A j \in Chain!Scanned(S) : j <= i => blocks[j].hash # None
    BY QuietIsScanned DEF Chain!Hashed
  <2> QED BY <2>1, <2>2, QuietIsScanned
<1>3. Passed = Chain!Hashed(quiet)
  BY <1>1, <1>2
<1> QED BY <1>3 DEF Chain!RecordsChecked, Chain!Cardinality, Cardinality

\* The root of the quiet tenant's chain is the list of its hashed rows.
LEMMA QuietRoot ==
    ASSUME ChainTypeInv, QuietInv, NEW r, r = Chain!Root(quiet)
    PROVE  r \in Chain!Hashes /\ Covers(r, Chain!Hashed(quiet))
<1>1. r = Chain!Previous(quiet, MaxId + 1)
  BY DEF Chain!Root
<1>2. PICK H : H = Chain!Hashed(quiet)
  OBVIOUS
<1>3. H = {i \in H : i < MaxId + 1} /\ H \subseteq Chain!Ids
  BY <1>2, Bounds, HashedIsFinite
<1>4. PICK g : g = Chain!Greatest(H)
  OBVIOUS
<1>5. r = IF H = {} THEN Chain!Genesis ELSE blocks[g].hash
  BY <1>1, <1>2, <1>3, <1>4 DEF Chain!Previous
<1>6. CASE H = {}
  <2>1. r = <<>> /\ Cardinality(H) = 0
    BY <1>5, <1>6, FS_EmptySet, GenesisIsHash
  <2> QED BY <1>2, <1>6, <2>1, GenesisIsHash DEF Covers
<1>7. CASE H # {}
  <2>1. g \in H /\ \A j \in H : j <= g
    BY <1>3, <1>4, <1>7, GreatestId
  <2>2. UpTo(g) = H
    BY <1>2, <2>1 DEF UpTo
  <2>3. Linked(g) /\ g \in Chain!Ids /\ blocks[g] # None /\ blocks[g].hash # None
    BY <1>2, <2>1 DEF QuietInv, Chain!Hashed, Chain!RowsOf
  <2>4. blocks[g].hash \in Chain!Hashes
    BY <2>3, RowFacts
  <2> QED BY <1>2, <1>5, <1>7, <2>2, <2>3, <2>4 DEF Linked
<1> QED BY <1>6, <1>7

\* An export has counted no more than there is, and lists nothing else.
ExportInv ==
    /\ export.stage # "none" => export.tenant = quiet
    /\ export.listed \subseteq Chain!Hashed(quiet)
    /\ export.claimed <= Cardinality(Chain!Hashed(quiet))
    /\ export.checked <= Cardinality(Chain!Hashed(quiet))
    /\ export.stage \in {"checked", "signed"} => export.claimed <= export.checked
    /\ Chain!ExportsHold

LEMMA ChainStays ==
    ASSUME ChainTypeInv, QuietInv, UNCHANGED Chain!vars, export' \in ExportRecord
    PROVE  ChainTypeInv' /\ QuietInv' /\ Chain!Hashed(quiet)' = Chain!Hashed(quiet)
<1>1. UNCHANGED <<blocks, nextId, writing, tampered>>
  BY DEF Chain!vars
<1>2. ChainTypeInv'
  BY <1>1 DEF ChainTypeInv, AtItsRow, AtWorkOn
<1>3. Chain!Hashed(quiet)' = Chain!Hashed(quiet) /\ Chain!RowsOf(quiet)' = Chain!RowsOf(quiet)
  BY <1>1 DEF Chain!Hashed, Chain!RowsOf
<1>4. /\ \A n : Chain!Previous(quiet, n)' = Chain!Previous(quiet, n)
      /\ \A i \in Chain!Hashed(quiet) : Linked(i) => Linked(i)'
  BY <1>1, <1>3, LinksStay
<1>5. \A c \in Calls : RowInPlace(c)'
  BY <1>1, <1>3, <1>4 DEF QuietInv, RowInPlace, AtWorkOn
<1>6. \A c, d \in Calls : c # d => Apart(c, d)'
  BY <1>1 DEF QuietInv, Apart, AtWorkOn
<1>7. nextId' > Legacy /\ \A i \in Chain!Ids : blocks'[i] # None => i < nextId'
  BY <1>1 DEF QuietInv
<1>8. ASSUME NEW i \in Chain!RowsOf(quiet)'
      PROVE  IF blocks'[i].hash = None THEN i <= Legacy \/ \E c \in Calls : Making(c, i)'
             ELSE i > Legacy /\ Linked(i)'
  <2>1. i \in Chain!RowsOf(quiet) /\ blocks'[i] = blocks[i]
    BY <1>1, <1>3
  <2>2. blocks[i].hash # None => i \in Chain!Hashed(quiet)
    BY <2>1 DEF Chain!Hashed, Chain!RowsOf
  <2>3. \A c \in Calls : Making(c, i) => Making(c, i)'
    BY <1>1 DEF Making
  <2> QED BY <1>4, <2>1, <2>2, <2>3 DEF QuietInv
<1> QED BY <1>2, <1>3, <1>5, <1>6, <1>7, <1>8 DEF QuietInv

LEMMA ExportStepKeepsInv ==
    ASSUME quiet # busy, ChainTypeInv, QuietInv, ExportInv, [Chain!ExportNext]_Chain!exportVars
    PROVE  ChainTypeInv' /\ QuietInv' /\ ExportInv'
<1> PICK H : H = Chain!Hashed(quiet)
  OBVIOUS
<1>0. /\ export \in ExportRecord /\ H \subseteq Chain!Ids /\ Cardinality(H) \in 0..MaxId /\ MaxId \in Nat
      /\ quiet \in {quiet, busy} \union {None} /\ 0 \in 0..MaxId
  BY HashedIsFinite, Bounds DEF ChainTypeInv
<1>1. CASE UNCHANGED export /\ Chain!Next
  <2>1. ChainTypeInv' /\ QuietInv' /\ H \subseteq Chain!Hashed(quiet)'
    BY <1>1, ChainStepKeepsInv
  <2>2. PICK G : G = Chain!Hashed(quiet)'
    OBVIOUS
  <2>3. IsFiniteSet(G) /\ Cardinality(G) \in Nat
    <3>1. IsFiniteSet(Chain!Ids)
      BY Bounds, FS_Interval
    <3>2. G \subseteq Chain!Ids
      BY <2>2 DEF Chain!Hashed
    <3> QED BY <3>1, <3>2, FS_Subset, FS_CardinalityType
  <2>4. Cardinality(H) <= Cardinality(G)
    BY <2>1, <2>2, <2>3, FS_Subset
  <2>5. export.claimed \in Nat /\ export.checked \in Nat
    BY <1>0 DEF ExportRecord
  <2> QED BY <1>0, <1>1, <2>1, <2>2, <2>3, <2>4, <2>5 DEF ExportInv, Chain!ExportsHold
<1>2. CASE UNCHANGED Chain!exportVars
  <2>1. UNCHANGED Chain!vars /\ UNCHANGED export
    BY <1>2 DEF Chain!exportVars
  <2>2. ChainTypeInv' /\ QuietInv' /\ Chain!Hashed(quiet)' = H
    BY <1>0, <2>1, ChainStays
  <2> QED BY <2>1, <2>2 DEF ExportInv, Chain!ExportsHold
<1>3. ASSUME NEW x \in ExportRecord, export' = x, UNCHANGED Chain!vars, x.stage # "none" => x.tenant = quiet,
             x.listed \subseteq H, x.claimed <= Cardinality(H), x.checked <= Cardinality(H),
             x.stage \in {"checked", "signed"} => x.claimed <= x.checked,
             x.stage = "signed" => /\ x.listed \subseteq {x.root[k][1] : k \in DOMAIN x.root}
                                   /\ x.claimed <= x.checked /\ x.checked <= Len(x.root)
      PROVE  ChainTypeInv' /\ QuietInv' /\ ExportInv'
  <2>1. ChainTypeInv' /\ QuietInv' /\ Chain!Hashed(quiet)' = H
    BY <1>3, ChainStays
  <2> QED BY <1>3, <2>1 DEF ExportInv, Chain!ExportsHold
<1>4. ASSUME NEW t \in {quiet}, Chain!List(t), UNCHANGED Chain!vars PROVE ChainTypeInv' /\ QuietInv' /\ ExportInv'
  <2>1. PICK x : x = Chain!Export("listed", quiet, H, 0, 0, Chain!Genesis)
    OBVIOUS
  <2>2. /\ x \in ExportRecord /\ x.stage = "listed" /\ x.tenant = quiet /\ x.listed = H
        /\ x.claimed = 0 /\ x.checked = 0
    BY <1>0, <2>1, GenesisIsHash DEF ExportRecord, Chain!Export, Chain!Stages
  <2>3. export' = x
    BY <1>4, <2>1 DEF Chain!List
  <2> QED BY <1>0, <1>3, <1>4, <2>2, <2>3
<1>5. CASE Chain!Claim /\ UNCHANGED Chain!vars
  <2>0. export.stage = "listed" /\ export.tenant = quiet
    BY <1>5 DEF Chain!Claim, ExportInv
  <2>1. PICK x : x = [export EXCEPT !.stage = "claimed", !.claimed = Cardinality(H)]
    OBVIOUS
  <2>2. /\ x \in ExportRecord /\ x.stage = "claimed" /\ x.tenant = quiet /\ x.listed = export.listed
        /\ x.claimed = Cardinality(H) /\ x.checked = export.checked
    BY <1>0, <2>0, <2>1 DEF ExportRecord, Chain!Stages
  <2>3. export' = x
    BY <1>5, <2>0, <2>1, QuietIsChecked DEF Chain!Claim
  <2> QED BY <1>0, <1>3, <1>5, <2>2, <2>3 DEF ExportInv
<1>6. CASE Chain!Check /\ UNCHANGED Chain!vars
  <2>0. export.stage = "claimed" /\ export.tenant = quiet
    BY <1>6 DEF Chain!Check, ExportInv
  <2>1. PICK x : x = [export EXCEPT !.stage = "checked", !.checked = Cardinality(H)]
    OBVIOUS
  <2>2. /\ x \in ExportRecord /\ x.stage = "checked" /\ x.tenant = quiet /\ x.listed = export.listed
        /\ x.claimed = export.claimed /\ x.checked = Cardinality(H)
    BY <1>0, <2>0, <2>1 DEF ExportRecord, Chain!Stages
  <2>3. export' = x
    BY <1>6, <2>0, <2>1, QuietIsChecked DEF Chain!Check
  <2> QED BY <1>0, <1>3, <1>6, <2>2, <2>3 DEF ExportInv
<1>7. CASE Chain!Sign /\ UNCHANGED Chain!vars
  <2>0. export.stage = "checked" /\ export.tenant = quiet
    BY <1>7 DEF Chain!Sign, ExportInv
  <2>1. PICK r : r = Chain!Root(quiet)
    OBVIOUS
  <2>2. r \in Chain!Hashes /\ Covers(r, H)
    BY <2>1, QuietRoot
  <2>3. PICK x : x = [export EXCEPT !.stage = "signed", !.root = r]
    OBVIOUS
  <2>4. /\ x \in ExportRecord /\ x.stage = "signed" /\ x.tenant = quiet /\ x.listed = export.listed
        /\ x.claimed = export.claimed /\ x.checked = export.checked /\ x.root = r
    BY <1>0, <2>0, <2>2, <2>3 DEF ExportRecord, Chain!Stages
  <2>5. export' = x
    BY <1>7, <2>0, <2>1, <2>3 DEF Chain!Sign
  <2>6. DOMAIN r = 1..Len(r) /\ Len(r) = Cardinality(H)
    BY <2>2 DEF Covers, Chain!Hashes
  <2>7. x.listed \subseteq {r[k][1] : k \in DOMAIN r}
    <3>1. \A j \in H : \E k \in 1..Len(r) : r[k][1] = j
      BY <1>0, <2>2 DEF Covers
    <3>2. x.listed \subseteq H
      BY <2>4 DEF ExportInv
    <3> QED BY <2>6, <3>1, <3>2
  <2>8. x.listed \subseteq H /\ x.claimed <= Cardinality(H) /\ x.checked <= Cardinality(H) /\ x.claimed <= x.checked
    BY <2>0, <2>4 DEF ExportInv
  <2> QED BY <1>3, <1>7, <2>4, <2>5, <2>6, <2>7, <2>8
<1>8. Chain!ExportNext => \/ UNCHANGED export /\ Chain!Next
                          \/ (\E t \in {quiet} : Chain!List(t)) /\ UNCHANGED Chain!vars
                          \/ Chain!Claim /\ UNCHANGED Chain!vars
                          \/ Chain!Check /\ UNCHANGED Chain!vars
                          \/ Chain!Sign /\ UNCHANGED Chain!vars
  BY DEF Chain!ExportNext
<1> QED BY <1>1, <1>2, <1>4, <1>5, <1>6, <1>7, <1>8

LEMMA ChainMoves == Spec => Chain!ExportSpec
<1>1. Init => Chain!ExportInit
  BY DEF Init
<1>2. [Next]_vars => [Chain!ExportNext]_Chain!exportVars
  BY DEF Next, KeyStep, CredentialStep, IsolationStep, PolicyStep, BundleStep, DocumentStep, ChainStep,
         vars, chainVars, Chain!vars, Chain!exportVars, Chain!ExportNext
<1> QED BY <1>1, <1>2, PTL DEF Spec, Chain!ExportSpec

LEMMA ChainInvHolds == Spec => [](ChainTypeInv /\ QuietInv /\ ExportInv)
<1>1. Chain!ExportInit => ChainTypeInv /\ QuietInv /\ ExportInv
  <2> SUFFICES ASSUME Chain!ExportInit PROVE ChainTypeInv /\ QuietInv /\ ExportInv
    OBVIOUS
  <2>0. MaxId \in Nat /\ Legacy \in 0..MaxId /\ None \notin Chain!RowType /\ None \notin Chain!Hashes
    BY PartsAssumption DEF Chain!IdAssumption, Chain!NoneAssumption
  <2>1. PICK old \in [1..Legacy -> {quiet, busy}], b \in Bodies :
           blocks = [i \in Chain!Ids |-> IF i <= Legacy THEN Chain!Row(old[i], b, None, None) ELSE None]
    BY DEF Chain!ExportInit, Chain!Init
  <2>2. ASSUME NEW i \in Chain!Ids
        PROVE  IF i <= Legacy THEN blocks[i] \in Chain!RowType /\ blocks[i].hash = None ELSE blocks[i] = None
    <3>1. CASE i <= Legacy
      <4>1. i \in 1..Legacy
        BY <2>0, <3>1, Bounds
      <4>2. old[i] \in {quiet, busy} /\ blocks[i] = Chain!Row(old[i], b, None, None)
        BY <2>1, <3>1, <4>1
      <4> QED BY <3>1, <4>2 DEF Chain!Row, Chain!RowType
    <3>2. CASE ~(i <= Legacy)
      BY <2>1, <3>2
    <3> QED BY <3>1, <3>2
  <2>3. blocks \in [Chain!Ids -> Chain!RowType \union {None}]
    BY <2>1, <2>2
  <2>4. /\ nextId = Legacy + 1 /\ tampered = {}
        /\ writing = [c \in Calls |-> Chain!Call("idle", None, None, None, None)]
        /\ export = Chain!Export("none", None, {}, 0, 0, Chain!Genesis)
    BY DEF Chain!ExportInit, Chain!Init
  <2>5. PICK k : k = Chain!Call("idle", None, None, None, None)
    OBVIOUS
  <2>6. k \in Writing /\ k.pc = "idle"
    BY <2>5 DEF Chain!Call, Writing
  <2>7. writing \in [Calls -> Writing] /\ \A c \in Calls : ~AtWorkOn(c)
    BY <2>4, <2>5, <2>6 DEF AtWorkOn, Chain!Working
  <2>8. /\ export \in ExportRecord /\ export.stage = "none" /\ export.listed = {}
        /\ export.claimed = 0 /\ export.checked = 0
    BY <2>0, <2>4, GenesisIsHash DEF ExportRecord, Chain!Export, Chain!Stages
  <2>9. ChainTypeInv
    BY <2>0, <2>3, <2>4, <2>7, <2>8 DEF ChainTypeInv, AtItsRow
  <2>10. QuietInv
    BY <2>0, <2>2, <2>4, <2>7, Bounds DEF QuietInv, RowInPlace, Apart, Chain!RowsOf
  <2>11. ExportInv
    BY <2>0, <2>8, HashedIsFinite DEF ExportInv, Chain!ExportsHold
  <2> QED BY <2>9, <2>10, <2>11
<1>2. (ChainTypeInv /\ QuietInv /\ ExportInv) /\ [Chain!ExportNext]_Chain!exportVars
         => (ChainTypeInv /\ QuietInv /\ ExportInv)'
  BY ExportStepKeepsInv, PartsAssumption
<1> QED BY <1>1, <1>2, ChainMoves, PTL DEF Chain!ExportSpec

(***************************************************************************)
(* The chain of a tenant whose blocks are made one after the other         *)
(* verifies whenever none is being made, whatever the other tenants' calls *)
(* do in between, and what is signed of it hangs together: a block's hash  *)
(* is the list of the tenant's blocks up to it (verify_audit.py 76-114,    *)
(* 305-427, 506-649).                                                      *)
(***************************************************************************)
THEOREM QuietChainHolds == Spec => []QuietChainVerifies
<1>1. ChainTypeInv /\ QuietInv /\ ExportInv => QuietChainVerifies
  <2> SUFFICES ASSUME ChainTypeInv, QuietInv, ExportInv PROVE QuietChainVerifies
    OBVIOUS
  <2>1. Chain!Quiet \subseteq {quiet}
    BY DEF Chain!Quiet
  <2>2. ~Chain!Busy(quiet) => Chain!Valid(quiet)
    BY QuietIsScanned DEF Chain!Valid, Chain!Hashed
  <2>3. Chain!QuietChainVerifies
    BY <2>1, <2>2 DEF Chain!QuietChainVerifies
  <2> QED BY <2>3 DEF QuietChainVerifies, ExportInv
<1> QED BY <1>1, ChainInvHolds, PTL

(***************************************************************************)
(* The chain of the quiet tenant as a ledger.                              *)
(***************************************************************************)
log == [t \in Chain!Quiet |-> [k \in 1..Chain!Cardinality(Chain!Hashed(t)) |-> blocks[Chain!Nth(t, k)].body]]
LedgerStep == [Chain!Ledger!Next]_log
AtRank(k) == {i \in Chain!Hashed(quiet) : Cardinality(UpTo(i)) = k}

\* There is a k-th row for every k up to their number.
Ranked == \A k \in 1..Cardinality(Chain!Hashed(quiet)) : AtRank(k) # {}

LEMMA SameCardinality == ASSUME NEW S PROVE Chain!Cardinality(S) = Cardinality(S)
BY DEF Chain!Cardinality, Cardinality

LEMMA QuietAlone == Chain!Quiet = {quiet}
BY PartsAssumption DEF Chain!Quiet

Entries == log = [t \in {quiet} |-> [k \in 1..Cardinality(Chain!Hashed(quiet)) |->
                                        blocks[CHOOSE i : i \in AtRank(k)].body]]

LEMMA LogEntries == Entries
<1>1. ASSUME NEW k PROVE Chain!Nth(quiet, k) = CHOOSE i : i \in AtRank(k)
  <2>1. \A i : i \in Chain!Hashed(quiet) /\ Chain!Cardinality({j \in Chain!Hashed(quiet) : j <= i}) = k
               <=> i \in AtRank(k)
    BY SameCardinality DEF AtRank, UpTo
  <2>2. Chain!Nth(quiet, k) = CHOOSE i : i \in Chain!Hashed(quiet)
                                /\ Chain!Cardinality({j \in Chain!Hashed(quiet) : j <= i}) = k
    BY DEF Chain!Nth
  <2> QED BY <2>1, <2>2
<1>2. Chain!Cardinality(Chain!Hashed(quiet)) = Cardinality(Chain!Hashed(quiet))
  BY SameCardinality
<1> QED BY <1>1, <1>2, QuietAlone DEF log, Entries

\* A row that is not, and does not become, one of the quiet tenant's hashed rows.
LEMMA OtherRowIsNoEntry ==
    ASSUME ChainTypeInv, Ranked, NEW i, i \notin Chain!Hashed(quiet),
           NEW n, blocks' = [blocks EXCEPT ![i] = n], n = None \/ n.tenant # quiet \/ n.hash = None
    PROVE  Ranked' /\ LedgerStep
<1>1. \A j \in Chain!Ids : blocks'[j] = IF j = i THEN n ELSE blocks[j]
  BY DEF ChainTypeInv
<1>2. Chain!Hashed(quiet)' = Chain!Hashed(quiet) /\ \A j \in Chain!Hashed(quiet) : blocks'[j] = blocks[j]
  BY <1>1 DEF Chain!Hashed, Chain!Ids
<1>3. \A k : AtRank(k)' = AtRank(k)
  BY <1>2 DEF AtRank, UpTo
<1>4. Ranked'
  BY <1>2, <1>3 DEF Ranked
<1>5. PICK H : H = Chain!Hashed(quiet)
  OBVIOUS
<1>6. \A k \in 1..Cardinality(H) : blocks'[CHOOSE j : j \in AtRank(k)] = blocks[CHOOSE j : j \in AtRank(k)]
  <2>1. \A k \in 1..Cardinality(H) : (CHOOSE j : j \in AtRank(k)) \in H
    BY <1>5 DEF Ranked, AtRank
  <2> QED BY <1>2, <1>5, <2>1
<1>7. log' = log
  <2>1. Entries /\ Entries'
    BY LogEntries, PTL
  <2> QED BY <1>2, <1>3, <1>5, <1>6, <2>1 DEF Entries
<1> QED BY <1>4, <1>7 DEF LedgerStep

\* A hashed row after all others of the quiet tenant is the ledger's next entry.
LEMMA LastRowIsEntry ==
    ASSUME ChainTypeInv, Ranked, NEW i \in Chain!Ids, i \notin Chain!Hashed(quiet),
           \A j \in Chain!Hashed(quiet) : j <= i,
           NEW n \in Chain!RowType, n.tenant = quiet, n.hash # None, blocks' = [blocks EXCEPT ![i] = n]
    PROVE  Ranked' /\ LedgerStep
<1>0. n # None /\ n.body \in Bodies /\ i \in Nat
  BY PartsAssumption, Bounds DEF Chain!NoneAssumption, Chain!RowType
<1>1. PICK H, N : H = Chain!Hashed(quiet) /\ N = Cardinality(H)
  OBVIOUS
<1>2. H \subseteq Chain!Ids /\ H \subseteq Nat /\ IsFiniteSet(H) /\ N \in Nat
  BY <1>1, HashedIsFinite, Bounds
<1>3. blocks'[i] = n /\ \A j \in Chain!Ids : j # i => blocks'[j] = blocks[j]
  BY DEF ChainTypeInv
<1>4. Chain!Hashed(quiet)' = H \union {i}
  BY <1>0, <1>1, <1>3 DEF Chain!Hashed, Chain!Ids
<1>5. Cardinality(H \union {i}) = N + 1
  BY <1>1, <1>2, FS_AddElement
<1>6. \A j \in H : j <= i /\ i # j
  BY <1>1
<1>7. UpTo(i)' = H \union {i} /\ \A j \in H : UpTo(j)' = UpTo(j)
  <2>1. \A m : UpTo(m)' = {j \in H \union {i} : j <= m}
    BY <1>4 DEF UpTo
  <2>2. \A m : UpTo(m) = {j \in H : j <= m}
    BY <1>1 DEF UpTo
  <2>3. UpTo(i)' = H \union {i}
    <3>1. i <= i
      BY <1>0
    <3>2. \A j \in H \union {i} : j <= i
      BY <1>6, <3>1
    <3>3. {j \in H \union {i} : j <= i} = H \union {i}
      BY <3>2
    <3>4. UpTo(i)' = {j \in H \union {i} : j <= i}
      BY <2>1
    <3> QED BY <3>3, <3>4
  <2>4. ASSUME NEW j \in H PROVE UpTo(j)' = UpTo(j)
    <3>1. ~(i <= j)
      BY <1>0, <1>2, <1>6
    <3> QED BY <2>1, <2>2, <3>1
  <2> QED BY <2>3, <2>4
<1>8. \A j \in H : Cardinality(UpTo(j)) <= N
  BY <1>1, <1>2, FS_Subset DEF UpTo
<1>9. \A k \in 1..N : AtRank(k)' = AtRank(k)
  <2>1. ASSUME NEW k \in 1..N PROVE AtRank(k)' = AtRank(k)
    <3>1. AtRank(k)' = {j \in H \union {i} : Cardinality(UpTo(j)') = k}
      BY <1>4 DEF AtRank
    <3>2. Cardinality(UpTo(i)') # k
      BY <1>2, <1>5, <1>7
    <3>3. AtRank(k) = {j \in H : Cardinality(UpTo(j)) = k}
      BY <1>1 DEF AtRank
    <3> QED BY <1>7, <3>1, <3>2, <3>3
  <2> QED BY <2>1
<1>10. AtRank(N + 1)' = {i}
  <2>1. AtRank(N + 1)' = {j \in H \union {i} : Cardinality(UpTo(j)') = N + 1}
    BY <1>4 DEF AtRank
  <2>2. \A j \in H : Cardinality(UpTo(j)') # N + 1
    <3>1. ASSUME NEW j \in H PROVE Cardinality(UpTo(j)') # N + 1
      <4>1. IsFiniteSet(UpTo(j)) /\ UpTo(j)' = UpTo(j)
        BY <1>1, <1>2, <1>7, FS_Subset DEF UpTo
      <4>2. Cardinality(UpTo(j)) \in Nat
        BY <4>1, FS_CardinalityType
      <4> QED BY <1>2, <1>8, <4>1, <4>2
    <3> QED BY <3>1
  <2> QED BY <1>5, <1>7, <2>1, <2>2
<1>11. 1..(N + 1) = 1..N \union {N + 1}
  BY <1>2
<1>12. Ranked'
  <2>1. \A k \in 1..N : AtRank(k)' # {}
    BY <1>1, <1>9 DEF Ranked
  <2>2. AtRank(N + 1)' # {}
    BY <1>10
  <2>3. \A k \in 1..(N + 1) : AtRank(k)' # {}
    BY <1>11, <2>1, <2>2
  <2> QED BY <1>4, <1>5, <2>3 DEF Ranked
<1>13. Entries /\ Entries'
  BY LogEntries, PTL
<1>14. \A k \in 1..N : (CHOOSE j : j \in AtRank(k)) \in H
  BY <1>1 DEF Ranked, AtRank
<1>15. (CHOOSE j : j \in {i}) = i
  OBVIOUS
<1>16. PICK s : s = [k \in 1..N |-> blocks[CHOOSE j : j \in AtRank(k)].body]
  OBVIOUS
<1>17. log = [t \in {quiet} |-> s]
  BY <1>1, <1>13, <1>16 DEF Entries
<1>18. PICK r : r = [k \in 1..(N + 1) |-> blocks'[CHOOSE j : j \in AtRank(k)'].body]
  OBVIOUS
<1>19. log' = [t \in {quiet} |-> r]
  BY <1>4, <1>5, <1>13, <1>18 DEF Entries
<1>20. \A k \in 1..N : r[k] = s[k]
  <2>1. ASSUME NEW k \in 1..N PROVE r[k] = s[k]
    <3>1. PICK j : j = CHOOSE m : m \in AtRank(k)
      OBVIOUS
    <3>2. j \in H
      BY <1>14, <3>1
    <3>3. blocks'[j] = blocks[j]
      BY <1>2, <1>3, <1>6, <3>2
    <3>4. s[k] = blocks[j].body
      BY <1>16, <3>1
    <3>5. r[k] = blocks'[CHOOSE m : m \in AtRank(k)'].body
      BY <1>11, <1>18
    <3>6. r[k] = blocks'[j].body
      BY <1>9, <3>1, <3>5
    <3> QED BY <3>3, <3>4, <3>6
  <2> QED BY <2>1
<1>21. r[N + 1] = n.body
  BY <1>3, <1>10, <1>11, <1>15, <1>18
<1>22. s \in Seq(Bodies) /\ Len(s) = N
  <2>1. \A k \in 1..N : s[k] \in Bodies
    <3>1. \A j \in H : blocks[j].body \in Bodies
      BY <1>1, RowFacts DEF Chain!Hashed
    <3> QED BY <1>14, <1>16, <3>1
  <2>2. s \in [1..N -> Bodies]
    BY <1>16, <2>1
  <2> QED BY <1>2, <2>2
<1>23. PICK b : b = n.body
  OBVIOUS
<1>24. r = Append(s, b)
  <2>0. b \in Bodies
    BY <1>0, <1>23
  <2>1. Append(s, b) \in Seq(Bodies) /\ Len(Append(s, b)) = N + 1
    BY <1>22, <2>0
  <2>4. Append(s, b) \in [1..(N + 1) -> Bodies]
    <3>1. PICK q : q = Append(s, b)
      OBVIOUS
    <3>2. q \in Seq(Bodies) /\ Len(q) = N + 1
      BY <2>1, <3>1
    <3>3. q \in [1..Len(q) -> Bodies]
      BY <3>2
    <3> QED BY <3>1, <3>2, <3>3
  <2>2. \A k \in 1..N : Append(s, b)[k] = s[k]
    BY <1>0, <1>2, <1>22, <1>23
  <2>3. Append(s, b)[N + 1] = b
    BY <1>0, <1>2, <1>22, <1>23
  <2>5. DOMAIN r = 1..(N + 1) /\ r = [k \in 1..(N + 1) |-> r[k]]
    BY <1>18
  <2>6. \A k \in 1..(N + 1) : Append(s, b)[k] = r[k]
    BY <1>11, <1>20, <1>21, <1>23, <2>2, <2>3
  <2> QED BY <2>4, <2>5, <2>6
<1>25. log' = [log EXCEPT ![quiet] = Append(@, b)]
  BY <1>17, <1>19, <1>24
<1>26. Chain!Ledger!Add(quiet, b)
  BY <1>25, SameCardinality DEF Chain!Ledger!Add, log
<1>27. Chain!Ledger!Next
  BY <1>0, <1>23, <1>26, QuietAlone DEF Chain!Ledger!Next
<1> QED BY <1>12, <1>27 DEF LedgerStep

LEMMA StepIsLedger ==
    ASSUME ChainTypeInv, QuietInv, Ranked, Chain!Next
    PROVE  Ranked' /\ LedgerStep
<1>0. /\ quiet # busy /\ None \notin Chain!Hashes
      /\ \A c \in Calls : AtItsRow(c) /\ RowInPlace(c)
  BY PartsAssumption DEF ChainTypeInv, QuietInv, Chain!NoneAssumption
<1>1. CASE UNCHANGED blocks
  <2>1. Chain!Hashed(quiet)' = Chain!Hashed(quiet) /\ \A k : AtRank(k)' = AtRank(k)
    BY <1>1 DEF Chain!Hashed, AtRank, UpTo
  <2>2. Entries /\ Entries'
    BY LogEntries, PTL
  <2>3. log' = log
    BY <1>1, <2>1, <2>2 DEF Entries
  <2> QED BY <2>1, <2>3 DEF Ranked, LedgerStep
<1>2. ASSUME NEW c \in Calls, Chain!CommitInsert(c) PROVE Ranked' /\ LedgerStep
  <2>1. PICK i : i = writing[c].id
    OBVIOUS
  <2>2. PICK n : n = Chain!Row(writing[c].tenant, writing[c].body, None, None)
    OBVIOUS
  <2>3. blocks[i] = None
    BY <1>0, <1>2, <2>1 DEF Chain!CommitInsert, RowInPlace, AtWorkOn, Chain!Working
  <2>4. n.hash = None /\ blocks' = [blocks EXCEPT ![i] = n]
    BY <1>2, <2>1, <2>2 DEF Chain!CommitInsert, Chain!Row
  <2> QED BY <2>3, <2>4, OtherRowIsNoEntry DEF Chain!Hashed
<1>3. ASSUME NEW c \in Calls, Chain!Link(c) PROVE Ranked' /\ LedgerStep
  <2>0. AtWorkOn(c) /\ writing[c].pc = "linking" /\ AtItsRow(c) /\ RowInPlace(c)
    BY <1>0, <1>3 DEF Chain!Link, AtWorkOn, Chain!Working
  <2>1. PICK i, t, b, p : i = writing[c].id /\ t = writing[c].tenant /\ b = writing[c].body /\ p = writing[c].prev
    OBVIOUS
  <2>2. /\ i \in Chain!Ids /\ t \in {quiet, busy} /\ b \in Bodies /\ p \in Chain!Hashes
        /\ blocks[i] # None => blocks[i].tenant = t
    <3>1. nextId \in 1..(MaxId + 1) /\ i \in 1..(nextId - 1)
      BY <2>0, <2>1 DEF ChainTypeInv, AtItsRow
    <3>2. i \in Chain!Ids
      BY <3>1, Bounds
    <3> QED BY <2>0, <2>1, <3>2 DEF AtItsRow, RowInPlace
  <2>3. PICK h : h = Chain!Hash(i, b, p)
    OBVIOUS
  <2>4. h \in Chain!Hashes
    BY <2>2, <2>3, HashFacts
  <2>5. CASE blocks[i] = None
    BY <1>1, <1>3, <2>1, <2>5 DEF Chain!Link
  <2>6. CASE blocks[i] # None
    <3>1. PICK n : n = [blocks[i] EXCEPT !.hash = h, !.prev = p]
      OBVIOUS
    <3>2. n \in Chain!RowType /\ n.tenant = t /\ n.hash = h
      BY <2>2, <2>4, <2>6, <3>1, RowFacts DEF Chain!RowType
    <3>3. blocks' = [blocks EXCEPT ![i] = n]
      BY <1>3, <2>1, <2>2, <2>3, <2>6, <3>1 DEF Chain!Link, ChainTypeInv
    <3>4. CASE t = quiet
      <4>1. blocks[i].hash = None /\ \A j \in Chain!RowsOf(quiet) : j <= i
        BY <2>0, <2>1, <3>4 DEF RowInPlace
      <4>2. i \notin Chain!Hashed(quiet) /\ \A j \in Chain!Hashed(quiet) : j <= i
        BY <4>1 DEF Chain!Hashed, Chain!RowsOf
      <4>3. n.hash # None
        BY <1>0, <2>4, <3>2
      <4> QED BY <2>2, <3>2, <3>3, <3>4, <4>2, <4>3, LastRowIsEntry
    <3>5. CASE t # quiet
      <4>1. i \notin Chain!Hashed(quiet)
        BY <2>2, <2>6, <3>5 DEF Chain!Hashed
      <4> QED BY <3>2, <3>3, <3>5, <4>1, OtherRowIsNoEntry
    <3> QED BY <3>4, <3>5
  <2> QED BY <2>5, <2>6
<1>4. ASSUME NEW i \in Chain!Ids, NEW b \in Bodies, Chain!Edit(i, b) PROVE Ranked' /\ LedgerStep
  <2>1. PICK n : n = [blocks[i] EXCEPT !.body = b]
    OBVIOUS
  <2>2. blocks[i] # None /\ blocks[i].tenant = busy /\ blocks' = [blocks EXCEPT ![i] = n]
    BY <1>4, <2>1 DEF Chain!Edit, ChainTypeInv
  <2>3. n.tenant = busy
    BY <2>1, <2>2, RowFacts DEF Chain!RowType
  <2>4. i \notin Chain!Hashed(quiet)
    BY <1>0, <2>2 DEF Chain!Hashed
  <2> QED BY <1>0, <2>2, <2>3, <2>4, OtherRowIsNoEntry
<1>5. ASSUME NEW i \in Chain!Ids, Chain!Delete(i) PROVE Ranked' /\ LedgerStep
  <2>1. blocks[i].tenant = busy /\ blocks' = [blocks EXCEPT ![i] = None]
    BY <1>5 DEF Chain!Delete
  <2>2. i \notin Chain!Hashed(quiet)
    BY <1>0, <2>1 DEF Chain!Hashed
  <2> QED BY <2>1, <2>2, OtherRowIsNoEntry
<1>6. ASSUME NEW c \in Calls, NEW t \in {quiet, busy}, NEW b \in Bodies, Chain!Insert(c, t, b)
      PROVE  Ranked' /\ LedgerStep
  BY <1>1, <1>6 DEF Chain!Insert
<1>7. ASSUME NEW c \in Calls, Chain!FindPrevious(c) \/ Chain!Die(c) PROVE Ranked' /\ LedgerStep
  BY <1>1, <1>7 DEF Chain!FindPrevious, Chain!Die
<1> HIDE DEF LedgerStep
<1> QED BY <1>2, <1>3, <1>4, <1>5, <1>6, <1>7 DEF Chain!Next

(***************************************************************************)
(* The rows of a tenant whose blocks are made one after the other are an   *)
(* append-only ledger, in the order of their ids: a block is linked, and   *)
(* so enters the ledger, after all those that have a hash, and no row that *)
(* has one is changed or lost, whatever the other tenant's calls do        *)
(* (verify_audit.py 506-649).                                              *)
(***************************************************************************)
THEOREM LedgerHolds == Spec => LedgerSpec
<1>1. ChainTypeInv /\ QuietInv /\ Ranked /\ [Chain!ExportNext]_Chain!exportVars => Ranked' /\ LedgerStep
  <2> SUFFICES ASSUME ChainTypeInv, QuietInv, Ranked, [Chain!ExportNext]_Chain!exportVars
               PROVE  Ranked' /\ LedgerStep
    OBVIOUS
  <2>1. CASE Chain!Next
    BY <2>1, StepIsLedger
  <2>2. CASE UNCHANGED blocks
    <3>1. Chain!Hashed(quiet)' = Chain!Hashed(quiet) /\ \A k : AtRank(k)' = AtRank(k)
      BY <2>2 DEF Chain!Hashed, AtRank, UpTo
    <3>2. Entries /\ Entries'
      BY LogEntries, PTL
    <3>3. log' = log
      BY <2>2, <3>1, <3>2 DEF Entries
    <3> QED BY <3>1, <3>3 DEF Ranked, LedgerStep
  <2> QED BY <2>1, <2>2 DEF Chain!ExportNext, Chain!exportVars, Chain!vars
<1>2. Chain!ExportInit => Chain!Ledger!Init /\ Ranked
  <2> SUFFICES ASSUME Chain!ExportInit PROVE Chain!Ledger!Init /\ Ranked
    OBVIOUS
  <2>1. PICK old \in [1..Legacy -> {quiet, busy}], b \in Bodies :
           blocks = [i \in Chain!Ids |-> IF i <= Legacy THEN Chain!Row(old[i], b, None, None) ELSE None]
    BY DEF Chain!ExportInit, Chain!Init
  <2>2. Chain!Hashed(quiet) = {}
    BY <2>1 DEF Chain!Hashed, Chain!Row
  <2>3. Cardinality(Chain!Hashed(quiet)) = 0 /\ 1..0 = {}
    BY <2>2, FS_EmptySet
  <2>4. Ranked
    BY <2>3 DEF Ranked
  <2>5. log = [t \in {quiet} |-> <<>>]
    BY <2>3, LogEntries DEF Entries
  <2> QED BY <2>4, <2>5, QuietAlone, SameCardinality DEF Chain!Ledger!Init, log
<1> QED
  BY <1>1, <1>2, ChainInvHolds, ChainMoves, PTL
     DEF Chain!ExportSpec, LedgerSpec, Chain!LedgerSpec, Chain!Ledger!Spec, LedgerStep, log

(***************************************************************************)
(* The types of all parts.                                                 *)
(***************************************************************************)

\* A provider has one row.
OneRow == \A r, s \in rows : r.provider = s.provider => r = s

LEMMA CredentialStepKeepsRow ==
    ASSUME CredentialInv, OneRow, [Credentials!Next]_Credentials!vars PROVE OneRow'
<1>1. CASE UNCHANGED rows
  BY <1>1 DEF OneRow
<1>2. ASSUME NEW c \in Calls, Credentials!Upsert(c) PROVE OneRow'
  <2>1. PICK n : n = [provider |-> using[c].provider, version |-> c, revoked |-> FALSE, health |-> "good"]
    OBVIOUS
  <2>2. rows' = {r \in rows : r.provider # n.provider} \union {n}
    BY <1>2, <2>1 DEF Credentials!Upsert, Credentials!Provider
  <2> QED BY <2>2 DEF OneRow
<1>3. ASSUME NEW c \in Calls, Credentials!RevokeRow(c) \/ Credentials!Record(c) PROVE OneRow'
  <2>1. rows \subseteq Credentials!Row
    BY DEF CredentialInv
  <2>2. \E h \in [rows -> Credentials!Row] : /\ \A r \in rows : h[r].provider = r.provider
                                            /\ rows' = {h[r] : r \in rows}
    <3>1. CASE Credentials!RevokeRow(c)
      <4>1. PICK h : h = [r \in rows |-> IF r.provider = using[c].provider
                                        THEN [r EXCEPT !.revoked = TRUE, !.health = "revoked"] ELSE r]
        OBVIOUS
      <4>2. h \in [rows -> Credentials!Row] /\ \A r \in rows : h[r].provider = r.provider
          <5>1. ASSUME NEW r \in rows
                PROVE  LET s == [r EXCEPT !.revoked = TRUE, !.health = "revoked"]
                       IN s \in Credentials!Row /\ s.provider = r.provider
            <6>1. r \in Credentials!Row
              BY <2>1
            <6> QED BY <6>1 DEF Credentials!Row
          <5>2. \A r \in rows : /\ h[r] = IF r.provider = using[c].provider
                                         THEN [r EXCEPT !.revoked = TRUE, !.health = "revoked"] ELSE r
                                /\ h[r] \in Credentials!Row /\ h[r].provider = r.provider
            BY <2>1, <4>1, <5>1
          <5> QED BY <4>1, <5>2
      <4>3. rows' = {h[r] : r \in rows}
        <5>1. \A s : s \in rows' <=> \E r \in rows : s = IF r.provider = using[c].provider
                                           THEN [r EXCEPT !.revoked = TRUE, !.health = "revoked"] ELSE r
          BY <3>1 DEF Credentials!RevokeRow, Credentials!Provider
        <5>2. \A s : s \in rows' <=> \E r \in rows : s = h[r]
          BY <4>1, <5>1
        <5> QED BY <5>2
      <4> QED BY <4>2, <4>3
    <3>2. CASE Credentials!Record(c)
      <4>1. PICK h : h = [r \in rows |-> IF r.provider = using[c].provider
                                        THEN [r EXCEPT !.health = IF using[c].good THEN "good" ELSE "unhealthy"]
                                        ELSE r]
        OBVIOUS
      <4>2. h \in [rows -> Credentials!Row] /\ \A r \in rows : h[r].provider = r.provider
        BY <2>1, <4>1 DEF Credentials!Row
      <4>3. rows' = {h[r] : r \in rows}
        <5>1. \A s : s \in rows' <=> \E r \in rows : s = IF r.provider = using[c].provider
                                  THEN [r EXCEPT !.health = IF using[c].good THEN "good" ELSE "unhealthy"]
                                  ELSE r
          BY <3>2 DEF Credentials!Record, Credentials!Provider
        <5>2. \A s : s \in rows' <=> \E r \in rows : s = h[r]
          BY <4>1, <5>1
        <5> QED BY <5>2
      <4> QED BY <4>2, <4>3
    <3> QED BY <1>3, <3>1, <3>2
  <2> QED BY <2>2 DEF OneRow
<1>4. Credentials!Next => UNCHANGED rows \/ \E c \in Calls : \/ Credentials!Upsert(c) \/ Credentials!RevokeRow(c)
                                                             \/ Credentials!Record(c)
  BY DEF Credentials!Next, Credentials!Connect, Credentials!Disconnect, Credentials!TestStored, Credentials!Put,
     Credentials!DeleteSecret, Credentials!Try, Credentials!Select, Credentials!Resolve, Credentials!ResolveAny,
     Credentials!UseEnvironment, Credentials!Restart
<1> QED BY <1>1, <1>2, <1>3, <1>4 DEF Credentials!vars

LEMMA DocumentsAreCounted == ASSUME DocumentInv, IsFiniteSet(Pair) PROVE Documents!TypeOK
<1>1. docs \in Seq(Documents!Document) /\ Len(docs) \in Nat /\ DOMAIN docs = 1..Len(docs)
      /\ \A d \in DOMAIN docs : docs[d] \in Documents!Document
  BY DEF DocumentInv
<1>2. Cardinality(Registering) \in Nat /\ Cardinality(Pair) \in Nat
  BY FS_Subset, FS_CardinalityType DEF Registering
<1>3. Len(docs) <= Cardinality(Pair)
  <2>1. CASE docs = <<>>
    BY <1>2, <2>1
  <2>2. CASE docs # <<>>
    BY <1>1, <1>2, <2>2 DEF DocumentInv
  <2> QED BY <2>1, <2>2
<1>4. Documents!Ids = 1..Cardinality(Pair)
  BY DEF Documents!Ids, Documents!Cardinality, Cardinality
<1>5. DOMAIN docs \subseteq Documents!Ids
  BY <1>1, <1>2, <1>3, <1>4
<1> QED BY <1>1, <1>5 DEF Documents!TypeOK

(***************************************************************************)
(* The variables of every part keep their types: a window counts no more   *)
(* requests than there are, a provider has one row, two versions of a      *)
(* policy are not one, a pass registers one document at most, and a block  *)
(* has the id the sequence gave it.                                        *)
(***************************************************************************)
THEOREM TypesHold == Spec => []Typed
<1>1. KeyInv /\ LimitInv => Keys!TypeOK
  <2> SUFFICES ASSUME KeyInv, LimitInv PROVE Keys!TypeOK
    OBVIOUS
  <2>1. \A v, k : Keys!CountedBy(v, k) \subseteq Calls
    BY DEF Keys!CountedBy
  <2>2. \A v, k : Cardinality(Keys!CountedBy(v, k)) \in Nat /\ Cardinality(Calls) \in Nat
                 /\ Cardinality(Keys!CountedBy(v, k)) <= Cardinality(Calls)
    BY <2>1, PartsAssumption, CallSets
  <2>3. \A k \in Keys!Counters, v \in Keys!Windows : counts[k][v] \in 0..Cardinality(Calls)
    BY <2>2 DEF LimitInv
  <2>4. counts \in [Keys!Counters -> [Keys!Windows -> 0..Cardinality(Calls)]]
    BY <2>3 DEF LimitInv
  <2> QED BY <2>4, KeyCardinality DEF LimitInv, KeyInv, Keys!TypeOK
<1>2. CredentialInv /\ OneRow => Credentials!TypeOK
  BY DEF CredentialInv, OneRow, Credentials!TypeOK
<1>3. Isolation!IInv => Isolation!TypeOK
  BY DEF Isolation!IInv
<1>4. PolicyInv => Policies!TypeOK
  BY DEF PolicyInv
<1>5. BundleInv => Bundles!TypeOK
  BY DEF BundleInv, BundleMaps, Bundles!TypeOK
<1>6. DocumentInv => Documents!TypeOK
  BY PartsAssumption, DocumentsAreCounted DEF PartsAssumption, Documents!PassesAssumption, Documents!IsFiniteSet, IsFiniteSet
<1>7. ChainTypeInv => Chain!ExportTypeOK
  <2> SUFFICES ASSUME ChainTypeInv PROVE Chain!ExportTypeOK
    OBVIOUS
  <2>1. Chain!TypeOK
    BY DEF ChainTypeInv, AtItsRow, AtWorkOn, Writing, Chain!TypeOK
  <2> QED BY <2>1 DEF Chain!ExportTypeOK, ChainTypeInv, ExportRecord
<1>8. Spec => []OneRow
  <2>1. Init => OneRow
    BY DEF Init, Credentials!Init, OneRow
  <2>2. CredentialInv /\ OneRow /\ [Credentials!Next]_Credentials!vars => OneRow'
    BY CredentialStepKeepsRow
  <2> QED BY <2>1, <2>2, CredentialInvHolds, CredentialsMove, PTL DEF Spec, Credentials!Spec
<1>9. Isolation!Spec => []Isolation!IInv
  BY PartsAssumption, Isolation!SettingsAreCarried DEF PartsAssumption
<1> QED BY <1>1, <1>2, <1>3, <1>4, <1>5, <1>6, <1>7, <1>8, <1>9, KeyInvHolds, LimitInvHolds, CredentialInvHolds,
        IsolationMoves, PolicyInvHolds, BundleInvHolds, DocumentInvHolds, ChainInvHolds, PTL DEF Typed
=============================================================================
