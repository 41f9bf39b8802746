---------------------------- MODULE PolicyBundles ----------------------------
(***************************************************************************)
(* Policy bundles (services/policy_bundle_manager.py; main.py,             *)
(* /policy/bundles): each tenant's bundles, a manifest file for each, and  *)
(* the one file that names the active bundle of every tenant.              *)
(*                                                                         *)
(* A call is a thread of any worker; the directory is shared and nothing   *)
(* locks it. Path.write_text empties the active file and then fills it; a  *)
(* reader in between, and one after a writer that died there, has an empty *)
(* map. Bundles are numbered as they are built, and a manifest, which is   *)
(* new or whose tenant promotes it again, is written in one step. The      *)
(* archive itself is left out.                                             *)
(***************************************************************************)
EXTENDS Integers, FiniteSets

CONSTANTS Threads, Tenants, MaxBundles, None

VARIABLES
    bundles,   \* the manifests
    active,    \* the active file: a bundle or None for each tenant; {} when it is empty
    thread,    \* where each call is
    promoted,  \* history: the bundle each tenant has promoted last
    disturbed  \* history: two promotions have run at the same time, or one has died

vars == <<bundles, active, thread, promoted, disturbed>>

Numbers == 1..MaxBundles
Manifest == [id : Numbers, tenant : Tenants, status : {"built", "active"}]
NoneActive == [t \in Tenants |-> None]
Idle == [pc |-> "new", tenant |-> None, bundle |-> None, map |-> NoneActive]

Init == /\ bundles = {} /\ active = {NoneActive}
        /\ thread = [c \in Threads |-> Idle]
        /\ promoted = NoneActive /\ disturbed = FALSE

At(c, pc) == thread[c].pc = pc
Goto(c, pc) == thread' = [thread EXCEPT ![c].pc = pc]
Promoting(c) == thread[c].pc \notin {"new", "done"}
OfTenant(t) == {b \in bundles : b.tenant = t}

\* _active_map: what cannot be read is an empty map.
ActiveMap == IF active = {} THEN NoneActive ELSE CHOOSE m \in active : TRUE

-----------------------------------------------------------------------------
\* build_bundle.
Build(t) ==
    LET n == 1 + Cardinality(bundles)
    IN /\ n <= MaxBundles
       /\ bundles' = bundles \union {[id |-> n, tenant |-> t, status |-> "built"]}
       /\ UNCHANGED <<active, thread, promoted, disturbed>>

\* promote_bundle loads the manifest and writes it back as active ...
Promote(c, t, b) ==
    /\ At(c, "new")
    /\ bundles' = (bundles \ {b}) \union {[b EXCEPT !.status = "active"]}
    /\ thread' = [thread EXCEPT ![c] = [Idle EXCEPT !.pc = "read", !.tenant = t, !.bundle = b.id]]
    /\ disturbed' = (disturbed \/ \E d \in Threads : Promoting(d))
    /\ UNCHANGED <<active, promoted>>
PromoteOne(c, t) == \E b \in OfTenant(t) : Promote(c, t, b)

\* ... rollback_bundle does so for the newest bundle that is not the active one ...
Rollback(c, t) ==
    LET candidates == {b \in OfTenant(t) : b.id # ActiveMap[t]}
    IN \E b \in candidates : (\A d \in candidates : d.id <= b.id) /\ Promote(c, t, b)

\* A mutant: only the tenant's own entry is written.
ReadOwn(c) ==
    /\ At(c, "read")
    /\ thread' = [thread EXCEPT ![c].pc = "empty", ![c].map = NoneActive]
    /\ UNCHANGED <<bundles, active, promoted, disturbed>>
\* ... reads the active file ...
ReadActive(c) ==
    /\ At(c, "read")
    /\ thread' = [thread EXCEPT ![c].pc = "empty", ![c].map = ActiveMap]
    /\ UNCHANGED <<bundles, active, promoted, disturbed>>
\* ... empties it ...
Empty(c) ==
    /\ At(c, "empty")
    /\ active' = {}
    /\ Goto(c, "fill")
    /\ UNCHANGED <<bundles, promoted, disturbed>>
\* ... and writes what it has read, with the tenant's bundle.
Fill(c) ==
    LET t == thread[c].tenant
    IN /\ At(c, "fill")
       /\ active' = {[thread[c].map EXCEPT ![t] = thread[c].bundle]}
       /\ promoted' = [promoted EXCEPT ![t] = thread[c].bundle]
       /\ thread' = [thread EXCEPT ![c] = [Idle EXCEPT !.pc = "done"]]
       /\ UNCHANGED <<bundles, disturbed>>

\* A worker is killed in a promotion.
Die(c) ==
    /\ Promoting(c)
    /\ thread' = [thread EXCEPT ![c] = [Idle EXCEPT !.pc = "done"]]
    /\ disturbed' = TRUE
    /\ UNCHANGED <<bundles, active, promoted>>

Next == \/ \E t \in Tenants : Build(t)
        \/ \E c \in Threads : \/ \E t \in Tenants : PromoteOne(c, t) \/ Rollback(c, t)
                              \/ ReadActive(c) \/ Empty(c) \/ Fill(c) \/ Die(c)

Spec == Init /\ [][Next]_vars

-----------------------------------------------------------------------------
TypeOK == /\ bundles \subseteq Manifest
          /\ active \subseteq [Tenants -> Numbers \union {None}]
          /\ promoted \in [Tenants -> Numbers \union {None}]

(***************************************************************************)
(* The active file names, for every tenant, the bundle it promoted last:   *)
(* one tenant's promotion leaves the others' alone. Only promotions that   *)
(* ran at the same time, or one that died, can have undone one (policy_    *)
(* bundle_manager.py 100-126, 193-199).                                    *)
(***************************************************************************)
PromotionsStand ==
    disturbed \/ ActiveMap = promoted \/ \E c \in Threads : At(c, "fill")
=============================================================================
