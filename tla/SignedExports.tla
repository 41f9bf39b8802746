---------------------------- MODULE SignedExports ----------------------------
(***************************************************************************)
(* A signed export of a tenant's audit chain (GET /audit/export/package):  *)
(* the rows, the verification the payload claims, the verification of the  *)
(* manifest and the chain's root, each read in a transaction of its own    *)
(* while blocks are made.                                                  *)
(***************************************************************************)
EXTENDS AuditChain, FiniteSets

CONSTANT Exporting  \* tenants that export

VARIABLE export

exportVars == <<vars, export>>

Stages == {"none", "listed", "claimed", "checked", "signed"}
Export(s, t, listed, claimed, checked, root) ==
    [stage |-> s, tenant |-> t, listed |-> listed, claimed |-> claimed, checked |-> checked, root |-> root]

\* records_checked: the blocks verify_audit_chain passes before it stops.
RecordsChecked(t) ==
    Cardinality({i \in Scanned(RowsOf(t)) :
                    \A j \in Scanned(RowsOf(t)) : j <= i => ~Fault(RowsOf(t), j)})

\* A mutant: the root of the whole table.
RootOfAnyTenant(t) == PreviousOfAnyTenant(t, MaxId + 1)
\* get_audit_hash_chain_root: the hash of the tenant's latest hashed row.
Root(t) == Previous(t, MaxId + 1)

ExportInit == Init /\ export = Export("none", None, {}, 0, 0, Genesis)

\* generate_audit_csv: the blocks whose hashes the artifact lists.
List(t) ==
    /\ export.stage = "none"
    /\ export' = Export("listed", t, Hashed(t), 0, 0, Genesis)
Claim ==
    /\ export.stage = "listed"
    /\ export' = [export EXCEPT !.stage = "claimed", !.claimed = RecordsChecked(export.tenant)]
Check ==
    /\ export.stage = "claimed"
    /\ export' = [export EXCEPT !.stage = "checked", !.checked = RecordsChecked(export.tenant)]
Sign ==
    /\ export.stage = "checked"
    /\ export' = [export EXCEPT !.stage = "signed", !.root = Root(export.tenant)]

ExportNext ==
    \/ Next /\ UNCHANGED export
    \/ ((\E t \in Exporting : List(t)) \/ Claim \/ Check \/ Sign) /\ UNCHANGED vars
ExportSpec == ExportInit /\ [][ExportNext]_exportVars

-----------------------------------------------------------------------------
ExportTypeOK ==
    /\ TypeOK
    /\ export.stage \in Stages /\ export.tenant \in Tenants \cup {None}
    /\ export.listed \subseteq Ids /\ export.claimed \in 0 .. MaxId /\ export.checked \in 0 .. MaxId
    /\ export.root \in Hashes

\* What is signed of a quiet tenant hangs together although blocks are made meanwhile: the
\* root covers every block the artifact lists and every block either verification passed
\* (verify_audit.py 76-114, main.py 5060-5099).
ExportsHold ==
    export.stage = "signed" /\ export.tenant \in Quiet =>
        /\ export.listed \subseteq {export.root[k][1] : k \in DOMAIN export.root}
        /\ export.claimed <= export.checked /\ export.checked <= Len(export.root)
=============================================================================
