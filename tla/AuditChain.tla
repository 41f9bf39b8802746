----------------------------- MODULE AuditChain -----------------------------
(***************************************************************************)
(* The hash chain of audit_logs: create_audit_block and verify_audit_chain *)
(* of verify_audit.py.                                                     *)
(*                                                                         *)
(* A block is made in two transactions.  The first inserts the row, whose  *)
(* id comes from the sequence of the table; the second reads the hash of   *)
(* the tenant's latest hashed row below that id and updates the new row    *)
(* with its own hash.  Handlers and threads of all processes make blocks   *)
(* at the same time.  A hash stands for all it is computed from, through   *)
(* the hash it is linked to: it is the list of the blocks behind it.       *)
(***************************************************************************)
EXTENDS Naturals, Sequences, SequencesExt

CONSTANTS
    Tenants,     \* tenants, and NULL for events without one
    Calls,       \* calls of create_audit_block
    Bodies,      \* what the hashed columns of a row hold
    MaxId,       \* bound of the id sequence
    Legacy,      \* rows written before the table had hash columns
    OneWriter,   \* tenants whose calls never overlap
    Dying,       \* tenants whose calls may die half way
    Touched,     \* tenants whose rows are edited and deleted by hand
    None

Quiet == OneWriter \ (Dying \cup Touched)

TenantAssumption == OneWriter \subseteq Tenants /\ Dying \subseteq Tenants /\ Touched \subseteq Tenants
IdAssumption == MaxId \in Nat /\ Legacy \in 0 .. MaxId

VARIABLES
    rows,      \* audit_logs by id: a row, or None
    nextId,    \* the sequence of the id column
    call,      \* the calls of create_audit_block
    tampered   \* history: tenants one of whose rows was changed or deleted by hand

vars == <<rows, nextId, call, tampered>>

Ids == 1 .. MaxId
Hashes == Seq(Ids \X Bodies)
Genesis == <<>>
Row(t, b, h, p) == [tenant |-> t, body |-> b, hash |-> h, prev |-> p]
RowType == [tenant : Tenants, body : Bodies, hash : Hashes \cup {None}, prev : Hashes \cup {None}]

NoneAssumption == None \notin Hashes \cup RowType

Working == {"inserting", "unlinked", "linking"}
Call(pc, t, b, i, p) == [pc |-> pc, tenant |-> t, body |-> b, id |-> i, prev |-> p]

TypeOK ==
    /\ rows \in [Ids -> RowType \cup {None}]
    /\ nextId \in 1 .. MaxId + 1
    /\ DOMAIN call = Calls
    /\ \A c \in Calls :
         \/ call[c].pc \in {"idle", "done"}
         \/ /\ call[c].pc \in Working
            /\ call[c].tenant \in Tenants /\ call[c].body \in Bodies
            /\ call[c].id \in 1 .. nextId - 1
            /\ call[c].pc = "linking" => call[c].prev \in Hashes
    /\ tampered \subseteq Tenants

Init ==
    /\ \E old \in [1 .. Legacy -> Tenants], b \in Bodies :
         rows = [i \in Ids |-> IF i <= Legacy THEN Row(old[i], b, None, None) ELSE None]
    /\ nextId = Legacy + 1
    /\ call = [c \in Calls |-> Call("idle", None, None, None, None)]
    /\ tampered = {}

-----------------------------------------------------------------------------
(* create_audit_block                                                      *)

\* calculate_record_hash
Hash(i, b, p) == Append(p, <<i, b>>)

Busy(t) == \E c \in Calls : call[c].pc \in Working /\ call[c].tenant = t

\* The rows of a tenant that have a hash, as a transaction sees them.
Hashed(t) == {i \in Ids : rows[i] # None /\ rows[i].tenant = t /\ rows[i].hash # None}

Greatest(S) == CHOOSE i \in S : \A j \in S : j <= i

\* Mutant: the last row of any tenant.
PreviousOfAnyTenant(t, id) ==
    LET below == {i \in Ids : i < id /\ rows[i] # None /\ rows[i].hash # None}
    IN IF below = {} THEN Genesis ELSE rows[Greatest(below)].hash

\* The hash the new row is linked to.
Previous(t, id) ==
    LET below == {i \in Hashed(t) : i < id}
    IN IF below = {} THEN Genesis ELSE rows[Greatest(below)].hash

\* INSERT: the row has its id and is not yet visible.
Insert(c, t, b) ==
    /\ call[c].pc = "idle" /\ nextId <= MaxId
    /\ t \in OneWriter => ~Busy(t)
    /\ call' = [call EXCEPT ![c] = Call("inserting", t, b, nextId, None)]
    /\ nextId' = nextId + 1
    /\ UNCHANGED <<rows, tampered>>

\* Mutant: the tenant is not passed on.
CommitAnonymous(c) ==
    /\ call[c].pc = "inserting"
    /\ rows' = [rows EXCEPT ![call[c].id] = Row(None, call[c].body, None, None)]
    /\ call' = [call EXCEPT ![c].pc = "unlinked"]
    /\ UNCHANGED <<nextId, tampered>>

\* The first commit.
CommitInsert(c) ==
    /\ call[c].pc = "inserting"
    /\ rows' = [rows EXCEPT ![call[c].id] = Row(call[c].tenant, call[c].body, None, None)]
    /\ call' = [call EXCEPT ![c].pc = "unlinked"]
    /\ UNCHANGED <<nextId, tampered>>

\* The SELECT of the previous hash.
FindPrevious(c) ==
    /\ call[c].pc = "unlinked"
    /\ call' = [call EXCEPT ![c].pc = "linking",
                            ![c].prev = Previous(call[c].tenant, call[c].id)]
    /\ UNCHANGED <<rows, nextId, tampered>>

\* Mutant: the UPDATE reaches every row of the tenant without a hash.
LinkEveryRow(c) ==
    /\ call[c].pc = "linking"
    /\ rows' = [i \in Ids |->
                  IF rows[i] # None /\ rows[i].tenant = call[c].tenant /\ rows[i].hash = None
                  THEN [rows[i] EXCEPT !.hash = Hash(i, rows[i].body, call[c].prev),
                                       !.prev = call[c].prev]
                  ELSE rows[i]]
    /\ call' = [call EXCEPT ![c].pc = "done"]
    /\ UNCHANGED <<nextId, tampered>>

\* The UPDATE of the hash columns and the second commit.
Link(c) ==
    LET i == call[c].id IN
    /\ call[c].pc = "linking"
    /\ rows' = IF rows[i] = None THEN rows
               ELSE [rows EXCEPT ![i].hash = Hash(i, call[c].body, call[c].prev),
                                 ![i].prev = call[c].prev]
    /\ call' = [call EXCEPT ![c].pc = "done"]
    /\ UNCHANGED <<nextId, tampered>>

\* A call dies between two of its steps: nothing of an open transaction stays.
Die(c) ==
    /\ call[c].pc \in Working /\ call[c].tenant \in Dying
    /\ call' = [call EXCEPT ![c].pc = "done"]
    /\ UNCHANGED <<rows, nextId, tampered>>

\* Somebody edits a hashed column, or deletes a row, in the database.
Edit(i, b) ==
    /\ rows[i] # None /\ rows[i].tenant \in Touched /\ rows[i].body # b
    /\ rows' = [rows EXCEPT ![i].body = b]
    /\ tampered' = tampered \cup {rows[i].tenant}
    /\ UNCHANGED <<nextId, call>>
Delete(i) ==
    /\ rows[i] # None /\ rows[i].tenant \in Touched
    /\ rows' = [rows EXCEPT ![i] = None]
    /\ tampered' = tampered \cup {rows[i].tenant}
    /\ UNCHANGED <<nextId, call>>

Next ==
    \/ \E c \in Calls, t \in Tenants, b \in Bodies : Insert(c, t, b)
    \/ \E c \in Calls : CommitInsert(c) \/ FindPrevious(c) \/ Link(c) \/ Die(c)
    \/ \E i \in Ids, b \in Bodies : Edit(i, b)
    \/ \E i \in Ids : Delete(i)

Spec == Init /\ [][Next]_vars

-----------------------------------------------------------------------------
(* verify_audit_chain, over a set of rows in the order of their ids.  The   *)
(* scan starts at the first row with a hash and stops at the first fault.   *)

RowsOf(t) == {i \in Ids : rows[i] # None /\ rows[i].tenant = t}

Scanned(S) == {i \in S : \E j \in S : j <= i /\ rows[j].hash # None}
Earlier(S, i) == {j \in Scanned(S) : j < i}
Expected(S, i) == IF Earlier(S, i) = {} THEN Genesis ELSE rows[Greatest(Earlier(S, i))].hash

MissingHash(S, i) == rows[i].hash = None
BrokenLink(S, i) == rows[i].prev # Expected(S, i)
Modified(S, i) == rows[i].hash # Hash(i, rows[i].body, rows[i].prev)

Fault(S, i) == MissingHash(S, i) \/ BrokenLink(S, i) \/ Modified(S, i)

\* The check of one tenant, whose ids need not be consecutive.
Valid(t) == \A i \in Scanned(RowsOf(t)) : ~Fault(RowsOf(t), i)

-----------------------------------------------------------------------------

\* /audit/verify flags nothing but tampering: when nobody has touched the rows of a tenant
\* and no block of it is being made, its chain verifies.
FlagsOnlyTampering ==
    \A t \in Tenants : t \notin tampered /\ ~Busy(t) => Valid(t)

\* It does, for a tenant whose blocks are made one after the other, whatever happens to
\* the rows and calls of the other tenants in between.
QuietChainVerifies == \A t \in Quiet : ~Busy(t) => Valid(t)

\* The k-th of a tenant's rows that have a hash.
Nth(t, k) == CHOOSE i \in Hashed(t) : Cardinality({j \in Hashed(t) : j <= i}) = k

\* The rows of the quiet tenants, in the order of their ids, implement AppendOnlyLedger.
Ledger == INSTANCE AppendOnlyLedger
    WITH Tenants <- Quiet,
         log <- [t \in Quiet |-> [k \in 1 .. Cardinality(Hashed(t)) |-> rows[Nth(t, k)].body]]
LedgerSpec == Ledger!Spec
=============================================================================
