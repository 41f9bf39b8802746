------------------------------ MODULE Documents ------------------------------
(***************************************************************************)
(* The scanning of documents: the passes over the watched directory and    *)
(* the cloud sources (document_processing/monitoring.py), the connectors   *)
(* they list and fetch with (connectors.py) and the pipeline that judges a *)
(* document (orchestrator.py).                                             *)
(*                                                                         *)
(* A pass is one sync_sources: the monitor thread's, every 30 seconds, or  *)
(* one a request asks for; nothing keeps two apart. There is one file, in  *)
(* one source; its row in documents is found by its name. Documents are    *)
(* numbered as they are registered. A content is its size: a pass cannot   *)
(* tell two of one size apart. Its verdict is a choice. Left out: the      *)
(* chunks the pipeline adds to the index, the approval it asks for (that   *)
(* is ApprovalWorkflow's), the audit chain of a document, snapshots and    *)
(* alerts, the check of an S3 bucket's settings, and uploads, each of      *)
(* which registers and scans a document of its own.                        *)
(***************************************************************************)
EXTENDS Integers, FiniteSets, Sequences

CONSTANTS Passes, Sizes, Mock, None

VARIABLES
    source,  \* "watched", "s3" or "drive", and whether the cloud connectors are real
    file,    \* the file, while there is one
    docs,    \* documents, in the order of their ids
    pass,    \* where each pass is
    overlapped   \* history: two passes have run at the same time

vars == <<source, file, docs, pass, overlapped>>

\* Mock is what a connector returns in place of a file it cannot fetch; Unsized what the
\* listings of Drive and of the mocks say of any file's size.
Unsized == 0
Judged == {"completed", "pending_approval"}
Document == [status : Judged \union {"pending", "scanning", "deleted"},
             size : Sizes \union {Unsized, Mock},
             judged : Sizes \union {Mock, None}]  \* history: what its verdict is on
PassesAssumption == IsFiniteSet(Passes)

Ids == 1..Cardinality(Passes)
Idle == [pc |-> "idle", size |-> Unsized, listed |-> FALSE, doc |-> 0, todo |-> {}, bytes |-> None]

Init == /\ source \in [kind : {"watched", "s3", "drive"}, real : BOOLEAN]
        /\ source.kind = "watched" => source.real
        /\ file = IF source.real THEN {} ELSE {Mock}
        /\ docs = <<>> /\ overlapped = FALSE
        /\ pass = [p \in Passes |-> Idle]

At(p, pc) == pass[p].pc = pc
Goto(p, pc) == pass' = [pass EXCEPT ![p].pc = pc]
End(p) == pass' = [pass EXCEPT ![p] = Idle]
Cloud == source.kind # "watched"

\* The file is written, replaced or removed; a mock never changes.
Change ==
    /\ source.real
    /\ \E f \in {{}} \union {{c} : c \in Sizes} : file' = f
    /\ UNCHANGED <<source, docs, pass, overlapped>>

-----------------------------------------------------------------------------
(***************************************************************************)
(* sync_sources.                                                           *)
(***************************************************************************)

\* os.listdir, or list_cloud_source_files: what there is, or, when a real source cannot be
\* listed, a list of mocks. Bound: a pass starts beside another once.
List(p) ==
    /\ At(p, "idle")
    /\ \E up \in BOOLEAN :
          /\ up \/ (Cloud /\ source.real)
          /\ ~overlapped \/ \A q \in Passes : At(q, "idle")
          /\ pass' = [pass EXCEPT ![p] = [Idle EXCEPT
                !.pc = IF Cloud THEN "check" ELSE "lookup", !.listed = up /\ file # {},
                !.size = IF source.kind = "drive" \/ ~source.real \/ file = {} THEN Unsized
                         ELSE CHOOSE c \in file : TRUE]]
    /\ overlapped' = (overlapped \/ \E q \in Passes \ {p} : ~At(q, "idle"))
    /\ UNCHANGED <<source, file, docs>>

\* The documents of a cloud source that are not in the list; only S3's that have been
\* marked before are passed over.
Check(p) ==
    /\ At(p, "check")
    /\ pass' = [pass EXCEPT ![p].pc = "mark",
                  ![p].todo = IF pass[p].listed THEN {}
                              ELSE {d \in DOMAIN docs : source.kind = "s3" => docs[d].status # "deleted"}]
    /\ UNCHANGED <<source, file, docs, overlapped>>
MarkDeleted(p) ==
    /\ At(p, "mark")
    /\ IF pass[p].todo = {} THEN Goto(p, "lookup") /\ UNCHANGED docs
       ELSE \E d \in pass[p].todo :
               /\ docs' = [docs EXCEPT ![d].status = "deleted", ![d].judged = None]
               /\ pass' = [pass EXCEPT ![p].todo = @ \ {d}]
    /\ UNCHANGED <<source, file, overlapped>>

\* A listed file is looked up by its name, whatever the status of what is found; it is
\* new, modified where the sizes differ, or left alone.
Lookup(p) ==
    /\ At(p, "lookup")
    /\ IF ~pass[p].listed THEN End(p)
       ELSE IF docs = <<>> THEN Goto(p, "register")
       ELSE \E d \in DOMAIN docs :
               IF docs[d].size = pass[p].size THEN End(p)
               ELSE pass' = [pass EXCEPT ![p].pc = "resize", ![p].doc = d]
    /\ UNCHANGED <<source, file, docs, overlapped>>
Register(p) ==
    /\ At(p, "register")
    /\ docs' = Append(docs, [status |-> "pending", size |-> pass[p].size, judged |-> None])
    /\ pass' = [pass EXCEPT ![p] = [Idle EXCEPT !.pc = "fetch", !.doc = Len(docs) + 1]]
    /\ UNCHANGED <<source, file, overlapped>>
Resize(p) ==
    /\ At(p, "resize")
    /\ docs' = [docs EXCEPT ![pass[p].doc] = [status |-> "scanning", size |-> pass[p].size, judged |-> None]]
    /\ pass' = [pass EXCEPT ![p] = [Idle EXCEPT !.pc = "fetch", !.doc = pass[p].doc]]
    /\ UNCHANGED <<source, file, overlapped>>

\* The content, or, where a connector cannot have it, a mock. A file that is gone from the
\* watched directory ends the pass.
Fetch(p) ==
    /\ At(p, "fetch")
    /\ \/ \E c \in file : pass' = [pass EXCEPT ![p].pc = "start", ![p].bytes = c]
       \/ Cloud /\ pass' = [pass EXCEPT ![p].pc = "start", ![p].bytes = Mock]
       \/ file = {} /\ ~Cloud /\ End(p)
    /\ UNCHANGED <<source, file, docs, overlapped>>

-----------------------------------------------------------------------------
(***************************************************************************)
(* run_document_scan_pipeline.                                             *)
(***************************************************************************)

\* A mutant: the size stays the one of the list.
StartAsListed(p) ==
    /\ At(p, "start")
    /\ docs' = [docs EXCEPT ![pass[p].doc].status = "scanning", ![pass[p].doc].judged = None]
    /\ Goto(p, "save")
    /\ UNCHANGED <<source, file, overlapped>>
Start(p) ==
    /\ At(p, "start")
    /\ docs' = [docs EXCEPT ![pass[p].doc] = [status |-> "scanning", size |-> pass[p].bytes, judged |-> None]]
    /\ Goto(p, "save")
    /\ UNCHANGED <<source, file, overlapped>>

\* Findings are counted and weighed; a document of high or critical severity waits for an
\* approval.
Save(p) ==
    /\ At(p, "save")
    /\ \E verdict \in Judged :
          docs' = [docs EXCEPT ![pass[p].doc].status = verdict, ![pass[p].doc].judged = pass[p].bytes]
    /\ End(p)
    /\ UNCHANGED <<source, file, overlapped>>

\* An exception, or the end of the process, ends the pass where it is.
Abort(p) ==
    /\ ~At(p, "idle")
    /\ End(p)
    /\ UNCHANGED <<source, file, docs, overlapped>>

Next == \/ Change
        \/ \E p \in Passes : \/ List(p) \/ Check(p) \/ MarkDeleted(p) \/ Lookup(p) \/ Register(p)
                             \/ Resize(p) \/ Fetch(p) \/ Start(p) \/ Save(p) \/ Abort(p)

Spec == Init /\ [][Next]_vars

-----------------------------------------------------------------------------
TypeOK == /\ DOMAIN docs \subseteq Ids
          /\ \A d \in DOMAIN docs : docs[d] \in Document

(***************************************************************************)
(* A file has one document, and the verdict on it is on a content of the   *)
(* size it records, which is what tells a later pass that the file is the  *)
(* one that was judged; unless two passes have run at the same time        *)
(* (monitoring.py 67-115, 213-290; orchestrator.py 31-40, 292-325).        *)
(***************************************************************************)
VerdictsAreOfTheirSize ==
    \/ overlapped
    \/ /\ Len(docs) <= 1
       /\ \A d \in DOMAIN docs : docs[d].status \in Judged => docs[d].size = docs[d].judged
=============================================================================
