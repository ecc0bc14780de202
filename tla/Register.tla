------------------------------ MODULE Register ------------------------------
(***************************************************************************)
(* modules/records: the register.  A record is an entry for an issue, a    *)
(* return, a transfer, a repair or a disposal; it moves through statuses   *)
(* by hand, by decisions on approval requests and by the handlers of the   *)
(* things it is about.  Some types need an approval or documents first.    *)
(*                                                                         *)
(* None of this runs in a transaction that would make two requests         *)
(* conflict: each loads documents, checks, and later saves the fields it   *)
(* changed.  A request that fails half way leaves what it saved.           *)
(***************************************************************************)
EXTENDS Integers, Sequences, FiniteSetsExt, Functions

CONSTANTS Records,      \* bounds: the ids of records, approval requests
          Approvals,    \*   and documents that get used
          Documents,
          Workers,      \* bound: requests in progress at one time
          Types,        \* bound: the record types entered,
          Entries,      \*   the statuses they are entered with,
          DocTypes,     \*   and the document types filed
          MaxVersions   \* bound: the uploads to one document

VARIABLES rec,         \* rec[r]: the Record r, or NoRecord
          approval,    \* approval[a]: the ApprovalRequest a, or NoApproval
          doc,         \* doc[d]: the doc_type of Document d, or "NONE"
          links,       \* the DocumentLinks <<d, r>>
          versions,    \* versions[d]: the version_no of its DocumentVersions,
                       \*   in the order they were stored
          req,         \* req[w]: the request worker w is serving
          approvedOnce,  \* the records an approval was given for at some time,
          bypassed,      \* those an org admin moved where one is needed,
          overtaken      \* and those saved from an outdated copy

regvars == <<rec, approval, doc, links, versions, req,
             approvedOnce, bypassed, overtaken>>

RecordStatus == {"Draft", "PendingApproval", "Approved", "Completed", "Rejected",
                 "Cancelled", "Archived"}

AllowedTransitions ==
    [Draft |-> {"PendingApproval", "Approved", "Completed", "Cancelled"},
     PendingApproval |-> {"Approved", "Rejected", "Cancelled"},
     Approved |-> {"Completed", "Cancelled"},
     Completed |-> {"Archived"},
     Rejected |-> {"Cancelled"},
     Cancelled |-> {"Archived"},
     Archived |-> {}]

(* The document types of which one has to be there; {} for none. *)
RequiredDocuments(t, s) ==
    CASE t = "TRANSFER" /\ s = "Completed" -> {"TransferChallan"}
      [] t = "DISPOSAL" /\ s \in {"Approved", "Completed"} -> {"DisposalApproval"}
      [] t = "MAINTENANCE" /\ s = "Completed" -> {"MaintenanceJobCard", "Invoice"}
      [] OTHER -> {}

ApprovalRequired(t, s) == t \in {"TRANSFER", "DISPOSAL"} /\ s \in {"Approved", "Completed"}

AnyType == {"ISSUE", "RETURN", "TRANSFER", "MAINTENANCE", "DISPOSAL", "INCIDENT"}
AnyDocType == {"TransferChallan", "DisposalApproval", "MaintenanceJobCard", "Invoice", "Other"}
Decisions == {"Approved", "Rejected", "Cancelled"}

ASSUME RegisterConstants ==
    /\ Types \subseteq AnyType /\ Entries \subseteq RecordStatus
    /\ DocTypes \subseteq AnyDocType /\ MaxVersions \in Nat

NoRecord == [status |-> "NONE"]
NoApproval == [status |-> "NONE"]

(* entered: the status it was made with *)
RecordRow == [type: Types, status: RecordStatus, entered: Entries]
ApprovalRow == [rec: Records, status: Decisions \cup {"Pending"}]

Idle == [op |-> "Idle"]
RegisterRequest ==
    [op: {"UpdateStatus"}, rec: Records, loaded: RecordStatus, next: RecordStatus,
          bypass: BOOLEAN]
    \cup [op: {"RequestApproval"}, rec: Records]
    \cup [op: {"Decide"}, approval: Approvals, was: Decisions \cup {"Pending"},
          loaded: RecordStatus, next: Decisions]
    \cup [op: {"Decided"}, rec: Records, next: {"Approved", "Rejected"}]
    \cup [op: {"Upload"}, doc: Documents, no: Nat]

Starts(w, r) == req[w] = Idle /\ req' = [req EXCEPT ![w] = r]
Continues(w, r) == req' = [req EXCEPT ![w] = r]
Ends(w) == req' = [req EXCEPT ![w] = Idle]
Serving(w, op) == req[w].op = op

(* Mongoose's save() writes the fields that differ from the loaded copy. *)
Saved(now, loaded, new) == IF loaded = new THEN now ELSE new

Written(r) == rec[r] # NoRecord
Requested(a) == approval[a] # NoApproval
Filed(d) == doc[d] # "NONE"

RegisterInit ==
    /\ rec = [r \in Records |-> NoRecord]
    /\ approval = [a \in Approvals |-> NoApproval]
    /\ doc = [d \in Documents |-> "NONE"]
    /\ links = {}
    /\ versions = [d \in Documents |-> <<>>]
    /\ req = [w \in Workers |-> Idle]
    /\ approvedOnce = {} /\ bypassed = {} /\ overtaken = {}

-----------------------------------------------------------------------------
(* POST /records, and createRecord for the handlers that make an entry, at *)
(* any status.  Its number comes from an atomically raised counter.        *)
CreateRecord(r, t, s) ==
    /\ ~Written(r)
    /\ rec' = [rec EXCEPT ![r] = [type |-> t, status |-> s, entered |-> s]]
    /\ UNCHANGED <<approval, doc, links, versions, req, approvedOnce, bypassed, overtaken>>

-----------------------------------------------------------------------------
(* Mutant: a request is as good as an approval. *)
HasRequest(r) == \E a \in Approvals : Requested(a) /\ approval[a].rec = r

HasApprovedApproval(r) ==
    \E a \in Approvals : Requested(a) /\ approval[a].rec = r
                                      /\ approval[a].status = "Approved"

(* Mutant: any document will do. *)
HasSomeDoc(r, s) ==
    RequiredDocuments(rec[r].type, s) # {} => \E d \in Documents : <<d, r>> \in links

(* A document linked to the repair a MAINTENANCE record is about counts as *)
(* one linked to the record.                                               *)
HasRequiredDocs(r, s) ==
    LET needed == RequiredDocuments(rec[r].type, s)
    IN  needed # {} => \E d \in Documents : <<d, r>> \in links /\ doc[d] \in needed

(* PATCH /records/:id/status and updateRecordStatus for the other handlers *)
UpdateStatusRead(w, r, s, orgAdmin) ==
    /\ Written(r) /\ s \in AllowedTransitions[rec[r].status]
    /\ ApprovalRequired(rec[r].type, s) => orgAdmin \/ HasApprovedApproval(r)
    /\ HasRequiredDocs(r, s)
    /\ Starts(w, [op |-> "UpdateStatus", rec |-> r, loaded |-> rec[r].status, next |-> s,
                  bypass |-> ApprovalRequired(rec[r].type, s) /\ ~HasApprovedApproval(r)])
    /\ UNCHANGED <<rec, approval, doc, links, versions,
                   approvedOnce, bypassed, overtaken>>

(* record.save() with a new status, computed from the status it had when   *)
(* it was loaded.                                                          *)
SaveStatus(r, loaded, s) ==
    /\ rec' = [rec EXCEPT ![r].status = s]
    /\ overtaken' = IF rec[r].status = loaded THEN overtaken ELSE overtaken \cup {r}

UpdateStatusSave(w) ==
    /\ Serving(w, "UpdateStatus")
    /\ SaveStatus(req[w].rec, req[w].loaded, req[w].next)
    /\ bypassed' = IF req[w].bypass THEN bypassed \cup {req[w].rec} ELSE bypassed
    /\ Ends(w)
    /\ UNCHANGED <<approval, doc, links, versions, approvedOnce>>

(* Mutant: the record waits for the approval wherever it stands. *)
RequestApprovalAnywhere(w, r, a) ==
    /\ req[w] = Idle /\ Written(r) /\ ~Requested(a)
    /\ approval' = [approval EXCEPT ![a] = [rec |-> r, status |-> "Pending"]]
    /\ rec' = [rec EXCEPT ![r].status = "PendingApproval"]
    /\ UNCHANGED <<req, doc, links, versions, approvedOnce, bypassed, overtaken>>

(* POST /records/:id/approval-request: the request is made first; a record *)
(* that was a draft when it was loaded then waits for the approval.        *)
RequestApproval(w, r, a) ==
    /\ req[w] = Idle /\ Written(r) /\ ~Requested(a)
    /\ approval' = [approval EXCEPT ![a] = [rec |-> r, status |-> "Pending"]]
    /\ IF rec[r].status = "Draft" THEN Continues(w, [op |-> "RequestApproval", rec |-> r])
                                  ELSE UNCHANGED req
    /\ UNCHANGED <<rec, doc, links, versions, approvedOnce, bypassed, overtaken>>

RequestApprovalSave(w) ==
    /\ Serving(w, "RequestApproval")
    /\ SaveStatus(req[w].rec, "Draft", "PendingApproval")
    /\ Ends(w)
    /\ UNCHANGED <<approval, doc, links, versions, approvedOnce, bypassed>>

(* POST /approvals/:id/decide, also behind the buttons of a notification.  *)
(* Nothing asks that the request is still pending.                         *)
DecideRead(w, a, next) ==
    /\ Requested(a)
    /\ Starts(w, [op |-> "Decide", approval |-> a, was |-> approval[a].status,
                  loaded |-> rec[approval[a].rec].status, next |-> next])
    /\ UNCHANGED <<rec, approval, doc, links, versions,
                   approvedOnce, bypassed, overtaken>>

(* Mutant: every decision goes to the record. *)
DecideAndPass(w) ==
    /\ Serving(w, "Decide")
    /\ LET a == req[w].approval
           r == approval[a].rec
           next == req[w].next
       IN  /\ approval' = [approval EXCEPT ![a].status = Saved(@, req[w].was, next)]
           /\ approvedOnce' = IF next = "Approved" THEN approvedOnce \cup {r} ELSE approvedOnce
           /\ Continues(w, [op |-> "Decided", rec |-> r, next |-> next])
    /\ UNCHANGED <<rec, doc, links, versions, bypassed, overtaken>>

(* The approval is saved, and then a record that was waiting for it. *)
DecideApproval(w) ==
    /\ Serving(w, "Decide")
    /\ LET a == req[w].approval
           r == approval[a].rec
           next == req[w].next
       IN  /\ approval' = [approval EXCEPT ![a].status = Saved(@, req[w].was, next)]
           /\ approvedOnce' = IF next = "Approved" THEN approvedOnce \cup {r} ELSE approvedOnce
           /\ IF next # "Cancelled" /\ req[w].loaded = "PendingApproval"
                THEN Continues(w, [op |-> "Decided", rec |-> r, next |-> next])
                ELSE Ends(w)
    /\ UNCHANGED <<rec, doc, links, versions, bypassed, overtaken>>

DecideRecord(w) ==
    /\ Serving(w, "Decided")
    /\ SaveStatus(req[w].rec, "PendingApproval", req[w].next)
    /\ Ends(w)
    /\ UNCHANGED <<approval, doc, links, versions, approvedOnce, bypassed>>

-----------------------------------------------------------------------------
(* POST /documents *)
CreateDocument(d, t) ==
    /\ ~Filed(d)
    /\ doc' = [doc EXCEPT ![d] = t]
    /\ UNCHANGED <<rec, approval, links, versions, req,
                   approvedOnce, bypassed, overtaken>>

(* POST /document-links, once per document and record.  Bound: the record  *)
(* exists (nothing checks that it does).                                   *)
LinkDocument(d, r) ==
    /\ Filed(d) /\ Written(r) /\ <<d, r>> \notin links
    /\ links' = links \cup {<<d, r>>}
    /\ UNCHANGED <<rec, approval, doc, versions, req,
                   approvedOnce, bypassed, overtaken>>

(* POST /documents/:id/upload: the last version is looked up, the file is  *)
(* read and hashed, and the next version stored.                           *)
UploadRead(w, d) ==
    /\ Filed(d) /\ Len(versions[d]) < MaxVersions
    /\ Starts(w, [op |-> "Upload", doc |-> d, no |-> Max({0} \cup Range(versions[d])) + 1])
    /\ UNCHANGED <<rec, approval, doc, links, versions,
                   approvedOnce, bypassed, overtaken>>

(* Mutant: no unique index. *)
VersionAlwaysFree(d, n) == TRUE

(* The unique index on document_id and version_no. *)
VersionFree(d, n) == n \notin Range(versions[d])

UploadInsert(w) ==
    /\ Serving(w, "Upload")
    /\ VersionFree(req[w].doc, req[w].no)
    /\ versions' = [versions EXCEPT ![req[w].doc] = Append(@, req[w].no)]
    /\ Ends(w)
    /\ UNCHANGED <<rec, approval, doc, links, approvedOnce, bypassed, overtaken>>

(* A request that fails or is cut off: what it saved before stays. *)
Fail(w) == /\ req[w] # Idle /\ Ends(w)
           /\ UNCHANGED <<rec, approval, doc, links, versions,
                          approvedOnce, bypassed, overtaken>>

RegisterStep(w) ==
    \/ \E r \in Records :
          \/ \E s \in RecordStatus, orgAdmin \in BOOLEAN : UpdateStatusRead(w, r, s, orgAdmin)
          \/ \E a \in Approvals : RequestApproval(w, r, a)
    \/ \E a \in Approvals, next \in Decisions : DecideRead(w, a, next)
    \/ UpdateStatusSave(w) \/ RequestApprovalSave(w) \/ DecideApproval(w) \/ DecideRecord(w)
    \/ \E d \in Documents : UploadRead(w, d)
    \/ UploadInsert(w) \/ Fail(w)

RegisterNext ==
    \/ \E w \in Workers : RegisterStep(w)
    \/ \E d \in Documents : \/ \E t \in DocTypes : CreateDocument(d, t)
                            \/ \E r \in Records : LinkDocument(d, r)
    \/ \E r \in Records, t \in Types, s \in Entries : CreateRecord(r, t, s)

RegisterSpec == RegisterInit /\ [][RegisterNext]_regvars

(* Type invariant: also, an approval request and a link name a record that *)
(* was entered.                                                            *)
RegisterTypeOK ==
    /\ rec \in [Records -> RecordRow \cup {NoRecord}]
    /\ approval \in [Approvals -> ApprovalRow \cup {NoApproval}]
    /\ doc \in [Documents -> DocTypes \cup {"NONE"}]
    /\ links \subseteq Documents \X Records
    /\ versions \in [Documents -> Seq(Nat)]
    /\ req \in [Workers -> {Idle} \cup RegisterRequest]
    /\ approvedOnce \cup bypassed \cup overtaken \subseteq Records
    /\ \A a \in Approvals : Requested(a) => Written(approval[a].rec)
    /\ \A p \in links : Filed(p[1]) /\ Written(p[2])

(* 'Required document missing for this status': an entry that was brought  *)
(* to Completed has the document its type calls for, however old the       *)
(* lookup was when the status was saved.  One entered as Completed need    *)
(* not.                                                                    *)
CompletedHasDocuments ==
    \A r \in Records :
        /\ Written(r) /\ rec[r].status = "Completed" /\ rec[r].entered # "Completed"
        /\ RequiredDocuments(rec[r].type, "Completed") # {}
        => \E d \in Documents : /\ <<d, r>> \in links
                                /\ doc[d] \in RequiredDocuments(rec[r].type, "Completed")

(* 'Approval required before this status transition': a transfer or a      *)
(* disposal that an org admin did not move, and that was not entered so,   *)
(* is only Approved or Completed if an approval of it was given.           *)
SignedOff ==
    \A r \in Records :
        Written(r) /\ r \notin bypassed /\ rec[r].status # rec[r].entered
            /\ ApprovalRequired(rec[r].type, rec[r].status) => r \in approvedOnce

(* ALLOWED_TRANSITIONS (transitions.ts): as long as no request saves an    *)
(* entry over a status it had not seen, an entry takes the listed          *)
(* transitions only, those of requests and decisions included.             *)
FollowsTransitions ==
    [][\A r \in Records : Written(r) /\ rec'[r].status # rec[r].status
                              => r \in overtaken'
                                 \/ rec'[r].status \in AllowedTransitions[rec[r].status]]_regvars

(* The versions of a document are numbered 1, 2, 3 as they are stored,     *)
(* also when two uploads looked up the same last version.                  *)
VersionsInOrder == \A d \in Documents : \A k \in DOMAIN versions[d] : versions[d][k] = k
=============================================================================
