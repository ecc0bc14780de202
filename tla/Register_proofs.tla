--------------------------- MODULE Register_proofs --------------------------
(***************************************************************************)
(* Proofs about the records register, for any records, approval requests,  *)
(* documents and number of requests in progress.                           *)
(***************************************************************************)
EXTENDS Register, TLAPS

Requests == {Idle} \cup RegisterRequest

(* What a request in progress is known to carry, by its operation. *)
LEMMA RequestFields ==
    ASSUME NEW r \in Requests
    PROVE  /\ r.op = "UpdateStatus" =>
                /\ r.rec \in Records /\ r.loaded \in RecordStatus
                /\ r.next \in RecordStatus /\ r.bypass \in BOOLEAN
           /\ r.op = "RequestApproval" => r.rec \in Records
           /\ r.op = "Decide" =>
                /\ r.approval \in Approvals /\ r.was \in Decisions \cup {"Pending"}
                /\ r.loaded \in RecordStatus /\ r.next \in Decisions
           /\ r.op = "Decided" => r.rec \in Records /\ r.next \in {"Approved", "Rejected"}
           /\ r.op = "Upload" => r.doc \in Documents /\ r.no \in Nat
<1>1. CASE r = Idle
  BY <1>1 DEF Idle
<1>2. CASE r \in [op: {"UpdateStatus"}, rec: Records, loaded: RecordStatus,
                  next: RecordStatus, bypass: BOOLEAN]
  BY <1>2
<1>3. CASE r \in [op: {"RequestApproval"}, rec: Records]
  BY <1>3
<1>4. CASE r \in [op: {"Decide"}, approval: Approvals, was: Decisions \cup {"Pending"},
                  loaded: RecordStatus, next: Decisions]
  BY <1>4
<1>5. CASE r \in [op: {"Decided"}, rec: Records, next: {"Approved", "Rejected"}]
  BY <1>5
<1>6. CASE r \in [op: {"Upload"}, doc: Documents, no: Nat]
  BY <1>6
<1> QED
  BY <1>1, <1>2, <1>3, <1>4, <1>5, <1>6 DEF Requests, RegisterRequest

-----------------------------------------------------------------------------
(* The inductive invariant.  What a request checked is kept with it: the   *)
(* transition it makes was allowed from the status it loaded, the approval *)
(* and the documents it found are still there when it saves, and the       *)
(* version it will store is at most the next one.                          *)

(* An approval that reads Approved was given by a decision. *)
ApprovedWasGiven ==
    \A a \in Approvals :
        Requested(a) /\ approval[a].status = "Approved" => approval[a].rec \in approvedOnce

(* What the request x knows of what it names. *)
KnowsTrue(x) ==
    /\ x.op = "UpdateStatus" =>
          /\ Written(x.rec) /\ x.next \in AllowedTransitions[x.loaded]
          /\ ApprovalRequired(rec[x.rec].type, x.next) /\ ~x.bypass => x.rec \in approvedOnce
          /\ HasRequiredDocs(x.rec, x.next)
    /\ x.op = "RequestApproval" => Written(x.rec)
    /\ x.op = "Decide" => Requested(x.approval)
    /\ x.op = "Decided" =>
          Written(x.rec) /\ (x.next = "Approved" => x.rec \in approvedOnce)
    /\ x.op = "Upload" => x.no \in 1 .. Len(versions[x.doc]) + 1

RegisterInv == /\ RegisterTypeOK /\ SignedOff /\ CompletedHasDocuments /\ VersionsInOrder
               /\ ApprovedWasGiven
               /\ \A w \in Workers : KnowsTrue(req[w])

(* Every step keeps what a request can know: entries, approval requests,   *)
(* documents, links and versions are added, never taken away.              *)
Grows ==
    /\ \A r \in Records : Written(r) => /\ Written(r)'
                                        /\ rec'[r].type = rec[r].type
                                        /\ rec'[r].entered = rec[r].entered
    /\ \A a \in Approvals : Requested(a) => Requested(a)' /\ approval'[a].rec = approval[a].rec
    /\ \A d \in Documents : Filed(d) => doc'[d] = doc[d]
    /\ \A d \in Documents : Len(versions[d]) <= Len(versions'[d])
    /\ links \subseteq links' /\ approvedOnce \subseteq approvedOnce'

LEMMA DocsStay ==
    ASSUME RegisterInv, Grows, NEW r \in Records, Written(r), NEW s, HasRequiredDocs(r, s)
    PROVE  HasRequiredDocs(r, s)'
<1>1. rec'[r].type = rec[r].type
  BY DEF Grows
<1>2. ASSUME RequiredDocuments(rec[r].type, s) # {}
      PROVE  \E d \in Documents : <<d, r>> \in links'
                                  /\ doc'[d] \in RequiredDocuments(rec[r].type, s)
  <2>1. PICK d \in Documents : <<d, r>> \in links /\ doc[d] \in RequiredDocuments(rec[r].type, s)
    BY <1>2 DEF HasRequiredDocs
  <2>2. Filed(d)
    BY <2>1 DEF RegisterInv, RegisterTypeOK
  <2> QED
    BY <2>1, <2>2 DEF Grows
<1> QED
  BY <1>1, <1>2 DEF HasRequiredDocs

LEMMA KnowledgeStays ==
    ASSUME RegisterInv, RegisterTypeOK', Grows, NEW x \in Requests, KnowsTrue(x)
    PROVE  KnowsTrue(x)'
<1>1. CASE x.op = "UpdateStatus"
  BY <1>1, RequestFields, DocsStay DEF KnowsTrue, Grows
<1>2. CASE x.op \in {"RequestApproval", "Decided"}
  BY <1>2, RequestFields DEF KnowsTrue, Grows
<1>3. CASE x.op = "Decide"
  BY <1>3, RequestFields DEF KnowsTrue, Grows
<1>4. CASE x.op = "Upload"
  <2>1. x.doc \in Documents /\ Len(versions[x.doc]) \in Nat /\ Len(versions'[x.doc]) \in Nat
    BY <1>4, RequestFields DEF RegisterInv, RegisterTypeOK
  <2> QED
    BY <1>4, <2>1 DEF KnowsTrue, Grows
<1> QED
  BY <1>1, <1>2, <1>3, <1>4 DEF KnowsTrue

-----------------------------------------------------------------------------
(* The numbers of stored versions are 1 .. Len; the next one is Len + 1.   *)
LEMMA NextVersion ==
    ASSUME RegisterInv, NEW d \in Documents
    PROVE  /\ \A k : k \in Range(versions[d]) <=> k \in 1 .. Len(versions[d])
           /\ Max({0} \cup Range(versions[d])) = Len(versions[d])
<1> DEFINE n == Len(versions[d])
           M == {0} \cup Range(versions[d])
           m == Max(M)
<1>1. versions[d] \in Seq(Nat) /\ n \in Nat /\ DOMAIN versions[d] = 1 .. n
  BY DEF RegisterInv, RegisterTypeOK
<1>2. \A k : k \in Range(versions[d]) <=> k \in 1 .. n
  BY <1>1 DEF Range, RegisterInv, VersionsInOrder
<1>3. M = 0 .. n
  BY <1>1, <1>2
<1>4. n \in M /\ \A y \in M : n >= y
  BY <1>1, <1>3
<1>5. m \in M /\ \A y \in M : m >= y
  BY <1>4 DEF Max
<1>6. m \in 0 .. n /\ m >= n
  BY <1>3, <1>4, <1>5
<1> HIDE DEF m, n
<1>7. m = n
  BY <1>1, <1>6
<1> QED
  BY <1>2, <1>7 DEF m, n

-----------------------------------------------------------------------------
(* What the steps do to an entry: nothing, or save a status that the       *)
(* approval and the documents found allow.                                 *)

(* What CompletedHasDocuments says of one entry. *)
Documented(r) ==
    /\ Written(r) /\ rec[r].status = "Completed" /\ rec[r].entered # "Completed"
    /\ RequiredDocuments(rec[r].type, "Completed") # {}
    => \E d \in Documents : /\ <<d, r>> \in links
                            /\ doc[d] \in RequiredDocuments(rec[r].type, "Completed")

(* Entries that stay as they are stay signed off and documented. *)
LEMMA RecordsUntouched ==
    ASSUME RegisterInv, Grows, UNCHANGED rec, bypassed \subseteq bypassed'
    PROVE  SignedOff' /\ CompletedHasDocuments'
<1>1. SignedOff'
  BY DEF RegisterInv, SignedOff, Grows, Written
<1>2. ASSUME NEW r \in Records, Written(r), rec[r].status = "Completed",
             rec[r].entered # "Completed", RequiredDocuments(rec[r].type, "Completed") # {}
      PROVE  \E d \in Documents : /\ <<d, r>> \in links'
                                  /\ doc'[d] \in RequiredDocuments(rec[r].type, "Completed")
  <2>1. PICK d \in Documents : /\ <<d, r>> \in links
                               /\ doc[d] \in RequiredDocuments(rec[r].type, "Completed")
    BY <1>2 DEF RegisterInv, CompletedHasDocuments
  <2>2. Filed(d)
    BY <2>1 DEF RegisterInv, RegisterTypeOK
  <2> QED
    BY <2>1, <2>2 DEF Grows
<1>3. CompletedHasDocuments'
  BY <1>2 DEF CompletedHasDocuments, Written
<1> QED
  BY <1>1, <1>3

LEMMA SavedStatus ==
    ASSUME RegisterInv, NEW r \in Records, Written(r),
           NEW loaded, NEW s \in RecordStatus, SaveStatus(r, loaded, s),
           UNCHANGED <<approval, doc, links, versions, approvedOnce>>,
           bypassed \subseteq bypassed',
           ApprovalRequired(rec[r].type, s) /\ r \notin bypassed' => r \in approvedOnce,
           s = "Completed" => HasRequiredDocs(r, s)
    PROVE  /\ rec' \in [Records -> RecordRow \cup {NoRecord}]
           /\ overtaken' \subseteq Records
           /\ Grows /\ SignedOff' /\ CompletedHasDocuments'
<1> DEFINE row == [rec[r] EXCEPT !.status = s]
<1>t. rec \in [Records -> RecordRow \cup {NoRecord}] /\ overtaken \subseteq Records
  BY DEF RegisterInv, RegisterTypeOK
<1>1. rec[r] \in RecordRow
  BY <1>t DEF Written
<1>2. /\ row \in RecordRow /\ row.status = s
      /\ row.type = rec[r].type /\ row.entered = rec[r].entered
  BY <1>1 DEF RecordRow
<1>3. rec' = [rec EXCEPT ![r] = row]
  BY <1>1, <1>t DEF SaveStatus, RecordRow
<1>4. \A q \in Records : rec'[q] = IF q = r THEN row ELSE rec[q]
  BY <1>t, <1>3
<1>5. rec' \in [Records -> RecordRow \cup {NoRecord}]
  BY <1>t, <1>2, <1>3
<1>6. overtaken' \subseteq Records
  BY <1>t DEF SaveStatus
<1>7. row # NoRecord
  BY <1>2 DEF NoRecord, RecordStatus
<1>8. Grows
  <2>1. \A d \in Documents : Len(versions[d]) \in Nat
    BY DEF RegisterInv, RegisterTypeOK
  <2>2. \A q \in Records : Written(q) => /\ Written(q)' /\ rec'[q].type = rec[q].type
                                         /\ rec'[q].entered = rec[q].entered
    BY <1>2, <1>4, <1>7 DEF Written
  <2> QED
    BY <2>1, <2>2 DEF Grows, Requested
<1>9. SignedOff'
  BY <1>2, <1>4 DEF RegisterInv, SignedOff, Written
<1>10. CompletedHasDocuments'
  <2>1. ASSUME NEW q \in Records, q # r
        PROVE  Documented(q)'
    BY <1>4, <2>1 DEF RegisterInv, CompletedHasDocuments, Documented, Written
  <2>2. Documented(r)'
    BY <1>2, <1>4 DEF Documented, HasRequiredDocs
  <2>3. \A q \in Records : Documented(q)'
    BY <2>1, <2>2
  <2> QED
    BY <2>3 DEF CompletedHasDocuments, Documented
<1> QED
  BY <1>5, <1>6, <1>8, <1>9, <1>10

-----------------------------------------------------------------------------
(* A request whose own step keeps what it is about to know keeps all the   *)
(* invariant that speaks of requests.                                      *)
LEMMA RequestsKnow ==
    ASSUME RegisterInv, RegisterTypeOK', Grows, NEW w \in Workers,
           \A v \in Workers : v # w => req'[v] = req[v],
           KnowsTrue(req[w])' \/ req'[w] = req[w]
    PROVE  \A v \in Workers : KnowsTrue(req[v])'
<1> SUFFICES ASSUME NEW v \in Workers PROVE KnowsTrue(req[v])'
  OBVIOUS
<1>1. req[v] \in Requests /\ KnowsTrue(req[v])
  BY DEF RegisterInv, RegisterTypeOK, Requests
<1>2. CASE req'[v] = req[v]
  <2>1. \A x \in Requests : KnowsTrue(x) => KnowsTrue(x)'
    BY KnowledgeStays
  <2> QED
    BY <1>1, <1>2, <2>1
<1> QED
  BY <1>2

-----------------------------------------------------------------------------
(* The steps of the requests that work on entries. *)

(* A check that starts a request changes nothing else. *)
OnlyRequests == UNCHANGED <<rec, approval, doc, links, versions,
                            approvedOnce, bypassed, overtaken>>

LEMMA NothingElse ==
    ASSUME RegisterInv, OnlyRequests
    PROVE  Grows
<1>1. \A d \in Documents : Len(versions[d]) \in Nat
  BY DEF RegisterInv, RegisterTypeOK
<1> QED
  BY <1>1 DEF OnlyRequests, Grows, Written, Requested, Filed

LEMMA StartPreserves ==
    ASSUME RegisterInv, OnlyRequests, NEW w \in Workers, NEW x \in Requests,
           req' = [req EXCEPT ![w] = x], KnowsTrue(x)
    PROVE  RegisterInv'
<1>1. req \in [Workers -> Requests]
  BY DEF RegisterInv, RegisterTypeOK, Requests
<1>2. req' \in [Workers -> Requests] /\ \A v \in Workers : req'[v] = IF v = w THEN x ELSE req[v]
  BY <1>1
<1>3. RegisterTypeOK'
  BY <1>2 DEF RegisterInv, RegisterTypeOK, Requests, OnlyRequests, Requested, Written, Filed
<1>4. Grows
  BY NothingElse
<1>5. KnowsTrue(x)'
  BY <1>3, <1>4, KnowledgeStays
<1>6. KnowsTrue(req[w])'
  BY <1>2, <1>5
<1>7. \A v \in Workers : KnowsTrue(req[v])'
  BY <1>2, <1>3, <1>4, <1>6, RequestsKnow
<1>8. SignedOff' /\ CompletedHasDocuments'
  BY <1>4, RecordsUntouched DEF OnlyRequests
<1>9. VersionsInOrder' /\ ApprovedWasGiven'
  BY DEF OnlyRequests, RegisterInv, VersionsInOrder, ApprovedWasGiven, Requested
<1> QED
  BY <1>3, <1>7, <1>8, <1>9 DEF RegisterInv

(* A request that is over knows nothing. *)
LEMMA IdleKnows == Idle \in Requests /\ KnowsTrue(Idle) /\ KnowsTrue(Idle)'
  BY DEF Requests, Idle, KnowsTrue

LEMMA UpdateReadPreserves ==
    ASSUME RegisterInv, NEW w \in Workers, NEW r \in Records, NEW s \in RecordStatus,
           NEW orgAdmin \in BOOLEAN, UpdateStatusRead(w, r, s, orgAdmin)
    PROVE  RegisterInv'
<1> DEFINE bypass == ApprovalRequired(rec[r].type, s) /\ ~HasApprovedApproval(r)
           x == [op |-> "UpdateStatus", rec |-> r, loaded |-> rec[r].status, next |-> s,
                 bypass |-> bypass]
<1>1. Written(r) /\ rec[r].status \in RecordStatus
  BY DEF UpdateStatusRead, RegisterInv, RegisterTypeOK, Written, RecordRow
<1>2. x \in Requests
  BY <1>1 DEF Requests, RegisterRequest
<1>3. ApprovalRequired(rec[r].type, s) /\ ~bypass => r \in approvedOnce
  BY DEF HasApprovedApproval, RegisterInv, ApprovedWasGiven
<1>4. s \in AllowedTransitions[rec[r].status] /\ HasRequiredDocs(r, s)
  BY DEF UpdateStatusRead
<1>5. KnowsTrue(x)
  BY <1>1, <1>3, <1>4 DEF KnowsTrue
<1>6. req' = [req EXCEPT ![w] = x] /\ OnlyRequests
  BY DEF UpdateStatusRead, Starts, OnlyRequests
<1> QED
  BY <1>2, <1>5, <1>6, StartPreserves

LEMMA DecideReadPreserves ==
    ASSUME RegisterInv, NEW w \in Workers, NEW a \in Approvals, NEW next \in Decisions,
           DecideRead(w, a, next)
    PROVE  RegisterInv'
<1> DEFINE x == [op |-> "Decide", approval |-> a, was |-> approval[a].status,
                 loaded |-> rec[approval[a].rec].status, next |-> next]
<1>1. Requested(a) /\ approval[a] \in ApprovalRow /\ Written(approval[a].rec)
  BY DEF DecideRead, RegisterInv, RegisterTypeOK, Requested
<1>2. approval[a].rec \in Records /\ approval[a].status \in Decisions \cup {"Pending"}
  BY <1>1 DEF ApprovalRow
<1>3. rec[approval[a].rec].status \in RecordStatus
  BY <1>1, <1>2 DEF RegisterInv, RegisterTypeOK, Written, RecordRow
<1>4. x \in Requests
  BY <1>2, <1>3 DEF Requests, RegisterRequest
<1>5. KnowsTrue(x)
  BY <1>1 DEF KnowsTrue
<1>6. req' = [req EXCEPT ![w] = x] /\ OnlyRequests
  BY DEF DecideRead, Starts, OnlyRequests
<1> QED
  BY <1>4, <1>5, <1>6, StartPreserves

LEMMA UploadReadPreserves ==
    ASSUME RegisterInv, NEW w \in Workers, NEW d \in Documents, UploadRead(w, d)
    PROVE  RegisterInv'
<1> DEFINE n == Len(versions[d])
           x == [op |-> "Upload", doc |-> d, no |-> n + 1]
<1>1. n \in Nat
  BY DEF RegisterInv, RegisterTypeOK
<1>2. req' = [req EXCEPT ![w] = x] /\ OnlyRequests
  BY NextVersion DEF UploadRead, Starts, OnlyRequests
<1>3. n + 1 \in Nat /\ n + 1 \in 1 .. n + 1
  BY <1>1
<1>4. x \in Requests
  BY <1>3 DEF Requests, RegisterRequest
<1>5. KnowsTrue(x)
  BY <1>3 DEF KnowsTrue
<1> QED
  BY <1>2, <1>4, <1>5, StartPreserves

(* The saves. *)
LEMMA SavePreserves ==
    ASSUME RegisterInv, NEW w \in Workers, NEW loaded, NEW s \in RecordStatus,
           NEW r \in Records, Written(r), SaveStatus(r, loaded, s), Ends(w),
           UNCHANGED <<approval, doc, links, versions, approvedOnce>>,
           bypassed \subseteq bypassed', bypassed' \subseteq Records,
           ApprovalRequired(rec[r].type, s) /\ r \notin bypassed' => r \in approvedOnce,
           s = "Completed" => HasRequiredDocs(r, s)
    PROVE  RegisterInv'
<1>1. /\ rec' \in [Records -> RecordRow \cup {NoRecord}] /\ overtaken' \subseteq Records
      /\ Grows /\ SignedOff' /\ CompletedHasDocuments'
  BY SavedStatus
<1>2. req \in [Workers -> Requests]
  BY DEF RegisterInv, RegisterTypeOK, Requests
<1>3. /\ req' \in [Workers -> Requests] /\ req'[w] = Idle
      /\ \A v \in Workers : v # w => req'[v] = req[v]
  BY <1>2, IdleKnows DEF Ends
<1>4. \A a \in Approvals : (Requested(a) => Written(approval[a].rec))'
  <2> SUFFICES ASSUME NEW a \in Approvals, Requested(a) PROVE Written(approval[a].rec)'
    BY DEF Requested
  <2>1. Written(approval[a].rec) /\ approval[a].rec \in Records
    BY DEF RegisterInv, RegisterTypeOK, Requested, ApprovalRow
  <2> QED
    BY <1>1, <2>1 DEF Grows
<1>5. \A p \in links : (Filed(p[1]) /\ Written(p[2]))'
  <2> SUFFICES ASSUME NEW p \in links PROVE Filed(p[1])' /\ Written(p[2])'
    OBVIOUS
  <2>1. Filed(p[1]) /\ Written(p[2]) /\ p[1] \in Documents /\ p[2] \in Records
    BY DEF RegisterInv, RegisterTypeOK
  <2> QED
    BY <1>1, <2>1 DEF Grows, Filed
<1>6. RegisterTypeOK'
  <2>1. approvedOnce' \cup bypassed' \cup overtaken' \subseteq Records
    BY <1>1 DEF RegisterInv, RegisterTypeOK
  <2> QED
    BY <1>1, <1>3, <1>4, <1>5, <2>1 DEF RegisterInv, RegisterTypeOK, Requests
<1>7. KnowsTrue(req[w])'
  BY <1>3, IdleKnows
<1>8. \A v \in Workers : KnowsTrue(req[v])'
  BY <1>1, <1>3, <1>6, <1>7, RequestsKnow
<1>9. VersionsInOrder' /\ ApprovedWasGiven'
  BY DEF RegisterInv, VersionsInOrder, ApprovedWasGiven, Requested
<1> QED
  BY <1>1, <1>6, <1>8, <1>9 DEF RegisterInv

LEMMA StatusSavesPreserve ==
    ASSUME RegisterInv, NEW w \in Workers,
           UpdateStatusSave(w) \/ RequestApprovalSave(w) \/ DecideRecord(w)
    PROVE  RegisterInv'
<1> DEFINE x == req[w]
           r == x.rec
<1>1. x \in Requests /\ KnowsTrue(x) /\ bypassed \subseteq Records
  BY DEF RegisterInv, RegisterTypeOK, Requests
<1>2. CASE UpdateStatusSave(w)
  <2>1. /\ r \in Records /\ Written(r) /\ x.next \in RecordStatus
        /\ ApprovalRequired(rec[r].type, x.next) /\ ~x.bypass => r \in approvedOnce
        /\ HasRequiredDocs(r, x.next)
    BY <1>1, <1>2, RequestFields DEF UpdateStatusSave, Serving, KnowsTrue
  <2>2. /\ SaveStatus(r, x.loaded, x.next) /\ Ends(w)
        /\ UNCHANGED <<approval, doc, links, versions, approvedOnce>>
        /\ bypassed' = IF x.bypass THEN bypassed \cup {r} ELSE bypassed
    BY <1>2 DEF UpdateStatusSave
  <2>3. /\ bypassed \subseteq bypassed' /\ bypassed' \subseteq Records
        /\ r \notin bypassed' => ~x.bypass
    BY <1>1, <2>1, <2>2
  <2> HIDE DEF x, r
  <2> QED
    BY <2>1, <2>2, <2>3, SavePreserves
<1>3. CASE RequestApprovalSave(w)
  <2>1. r \in Records /\ Written(r)
    BY <1>1, <1>3, RequestFields DEF RequestApprovalSave, Serving, KnowsTrue
  <2>2. /\ SaveStatus(r, "Draft", "PendingApproval") /\ Ends(w)
        /\ UNCHANGED <<approval, doc, links, versions, approvedOnce, bypassed>>
    BY <1>3 DEF RequestApprovalSave
  <2>3. "PendingApproval" \in RecordStatus /\ ~ApprovalRequired(rec[r].type, "PendingApproval")
    BY DEF RecordStatus, ApprovalRequired
  <2> QED
    BY <1>1, <2>1, <2>2, <2>3, SavePreserves
<1>4. CASE DecideRecord(w)
  <2>1. /\ r \in Records /\ Written(r) /\ x.next \in {"Approved", "Rejected"}
        /\ x.next = "Approved" => r \in approvedOnce
    BY <1>1, <1>4, RequestFields DEF DecideRecord, Serving, KnowsTrue
  <2>2. /\ SaveStatus(r, "PendingApproval", x.next) /\ Ends(w)
        /\ UNCHANGED <<approval, doc, links, versions, approvedOnce, bypassed>>
    BY <1>4 DEF DecideRecord
  <2>3. x.next \in RecordStatus /\ x.next # "Completed"
    BY <2>1 DEF RecordStatus
  <2>4. ApprovalRequired(rec[r].type, x.next) => r \in approvedOnce
    BY <2>1 DEF ApprovalRequired
  <2> HIDE DEF x, r
  <2> QED
    BY <1>1, <2>1, <2>2, <2>3, <2>4, SavePreserves
<1> QED
  BY <1>2, <1>3, <1>4

(* A new approval request, and a decision on one. *)
LEMMA ApprovalWritten ==
    ASSUME RegisterInv, NEW w \in Workers, NEW a \in Approvals, NEW row \in ApprovalRow,
           approval' = [approval EXCEPT ![a] = row],
           Written(row.rec), Requested(a) => row.rec = approval[a].rec,
           row.status = "Approved" => row.rec \in approvedOnce',
           approvedOnce \subseteq approvedOnce', approvedOnce' \subseteq Records,
           NEW x \in Requests, req' = [req EXCEPT ![w] = x], KnowsTrue(x)' \/ x = req[w],
           UNCHANGED <<rec, doc, links, versions, bypassed, overtaken>>
    PROVE  RegisterInv'
<1>t. /\ approval \in [Approvals -> ApprovalRow \cup {NoApproval}]
      /\ req \in [Workers -> Requests]
      /\ \A d \in Documents : Len(versions[d]) \in Nat
  BY DEF RegisterInv, RegisterTypeOK, Requests
<1>1. \A b \in Approvals : approval'[b] = IF b = a THEN row ELSE approval[b]
  BY <1>t
<1>2. row # NoApproval
  BY DEF ApprovalRow, NoApproval, Decisions
<1>3. \A v \in Workers : req'[v] = IF v = w THEN x ELSE req[v]
  BY <1>t
<1>4. Grows
  BY <1>t, <1>1, <1>2 DEF Grows, Requested, Written, Filed
<1>5. \A b \in Approvals : (Requested(b) => Written(approval[b].rec))'
  BY <1>1 DEF RegisterInv, RegisterTypeOK, Requested, Written
<1>6. \A p \in links : (Filed(p[1]) /\ Written(p[2]))'
  BY DEF RegisterInv, RegisterTypeOK, Written, Filed
<1>7. /\ approval' \in [Approvals -> ApprovalRow \cup {NoApproval}]
      /\ req' \in [Workers -> Requests]
      /\ approvedOnce' \cup bypassed' \cup overtaken' \subseteq Records
  BY <1>t DEF RegisterInv, RegisterTypeOK
<1>8. RegisterTypeOK'
  BY <1>5, <1>6, <1>7 DEF RegisterInv, RegisterTypeOK, Requests
<1>9. KnowsTrue(req[w])' \/ req'[w] = req[w]
  BY <1>3
<1>10. \A v \in Workers : KnowsTrue(req[v])'
  BY <1>3, <1>4, <1>8, <1>9, RequestsKnow
<1>11. SignedOff' /\ CompletedHasDocuments'
  BY <1>4, RecordsUntouched
<1>12. VersionsInOrder' /\ ApprovedWasGiven'
  BY <1>1 DEF RegisterInv, VersionsInOrder, ApprovedWasGiven, Requested
<1> QED
  BY <1>8, <1>10, <1>11, <1>12 DEF RegisterInv

LEMMA RequestApprovalPreserves ==
    ASSUME RegisterInv, NEW w \in Workers, NEW r \in Records, NEW a \in Approvals,
           RequestApproval(w, r, a)
    PROVE  RegisterInv'
<1> DEFINE row == [rec |-> r, status |-> "Pending"]
           waits == [op |-> "RequestApproval", rec |-> r]
<1>1. /\ Written(r) /\ ~Requested(a) /\ approval' = [approval EXCEPT ![a] = row]
      /\ UNCHANGED <<rec, doc, links, versions, approvedOnce, bypassed, overtaken>>
  BY DEF RequestApproval
<1>2. row \in ApprovalRow /\ row.rec = r /\ row.status = "Pending"
  BY DEF ApprovalRow
<1>3. /\ req \in [Workers -> Requests] /\ approvedOnce \subseteq Records
      /\ waits \in Requests
  BY DEF RegisterInv, RegisterTypeOK, Requests, RegisterRequest
<1>4. PICK x \in Requests : x = IF rec[r].status = "Draft" THEN waits ELSE req[w]
  BY <1>3
<1>5. req' = [req EXCEPT ![w] = x]
  BY <1>3, <1>4 DEF RequestApproval, Continues
<1>6. KnowsTrue(waits)'
  BY <1>1 DEF KnowsTrue, Written
<1>7. KnowsTrue(x)' \/ x = req[w]
  BY <1>4, <1>6
<1> HIDE DEF row
<1> QED
  BY <1>1, <1>2, <1>3, <1>5, <1>7, ApprovalWritten

LEMMA DecidePreserves ==
    ASSUME RegisterInv, NEW w \in Workers, DecideApproval(w)
    PROVE  RegisterInv'
<1>1. PICK q \in Requests : q = req[w]
  BY DEF RegisterInv, RegisterTypeOK, Requests
<1>2. /\ q.approval \in Approvals /\ q.next \in Decisions /\ Requested(q.approval)
      /\ approvedOnce \subseteq Records
  BY <1>1, RequestFields
     DEF DecideApproval, Serving, KnowsTrue, RegisterInv, RegisterTypeOK
<1> DEFINE a == q.approval
           next == q.next
<1>3. PICK old \in ApprovalRow : old = approval[a]
  BY <1>2 DEF RegisterInv, RegisterTypeOK, Requested
<1> DEFINE r == old.rec
           row == [old EXCEPT !.status = Saved(@, q.was, next)]
           goes == next # "Cancelled" /\ q.loaded = "PendingApproval"
           tells == [op |-> "Decided", rec |-> r, next |-> next]
           x == IF goes THEN tells ELSE Idle
<1>4. r \in Records /\ Written(r)
  BY <1>2, <1>3 DEF RegisterInv, RegisterTypeOK, Requested, ApprovalRow
<1>5. Saved(old.status, q.was, next) \in {old.status, next}
  BY DEF Saved
<1>6. row \in ApprovalRow /\ row.rec = r /\ row.status \in {old.status, next}
  BY <1>2, <1>5 DEF ApprovalRow
<1>7. /\ approvedOnce' = IF next = "Approved" THEN approvedOnce \cup {r} ELSE approvedOnce
      /\ UNCHANGED <<rec, doc, links, versions, bypassed, overtaken>>
  BY <1>1, <1>3 DEF DecideApproval
<1>8. approval' = [approval EXCEPT ![a] = row]
  BY <1>1, <1>3 DEF DecideApproval, ApprovalRow
<1>9. req' = [req EXCEPT ![w] = x]
  BY <1>1, <1>3 DEF DecideApproval, Continues, Ends
<1>10. row.status = "Approved" => r \in approvedOnce'
  BY <1>2, <1>3, <1>6, <1>7 DEF RegisterInv, ApprovedWasGiven
<1>11. approvedOnce \subseteq approvedOnce' /\ approvedOnce' \subseteq Records
  BY <1>2, <1>4, <1>7
<1>12. goes => next \in {"Approved", "Rejected"}
  BY <1>2 DEF Decisions
<1>13. x \in Requests
  BY <1>4, <1>12 DEF Requests, RegisterRequest
<1>14. Written(r)' /\ (next = "Approved" => r \in approvedOnce')
  BY <1>4, <1>7 DEF Written
<1>15. KnowsTrue(tells)'
  BY <1>14 DEF KnowsTrue
<1>16. KnowsTrue(x)'
  BY <1>15, IdleKnows
<1>17. Written(row.rec) /\ row.rec = approval[a].rec
  BY <1>3, <1>4, <1>6
<1>18. PICK y \in Requests : y = x
  BY <1>13
<1>19. req' = [req EXCEPT ![w] = y] /\ KnowsTrue(y)'
  BY <1>9, <1>16, <1>18
<1>20. a \in Approvals
  BY <1>2
<1> HIDE DEF a, row, r
<1> QED
  BY <1>6, <1>7, <1>8, <1>10, <1>11, <1>17, <1>19, <1>20, ApprovalWritten

-----------------------------------------------------------------------------
(* The other steps: entries made, documents filed, linked and uploaded.    *)

(* The parts of the invariant that a step needs not look at when it leaves *)
(* approvals and requests alone. *)
LEMMA AddedPreserves ==
    ASSUME RegisterInv, RegisterTypeOK', Grows, SignedOff', CompletedHasDocuments',
           UNCHANGED <<approval, versions, req, approvedOnce>>
    PROVE  RegisterInv'
<1>1. \A v \in Workers : KnowsTrue(req[v])'
  <2> SUFFICES ASSUME NEW v \in Workers PROVE KnowsTrue(req[v])'
    OBVIOUS
  <2>1. PICK x \in Requests : x = req[v] /\ KnowsTrue(x)
    BY DEF RegisterInv, RegisterTypeOK, Requests
  <2>2. KnowsTrue(x)'
    BY <2>1, KnowledgeStays
  <2> QED
    BY <2>1, <2>2
<1>2. VersionsInOrder' /\ ApprovedWasGiven'
  BY DEF RegisterInv, VersionsInOrder, ApprovedWasGiven, Requested
<1> QED
  BY <1>1, <1>2 DEF RegisterInv

LEMMA CreateRecordPreserves ==
    ASSUME RegisterInv, NEW r \in Records, NEW t \in Types, NEW s \in Entries,
           CreateRecord(r, t, s)
    PROVE  RegisterInv'
<1> DEFINE row == [type |-> t, status |-> s, entered |-> s]
<1>1. /\ ~Written(r) /\ rec' = [rec EXCEPT ![r] = row]
      /\ UNCHANGED <<approval, doc, links, versions, req, approvedOnce, bypassed, overtaken>>
  BY DEF CreateRecord
<1>2. row \in RecordRow /\ row # NoRecord /\ row.status = row.entered
  BY RegisterConstants DEF RecordRow, NoRecord
<1>t. rec \in [Records -> RecordRow \cup {NoRecord}] /\ \A d \in Documents : Len(versions[d]) \in Nat
  BY DEF RegisterInv, RegisterTypeOK
<1>3. \A q \in Records : rec'[q] = IF q = r THEN row ELSE rec[q]
  BY <1>1, <1>t
<1> HIDE DEF row
<1>4. \A q \in Records : Written(q) => Written(q)' /\ rec'[q] = rec[q]
  BY <1>1, <1>2, <1>3 DEF Written
<1>5. Grows
  BY <1>1, <1>4, <1>t DEF Grows, Requested, Filed
<1>6. rec' \in [Records -> RecordRow \cup {NoRecord}]
  BY <1>1, <1>2, <1>t
<1>7. \A a \in Approvals : (Requested(a) => Written(approval[a].rec))'
  <2> SUFFICES ASSUME NEW a \in Approvals, Requested(a) PROVE Written(approval[a].rec)'
    BY <1>1 DEF Requested
  <2>1. Written(approval[a].rec) /\ approval[a].rec \in Records
    BY DEF RegisterInv, RegisterTypeOK, Requested, ApprovalRow
  <2> QED
    BY <1>1, <1>4, <2>1
<1>8. \A p \in links : (Filed(p[1]) /\ Written(p[2]))'
  BY <1>1, <1>4 DEF RegisterInv, RegisterTypeOK, Filed
<1>9. RegisterTypeOK'
  BY <1>1, <1>6, <1>7, <1>8 DEF RegisterInv, RegisterTypeOK
<1>10. SignedOff'
  BY <1>1, <1>2, <1>3 DEF RegisterInv, SignedOff, Written
<1>11. \A q \in Records : Documented(q)'
  <2>1. ASSUME NEW q \in Records, q # r PROVE Documented(q)'
    BY <1>1, <1>3, <2>1 DEF RegisterInv, CompletedHasDocuments, Documented, Written
  <2>2. Documented(r)'
    BY <1>2, <1>3 DEF Documented
  <2> QED
    BY <2>1, <2>2
<1>12. CompletedHasDocuments'
  BY <1>11 DEF CompletedHasDocuments, Documented
<1> QED
  BY <1>1, <1>5, <1>9, <1>10, <1>12, AddedPreserves

LEMMA DocumentPreserves ==
    ASSUME RegisterInv, NEW d \in Documents,
           \/ \E t \in DocTypes : CreateDocument(d, t)
           \/ \E r \in Records : LinkDocument(d, r)
    PROVE  RegisterInv'
<1>t. /\ doc \in [Documents -> DocTypes \cup {"NONE"}]
      /\ \A e \in Documents : Len(versions[e]) \in Nat
  BY DEF RegisterInv, RegisterTypeOK
<1>1. ASSUME NEW t \in DocTypes, CreateDocument(d, t)
      PROVE  RegisterInv'
  <2>1. \A e \in Documents : doc'[e] = IF e = d THEN t ELSE doc[e]
    BY <1>1, <1>t DEF CreateDocument
  <2>2. t # "NONE"
    BY RegisterConstants DEF AnyDocType
  <2>3. \A e \in Documents : Filed(e) => Filed(e)' /\ doc'[e] = doc[e]
    BY <1>1, <2>1, <2>2 DEF CreateDocument, Filed
  <2>4. Grows
    BY <1>1, <1>t, <2>3 DEF CreateDocument, Grows, Written, Requested
  <2>5. RegisterTypeOK'
    BY <1>1, <2>3 DEF CreateDocument, RegisterInv, RegisterTypeOK, Written, Requested
  <2>6. SignedOff' /\ CompletedHasDocuments'
    BY <1>1, <2>4, RecordsUntouched DEF CreateDocument
  <2> QED
    BY <1>1, <2>4, <2>5, <2>6, AddedPreserves DEF CreateDocument
<1>2. ASSUME NEW r \in Records, LinkDocument(d, r)
      PROVE  RegisterInv'
  <2>1. Grows
    BY <1>2, <1>t DEF LinkDocument, Grows, Written, Requested, Filed
  <2>2. \A p \in links' : (Filed(p[1]) /\ Written(p[2]))'
    BY <1>2 DEF LinkDocument, RegisterInv, RegisterTypeOK, Written, Filed
  <2>3. RegisterTypeOK'
    BY <1>2, <2>2 DEF LinkDocument, RegisterInv, RegisterTypeOK, Written, Requested
  <2>4. SignedOff' /\ CompletedHasDocuments'
    BY <1>2, <2>1, RecordsUntouched DEF LinkDocument
  <2> QED
    BY <1>2, <2>1, <2>3, <2>4, AddedPreserves DEF LinkDocument
<1> QED
  BY <1>1, <1>2

(* A stored version has the next number: the index refuses those that      *)
(* another upload stored first.                                            *)
LEMMA UploadPreserves ==
    ASSUME RegisterInv, NEW w \in Workers, UploadInsert(w)
    PROVE  RegisterInv'
<1>1. PICK q \in Requests : q = req[w]
  BY DEF RegisterInv, RegisterTypeOK, Requests
<1>2. PICK d \in Documents : d = q.doc
  BY <1>1, RequestFields DEF UploadInsert, Serving
<1>3. PICK old \in Seq(Nat) : old = versions[d]
  BY DEF RegisterInv, RegisterTypeOK
<1> DEFINE n == Len(old)
           new == Append(old, n + 1)
<1>4. n \in Nat
  OBVIOUS
<1>5. q.no \in 1 .. n + 1 /\ q.no \notin 1 .. n
  <2>1. q.no \in 1 .. n + 1
    BY <1>1, <1>2, <1>3 DEF RegisterInv, KnowsTrue, UploadInsert, Serving
  <2>2. q.no \notin Range(versions[d])
    BY <1>1, <1>2 DEF UploadInsert, VersionFree
  <2> QED
    BY <1>3, <2>1, <2>2, NextVersion
<1>6. q.no = n + 1
  BY <1>4, <1>5
<1>7. versions' = [versions EXCEPT ![d] = new]
  BY <1>1, <1>2, <1>3, <1>6 DEF UploadInsert
<1>8. new \in Seq(Nat) /\ Len(new) = n + 1 /\ \A k \in 1 .. n + 1 : new[k] = IF k = n + 1 THEN n + 1 ELSE old[k]
  BY <1>4
<1>9. \A e \in Documents : versions'[e] = IF e = d THEN new ELSE versions[e]
  BY <1>7 DEF RegisterInv, RegisterTypeOK
<1>10. /\ req' = [req EXCEPT ![w] = Idle]
       /\ UNCHANGED <<rec, approval, doc, links, approvedOnce, bypassed, overtaken>>
  BY DEF UploadInsert, Ends
<1>11. \A v \in Workers : req'[v] = IF v = w THEN Idle ELSE req[v]
  BY <1>10 DEF RegisterInv, RegisterTypeOK
<1>12. \A e \in Documents : Len(versions[e]) \in Nat
  BY DEF RegisterInv, RegisterTypeOK
<1>13. \A e \in Documents : Len(versions[e]) <= Len(versions'[e])
  <2>1. Len(versions[d]) <= Len(versions'[d])
    <3>1. versions'[d] = new /\ versions[d] = old
      BY <1>3, <1>9
    <3> HIDE DEF n, new
    <3>2. Len(new) = n + 1
      BY <1>8
    <3> QED
      BY <1>4, <3>1, <3>2 DEF n
  <2>2. ASSUME NEW e \in Documents, e # d
        PROVE  Len(versions[e]) <= Len(versions'[e])
    BY <1>9, <1>12, <2>2
  <2> QED
    BY <2>1, <2>2
<1>14. Grows
  BY <1>10, <1>13 DEF Grows, Written, Requested, Filed
<1>15. versions' \in [Documents -> Seq(Nat)]
  BY <1>7, <1>8 DEF RegisterInv, RegisterTypeOK
<1>16. req' \in [Workers -> {Idle} \cup RegisterRequest]
  BY <1>10 DEF RegisterInv, RegisterTypeOK
<1>17. RegisterTypeOK'
  BY <1>10, <1>15, <1>16 DEF RegisterInv, RegisterTypeOK, Written, Requested, Filed
<1>18. KnowsTrue(req[w])'
  BY <1>11, IdleKnows
<1>19. \A v \in Workers : KnowsTrue(req[v])'
  BY <1>11, <1>14, <1>17, <1>18, RequestsKnow
<1>20. SignedOff' /\ CompletedHasDocuments'
  BY <1>10, <1>14, RecordsUntouched
<1>21. DOMAIN old = 1 .. n /\ DOMAIN new = 1 .. n + 1 /\ \A k \in 1 .. n : old[k] = k
  BY <1>3, <1>4, <1>8 DEF RegisterInv, VersionsInOrder
<1> HIDE DEF n, new
<1>22. \A k \in DOMAIN new : new[k] = k
  BY <1>4, <1>8, <1>21
<1>23. VersionsInOrder'
  BY <1>9, <1>22 DEF RegisterInv, VersionsInOrder
<1>24. ApprovedWasGiven'
  BY <1>10 DEF RegisterInv, ApprovedWasGiven, Requested
<1> QED
  BY <1>17, <1>19, <1>20, <1>23, <1>24 DEF RegisterInv

LEMMA FailPreserves ==
    ASSUME RegisterInv, NEW w \in Workers, Fail(w)
    PROVE  RegisterInv'
  BY IdleKnows, StartPreserves DEF Fail, Ends, OnlyRequests

-----------------------------------------------------------------------------
LEMMA InitHolds == RegisterInit => RegisterInv
<1> SUFFICES ASSUME RegisterInit PROVE RegisterInv
  OBVIOUS
<1>1. RegisterTypeOK
  BY DEF RegisterInit, RegisterTypeOK, Written, Requested
<1>2. SignedOff /\ CompletedHasDocuments /\ VersionsInOrder /\ ApprovedWasGiven
  BY DEF RegisterInit, SignedOff, CompletedHasDocuments, VersionsInOrder, ApprovedWasGiven,
         Written, Requested
<1>3. \A w \in Workers : KnowsTrue(req[w])
  BY IdleKnows DEF RegisterInit
<1> QED
  BY <1>1, <1>2, <1>3 DEF RegisterInv

LEMMA StutterPreserves == RegisterInv /\ UNCHANGED regvars => RegisterInv'
<1> SUFFICES ASSUME RegisterInv, UNCHANGED regvars PROVE RegisterInv'
  OBVIOUS
<1>1. OnlyRequests /\ UNCHANGED req
  BY DEF regvars, OnlyRequests
<1>2. Grows
  BY <1>1, NothingElse
<1>3. RegisterTypeOK'
  BY <1>1 DEF OnlyRequests, RegisterInv, RegisterTypeOK, Written, Requested, Filed
<1>4. SignedOff' /\ CompletedHasDocuments'
  BY <1>1, <1>2, RecordsUntouched DEF OnlyRequests
<1> QED
  BY <1>1, <1>2, <1>3, <1>4, AddedPreserves DEF OnlyRequests

(* The inductive invariant of the register. *)
THEOREM RegisterInvariant == RegisterSpec => []RegisterInv
<1>1. RegisterInv /\ RegisterNext => RegisterInv'
  <2> SUFFICES ASSUME RegisterInv, RegisterNext PROVE RegisterInv'
    OBVIOUS
  <2>1. ASSUME NEW w \in Workers, RegisterStep(w)
        PROVE  RegisterInv'
    BY <2>1, UpdateReadPreserves, RequestApprovalPreserves, DecideReadPreserves,
       StatusSavesPreserve, DecidePreserves, UploadReadPreserves, UploadPreserves, FailPreserves
       DEF RegisterStep
  <2> QED
    BY <2>1, DocumentPreserves, CreateRecordPreserves DEF RegisterNext
<1> QED
  BY InitHolds, <1>1, StutterPreserves, PTL DEF RegisterSpec

(* Entries, approval requests, documents and their versions keep their     *)
(* shape, and what names an entry names one that was made.                 *)
THEOREM RegisterTypesHold == RegisterSpec => []RegisterTypeOK
<1>1. RegisterInv => RegisterTypeOK
  BY DEF RegisterInv
<1> QED
  BY <1>1, RegisterInvariant, PTL

(* hasApprovedApproval is asked when the transition is checked and the     *)
(* status is saved later, whatever decisions came between: a transfer or   *)
(* disposal nobody bypassed is still only approved with an approval.       *)
THEOREM AlwaysSignedOff == RegisterSpec => []SignedOff
<1>1. RegisterInv => SignedOff
  BY DEF RegisterInv
<1> QED
  BY <1>1, RegisterInvariant, PTL

(* A completed entry has its document, also when the lookup is old.        *)
THEOREM AlwaysDocumented == RegisterSpec => []CompletedHasDocuments
<1>1. RegisterInv => CompletedHasDocuments
  BY DEF RegisterInv
<1> QED
  BY <1>1, RegisterInvariant, PTL

(* Two uploads that looked up the same last version are told apart by the  *)
(* unique index alone, and leave no number out.                            *)
THEOREM VersionsNumbered == RegisterSpec => []VersionsInOrder
<1>1. RegisterInv => VersionsInOrder
  BY DEF RegisterInv
<1> QED
  BY <1>1, RegisterInvariant, PTL

-----------------------------------------------------------------------------
(* The transition a request saves was allowed from the status it loaded. *)
LEMMA StatusMoves ==
    ASSUME RegisterInv, RegisterNext, NEW r \in Records, Written(r),
           rec'[r].status # rec[r].status
    PROVE  r \in overtaken' \/ rec'[r].status \in AllowedTransitions[rec[r].status]
<1>t. rec \in [Records -> RecordRow \cup {NoRecord}]
  BY DEF RegisterInv, RegisterTypeOK
<1>1. ASSUME NEW q \in Records, NEW loaded, NEW s, SaveStatus(q, loaded, s),
             s \in AllowedTransitions[loaded]
      PROVE  r \in overtaken' \/ rec'[r].status \in AllowedTransitions[rec[r].status]
  <2>1. r = q /\ rec[r] \in RecordRow
    BY <1>t, <1>1 DEF SaveStatus, Written
  <2>2. rec'[r].status = s
    BY <1>t, <1>1, <2>1 DEF SaveStatus, RecordRow
  <2>3. r \in overtaken' \/ rec[r].status = loaded
    BY <1>1, <2>1 DEF SaveStatus
  <2> QED
    BY <1>1, <2>2, <2>3
<1>2. ASSUME NEW w \in Workers, UpdateStatusSave(w)
      PROVE  r \in overtaken' \/ rec'[r].status \in AllowedTransitions[rec[r].status]
  <2>1. PICK x \in Requests : x = req[w] /\ KnowsTrue(x)
    BY DEF RegisterInv, RegisterTypeOK, Requests
  <2>2. x.rec \in Records /\ x.next \in AllowedTransitions[x.loaded]
    BY <1>2, <2>1, RequestFields DEF UpdateStatusSave, Serving, KnowsTrue
  <2>3. SaveStatus(x.rec, x.loaded, x.next)
    BY <1>2, <2>1 DEF UpdateStatusSave
  <2> QED
    BY <1>1, <2>2, <2>3
<1>3. ASSUME NEW w \in Workers, RequestApprovalSave(w)
      PROVE  r \in overtaken' \/ rec'[r].status \in AllowedTransitions[rec[r].status]
  <2>1. PICK x \in Requests : x = req[w]
    BY DEF RegisterInv, RegisterTypeOK, Requests
  <2>2. x.rec \in Records /\ SaveStatus(x.rec, "Draft", "PendingApproval")
    BY <1>3, <2>1, RequestFields DEF RequestApprovalSave, Serving
  <2>3. "PendingApproval" \in AllowedTransitions["Draft"]
    BY DEF AllowedTransitions
  <2> QED
    BY <1>1, <2>2, <2>3
<1>4. ASSUME NEW w \in Workers, DecideRecord(w)
      PROVE  r \in overtaken' \/ rec'[r].status \in AllowedTransitions[rec[r].status]
  <2>1. PICK x \in Requests : x = req[w]
    BY DEF RegisterInv, RegisterTypeOK, Requests
  <2>2. /\ x.rec \in Records /\ x.next \in {"Approved", "Rejected"}
        /\ SaveStatus(x.rec, "PendingApproval", x.next)
    BY <1>4, <2>1, RequestFields DEF DecideRecord, Serving
  <2>3. x.next \in AllowedTransitions["PendingApproval"]
    BY <2>2 DEF AllowedTransitions
  <2> QED
    BY <1>1, <2>2, <2>3
<1>5. ASSUME NEW q \in Records, NEW t \in Types, NEW s \in Entries, CreateRecord(q, t, s)
      PROVE  FALSE
  BY <1>t, <1>5 DEF CreateRecord, Written
<1>6. ~UNCHANGED rec
  OBVIOUS
<1>7. ASSUME NEW w \in Workers, RegisterStep(w)
      PROVE  UpdateStatusSave(w) \/ RequestApprovalSave(w) \/ DecideRecord(w) \/ UNCHANGED rec
  BY <1>7 DEF RegisterStep, UpdateStatusRead, RequestApproval, DecideRead, DecideApproval,
              UploadRead, UploadInsert, Fail
<1>8. ASSUME NEW d \in Documents, \/ \E t \in DocTypes : CreateDocument(d, t)
                                  \/ \E q \in Records : LinkDocument(d, q)
      PROVE  UNCHANGED rec
  BY <1>8 DEF CreateDocument, LinkDocument
<1> QED
  BY <1>2, <1>3, <1>4, <1>5, <1>6, <1>7, <1>8 DEF RegisterNext

(* Only a save over a status that was not seen leaves ALLOWED_TRANSITIONS, *)
(* whichever of the three saves it is.                                     *)
THEOREM TransitionsFollowed == RegisterSpec => FollowsTransitions
<1> DEFINE Moves == \A r \in Records :
                        Written(r) /\ rec'[r].status # rec[r].status
                            => r \in overtaken'
                               \/ rec'[r].status \in AllowedTransitions[rec[r].status]
<1>1. RegisterInv /\ RegisterNext => Moves
  BY StatusMoves
<1>2. RegisterInv /\ [RegisterNext]_regvars => [Moves]_regvars
  BY <1>1
<1>3. RegisterSpec => [][Moves]_regvars
  BY <1>2, RegisterInvariant, PTL DEF RegisterSpec
<1> QED
  BY <1>3 DEF FollowsTransitions
=============================================================================
