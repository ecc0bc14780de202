----------------------- MODULE ApprovalMatrix_proofs -----------------------
(***************************************************************************)
(* Proofs about the approval matrix, for any sets of users, workflows,     *)
(* concurrent requests and rules.                                          *)
(***************************************************************************)
EXTENDS ApprovalMatrix, FiniteSetTheorems, TLAPS

(* The fields of a request in progress, by operation. *)
LEMMA RequestFields ==
    ASSUME ApprovalTypeOK, NEW w \in Workers
    PROVE  /\ req[w].op \in {"FindPending", "Create"} =>
                 req[w].maker \in Makers /\ req[w].payload \in Payloads
           /\ req[w].op \in {"CarryOut", "Mark", "MarkWrite"} =>
                 /\ req[w] \in GateRequest
                 /\ req[w].wf \in Workflows /\ Exists(req[w].wf)
           /\ req[w].op = "Decide" =>
                 /\ req[w] \in DecideRequest
                 /\ req[w].wf \in Workflows /\ Exists(req[w].wf)
                 /\ req[w].entry \in Entry
                 /\ req[w].status \in Decision \cup {Unchanged}
    BY DEF ApprovalTypeOK, GateRequest, DecideRequest, Idle

(* The fields of a workflow that exists. *)
LEMMA RowFields ==
    ASSUME ApprovalTypeOK, NEW r \in Workflows, Exists(r)
    PROVE  /\ wf[r] \in WorkflowRow
           /\ wf[r].status \in Status
           /\ wf[r].required \in Nat
           /\ wf[r].approvals \in Seq(Entry)
    BY ApprovalConstants DEF ApprovalTypeOK, WorkflowRow, Exists

(* A workflow never loses what has been written about it but its status. *)
Kept(r) ==
    /\ wf'[r] # NoWorkflow
    /\ wf'[r].required = wf[r].required
    /\ \A n \in DOMAIN wf[r].approvals :
          n \in DOMAIN wf'[r].approvals /\ wf'[r].approvals[n] = wf[r].approvals[n]

(* Replacing one worker's request by a well-typed one keeps the others. *)
LEMMA BecomesTyped ==
    ASSUME ApprovalTypeOK, NEW w \in Workers, NEW STATE q, Becomes(w, q),
           q \in {Idle} \cup GateRequest \cup DecideRequest,
           \A r \in Workflows : Exists(r) => wf'[r] # NoWorkflow,
           q.op \in {"CarryOut", "Mark", "MarkWrite", "Decide"} =>
               q.wf \in Workflows /\ wf'[q.wf] # NoWorkflow
    PROVE  /\ req' \in [Workers -> {Idle} \cup GateRequest \cup DecideRequest]
           /\ \A x \in Workers :
                 req'[x].op \in {"CarryOut", "Mark", "MarkWrite", "Decide"}
                    => wf'[req'[x].wf] # NoWorkflow
  <1>1. req' \in [Workers -> {Idle} \cup GateRequest \cup DecideRequest]
    BY DEF ApprovalTypeOK, Becomes
  <1>2. ASSUME NEW x \in Workers,
               req'[x].op \in {"CarryOut", "Mark", "MarkWrite", "Decide"}
        PROVE  wf'[req'[x].wf] # NoWorkflow
    <2>1. CASE x = w
      BY <1>2, <2>1 DEF ApprovalTypeOK, Becomes
    <2>2. CASE x # w
      <3>1. req'[x] = req[x]
        BY <2>2 DEF ApprovalTypeOK, Becomes
      <3>2. req[x].wf \in Workflows /\ Exists(req[x].wf)
        BY <1>2, <3>1, RequestFields
      <3> QED BY <3>1, <3>2
    <2> QED BY <2>1, <2>2
  <1> QED BY <1>1, <1>2

-----------------------------------------------------------------------------
(* No step loses a workflow, an entry, or the number it requires. *)
LEMMA NothingLost ==
    ASSUME ApprovalTypeOK, Next, NEW r \in Workflows, Exists(r)
    PROVE  Kept(r)
  <1> USE RowFields DEF Kept
  <1>0. ASSUME wf' = wf PROVE Kept(r)
    BY <1>0 DEF Exists
  <1>1. ASSUME NEW w \in Workers, NEW t \in Workflows, NEW n \in RequiredCounts,
               GateCreate(w, t, n)
        PROVE  Kept(r)
    <2>1. t # r /\ wf'[r] = wf[r]
      BY <1>1 DEF GateCreate, ApprovalTypeOK, Exists
    <2> QED BY <2>1 DEF Exists
  <1>2. ASSUME NEW w \in Workers, MarkWrite(w) PROVE Kept(r)
    <2>1. wf'[r] = wf[r] \/ wf'[r] = [wf[r] EXCEPT !.status = "Executed"]
      BY <1>2 DEF MarkWrite, ApprovalTypeOK
    <2> QED BY <2>1 DEF Exists, WorkflowRow, NoWorkflow
  <1>3. ASSUME NEW w \in Workers, DecideWrite(w) PROVE Kept(r)
    <2>1. PICK s : wf'[r] = wf[r] \/ wf'[r] = [wf[r] EXCEPT
                       !.approvals = Append(@, req[w].entry), !.status = s]
      BY <1>3 DEF DecideWrite, ApprovalTypeOK
    <2>2. CASE wf'[r] = wf[r]
      BY <2>2 DEF Exists
    <2>3. CASE wf'[r] = [wf[r] EXCEPT !.approvals = Append(@, req[w].entry), !.status = s]
      <3>1. /\ wf'[r].approvals = Append(wf[r].approvals, req[w].entry)
            /\ wf'[r].required = wf[r].required
            /\ wf'[r] # NoWorkflow
        BY <2>3 DEF WorkflowRow, NoWorkflow
      <3> QED BY <3>1
    <2> QED BY <2>1, <2>2, <2>3
  <1> QED
    BY <1>0, <1>1, <1>2, <1>3 DEF Next, Fail, GateExplicit, GateFindApproved,
       GateFindPending, CarryOut, MarkRead, DecideRead

(* Every step keeps the types. *)
LEMMA TypeStep == ApprovalTypeOK /\ Next => ApprovalTypeOK'
  <1> SUFFICES ASSUME ApprovalTypeOK, Next PROVE ApprovalTypeOK'
    OBVIOUS
  <1>0. \A r \in Workflows : Exists(r) => wf'[r] # NoWorkflow
    BY NothingLost DEF Kept
  <1>1. ASSUME wf' \in [Workflows -> WorkflowRow \cup {NoWorkflow}],
               spent' \in [Workflows -> 0..SpendLimit],
               \A r \in Workflows : spent'[r] > 0 => wf'[r] # NoWorkflow,
               NEW w \in Workers, NEW STATE q, Becomes(w, q),
               q \in {Idle} \cup GateRequest \cup DecideRequest,
               q.op \in {"CarryOut", "Mark", "MarkWrite", "Decide"} =>
                   q.wf \in Workflows /\ wf'[q.wf] # NoWorkflow
        PROVE  ApprovalTypeOK'
    BY <1>0, <1>1, BecomesTyped DEF ApprovalTypeOK, Exists
  <1>2. ASSUME wf' = wf, spent' = spent,
               NEW w \in Workers, NEW STATE q, Becomes(w, q),
               q \in {Idle} \cup GateRequest \cup DecideRequest,
               q.op \in {"CarryOut", "Mark", "MarkWrite", "Decide"} =>
                   q.wf \in Workflows /\ Exists(q.wf)
        PROVE  ApprovalTypeOK'
    BY <1>0, <1>1, <1>2 DEF ApprovalTypeOK
  <1>3. ASSUME NEW w \in Workers, Fail(w) PROVE ApprovalTypeOK'
    BY <1>2, <1>3 DEF Fail, Idle
  <1>4. ASSUME NEW w \in Workers, NEW u \in Makers, NEW p \in Payloads,
               NEW r \in Workflows, GateExplicit(w, u, p, r)
        PROVE  ApprovalTypeOK'
    BY <1>2, <1>4 DEF GateExplicit, Matching, GateRequest
  <1>5. ASSUME NEW w \in Workers, NEW u \in Makers, NEW p \in Payloads,
               GateFindApproved(w, u, p)
        PROVE  ApprovalTypeOK'
    BY <1>2, <1>5 DEF GateFindApproved, IsLatest, Matching, GateRequest
  <1>6. ASSUME NEW w \in Workers, GateFindPending(w) PROVE ApprovalTypeOK'
    BY <1>2, <1>6, RequestFields DEF GateFindPending, Serving, Idle, GateRequest
  <1>7. ASSUME NEW w \in Workers, NEW r \in Workflows, NEW n \in RequiredCounts,
               GateCreate(w, r, n)
        PROVE  ApprovalTypeOK'
    <2>1. req[w].maker \in Makers /\ req[w].payload \in Payloads
      BY <1>7, RequestFields DEF GateCreate, Serving
    <2>2. wf' \in [Workflows -> WorkflowRow \cup {NoWorkflow}]
      BY <1>7, <2>1 DEF GateCreate, ApprovalTypeOK, WorkflowRow, Status
    <2> QED BY <1>0, <1>1, <1>7, <2>2 DEF GateCreate, ApprovalTypeOK, Idle
  <1>8. ASSUME NEW w \in Workers, CarryOut(w) PROVE ApprovalTypeOK'
    <2>1. req[w].wf \in Workflows /\ Exists(req[w].wf)
      BY <1>8, RequestFields DEF CarryOut, Serving
    <2>4. spent[req[w].wf] \in 0..SpendLimit /\ spent[req[w].wf] < SpendLimit
      BY <1>8, <2>1 DEF CarryOut, ApprovalTypeOK
    <2>5. spent[req[w].wf] + 1 \in 0..SpendLimit
      BY <2>4, ApprovalConstants
    <2>2. spent' \in [Workflows -> 0..SpendLimit]
      BY <1>8, <2>1, <2>5 DEF CarryOut, ApprovalTypeOK
    <2>3. \A r \in Workflows : spent'[r] > 0 => Exists(r)
      BY <1>8, <2>1, <2>4 DEF CarryOut, ApprovalTypeOK
    <2> QED BY <1>0, <1>1, <1>8, <2>1, <2>2, <2>3 DEF CarryOut, ApprovalTypeOK, GateRequest
  <1>9. ASSUME NEW w \in Workers, MarkRead(w) PROVE ApprovalTypeOK'
    BY <1>2, <1>9, RequestFields DEF MarkRead, Serving, Idle, GateRequest
  <1>10. ASSUME NEW w \in Workers, MarkWrite(w) PROVE ApprovalTypeOK'
    <2>1. req[w].wf \in Workflows /\ Exists(req[w].wf)
      BY <1>10, RequestFields DEF MarkWrite, Serving
    <2>2. [wf[req[w].wf] EXCEPT !.status = "Executed"] \in WorkflowRow
      BY <2>1, RowFields DEF WorkflowRow, Status
    <2>3. wf' \in [Workflows -> WorkflowRow \cup {NoWorkflow}]
      BY <1>10, <2>1, <2>2 DEF MarkWrite, ApprovalTypeOK
    <2> QED BY <1>0, <1>1, <1>10, <2>3 DEF MarkWrite, ApprovalTypeOK, Idle
  <1>11. ASSUME NEW w \in Workers, NEW u \in Users, NEW r \in Workflows, NEW d \in Decision,
                DecideRead(w, u, r, d)
         PROVE  ApprovalTypeOK'
    <2>1. Outcome(r, d) \in Decision \cup {Unchanged}
      BY DEF Outcome, Decision
    <2> QED BY <1>2, <1>11, <2>1 DEF DecideRead, DecideRequest, Entry
  <1>12. ASSUME NEW w \in Workers, DecideWrite(w) PROVE ApprovalTypeOK'
    <2> DEFINE r == req[w].wf
               s == IF req[w].status = Unchanged THEN wf[r].status ELSE req[w].status
    <2>1. /\ r \in Workflows /\ Exists(r)
          /\ req[w].entry \in Entry /\ req[w].status \in Decision \cup {Unchanged}
      BY <1>12, RequestFields DEF DecideWrite, Serving
    <2>2. wf[r] \in WorkflowRow /\ s \in Status /\ Append(wf[r].approvals, req[w].entry) \in Seq(Entry)
      BY <2>1, RowFields DEF Decision, Status
    <2>3. [wf[r] EXCEPT !.approvals = Append(wf[r].approvals, req[w].entry), !.status = s]
              \in WorkflowRow
      BY <2>2 DEF WorkflowRow
    <2>4. wf' = [wf EXCEPT ![r] =
                   [wf[r] EXCEPT !.approvals = Append(wf[r].approvals, req[w].entry), !.status = s]]
      BY <1>12, <2>1 DEF DecideWrite, ApprovalTypeOK
    <2>5. wf' \in [Workflows -> WorkflowRow \cup {NoWorkflow}]
      BY <2>3, <2>4 DEF ApprovalTypeOK
    <2> QED BY <1>0, <1>1, <1>12, <2>5 DEF DecideWrite, ApprovalTypeOK, Idle
  <1> QED
    BY <1>3, <1>4, <1>5, <1>6, <1>7, <1>8, <1>9, <1>10, <1>11, <1>12 DEF Next

-----------------------------------------------------------------------------
(* The approvals in an array of entries are finitely many. *)
LEMMA FinitelyMany ==
    ASSUME NEW s \in Seq(Entry)
    PROVE  LET A == {n \in DOMAIN s : s[n].decision = "Approved"}
           IN  IsFiniteSet(A) /\ Cardinality(A) \in Nat
  <1> DEFINE A == {n \in DOMAIN s : s[n].decision = "Approved"}
  <1>1. A \subseteq 1..Len(s) /\ Len(s) \in Nat
    OBVIOUS
  <1>2. IsFiniteSet(A)
    BY <1>1, FS_Interval, FS_Subset
  <1> QED BY <1>2, FS_CardinalityType

(* The approvals of a workflow only grow, and their number with them. *)
LEMMA ApprovalsGrow ==
    ASSUME ApprovalTypeOK, ApprovalTypeOK', NEW r \in Workflows, Exists(r), Kept(r)
    PROVE  /\ IsFiniteSet(Approvals(r))
           /\ Approvals(r) \subseteq Approvals(r)'
           /\ Cardinality(Approvals(r)) \in Nat
           /\ Cardinality(Approvals(r)') \in Nat
           /\ Cardinality(Approvals(r)) <= Cardinality(Approvals(r)')
  <1>1. wf[r].approvals \in Seq(Entry)
    BY RowFields
  <1>2. wf'[r].approvals \in Seq(Entry)
    BY DEF Kept, ApprovalTypeOK, WorkflowRow
  <1>3. IsFiniteSet(Approvals(r)) /\ Cardinality(Approvals(r)) \in Nat
    BY <1>1, FinitelyMany DEF Approvals
  <1>4. IsFiniteSet(Approvals(r)') /\ Cardinality(Approvals(r)') \in Nat
    BY <1>2, FinitelyMany DEF Approvals
  <1>5. Approvals(r) \subseteq Approvals(r)'
    BY DEF Approvals, Kept
  <1> QED BY <1>3, <1>4, <1>5, FS_Subset

(* Once there are enough approvals there always are. *)
LEMMA EnoughStays ==
    ASSUME ApprovalTypeOK, ApprovalTypeOK', NEW r \in Workflows, Exists(r), Kept(r), Enough(r)
    PROVE  Enough(r)'
  <1>1. wf[r].required \in Nat /\ wf'[r].required = wf[r].required
    BY RowFields DEF Kept
  <1>2. Cardinality(Approvals(r)') >= wf'[r].required
    BY <1>1, ApprovalsGrow DEF Enough
  <1>3. ASSUME wf'[r].required >= 2
        PROVE  \E m, n \in Approvals(r)' : wf'[r].approvals[m].by # wf'[r].approvals[n].by
    <2>1. PICK m \in Approvals(r), n \in Approvals(r) :
              wf[r].approvals[m].by # wf[r].approvals[n].by
      BY <1>1, <1>3 DEF Enough
    <2>2. /\ m \in Approvals(r)' /\ wf'[r].approvals[m] = wf[r].approvals[m]
          /\ n \in Approvals(r)' /\ wf'[r].approvals[n] = wf[r].approvals[n]
      BY ApprovalsGrow DEF Kept, Approvals
    <2> QED BY <2>1, <2>2
  <1> QED BY <1>2, <1>3 DEF Enough

(* An approving verdict that completes the approvals still does when other *)
(* entries have arrived.                                                   *)
LEMMA CompletesStays ==
    ASSUME ApprovalTypeOK, ApprovalTypeOK', NEW r \in Workflows, Exists(r), Kept(r),
           NEW e, Completes(e, r)
    PROVE  /\ e.decision = "Approved"
           /\ Cardinality(Approvals(r)') + 1 >= wf'[r].required
           /\ wf'[r].required >= 2 =>
                 \E n \in Approvals(r)' : wf'[r].approvals[n].by # e.by
  <1>1. wf[r].required \in Nat /\ wf'[r].required = wf[r].required
    BY RowFields DEF Kept
  <1>2. Cardinality(Approvals(r)') + 1 >= wf'[r].required
    BY <1>1, ApprovalsGrow DEF Completes
  <1>3. ASSUME wf'[r].required >= 2
        PROVE  \E n \in Approvals(r)' : wf'[r].approvals[n].by # e.by
    <2>1. PICK n \in Approvals(r) : wf[r].approvals[n].by # e.by
      BY <1>1, <1>3 DEF Completes
    <2>2. n \in Approvals(r)' /\ wf'[r].approvals[n] = wf[r].approvals[n]
      BY ApprovalsGrow DEF Kept, Approvals
    <2> QED BY <2>1, <2>2
  <1> QED BY <1>2, <1>3 DEF Completes

(* Saving a completing verdict leaves enough approvals. *)
LEMMA CompletedIsEnough ==
    ASSUME ApprovalTypeOK, ApprovalTypeOK', NEW r \in Workflows, Exists(r), Kept(r),
           NEW e \in Entry, Completes(e, r),
           wf'[r].approvals = Append(wf[r].approvals, e)
    PROVE  Enough(r)'
  <1> DEFINE k == Len(wf[r].approvals) + 1
  <1>1. /\ wf[r].approvals \in Seq(Entry) /\ wf[r].required \in Nat
        /\ wf'[r].required = wf[r].required
    BY RowFields DEF Kept
  <1>2. k \in Approvals(r)' /\ k \notin Approvals(r) /\ wf'[r].approvals[k] = e
    BY <1>1 DEF Approvals, Completes
  <1>3. Approvals(r)' = Approvals(r) \cup {k}
    BY <1>1, <1>2 DEF Approvals
  <1>4. Cardinality(Approvals(r)') = Cardinality(Approvals(r)) + 1
    BY <1>2, <1>3, ApprovalsGrow, FS_AddElement
  <1>5. Cardinality(Approvals(r)') >= wf'[r].required
    BY <1>1, <1>4 DEF Completes
  <1>6. wf'[r].required >= 2 =>
           \E m, n \in Approvals(r)' : wf'[r].approvals[m].by # wf'[r].approvals[n].by
    BY <1>2, CompletesStays
  <1> QED BY <1>5, <1>6 DEF Enough

-----------------------------------------------------------------------------
(* Every step keeps the promises. *)
LEMMA BackedStep == ApprovalTypeOK /\ ApprovalTypeOK' /\ Backed /\ Next => Backed'
  <1> SUFFICES ASSUME ApprovalTypeOK, ApprovalTypeOK', Backed, Next PROVE Backed'
    OBVIOUS
  <1> USE RequestFields
  <1>1. \A r \in Workflows : Exists(r) => Kept(r)
    BY NothingLost
  <1>2. \A r \in Workflows : Exists(r) /\ Enough(r) => Enough(r)'
    BY <1>1, EnoughStays
  <1>3. \A w \in Workers : req[w].op \in {"CarryOut", "Mark", "MarkWrite"}
             => Enough(req[w].wf)
    BY DEF Backed
  <1>4. ASSUME NEW r \in Workflows, LetThrough(r)' PROVE Enough(r)'
    <2>1. CASE LetThrough(r)
      <3>1. Exists(r) /\ Enough(r)
        BY <2>1 DEF LetThrough, Exists, NoWorkflow, ApprovalTypeOK, Backed
      <3> QED BY <1>2, <3>1
    <2> SUFFICES ASSUME ~LetThrough(r) PROVE Enough(r)'
      BY <2>1
    <2>2. ASSUME wf' = wf, spent' = spent PROVE FALSE
      BY <1>4, <2>2 DEF LetThrough
    <2>3. ASSUME NEW w \in Workers, NEW t \in Workflows, NEW n \in RequiredCounts,
                 GateCreate(w, t, n)
          PROVE  FALSE
      BY <1>4, <2>3 DEF GateCreate, LetThrough, ApprovalTypeOK
    <2>4. ASSUME NEW w \in Workers, CarryOut(w) PROVE Enough(r)'
      <3>1. req[w].wf = r
        BY <1>4, <2>4 DEF CarryOut, LetThrough, ApprovalTypeOK
      <3> QED BY <1>2, <1>3, <2>4, <3>1 DEF CarryOut, Serving
    <2>5. ASSUME NEW w \in Workers, MarkWrite(w) PROVE Enough(r)'
      <3>1. req[w].wf = r
        BY <1>4, <2>5 DEF MarkWrite, LetThrough, ApprovalTypeOK
      <3> QED BY <1>2, <1>3, <2>5, <3>1 DEF MarkWrite, Serving
    <2>6. ASSUME NEW w \in Workers, DecideWrite(w) PROVE Enough(r)'
      <3>1. req[w].op = "Decide"
        BY <2>6 DEF DecideWrite, Serving
      <3>2. req[w].wf = r
        BY <1>4, <2>6 DEF DecideWrite, LetThrough, ApprovalTypeOK
      <3>3. Exists(r) /\ req[w].entry \in Entry /\ wf[r] \in WorkflowRow
        BY <3>1, <3>2, RowFields
      <3>4. /\ wf'[r].approvals = Append(wf[r].approvals, req[w].entry)
            /\ wf'[r].status = IF req[w].status = Unchanged THEN wf[r].status
                                                           ELSE req[w].status
        BY <2>6, <3>2, <3>3 DEF DecideWrite, ApprovalTypeOK, WorkflowRow
      <3>5. req[w].status = "Approved"
        BY <1>4, <2>6, <3>1, <3>4 DEF DecideWrite, LetThrough, Decision
      <3>6. Completes(req[w].entry, r)
        BY <3>1, <3>2, <3>5 DEF Backed
      <3> QED BY <1>1, <3>3, <3>4, <3>6, CompletedIsEnough
    <2> QED BY <2>2, <2>3, <2>4, <2>5, <2>6 DEF Next, Fail, GateExplicit,
               GateFindApproved, GateFindPending, MarkRead, DecideRead
  <1>5. ASSUME NEW x \in Workers, req'[x].op \in {"CarryOut", "Mark", "MarkWrite"}
        PROVE  \E r \in Workflows : r = req'[x].wf /\ Enough(r)'
    <2>1. CASE req'[x] = req[x]
      BY <1>2, <1>3, <1>5, <2>1
    <2> SUFFICES ASSUME req'[x] # req[x]
                 PROVE  \E r \in Workflows : r = req'[x].wf /\ Exists(r) /\ Enough(r)
      BY <1>2, <2>1
    <2> USE DEF Becomes, ApprovalTypeOK
    <2>2. ASSUME NEW r \in Workflows, wf[r].status = "Approved" PROVE Exists(r) /\ Enough(r)
      BY <2>2 DEF Backed, LetThrough, Exists, NoWorkflow
    <2>3. ASSUME NEW w \in Workers, NEW u \in Makers, NEW p \in Payloads,
                 \/ GateFindApproved(w, u, p)
                 \/ \E r \in Workflows : GateExplicit(w, u, p, r)
          PROVE  \E r \in Workflows : r = req'[x].wf /\ Exists(r) /\ Enough(r)
      <3>1. x = w
        BY <2>3 DEF GateFindApproved, GateExplicit
      <3>2. PICK r \in Workflows : wf[r].status = "Approved" /\ req'[x].wf = r
        BY <1>5, <2>3, <3>1 DEF GateFindApproved, GateExplicit, IsLatest, Matching
      <3> QED BY <2>2, <3>2
    <2>4. ASSUME NEW w \in Workers, CarryOut(w) \/ MarkRead(w)
          PROVE  \E r \in Workflows : r = req'[x].wf /\ Exists(r) /\ Enough(r)
      <3>1. x = w /\ req'[x].wf = req[w].wf
        BY <1>5, <2>4 DEF CarryOut, MarkRead, Idle
      <3>2. req[w].op \in {"CarryOut", "Mark"}
        BY <2>4 DEF CarryOut, MarkRead, Serving
      <3> QED BY <1>3, <3>1, <3>2
    <2>5. ASSUME NEW w \in Workers,
                 \/ GateFindPending(w) \/ MarkWrite(w) \/ DecideWrite(w) \/ Fail(w)
                 \/ \E r \in Workflows, n \in RequiredCounts : GateCreate(w, r, n)
                 \/ \E u \in Users, r \in Workflows, d \in Decision : DecideRead(w, u, r, d)
          PROVE  FALSE
      BY <1>5, <2>5 DEF GateFindPending, MarkWrite, DecideWrite, Fail, GateCreate,
                        DecideRead, Idle
    <2> QED BY <2>3, <2>4, <2>5 DEF Next
  <1>6. ASSUME NEW x \in Workers, req'[x].op = "Decide", req'[x].status = "Approved"
        PROVE  \E r \in Workflows :
                  /\ r = req'[x].wf
                  /\ req'[x].entry.decision = "Approved"
                  /\ Cardinality(Approvals(r)') + 1 >= wf'[r].required
                  /\ wf'[r].required >= 2 =>
                        \E n \in Approvals(r)' : wf'[r].approvals[n].by # req'[x].entry.by
    <2> SUFFICES \E r \in Workflows : /\ r = req'[x].wf /\ Exists(r)
                                      /\ Completes(req'[x].entry, r)
      BY <1>1, CompletesStays
    <2>1. CASE req'[x] = req[x]
      BY <1>6, <2>1 DEF Backed
    <2> USE DEF Becomes, ApprovalTypeOK
    <2>2. ASSUME req'[x] # req[x], NEW w \in Workers, NEW u \in Users, NEW r \in Workflows,
                 NEW d \in Decision, DecideRead(w, u, r, d)
          PROVE  /\ r = req'[x].wf /\ Exists(r)
                 /\ Completes(req'[x].entry, r)
      <3>1. /\ req'[x] = [op |-> "Decide", wf |-> r, entry |-> [by |-> u, decision |-> d],
                          status |-> Outcome(r, d)]
            /\ Exists(r) /\ ~Decided(u, r)
        BY <2>2 DEF DecideRead
      <3>2. d = "Approved" /\ Cardinality(Approvals(r)) + 1 >= wf[r].required
        BY <1>6, <3>1 DEF Outcome, Unchanged, Decision
      <3>3. \A n \in Approvals(r) : wf[r].approvals[n].by # u
        BY <3>1 DEF Decided, Approvals
      <3>4. wf[r].required >= 2 => Approvals(r) # {}
        <4>1. wf[r].required \in Nat
          BY <3>1, RowFields
        <4>2. Approvals(r) = {} => Cardinality(Approvals(r)) = 0
          BY FS_EmptySet
        <4> QED BY <3>2, <4>1, <4>2
      <3> QED BY <3>1, <3>2, <3>3, <3>4 DEF Completes
    <2>3. ASSUME req'[x] # req[x], NEW w \in Workers,
                 \/ GateFindPending(w) \/ CarryOut(w) \/ MarkRead(w) \/ MarkWrite(w)
                 \/ DecideWrite(w) \/ Fail(w)
                 \/ \E r \in Workflows, n \in RequiredCounts : GateCreate(w, r, n)
                 \/ \E u \in Makers, p \in Payloads :
                       \/ GateFindApproved(w, u, p)
                       \/ \E r \in Workflows : GateExplicit(w, u, p, r)
          PROVE  FALSE
      BY <1>6, <2>3 DEF GateFindPending, CarryOut, MarkRead, MarkWrite, DecideWrite, Fail,
                        GateCreate, GateFindApproved, GateExplicit, Idle
    <2> QED BY <2>1, <2>2, <2>3 DEF Next
  <1> QED BY <1>4, <1>5, <1>6 DEF Backed, Completes

-----------------------------------------------------------------------------
(* The initial state has no workflows. *)
LEMMA InitOK == Init => ApprovalTypeOK /\ Backed
  BY ApprovalConstants DEF Init, ApprovalTypeOK, Backed, LetThrough, NoWorkflow, Idle

(* The inductive invariant holds throughout. *)
THEOREM AlwaysBacked == Spec => [](ApprovalTypeOK /\ Backed)
  <1>1. ApprovalTypeOK /\ Backed /\ [Next]_vars => (ApprovalTypeOK /\ Backed)'
    <2> SUFFICES ASSUME ApprovalTypeOK, Backed, [Next]_vars PROVE ApprovalTypeOK' /\ Backed'
      OBVIOUS
    <2>1. CASE Next
      BY <2>1, TypeStep, BackedStep
    <2>2. CASE UNCHANGED vars
      <3>1. wf' = wf /\ req' = req /\ spent' = spent
        BY <2>2 DEF vars
      <3>2. ApprovalTypeOK'
        BY <3>1 DEF ApprovalTypeOK, Exists
      <3>3. ASSUME NEW r \in Workflows, LetThrough(r)' PROVE Enough(r)'
        BY <3>1, <3>3 DEF Backed, LetThrough, Enough, Approvals
      <3>4. ASSUME NEW w \in Workers
            PROVE  /\ (req[w].op \in {"CarryOut", "Mark", "MarkWrite"} => Enough(req[w].wf))'
                   /\ (req[w].op = "Decide" =>
                          (req[w].status = "Approved" => Completes(req[w].entry, req[w].wf)))'
        BY <3>1 DEF Backed, Enough, Completes, Approvals
      <3> QED BY <3>2, <3>3, <3>4 DEF Backed
    <2> QED BY <2>1, <2>2
  <1> QED BY <1>1, InitOK, PTL DEF Spec

(* ApprovalTypeOK: documents and requests keep their fields. *)
THEOREM TypeCorrect == Spec => []ApprovalTypeOK
  BY AlwaysBacked, PTL

(* Quorum: nothing goes through on fewer approvals than required. *)
THEOREM QuorumAlways == Spec => []Quorum
  <1>1. Backed => Quorum
    BY DEF Backed, Quorum, Enough
  <1> QED BY <1>1, AlwaysBacked, PTL

(* NoLoneApprover: nobody satisfies a rule for several approvals alone. *)
THEOREM NeverAlone == Spec => []NoLoneApprover
  <1>1. Backed => NoLoneApprover
    BY DEF Backed, NoLoneApprover, Enough
  <1> QED BY <1>1, AlwaysBacked, PTL
=============================================================================
