--------------------------- MODULE ApprovalMatrix ---------------------------
(***************************************************************************)
(* services/approvalMatrix.service.ts: a transfer approval, a consumable   *)
(* issue or a disposal that matches a rule goes through only on an         *)
(* approved workflow for the same maker and payload; several approvers     *)
(* decide on the workflow; the transaction then consumes it.               *)
(*                                                                         *)
(* Nothing here runs in a transaction of its own: the gate reads, the      *)
(* caller's transaction commits, the workflow is marked afterwards, and a  *)
(* decision is saved over the document it was validated against.  save()   *)
(* pushes the new entry onto the stored approvals array and writes the     *)
(* status only if the handler changed it; it checks no version.            *)
(***************************************************************************)
EXTENDS Naturals, Sequences, FiniteSets

CONSTANTS Users, OrgAdmins,
          Approvers,       \* whom the rule's roles and scope admit
          Makers, Payloads,
          RequiredCounts,  \* bound: the required_approvals of rules in force
          Workflows,       \* bound: the workflow ids, in order of creation
          Workers,         \* bound: requests in progress at one time
          SpendLimit       \* bound: transactions carried out per workflow

ASSUME ApprovalConstants ==
    /\ OrgAdmins \subseteq Users /\ Approvers \subseteq Users /\ Makers \subseteq Users
    /\ RequiredCounts \subseteq Nat \ {0}
    /\ Workflows \subseteq Nat
    /\ SpendLimit \in Nat

VARIABLES wf,     \* wf[r]: the ApprovalMatrixRequest document r, or NoWorkflow
          req,    \* req[w]: what worker w keeps from its reads
          spent   \* spent[r]: the gated transactions committed on r

Status == {"Pending", "Approved", "Rejected", "Executed", "Cancelled"}
Decision == {"Approved", "Rejected"}

NoWorkflow == [status |-> "NONE"]

Entry == [by: Users, decision: Decision]

WorkflowRow == [status: Status, maker: Makers, payload: Payloads,
                required: RequiredCounts, approvals: Seq(Entry)]

Idle == [op |-> "Idle"]
Unchanged == "unchanged"

GateRequest ==
    [op: {"FindPending", "Create"}, maker: Makers, payload: Payloads]
    \cup [op: {"CarryOut", "Mark", "MarkWrite"}, wf: Workflows]

DecideRequest ==
    [op: {"Decide"}, wf: Workflows, entry: Entry, status: Decision \cup {Unchanged}]

Init == /\ wf = [r \in Workflows |-> NoWorkflow]
        /\ req = [w \in Workers |-> Idle]
        /\ spent = [r \in Workflows |-> 0]

Becomes(w, r) == req' = [req EXCEPT ![w] = r]
Serving(w, op) == req[w].op = op

Exists(r) == wf[r] # NoWorkflow

(* A handler that throws, or a server that stops, between two steps. *)
Fail(w) == req[w] # Idle /\ Becomes(w, Idle) /\ UNCHANGED <<wf, spent>>

-----------------------------------------------------------------------------
(* enforceApprovalMatrix *)

Matching(u, p, s) == {r \in Workflows : /\ Exists(r) /\ wf[r].status = s
                                        /\ wf[r].maker = u /\ wf[r].payload = p}

(* .sort({ requested_at: -1 }) *)
IsLatest(r, S) == r \in S /\ \A x \in S : x <= r

(* The caller sends approvalWorkflowId. *)
GateExplicit(w, u, p, r) ==
    /\ req[w] = Idle
    /\ r \in Matching(u, p, "Approved")
    /\ Becomes(w, [op |-> "CarryOut", wf |-> r])
    /\ UNCHANGED <<wf, spent>>

(* Otherwise the latest approved one will do; else a pending one is        *)
(* reported back; else one is created.  Each is a query of its own.        *)
GateFindApproved(w, u, p) ==
    /\ req[w] = Idle
    /\ \/ /\ Matching(u, p, "Approved") = {}
          /\ Becomes(w, [op |-> "FindPending", maker |-> u, payload |-> p])
       \/ \E r \in Workflows : /\ IsLatest(r, Matching(u, p, "Approved"))
                               /\ Becomes(w, [op |-> "CarryOut", wf |-> r])
    /\ UNCHANGED <<wf, spent>>

GateFindPending(w) ==
    /\ Serving(w, "FindPending")
    /\ LET u == req[w].maker
           p == req[w].payload
       IN  Becomes(w, IF Matching(u, p, "Pending") # {} THEN Idle
                      ELSE [op |-> "Create", maker |-> u, payload |-> p])
    /\ UNCHANGED <<wf, spent>>

(* Mutant: required_approvals is taken from the rule as it is, 0 if unset. *)
GateCreateUnclamped(w, r, n) ==
    /\ Serving(w, "Create")
    /\ ~Exists(r) /\ \A x \in Workflows : x < r => Exists(x)
    /\ wf' = [wf EXCEPT ![r] = [status |-> "Pending", maker |-> req[w].maker,
                                payload |-> req[w].payload, required |-> n - 1,
                                approvals |-> <<>>]]
    /\ Becomes(w, Idle)
    /\ UNCHANGED spent

(* required_approvals: Math.max(1, rule.required_approvals) *)
GateCreate(w, r, n) ==
    /\ Serving(w, "Create")
    /\ ~Exists(r) /\ \A x \in Workflows : x < r => Exists(x)
    /\ wf' = [wf EXCEPT ![r] = [status |-> "Pending", maker |-> req[w].maker,
                                payload |-> req[w].payload, required |-> n,
                                approvals |-> <<>>]]
    /\ Becomes(w, Idle)
    /\ UNCHANGED spent

-----------------------------------------------------------------------------
(* The caller: its transaction, then markApprovalWorkflowExecuted outside  *)
(* of it.                                                                  *)
CarryOut(w) ==
    /\ Serving(w, "CarryOut")
    /\ spent[req[w].wf] < SpendLimit
    /\ spent' = [spent EXCEPT ![req[w].wf] = @ + 1]
    /\ Becomes(w, [op |-> "Mark", wf |-> req[w].wf])
    /\ UNCHANGED wf

MarkRead(w) ==
    /\ Serving(w, "Mark")
    /\ Becomes(w, IF wf[req[w].wf].status = "Approved"
                    THEN [op |-> "MarkWrite", wf |-> req[w].wf] ELSE Idle)
    /\ UNCHANGED <<wf, spent>>

MarkWrite(w) ==
    /\ Serving(w, "MarkWrite")
    /\ wf' = [wf EXCEPT ![req[w].wf].status = "Executed"]
    /\ Becomes(w, Idle)
    /\ UNCHANGED spent

-----------------------------------------------------------------------------
(* decideApprovalMatrixRequest *)

(* canDecideApproval, for a rule that excludes the maker (disallow_maker,   *)
(* the default); an org admin may decide in any case.                      *)
CanDecide(u, r) == u \in OrgAdmins \/ (u \in Approvers /\ u # wf[r].maker)

Decided(u, r) == \E n \in DOMAIN wf[r].approvals : wf[r].approvals[n].by = u

Approvals(r) == {n \in DOMAIN wf[r].approvals : wf[r].approvals[n].decision = "Approved"}

(* Mutant: the decision being made is counted twice. *)
OutcomeOffByOne(r, d) ==
    IF d = "Rejected" THEN "Rejected"
    ELSE IF Cardinality(Approvals(r)) + 2 >= wf[r].required THEN "Approved" ELSE Unchanged

(* What the handler sets the status to, from the approvals it loaded and   *)
(* the one it pushes.                                                      *)
Outcome(r, d) ==
    IF d = "Rejected" THEN "Rejected"
    ELSE IF Cardinality(Approvals(r)) + 1 >= wf[r].required THEN "Approved" ELSE Unchanged

(* Mutant: a user may decide twice. *)
DecideReadAgain(w, u, r, d) ==
    /\ req[w] = Idle
    /\ Exists(r) /\ wf[r].status = "Pending"
    /\ CanDecide(u, r)
    /\ Becomes(w, [op |-> "Decide", wf |-> r, entry |-> [by |-> u, decision |-> d],
                   status |-> Outcome(r, d)])
    /\ UNCHANGED <<wf, spent>>

DecideRead(w, u, r, d) ==
    /\ req[w] = Idle
    /\ Exists(r) /\ wf[r].status = "Pending"
    /\ CanDecide(u, r) /\ ~Decided(u, r)
    /\ Becomes(w, [op |-> "Decide", wf |-> r, entry |-> [by |-> u, decision |-> d],
                   status |-> Outcome(r, d)])
    /\ UNCHANGED <<wf, spent>>

DecideWrite(w) ==
    /\ Serving(w, "Decide")
    /\ LET r == req[w].wf IN
         wf' = [wf EXCEPT ![r].approvals = Append(@, req[w].entry),
                          ![r].status = IF req[w].status = Unchanged THEN @ ELSE req[w].status]
    /\ Becomes(w, Idle)
    /\ UNCHANGED spent

-----------------------------------------------------------------------------
Next == \E w \in Workers :
          \/ \E u \in Makers, p \in Payloads :
                \/ GateFindApproved(w, u, p)
                \/ \E r \in Workflows : GateExplicit(w, u, p, r)
          \/ GateFindPending(w)
          \/ \E r \in Workflows, n \in RequiredCounts : GateCreate(w, r, n)
          \/ CarryOut(w) \/ MarkRead(w) \/ MarkWrite(w)
          \/ \E u \in Users, r \in Workflows, d \in Decision : DecideRead(w, u, r, d)
          \/ DecideWrite(w)
          \/ Fail(w)

vars == <<wf, req, spent>>

Spec == Init /\ [][Next]_vars

(* Type invariant: rows and requests have their fields, and requests and   *)
(* transactions name workflows that exist.                                 *)
ApprovalTypeOK ==
    /\ wf \in [Workflows -> WorkflowRow \cup {NoWorkflow}]
    /\ req \in [Workers -> {Idle} \cup GateRequest \cup DecideRequest]
    /\ spent \in [Workflows -> 0..SpendLimit]
    /\ \A w \in Workers : req[w].op \in {"CarryOut", "Mark", "MarkWrite", "Decide"}
                             => Exists(req[w].wf)
    /\ \A r \in Workflows : spent[r] > 0 => Exists(r)

(* Was let through once: approved, consumed, or spent by a transaction. *)
LetThrough(r) == wf[r].status \in {"Approved", "Executed"} \/ spent[r] > 0

(* However decisions overlap, nothing goes through on fewer approvals than *)
(* the rule in force at the request asked for (required_approvals).        *)
Quorum == \A r \in Workflows :
             LetThrough(r) => Cardinality(Approvals(r)) >= wf[r].required

(* A rule that asks for several approvals is never satisfied by one        *)
(* person, whatever they submit concurrently: somebody else agreed.        *)
NoLoneApprover ==
    \A r \in Workflows : LetThrough(r) /\ wf[r].required >= 2 =>
        \E m, n \in Approvals(r) : wf[r].approvals[m].by # wf[r].approvals[n].by

(* What Quorum and NoLoneApprover rest on.  Requests in progress carry an  *)
(* approved workflow past the moment somebody changes its status, and a    *)
(* verdict past the arrival of other entries, so their promises are part   *)
(* of the invariant: whoever will let r through has enough approvals for   *)
(* it, and whoever will approve r completes them.                          *)
Enough(r) ==
    /\ Cardinality(Approvals(r)) >= wf[r].required
    /\ wf[r].required >= 2 =>
          \E m, n \in Approvals(r) : wf[r].approvals[m].by # wf[r].approvals[n].by

Completes(e, r) ==
    /\ e.decision = "Approved"
    /\ Cardinality(Approvals(r)) + 1 >= wf[r].required
    /\ wf[r].required >= 2 => \E n \in Approvals(r) : wf[r].approvals[n].by # e.by

Backed ==
    /\ \A r \in Workflows : LetThrough(r) => Enough(r)
    /\ \A w \in Workers :
          /\ req[w].op \in {"CarryOut", "Mark", "MarkWrite"} => Enough(req[w].wf)
          /\ req[w].op = "Decide" =>
                (req[w].status = "Approved" => Completes(req[w].entry, req[w].wf))
=============================================================================
