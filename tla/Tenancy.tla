------------------------------ MODULE Tenancy ------------------------------
(***************************************************************************)
(* What assignments promise, with no handlers, workers or item fields in   *)
(* it: at any time an item is given out under at most one tenancy, and a   *)
(* tenancy that has ended is never taken up again.                         *)
(***************************************************************************)
CONSTANTS Items, Assignments

VARIABLES tenant,  \* the pairs <<i, a>>: item i is given out under a
          over     \* the tenancies that have ended

Free(i) == \A a \in Assignments : <<i, a>> \notin tenant
Unused(a) == a \notin over /\ \A i \in Items : <<i, a>> \notin tenant

Init == tenant = {} /\ over = {}

Begin(i, a) == /\ Free(i) /\ Unused(a)
               /\ tenant' = tenant \cup {<<i, a>>}
               /\ UNCHANGED over

End(i, a) == /\ <<i, a>> \in tenant
             /\ tenant' = tenant \ {<<i, a>>}
             /\ over' = over \cup {a}

(* an open assignment is edited to name another item *)
Move(i, j, a) == /\ <<i, a>> \in tenant /\ Free(j)
                 /\ tenant' = (tenant \ {<<i, a>>}) \cup {<<j, a>>}
                 /\ UNCHANGED over

Next == \E i \in Items, a \in Assignments :
            Begin(i, a) \/ End(i, a) \/ \E j \in Items : Move(i, j, a)

vars == <<tenant, over>>

Spec == Init /\ [][Next]_vars
=============================================================================
