----------------------------- MODULE StockBook -----------------------------
(***************************************************************************)
(* What the inventory promises, with no lots, containers or documents in   *)
(* it: stock enters, leaves or moves, a move loses nothing on the way, and *)
(* a place owes stock only after an override was noted there.              *)
(***************************************************************************)
EXTENDS Integers

CONSTANTS Places, Consumables

VARIABLES held,             \* held[<<p, c>>]: the stock of c at place p
          overridden        \* where an override was noted

Accounts == Places \X Consumables

Init == held = [a \in Accounts |-> 0] /\ overridden = {}

Enter == (\A a \in Accounts : held'[a] >= held[a]) /\ UNCHANGED overridden

(* An override is noted where the stock is taken from. *)
Owing(a) == /\ overridden' \in {overridden, overridden \cup {a}}
            /\ held'[a] < 0 => a \in overridden'

Leave(a) == /\ held'[a] <= held[a]
            /\ \A b \in Accounts \ {a} : held'[b] = held[b]
            /\ Owing(a)

Move(a, b) == /\ held'[a] < held[a]
              /\ held'[a] + held'[b] = held[a] + held[b]
              /\ \A other \in Accounts \ {a, b} : held'[other] = held[other]
              /\ Owing(a)

Next == /\ held' \in [Accounts -> Int]
        /\ \/ Enter
           \/ \E a \in Accounts :
                 Leave(a) \/ \E p \in Places \ {a[1]} : Move(a, <<p, a[2]>>)

vars == <<held, overridden>>

Spec == Init /\ [][Next]_vars
=============================================================================
