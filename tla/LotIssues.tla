----------------------------- MODULE LotIssues -----------------------------
(***************************************************************************)
(* The second book of consumables: what was received as a lot is issued to *)
(* offices and users (consumableIssue.controller.ts), used up by them      *)
(* (consumableConsumption), or returned, by users to an office and by      *)
(* offices to a lot of the store (consumableReturn), with a balance per    *)
(* holder and consumable (balance.service.ts).  It shares the lots with    *)
(* the inventory of module Stock, and nothing else: a receipt counts in    *)
(* both.  Each handler is one transaction.                                 *)
(***************************************************************************)
EXTENDS Stock

CONSTANTS Users,
          Issuing        \* bound: the kinds of consumable that are issued

Accounts == Offices \cup Users

ASSUME LotIssueConstants == Issuing \subseteq Kinds /\ Users \cap Places = {}

VARIABLES onHand,    \* onHand[<<a, c>>]: qty_on_hand of the ConsumableBalance
          issued,    \* the pairs <<l, a>> with a ConsumableIssue of lot l to a
          used       \* used[c]: the sum of the ConsumableConsumption rows

ivars == <<kind, lots, box, bal, opening, overridden, onHand, issued, used>>

(* addIn and addOut: the filter of the update is that enough is on hand. *)
AddIn(f, a, c, q) == [f EXCEPT ![<<a, c>>] = @ + q]

(* Mutant: a balance there is, is enough. *)
EnoughIfAny(a, c, q) == onHand[<<a, c>>] > 0

Enough(a, c, q) == onHand[<<a, c>>] >= q
AddOut(a, c, q) == [onHand EXCEPT ![<<a, c>>] = @ - q]

(* POST /consumables/issues: the update of the lot filters on its quantity *)
Issue(l, a, q) ==
    LET c == lots[l].item
    IN  /\ Suitable(c, a)
        /\ lots[l].available >= q
        /\ lots' = [lots EXCEPT ![l].available = @ - q]
        /\ issued' = issued \cup {<<l, a>>}
        /\ onHand' = AddIn(onHand, a, c, q)
        /\ UNCHANGED <<kind, box, bal, opening, overridden, used>>

(* POST /consumables/consumptions: of a LAB_ONLY consumable only on an     *)
(* issue to the one who used it, for whatever quantity that issue was.     *)
OnIssue(a, c) == \E l \in Lots : LotOf(l, c) /\ <<l, a>> \in issued

RecordConsumption(a, c, q) ==
    /\ kind[c] = "Chemical" => OnIssue(a, c)
    /\ Enough(a, c, q)
    /\ onHand' = AddOut(a, c, q)
    /\ used' = [used EXCEPT ![c] = @ + q]
    /\ UNCHANGED <<kind, lots, box, bal, opening, overridden, issued>>

(* POST /consumables/returns, mode USER_TO_OFFICE *)
UserToOffice(u, o, c, q) ==
    /\ Enough(u, c, q)
    /\ onHand' = AddIn(AddOut(u, c, q), o, c, q)
    /\ UNCHANGED <<kind, lots, box, bal, opening, overridden, issued, used>>

(* Mutant: the office keeps what it has returned to the store. *)
OfficeToStoreLotKept(o, l, q) ==
    /\ lots[l].place = Store /\ Enough(o, lots[l].item, q)
    /\ lots' = [lots EXCEPT ![l].available = @ + q]
    /\ UNCHANGED <<kind, box, bal, opening, overridden, onHand, issued, used>>

(* mode OFFICE_TO_STORE_LOT: to any lot of the store of that consumable, *)
(* whatever was received in it.                                          *)
OfficeToStoreLot(o, l, q) ==
    /\ lots[l].place = Store /\ Enough(o, lots[l].item, q)
    /\ onHand' = AddOut(o, lots[l].item, q)
    /\ lots' = [lots EXCEPT ![l].available = @ + q]
    /\ UNCHANGED <<kind, box, bal, opening, overridden, issued, used>>

IssueStep ==
    \E q \in Quantities :
       \/ \E l \in {m \in Lots : lots[m] # NoRow} :
             /\ kind[lots[l].item] \in Issuing
             /\ \/ \E a \in Accounts : Issue(l, a, q)
                \/ \E o \in Offices : OfficeToStoreLot(o, l, q)
       \/ \E c \in Consumables, a \in Accounts :
             \/ RecordConsumption(a, c, q)
             \/ a \in Users /\ \E o \in Offices : UserToOffice(a, o, c, q)

LInit == /\ SInit
         /\ onHand = [a \in Accounts \X Consumables |-> 0]
         /\ issued = {}
         /\ used = [c \in Consumables |-> 0]

LNext == (StockStep /\ UNCHANGED <<onHand, issued, used>>) \/ IssueStep

LSpec == LInit /\ [][LNext]_ivars

(* Type invariant of the issue book. *)
LotIssuesTypeOK ==
    /\ StockTypeOK
    /\ onHand \in [Accounts \X Consumables -> Nat]
    /\ issued \subseteq Lots \X Accounts
    /\ used \in [Consumables -> Nat]

(* What was received of a consumable as lots is, at any time, still in     *)
(* them, with someone, or used up: issues, returns to offices and returns  *)
(* to lots that never held the stock neither lose nor make any.            *)
NothingLost ==
    \A c \in Consumables :
        LET of == {l \in Lots : LotOf(l, c)}
        IN  SumFunction([l \in of |-> lots[l].received]) =
               SumFunction([l \in of |-> lots[l].available])
               + SumFunction([a \in Accounts |-> onHand[<<a, c>>]]) + used[c]
=============================================================================
