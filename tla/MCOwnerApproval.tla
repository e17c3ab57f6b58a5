-------------------------- MODULE MCOwnerApproval --------------------------
(* Two owners, an administrator who may be promoted or deleted, two LIAs    *)
(* for one slot, and two HTTP requests at a time.                           *)
EXTENDS OwnerApproval, TLC

CONSTANTS o1, o2, adm, lia1, lia2, r1, r2, x1, x2, x3, w1, w2, booking

Everybody == {o1, o2, adm, lia1, lia2}
MCRoleAtStart == [s \in Staff |->
  CASE s \in {o1, o2} -> "OWNER" [] s = adm -> "SUPER_ADMIN" [] OTHER -> "LIA"]
OneRequest == {r1}
TwoRequests == {r1, r2}
TwoRows == {x1, x2}
ThreeRows == {x1, x2, x3}
OneWorker == {w1}
TwoWorkers == {w1, w2}

Refund == [kind |-> "ISSUE_REFUND", about |-> booking, to |-> "none"]
Dismiss(s) == [kind |-> "DEACTIVATE_STAFF", about |-> s, to |-> "none"]
Erase(s) == [kind |-> "HARD_DELETE_STAFF", about |-> s, to |-> "none"]
Promote(s) == [kind |-> "CHANGE_STAFF_ROLE", about |-> s, to |-> "OWNER"]
Setting == [kind |-> "CHANGE_PLATFORM_SETTING", about |-> "setting", to |-> "none"]

RefundOnly == {Refund}
Dismissals == {Dismiss(lia1)}
AllPayloads == {Refund, Setting, Dismiss(lia1), Erase(adm), Promote(adm)}

Symmetry == Permutations(Workers) \cup Permutations(Rows)
=============================================================================
