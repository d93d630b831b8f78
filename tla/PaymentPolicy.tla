---------------------------- MODULE PaymentPolicy ----------------------------
(***************************************************************************)
(* What PaymentTransitionPolicyService promises about a payment row: it is *)
(* created PROCESSING, and from then on its status only moves along the    *)
(* allowed transitions.  COMPLETED, FAILED and REFUNDED are terminal.      *)
(***************************************************************************)
CONSTANT Keys         \* the idempotency keys, one per possible payment row

VARIABLE payment      \* payment[k]: the status of the row, NONE if there is none

Statuses == {"PENDING", "PROCESSING", "COMPLETED", "FAILED", "REFUNDED"}

allowedTransitions ==
  [s \in Statuses |-> CASE s = "PENDING"    -> {"COMPLETED", "FAILED"}
                        [] s = "PROCESSING" -> {"PENDING", "FAILED"}
                        [] OTHER            -> {}]

CanTransition(from, to) == from = to \/ to \in allowedTransitions[from]

Create(k) ==
  /\ payment[k] = "NONE"
  /\ payment' = [payment EXCEPT ![k] = "PROCESSING"]

Move(k) ==
  /\ payment[k] # "NONE"
  /\ \E to \in Statuses : /\ CanTransition(payment[k], to)
                          /\ payment' = [payment EXCEPT ![k] = to]

Next == \E k \in Keys : Create(k) \/ Move(k)
=============================================================================
