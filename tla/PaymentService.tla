--------------------------- MODULE PaymentService ---------------------------
(***************************************************************************)
(* payment-service: ProcessPayment inserts the payment of an order, whose  *)
(* trigger-given status is PROCESSING, and then sets it to SUCCEEDED.  The *)
(* two statements are not one transaction, the caller's deadline or        *)
(* cancellation can end the handler at each of them, and a statement that  *)
(* reports an error may have been executed.                                *)
(***************************************************************************)
EXTENDS Naturals

CONSTANT Orders

VARIABLES
    call,      \* the ProcessPayment call of each order
    payment    \* payments.status of each order's row, "none" without a row

paymentVars == <<call, payment>>

PaymentInit ==
    /\ call = [o \in Orders |-> "none"]
    /\ payment = [o \in Orders |-> "none"]

PaymentTypeOK ==
    /\ call \in [Orders -> {"none", "sent", "created", "replied", "failed"}]
    /\ payment \in [Orders -> {"none", "PROCESSING", "SUCCEEDED"}]

\* order-service's client stub sends the request.
SendCall(o) ==
    /\ call[o] = "none"
    /\ call' = [call EXCEPT ![o] = "sent"]
    /\ UNCHANGED payment

CreatePayment(o) ==
    /\ call[o] = "sent"
    /\ payment[o] = "none"
    /\ payment' = [payment EXCEPT ![o] = "PROCESSING"]
    /\ call' = [call EXCEPT ![o] = "created"]

\* The handler returns an error before, or although, the row was inserted.
CreatePaymentFails(o) ==
    /\ call[o] = "sent"
    /\ \E row \in {payment[o], "PROCESSING"} :
        payment' = [payment EXCEPT ![o] = row]
    /\ call' = [call EXCEPT ![o] = "failed"]

UpdatePaymentStatus(o) ==
    /\ call[o] = "created"
    /\ payment' = [payment EXCEPT ![o] = "SUCCEEDED"]
    /\ call' = [call EXCEPT ![o] = "replied"]

\* The handler returns an error before, or although, the row was updated.
UpdatePaymentStatusFails(o) ==
    /\ call[o] = "created"
    /\ \E row \in {payment[o], "SUCCEEDED"} :
        payment' = [payment EXCEPT ![o] = row]
    /\ call' = [call EXCEPT ![o] = "failed"]

ProcessPayment(o) ==
    \/ CreatePayment(o) \/ CreatePaymentFails(o)
    \/ UpdatePaymentStatus(o) \/ UpdatePaymentStatusFails(o)

=============================================================================
