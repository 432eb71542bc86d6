----------------------------- MODULE MCPayment -----------------------------
(* Model-checking instances of PaymentService.  The instances of the       *)
(* service run the same code; liveness is checked too, so no symmetry is    *)
(* declared.                                                               *)
EXTENDS PaymentService

PaymentQueues == {"payment.subscription-created", "payment.subscription-cancelled"}
=============================================================================
