------------------------------- MODULE MCSaga -------------------------------
(* Model-checking instances of Saga: one member owning one subscription.    *)
EXTENDS Saga, TLC

CONSTANTS s1, m1

AllQueues == {"payment.subscription-created", "payment.subscription-cancelled",
              "subscription.payment-result", "subscription.member-withdrawn",
              "course.subscription-status"}

Owners == s1 :> m1
=============================================================================
