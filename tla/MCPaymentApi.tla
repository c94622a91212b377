---------------------------- MODULE MCPaymentApi ----------------------------
(* Small instances of PaymentApi: web workers racing on few payments.      *)
EXTENDS PaymentApi, TLC

CONSTANTS p1, p2, t1, ghost, k1, empty, w1, w2

const_Bodies == {[amount |-> 5, currency |-> "USD"]}

Symmetry == Permutations(Workers) \cup Permutations(PaymentIds)

(* Captures only: every payment is already authorized and only capture       *)
(* requests arrive, of its own tenant and of another one; the saga voids and  *)
(* workers fail as ever.                                                   *)
AuthorizedInit ==
    /\ ApiInit
    /\ payments = [p \in PaymentIds |-> [tenant |-> t1, key |-> NoKey,
                       body |-> CHOOSE b \in Bodies : TRUE, status |-> "AUTHORIZED"]]
    /\ payLock = [p \in PaymentIds |-> NoProc]
    /\ outbox = << >>

CaptureNext ==
    \/ \E w \in Workers : ReceiveCapture(w) \/ ReceiveBatch(w) \/ CaptureStep(w) \/ WorkerFail(w)
    \/ SagaVoids

CaptureFairSpec == AuthorizedInit /\ [][CaptureNext]_allVars /\ Fairness
=============================================================================
