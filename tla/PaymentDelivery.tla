-------------------------- MODULE PaymentDelivery --------------------------
(***************************************************************************)
(* What the purchase tool promises of the transactions of the payment      *)
(* queue, whatever the process goes through: a transaction that was paid   *)
(* is closed only once its receipt is kept, and what is kept stays kept.   *)
(***************************************************************************)
CONSTANT Transactions

VARIABLES
  paid,    \* transactions the store has charged
  kept,    \* transactions some receipt on disk stands for
  closed   \* paid transactions taken off the payment queue

deliveryVars == <<paid, kept, closed>>

Init == paid = {} /\ kept = {} /\ closed = {}

Pay(t) ==
  /\ paid' = paid \cup {t}
  /\ UNCHANGED <<kept, closed>>

\* One receipt stands for every transaction paid and not yet closed.
Keep(T) ==
  /\ T \subseteq paid
  /\ kept' = kept \cup T
  /\ UNCHANGED <<paid, closed>>

Close(t) ==
  /\ t \in kept
  /\ closed' = closed \cup {t}
  /\ UNCHANGED <<paid, kept>>

Next ==
  \/ \E t \in Transactions : Pay(t) \/ Close(t)
  \/ \E T \in SUBSET Transactions : Keep(T)

Spec == Init /\ [][Next]_deliveryVars
=============================================================================
