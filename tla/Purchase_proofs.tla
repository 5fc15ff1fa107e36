-------------------------- MODULE Purchase_proofs --------------------------
(***************************************************************************)
(* What holds of the purchase tool for every set of transactions and every *)
(* bound on the requests and the waiting blocks.                           *)
(***************************************************************************)
EXTENDS Purchase, TLAPS

\* Every step is one of the named actions.
LEMMA StepCases ==
  ASSUME Next
  PROVE  \/ startManager \/ stopManager \/ requestProductsWithId
         \/ startOpensGate \/ startObserves \/ startChecks \/ stopUnobserves
         \/ didReceiveResponse \/ didFailWithError
         \/ saveReceipt \/ updatedChecks \/ completeTransaction \/ Crash
         \/ \E t \in Transactions :
              payProduct(t) \/ Settles(t) \/ updatedPurchased(t) \/ dropTransaction(t)
BY DEF Next, Program, Blocks, StoreKit, Handler

-----------------------------------------------------------------------------

LEMMA Bounds ==
  /\ MaxRequests \in Nat \ {0} /\ MaxStarts \in Nat \ {0} /\ MaxStops \in Nat \ {0}
  /\ "gate" \in Statements /\ "observe" \in Statements /\ "check" \in Statements
BY PurchaseAssumption DEF PurchaseAssumption, Statements

LEMMA InitTypes == Init => PurchaseTypeOK
<1> SUFFICES ASSUME Init PROVE PurchaseTypeOK
  OBVIOUS
<1>1. startBlocks \in [Statements -> 0..MaxStarts]
  BY Bounds DEF Init
<1>2. queue \in [Transactions -> States]
  BY DEF Init, States
<1>3. /\ goodsRequestFinished \in BOOLEAN /\ offered \in BOOLEAN
      /\ started \in BOOLEAN /\ observing \in BOOLEAN
  BY DEF Init
<1>4. requests \in 0..MaxRequests /\ stopBlocks \in 0..MaxStops
  BY Bounds DEF Init
<1>5. /\ handling = Idle /\ receipt \subseteq Transactions
      /\ receipts \subseteq SUBSET Transactions /\ sent \subseteq receipts
  BY DEF Init
<1> QED
  BY <1>1, <1>2, <1>3, <1>4, <1>5 DEF PurchaseTypeOK

\* A block that moves on, begins or ends keeps the counts within their bounds.
LEMMA BlockTypes ==
  ASSUME startBlocks \in [Statements -> 0..MaxStarts],
         \/ \E from, to \in Statements : from # to /\ Advance(from, to)
         \/ startManager \/ startChecks
  PROVE  startBlocks' \in [Statements -> 0..MaxStarts]
<1>1. \A s \in Statements : startBlocks[s] \in Nat /\ startBlocks[s] <= MaxStarts
  BY Bounds
<1>2. CASE \E from, to \in Statements : from # to /\ Advance(from, to)
  <2> PICK from \in Statements, to \in Statements : from # to /\ Advance(from, to)
    BY <1>2
  <2>1. startBlocks[from] - 1 \in 0..MaxStarts /\ startBlocks[to] + 1 \in 0..MaxStarts
    BY <1>1, Bounds DEF Advance
  <2> QED
    BY <2>1 DEF Advance
<1>3. CASE startManager
  <2>1. startBlocks["gate"] + 1 \in 0..MaxStarts
    BY <1>1, <1>3, Bounds DEF startManager
  <2> QED
    BY <2>1, <1>3 DEF startManager
<1>4. CASE startChecks
  <2>1. startBlocks["check"] - 1 \in 0..MaxStarts
    BY <1>1, <1>4, Bounds DEF startChecks
  <2> QED
    BY <2>1, <1>4 DEF startChecks
<1> QED
  BY <1>2, <1>3, <1>4

\* Changing the state of one transaction to a state.
LEMMA QueueTypes ==
  ASSUME queue \in [Transactions -> States], NEW t, NEW s \in States,
         queue' = [queue EXCEPT ![t] = s]
  PROVE  queue' \in [Transactions -> States]
OBVIOUS

\* finishTransaction moves one transaction to one of the two last states.
LEMMA Finished ==
  ASSUME queue \in [Transactions -> States], NEW t, finishTransaction(t)
  PROVE  queue' = [queue EXCEPT ![t] =
                     IF queue[t] = "purchased" THEN "delivered" ELSE "dropped"]
BY DEF finishTransaction

LEMMA FinishTypes ==
  ASSUME queue \in [Transactions -> States], NEW t, finishTransaction(t)
  PROVE  queue' \in [Transactions -> States]
<1>1. (IF queue[t] = "purchased" THEN "delivered" ELSE "dropped") \in States
  BY DEF States
<1> QED
  BY <1>1, Finished, QueueTypes

LEMMA StepTypes == PurchaseTypeOK /\ [Next]_vars => PurchaseTypeOK'
<1> SUFFICES ASSUME PurchaseTypeOK, [Next]_vars PROVE PurchaseTypeOK'
  OBVIOUS
<1>blk. startBlocks \in [Statements -> 0..MaxStarts] /\ stopBlocks \in 0..MaxStops
  BY DEF PurchaseTypeOK
<1>q. queue \in [Transactions -> States]
  BY DEF PurchaseTypeOK
<1>1. CASE startManager
  BY <1>1, <1>blk, BlockTypes DEF startManager, PurchaseTypeOK, gateVars, mainVars
<1>2. CASE stopManager
  <2>1. stopBlocks' \in 0..MaxStops
    BY <1>2, <1>blk, Bounds DEF stopManager
  <2> QED BY <1>2, <2>1 DEF stopManager, PurchaseTypeOK, gateVars, mainVars
<1>3. CASE requestProductsWithId
  <2>1. requests' \in 0..MaxRequests
    BY <1>3, Bounds DEF requestProductsWithId, PurchaseTypeOK
  <2> QED BY <1>3, <2>1 DEF requestProductsWithId, PurchaseTypeOK, blockVars, mainVars
<1>4. CASE startOpensGate
  <2>1. startBlocks' \in [Statements -> 0..MaxStarts]
    BY <1>4, <1>blk, BlockTypes, Bounds DEF startOpensGate
  <2> QED BY <1>4, <2>1 DEF startOpensGate, PurchaseTypeOK, mainVars
<1>5. CASE startObserves
  <2>1. startBlocks' \in [Statements -> 0..MaxStarts]
    BY <1>5, <1>blk, BlockTypes, Bounds DEF startObserves
  <2> QED BY <1>5, <2>1 DEF startObserves, PurchaseTypeOK, gateVars, mainVars
<1>6. CASE startChecks
  <2>1. startBlocks' \in [Statements -> 0..MaxStarts]
    BY <1>6, <1>blk, BlockTypes
  <2> QED BY <1>6, <2>1 DEF startChecks, checkIAPFiles, PurchaseTypeOK, gateVars, mainVars
<1>7. CASE stopUnobserves
  <2>1. stopBlocks' \in 0..MaxStops
    BY <1>7, <1>blk, Bounds DEF stopUnobserves
  <2> QED BY <1>7, <2>1 DEF stopUnobserves, PurchaseTypeOK, gateVars, mainVars
<1>8. CASE didReceiveResponse \/ didFailWithError
  <2>1. PICK found \in BOOLEAN, gate \in BOOLEAN : Answered(found, gate)
    <3>1. goodsRequestFinished \in BOOLEAN
      BY DEF PurchaseTypeOK
    <3> QED BY <1>8, <3>1 DEF didReceiveResponse, didFailWithError
  <2>2. requests' \in 0..MaxRequests
    BY <2>1, Bounds DEF Answered, PurchaseTypeOK
  <2>3. goodsRequestFinished' \in BOOLEAN /\ offered' \in BOOLEAN
    BY <2>1, Zenon DEF Answered, PurchaseTypeOK
  <2> QED BY <2>1, <2>2, <2>3
    DEF Answered, PurchaseTypeOK, blockVars, mainVars
<1>9. CASE saveReceipt
  <2>1. handling' \in [at : {"save", "check", "complete"}, for : Transactions] \cup {Idle}
    BY <1>9 DEF saveReceipt, PurchaseTypeOK, Idle
  <2> QED BY <1>9, <2>1 DEF saveReceipt, PurchaseTypeOK, gateVars, blockVars
<1>10. CASE updatedChecks
  <2>1. handling' \in [at : {"save", "check", "complete"}, for : Transactions] \cup {Idle}
    BY <1>10 DEF updatedChecks, PurchaseTypeOK, Idle
  <2> QED BY <1>10, <2>1 DEF updatedChecks, checkIAPFiles, PurchaseTypeOK, gateVars, blockVars
<1>11. CASE completeTransaction
  <2>1. queue' \in [Transactions -> States]
    BY <1>11, <1>q, FinishTypes DEF completeTransaction
  <2> QED BY <1>11, <2>1 DEF completeTransaction, PurchaseTypeOK, blockVars
<1>12. CASE Crash
  <2>1. startBlocks' \in [Statements -> 0..MaxStarts]
    BY <1>12, Bounds DEF Crash
  <2>2. /\ goodsRequestFinished' \in BOOLEAN /\ offered' \in BOOLEAN
        /\ started' \in BOOLEAN /\ observing' \in BOOLEAN
    BY <1>12 DEF Crash
  <2>3. requests' \in 0..MaxRequests /\ stopBlocks' \in 0..MaxStops
    BY <1>12, Bounds DEF Crash
  <2>4. /\ handling' = Idle /\ receipt' \subseteq Transactions
        /\ receipts' \subseteq SUBSET Transactions /\ sent' \subseteq receipts'
        /\ queue' \in [Transactions -> States]
    BY <1>12 DEF Crash, PurchaseTypeOK
  <2> QED BY <2>1, <2>2, <2>3, <2>4 DEF PurchaseTypeOK, Idle
<1>13. ASSUME NEW t \in Transactions, payProduct(t) \/ Settles(t) PROVE PurchaseTypeOK'
  <2>1. \E s \in States : queue' = [queue EXCEPT ![t] = s]
    BY <1>13 DEF payProduct, Settles, States
  <2>2. queue' \in [Transactions -> States]
    BY <2>1, <1>q, QueueTypes
  <2> QED BY <1>13, <2>2 DEF payProduct, Settles, PurchaseTypeOK, gateVars, blockVars, mainVars
<1>14. ASSUME NEW t \in Transactions, updatedPurchased(t) PROVE PurchaseTypeOK'
  BY <1>14 DEF updatedPurchased, getReceipt, PurchaseTypeOK, gateVars, blockVars
<1>15. ASSUME NEW t \in Transactions, dropTransaction(t) PROVE PurchaseTypeOK'
  <2>1. queue' \in [Transactions -> States]
    BY <1>15, <1>q, FinishTypes DEF dropTransaction
  <2> QED BY <1>15, <2>1 DEF dropTransaction, PurchaseTypeOK, blockVars, mainVars
<1>16. CASE UNCHANGED vars
  BY <1>16 DEF vars, gateVars, blockVars, mainVars, PurchaseTypeOK
<1> QED
  BY <1>1, <1>2, <1>3, <1>4, <1>5, <1>6, <1>7, <1>8, <1>9, <1>10, <1>11, <1>12,
     <1>13, <1>14, <1>15, <1>16, StepCases

\* The types of the tool, the payment queue and the disk; what was prepared for
\* the server is on disk.
THEOREM TypeCorrect == Spec => []PurchaseTypeOK
BY InitTypes, StepTypes, PTL DEF Spec

-----------------------------------------------------------------------------

LEMMA RequestsCount == PurchaseTypeOK => requests \in Nat
BY Bounds DEF PurchaseTypeOK

LEMMA GateStep ==
  PurchaseTypeOK /\ ClosedGateHasKey /\ [Next]_vars => ClosedGateHasKey'
<1> SUFFICES ASSUME PurchaseTypeOK, ClosedGateHasKey, [Next]_vars
             PROVE  ClosedGateHasKey'
  OBVIOUS
<1>1. CASE requestProductsWithId
  <2>1. requests' > 0
    BY <1>1, RequestsCount DEF requestProductsWithId
  <2> QED BY <2>1 DEF ClosedGateHasKey
<1>2. CASE didReceiveResponse
  BY <1>2 DEF didReceiveResponse, Answered, ClosedGateHasKey
<1>3. CASE didFailWithError
  BY <1>3 DEF didFailWithError, Answered, ClosedGateHasKey
<1>4. CASE startOpensGate \/ completeTransaction \/ Crash
  BY <1>4 DEF startOpensGate, completeTransaction, Crash, ClosedGateHasKey
<1>5. ASSUME NEW t \in Transactions, dropTransaction(t) PROVE ClosedGateHasKey'
  BY <1>5 DEF dropTransaction, ClosedGateHasKey
<1>6. CASE UNCHANGED gateVars
  BY <1>6 DEF gateVars, ClosedGateHasKey
<1>7. CASE startManager \/ stopManager \/ startObserves \/ startChecks \/ stopUnobserves
           \/ saveReceipt \/ updatedChecks \/ UNCHANGED vars
  BY <1>6, <1>7 DEF startManager, stopManager, startObserves, startChecks,
     stopUnobserves, saveReceipt, updatedChecks, vars
<1>8. ASSUME NEW t \in Transactions, payProduct(t) \/ Settles(t) \/ updatedPurchased(t)
      PROVE  ClosedGateHasKey'
  BY <1>6, <1>8 DEF payProduct, Settles, updatedPurchased
<1> QED
  BY <1>1, <1>2, <1>3, <1>4, <1>5, <1>7, <1>8, StepCases

\* A closed gate is never closed for good: a request under way, or products that
\* can be paid for, can still open it.
THEOREM GateCorrect == Spec => []ClosedGateHasKey
<1>1. Init => ClosedGateHasKey
  BY DEF Init, ClosedGateHasKey
<1> QED
  BY <1>1, TypeCorrect, GateStep, PTL DEF Spec

-----------------------------------------------------------------------------

\* What the handler of a purchase relies on between its steps: its transaction
\* stays unfinished, its receipt stands for it, and once saved is on disk.  A
\* receipt only stands for transactions that were paid.
Paid(t) == queue[t] \in {"purchased", "delivered"}
HandlerInv ==
  /\ handling # Idle =>
       handling.for \in Transactions /\ queue[handling.for] = "purchased"
  /\ handling.at = "save" => handling.for \in receipt
  /\ handling.at \in {"check", "complete"} => handling.for \in UNION receipts
  /\ \A t \in receipt : Paid(t)

LEMMA IdleAt == Idle.at = "idle" /\ Idle.for = NoOne
BY DEF Idle

LEMMA InitHandler == Init => HandlerInv
BY IdleAt DEF Init, HandlerInv

LEMMA HandlerStep ==
  PurchaseTypeOK /\ HandlerInv /\ [Next]_vars => HandlerInv'
<1> SUFFICES ASSUME PurchaseTypeOK, HandlerInv, [Next]_vars PROVE HandlerInv'
  OBVIOUS
<1>q. queue \in [Transactions -> States] /\ receipt \subseteq Transactions
  BY DEF PurchaseTypeOK
<1>0. CASE UNCHANGED <<handling, receipt, queue, receipts>>
  BY <1>0 DEF HandlerInv, Paid
<1>1. CASE startManager \/ stopManager \/ requestProductsWithId \/ startOpensGate
           \/ startObserves \/ startChecks \/ stopUnobserves \/ UNCHANGED vars
  BY <1>0, <1>1 DEF startManager, stopManager, requestProductsWithId, startOpensGate,
     startObserves, startChecks, stopUnobserves, vars, mainVars
<1>2. CASE didReceiveResponse \/ didFailWithError
  BY <1>0, <1>2 DEF didReceiveResponse, didFailWithError, Answered, mainVars
<1>3. CASE saveReceipt
  BY <1>3, <1>q, IdleAt DEF saveReceipt, HandlerInv, Paid, PurchaseTypeOK
<1>4. CASE updatedChecks
  BY <1>4, <1>q, IdleAt DEF updatedChecks, HandlerInv, Paid, PurchaseTypeOK
<1>5. CASE completeTransaction
  <2>1. queue' = [queue EXCEPT ![handling.for] =
                    IF queue[handling.for] = "purchased" THEN "delivered" ELSE "dropped"]
    BY <1>5, <1>q, Finished DEF completeTransaction
  <2>2. queue[handling.for] = "purchased"
    BY <1>5, IdleAt DEF completeTransaction, HandlerInv
  <2>3. \A t \in receipt' : Paid(t)'
    BY <1>5, <1>q, <2>1, <2>2 DEF completeTransaction, HandlerInv, Paid
  <2> QED
    BY <1>5, <2>3, IdleAt DEF completeTransaction, HandlerInv
<1>6. CASE Crash
  BY <1>6, IdleAt DEF Crash, HandlerInv
<1>7. ASSUME NEW t \in Transactions, payProduct(t) \/ Settles(t) PROVE HandlerInv'
  <2>1. /\ queue[t] \in {"none", "purchasing"}
        /\ \E s \in States : queue' = [queue EXCEPT ![t] = s]
        /\ UNCHANGED <<handling, receipt, receipts>>
    BY <1>7 DEF payProduct, Settles, States, mainVars
  <2>2. \A u \in Transactions : u # t => queue'[u] = queue[u]
    BY <2>1, <1>q
  <2> QED
    BY <2>1, <2>2, <1>q DEF HandlerInv, Paid
<1>8. ASSUME NEW t \in Transactions, updatedPurchased(t) PROVE HandlerInv'
  BY <1>8 DEF updatedPurchased, getReceipt, HandlerInv, Paid
<1>9. ASSUME NEW t \in Transactions, dropTransaction(t) PROVE HandlerInv'
  <2>1. /\ handling = Idle /\ queue[t] \in {"failed", "restored"}
        /\ UNCHANGED <<handling, receipt, receipts>>
    BY <1>9 DEF dropTransaction, MainIsFree, mainVars
  <2>2. \A u \in Transactions : u # t => queue'[u] = queue[u]
    BY <1>9, <1>q, Finished DEF dropTransaction
  <2> QED
    BY <2>1, <2>2, <1>q, IdleAt DEF HandlerInv, Paid
<1> QED
  BY <1>1, <1>2, <1>3, <1>4, <1>5, <1>6, <1>7, <1>8, <1>9, StepCases

THEOREM HandlerCorrect == Spec => []HandlerInv
BY InitHandler, TypeCorrect, HandlerStep, PTL DEF Spec

-----------------------------------------------------------------------------
(* The tool implements PaymentDelivery.                                    *)

PaidOnes == {t \in Transactions : queue[t] \in {"purchased", "delivered"}}
Closed == {t \in Transactions : queue[t] = "delivered"}

LEMMA InitDelivers == Init => Delivery!Init
<1> SUFFICES ASSUME Init PROVE Delivery!Init
  OBVIOUS
<1>1. \A t \in Transactions : queue[t] = "none"
  BY DEF Init
<1>2. UNION receipts = {}
  BY DEF Init
<1> QED
  BY <1>1, <1>2 DEF Delivery!Init

\* A step that changes neither the queue nor the disk is none of the abstract one.
LEMMA Stutter ==
  ASSUME UNCHANGED <<queue, receipts>>
  PROVE  UNCHANGED Delivery!deliveryVars
BY DEF Delivery!deliveryVars

LEMMA DeliveryStep ==
  PurchaseTypeOK /\ HandlerInv /\ [Next]_vars => [Delivery!Next]_(Delivery!deliveryVars)
<1> SUFFICES ASSUME PurchaseTypeOK, HandlerInv, [Next]_vars
             PROVE  [Delivery!Next]_(Delivery!deliveryVars)
  OBVIOUS
<1>q. queue \in [Transactions -> States] /\ receipt \subseteq Transactions
  BY DEF PurchaseTypeOK
<1>0. CASE UNCHANGED <<queue, receipts>>
  BY <1>0, Stutter
<1>1. CASE \/ startManager \/ stopManager \/ requestProductsWithId \/ startOpensGate
           \/ startObserves \/ startChecks \/ stopUnobserves \/ updatedChecks
           \/ Crash \/ UNCHANGED vars
  BY <1>0, <1>1 DEF startManager, stopManager, requestProductsWithId, startOpensGate,
     startObserves, startChecks, stopUnobserves, updatedChecks, Crash, vars
<1>2. CASE didReceiveResponse \/ didFailWithError
  BY <1>0, <1>2 DEF didReceiveResponse, didFailWithError, Answered
<1>3. CASE saveReceipt
  <2>1. UNION receipts' = (UNION receipts) \cup receipt
    BY <1>3 DEF saveReceipt
  <2>2. receipt \subseteq PaidOnes
    BY <1>q DEF HandlerInv, Paid, PaidOnes
  <2>3. PaidOnes' = PaidOnes /\ Closed' = Closed
    BY <1>3 DEF saveReceipt, PaidOnes, Closed
  <2>4. Delivery!Keep(receipt)
    BY <2>1, <2>2, <2>3 DEF Delivery!Keep, PaidOnes, Closed
  <2> QED
    BY <2>4, <1>q DEF Delivery!Next
<1>4. CASE completeTransaction
  <2>1. PICK t \in Transactions :
          t = handling.for /\ queue[t] = "purchased" /\ t \in UNION receipts
    BY <1>4, IdleAt DEF completeTransaction, HandlerInv
  <2>2. queue' = [queue EXCEPT ![t] =
                    IF queue[t] = "purchased" THEN "delivered" ELSE "dropped"]
    BY <1>4, <1>q, <2>1, Finished DEF completeTransaction
  <2>3. queue'[t] = "delivered" /\ \A u \in Transactions : u # t => queue'[u] = queue[u]
    BY <2>1, <2>2, <1>q
  <2>4. PaidOnes' = PaidOnes /\ Closed' = Closed \cup {t}
    BY <2>1, <2>3 DEF PaidOnes, Closed
  <2>5. UNCHANGED receipts
    BY <1>4 DEF completeTransaction
  <2>6. Delivery!Close(t)
    BY <2>1, <2>4, <2>5 DEF Delivery!Close, PaidOnes, Closed
  <2> QED
    BY <2>6 DEF Delivery!Next
<1>5. ASSUME NEW t \in Transactions, payProduct(t)
      PROVE  [Delivery!Next]_(Delivery!deliveryVars)
  <2>1. /\ queue[t] = "none" /\ queue'[t] = "purchasing"
        /\ \A u \in Transactions : u # t => queue'[u] = queue[u]
        /\ UNCHANGED receipts
    BY <1>5, <1>q DEF payProduct
  <2>2. PaidOnes' = PaidOnes /\ Closed' = Closed
    BY <2>1 DEF PaidOnes, Closed
  <2> QED
    BY <2>1, <2>2 DEF Delivery!deliveryVars, PaidOnes, Closed
<1>6. ASSUME NEW t \in Transactions, Settles(t)
      PROVE  [Delivery!Next]_(Delivery!deliveryVars)
  <2>1. /\ queue[t] = "purchasing" /\ queue'[t] \in {"purchased", "failed", "restored"}
        /\ \A u \in Transactions : u # t => queue'[u] = queue[u]
        /\ UNCHANGED receipts
    BY <1>6, <1>q DEF Settles
  <2>2. Closed' = Closed
    BY <2>1 DEF Closed
  <2>3. CASE queue'[t] = "purchased"
    <3>1. PaidOnes' = PaidOnes \cup {t}
      BY <2>1, <2>3 DEF PaidOnes
    <3>2. Delivery!Pay(t)
      BY <2>1, <2>2, <3>1 DEF Delivery!Pay, PaidOnes, Closed
    <3> QED
      BY <3>2 DEF Delivery!Next
  <2>4. CASE queue'[t] # "purchased"
    <3>1. PaidOnes' = PaidOnes
      BY <2>1, <2>4 DEF PaidOnes
    <3> QED
      BY <2>1, <2>2, <3>1 DEF Delivery!deliveryVars, PaidOnes, Closed
  <2> QED
    BY <2>3, <2>4
<1>7. ASSUME NEW t \in Transactions, updatedPurchased(t)
      PROVE  [Delivery!Next]_(Delivery!deliveryVars)
  BY <1>0, <1>7 DEF updatedPurchased
<1>8. ASSUME NEW t \in Transactions, dropTransaction(t)
      PROVE  [Delivery!Next]_(Delivery!deliveryVars)
  <2>1. /\ queue[t] \in {"failed", "restored"} /\ queue'[t] = "dropped"
        /\ \A u \in Transactions : u # t => queue'[u] = queue[u]
        /\ UNCHANGED receipts
    BY <1>8, <1>q, Finished DEF dropTransaction
  <2>2. PaidOnes' = PaidOnes /\ Closed' = Closed
    BY <2>1 DEF PaidOnes, Closed
  <2> QED
    BY <2>1, <2>2 DEF Delivery!deliveryVars, PaidOnes, Closed
<1> QED
  BY <1>1, <1>2, <1>3, <1>4, <1>5, <1>6, <1>7, <1>8, StepCases

\* Whatever is started, stopped or dies, and when: a paid transaction leaves the
\* payment queue only after its receipt is on disk, and no receipt is lost.
THEOREM DeliveryImplemented == Spec => ImplementsDelivery
BY InitDelivers, TypeCorrect, HandlerCorrect, DeliveryStep, PTL
   DEF Spec, ImplementsDelivery, Delivery!Spec

\* What PaymentDelivery promises in every state, said of the tool's own.
ClosedIsKept == Closed \subseteq UNION receipts
KeptWasPaid == UNION receipts \subseteq PaidOnes

\* A purchased transaction that is off the payment queue has its receipt on disk,
\* and no receipt on disk stands for a transaction that was not charged
\* (saveReceipt, completeTransaction:): what every implementation of
\* PaymentDelivery has.
THEOREM DeliveredCorrect == Spec => [](ClosedIsKept /\ KeptWasPaid)
<1> DEFINE I == ClosedIsKept /\ KeptWasPaid
<1>1. Delivery!Init => I
  BY DEF Delivery!Init, ClosedIsKept, KeptWasPaid, Closed
<1>2. I /\ [Delivery!Next]_(Delivery!deliveryVars) => I'
  <2> SUFFICES ASSUME I, [Delivery!Next]_(Delivery!deliveryVars) PROVE I'
    OBVIOUS
  <2> USE DEF ClosedIsKept, KeptWasPaid
  <2>1. ASSUME NEW t \in Transactions, Delivery!Pay(t) PROVE I'
    BY <2>1 DEF Delivery!Pay, Closed, PaidOnes
  <2>2. ASSUME NEW t \in Transactions, Delivery!Close(t) PROVE I'
    BY <2>2 DEF Delivery!Close, Closed, PaidOnes
  <2>3. ASSUME NEW T \in SUBSET Transactions, Delivery!Keep(T) PROVE I'
    BY <2>3 DEF Delivery!Keep, Closed, PaidOnes
  <2>4. CASE UNCHANGED Delivery!deliveryVars
    BY <2>4 DEF Delivery!deliveryVars, Closed, PaidOnes
  <2> QED
    BY <2>1, <2>2, <2>3, <2>4 DEF Delivery!Next
<1> HIDE DEF I
<1>3. Spec => []I
  BY <1>1, <1>2, DeliveryImplemented, PTL DEF ImplementsDelivery, Delivery!Spec
<1> QED
  BY <1>3 DEF I

=============================================================================
