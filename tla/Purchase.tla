------------------------------ MODULE Purchase ------------------------------
(***************************************************************************)
(* HGBPurchaseTool: an observer of the payment queue that keeps the        *)
(* receipt of every purchase on disk before it finishes the transaction,   *)
(* and a gate that lets one request for products out at a time.            *)
(*                                                                         *)
(* Calls of the program and the callbacks of StoreKit run on the main      *)
(* thread, one at a time.  The blocks of startManager and stopManager run  *)
(* on two concurrent queues, between any two of their own steps and of     *)
(* those of the main thread.  The process may die between any two steps;   *)
(* the payment queue and the receipts outlive it.                          *)
(***************************************************************************)
EXTENDS Integers

CONSTANTS
  Transactions,  \* transactions of the payment queue
  NoOne,         \* no transaction
  MaxRequests,   \* bound: requests for products under way at once
  MaxStarts,     \* bound: blocks of startManager waiting at one point
  MaxStops       \* bound: blocks of stopManager waiting

ASSUME PurchaseAssumption ==
  /\ NoOne \notin Transactions
  /\ MaxRequests \in Nat \ {0}
  /\ MaxStarts \in Nat \ {0}
  /\ MaxStops \in Nat \ {0}

VARIABLES
  goodsRequestFinished,  \* the gate
  requests,    \* requests for products under way
  offered,     \* history: products came since the gate was last closed
  started,     \* history: a block of startManager has opened the gate
  startBlocks, \* blocks of startManager, by the statement they are at
  stopBlocks,  \* blocks of stopManager not yet run
  handling,    \* what the main thread does of updatedTransactions, and for whom
  receipt,     \* self.receipt: the transactions the receipt stands for
  sent,        \* receipts this process has prepared for the server
  observing,   \* the tool is an observer of the payment queue
  queue,       \* the payment queue: the state of each transaction
  receipts     \* the receipts on disk

gateVars == <<goodsRequestFinished, requests, offered, started>>
blockVars == <<startBlocks, stopBlocks, observing>>
mainVars == <<handling, receipt>>
vars == <<gateVars, blockVars, mainVars, sent, queue, receipts>>

Statements == {"gate", "observe", "check"}
States == {"none", "purchasing", "purchased", "failed", "restored",
           "delivered", "dropped"}
Idle == [at |-> "idle", for |-> NoOne]

\* Two files with the same receipt are one element of receipts.
PurchaseTypeOK ==
  /\ goodsRequestFinished \in BOOLEAN /\ offered \in BOOLEAN
  /\ started \in BOOLEAN /\ observing \in BOOLEAN
  /\ requests \in 0..MaxRequests
  /\ startBlocks \in [Statements -> 0..MaxStarts]
  /\ stopBlocks \in 0..MaxStops
  /\ handling \in [at : {"save", "check", "complete"}, for : Transactions] \cup {Idle}
  /\ receipt \subseteq Transactions
  /\ queue \in [Transactions -> States]
  /\ receipts \subseteq SUBSET Transactions
  /\ sent \subseteq receipts

-----------------------------------------------------------------------------
(* Starting and stopping.                                                  *)

Init ==
  /\ goodsRequestFinished = FALSE /\ requests = 0
  /\ offered = FALSE /\ started = FALSE
  \* The application starts the tool when it has launched.
  /\ startBlocks = [s \in Statements |-> IF s = "gate" THEN 1 ELSE 0]
  /\ stopBlocks = 0 /\ observing = FALSE
  /\ handling = Idle /\ receipt = {} /\ sent = {}
  /\ queue = [t \in Transactions |-> "none"]
  /\ receipts = {}

startManager ==
  /\ startBlocks["gate"] < MaxStarts
  /\ startBlocks' = [startBlocks EXCEPT !["gate"] = @ + 1]
  /\ UNCHANGED <<gateVars, stopBlocks, observing, mainVars, sent, queue, receipts>>

\* A block of startManager moves on to its next statement.
Advance(from, to) ==
  /\ startBlocks[from] > 0
  /\ startBlocks[to] < MaxStarts
  /\ startBlocks' = [startBlocks EXCEPT ![from] = @ - 1, ![to] = @ + 1]

startOpensGate ==
  /\ Advance("gate", "observe")
  /\ goodsRequestFinished' = TRUE
  /\ started' = TRUE
  /\ UNCHANGED <<requests, offered, stopBlocks, observing, mainVars, sent, queue,
                 receipts>>

startObserves ==
  /\ Advance("observe", "check")
  /\ observing' = TRUE
  /\ UNCHANGED <<gateVars, stopBlocks, mainVars, sent, queue, receipts>>

\* checkIAPFiles and sendAppStoreRequestBuyPlist: the parameters of the request
\* are made from every receipt; what sends them is not compiled.
checkIAPFiles == sent' = receipts

\* (Here and below, a definition placed before another one with the same
\* parameters is a mutant of it: the bug a property of the run must catch.)
startChecksNothing ==
  /\ startBlocks["check"] > 0
  /\ startBlocks' = [startBlocks EXCEPT !["check"] = @ - 1]
  /\ UNCHANGED <<gateVars, stopBlocks, observing, mainVars, sent, queue, receipts>>
startChecks ==
  /\ startBlocks["check"] > 0
  /\ startBlocks' = [startBlocks EXCEPT !["check"] = @ - 1]
  /\ checkIAPFiles
  /\ UNCHANGED <<gateVars, stopBlocks, observing, mainVars, queue, receipts>>

stopManager ==
  /\ stopBlocks < MaxStops
  /\ stopBlocks' = stopBlocks + 1
  /\ UNCHANGED <<gateVars, startBlocks, observing, mainVars, sent, queue, receipts>>

stopUnobserves ==
  /\ stopBlocks > 0
  /\ stopBlocks' = stopBlocks - 1
  /\ observing' = FALSE
  /\ UNCHANGED <<gateVars, startBlocks, mainVars, sent, queue, receipts>>

-----------------------------------------------------------------------------
(* Asking for products and paying for one.                                 *)

MainIsFree == handling = Idle

\* A request with no right to pay or no product only reports an error, and one
\* that finds the gate closed does nothing.
requestProductsWithId ==
  /\ MainIsFree
  /\ goodsRequestFinished
  /\ requests < MaxRequests
  /\ goodsRequestFinished' = FALSE
  /\ requests' = requests + 1
  /\ offered' = FALSE
  /\ UNCHANGED <<started, blockVars, mainVars, sent, queue, receipts>>

AnsweredTwice(found, gate) ==
  /\ MainIsFree
  /\ requests' = requests - 1
  /\ offered' = (offered \/ found)
  /\ goodsRequestFinished' = gate
  /\ UNCHANGED <<started, blockVars, mainVars, sent, queue, receipts>>
Answered(found, gate) ==
  /\ MainIsFree
  /\ requests > 0
  /\ requests' = requests - 1
  /\ offered' = (offered \/ found)
  /\ goodsRequestFinished' = gate
  /\ UNCHANGED <<started, blockVars, mainVars, sent, queue, receipts>>

\* Products leave the gate as it is: a payment is to open it.
didReceiveResponse ==
  \/ Answered(TRUE, goodsRequestFinished)
  \/ Answered(FALSE, TRUE)

didFailSilently == Answered(FALSE, goodsRequestFinished)
didFailWithError == Answered(FALSE, TRUE)

payProduct(t) ==
  /\ MainIsFree
  /\ queue[t] = "none"
  /\ queue' = [queue EXCEPT ![t] = "purchasing"]
  /\ UNCHANGED <<gateVars, blockVars, mainVars, sent, receipts>>

\* StoreKit charges the user, is refused, or finds the product bought before.
Settles(t) ==
  /\ queue[t] = "purchasing"
  /\ \E s \in {"purchased", "failed", "restored"} :
       queue' = [queue EXCEPT ![t] = s]
  /\ UNCHANGED <<gateVars, blockVars, mainVars, sent, receipts>>

-----------------------------------------------------------------------------
(* updatedTransactions, one transaction at a time.                         *)

finishTransaction(t) ==
  queue' = [queue EXCEPT ![t] = IF @ = "purchased" THEN "delivered" ELSE "dropped"]

\* getReceipt: the receipt of the application stands for the purchases that are
\* not finished.
getReceipt == {t \in Transactions : queue[t] = "purchased"}

updatedPurchased(t) ==
  /\ observing /\ MainIsFree
  /\ queue[t] = "purchased"
  /\ receipt' = getReceipt
  /\ handling' = [at |-> "save", for |-> t]
  /\ UNCHANGED <<gateVars, blockVars, sent, queue, receipts>>

updatedChecks ==
  /\ handling.at = "check"
  /\ checkIAPFiles
  /\ handling' = [handling EXCEPT !.at = "complete"]
  /\ UNCHANGED <<gateVars, blockVars, receipt, queue, receipts>>

completeUnfinished ==
  /\ handling.at = "complete"
  /\ goodsRequestFinished' = TRUE
  /\ handling' = Idle
  /\ UNCHANGED <<requests, offered, started, blockVars, receipt, sent, queue, receipts>>
completeTransaction ==
  /\ handling.at = "complete"
  /\ goodsRequestFinished' = TRUE
  /\ finishTransaction(handling.for)
  /\ handling' = Idle
  /\ UNCHANGED <<requests, offered, started, blockVars, receipt, sent, receipts>>

saveAfterwards ==
  /\ handling.at = "save"
  /\ finishTransaction(handling.for)
  /\ handling' = [handling EXCEPT !.at = "check"]
  /\ UNCHANGED <<gateVars, blockVars, receipt, sent, receipts>>
saveReceipt ==
  /\ handling.at = "save"
  /\ receipts' = receipts \cup {receipt}
  /\ handling' = [handling EXCEPT !.at = "check"]
  /\ UNCHANGED <<gateVars, blockVars, receipt, sent, queue>>

\* failedTransaction and restoreTransaction.
dropTransaction(t) ==
  /\ observing /\ MainIsFree
  /\ queue[t] \in {"failed", "restored"}
  /\ finishTransaction(t)
  /\ goodsRequestFinished' = TRUE
  /\ UNCHANGED <<requests, offered, started, blockVars, mainVars, sent, receipts>>

-----------------------------------------------------------------------------

\* The process dies and the application is launched again.
Crash ==
  /\ goodsRequestFinished' = FALSE /\ requests' = 0
  /\ offered' = FALSE /\ started' = FALSE
  /\ startBlocks' = [s \in Statements |-> IF s = "gate" THEN 1 ELSE 0]
  /\ stopBlocks' = 0 /\ observing' = FALSE
  /\ handling' = Idle /\ receipt' = {} /\ sent' = {}
  /\ UNCHANGED <<queue, receipts>>

Blocks == startOpensGate \/ startObserves \/ startChecks \/ stopUnobserves
Handler == saveReceipt \/ updatedChecks \/ completeTransaction
Program ==
  \/ startManager \/ stopManager \/ requestProductsWithId
  \/ \E t \in Transactions : payProduct(t)
StoreKit ==
  \/ didReceiveResponse \/ didFailWithError
  \/ \E t \in Transactions : Settles(t) \/ updatedPurchased(t) \/ dropTransaction(t)

Next == Program \/ Blocks \/ StoreKit \/ Handler \/ Crash

Spec == Init /\ [][Next]_vars

\* The queues run their blocks, a handler that runs goes on, and StoreKit tells
\* an observer of every transaction that is settled.
FairSpec ==
  /\ Spec
  /\ WF_vars(startOpensGate) /\ WF_vars(startObserves) /\ WF_vars(startChecks)
  /\ WF_vars(stopUnobserves)
  /\ WF_vars(Handler)
  /\ \A t \in Transactions : SF_vars(updatedPurchased(t) \/ dropTransaction(t))

-----------------------------------------------------------------------------
(* Properties.                                                             *)

\* Once the tool has started, a closed gate can be opened again: a request is
\* under way whose failure opens it, or products came that can be paid for.
\* Otherwise every later request would be told to wait for ever (line 146).
ClosedGateHasKey ==
  started /\ ~goodsRequestFinished => requests > 0 \/ offered

\* A paid transaction is finished only when a receipt that stands for it is on
\* disk, and no receipt is lost, wherever the process dies ("阶段一", "阶段二",
\* lines 81-90).
Delivery == INSTANCE PaymentDelivery WITH
  paid <- {t \in Transactions : queue[t] \in {"purchased", "delivered"}},
  kept <- UNION receipts,
  closed <- {t \in Transactions : queue[t] = "delivered"}

ImplementsDelivery == Delivery!Spec

\* A transaction that is settled is taken off the queue when the tool stays an
\* observer, also when it was settled under another process.
SettledIsConcluded ==
  <>[]observing =>
    \A t \in Transactions :
      queue[t] \in {"purchased", "failed", "restored"}
        ~> queue[t] \in {"delivered", "dropped"}

\* A receipt on disk is prepared for the server by the process that saved it or,
\* when that one dies, by the one that stays.
KeptIsSent ==
  <>[][~Crash]_vars =>
    \A R \in SUBSET Transactions : R \in receipts ~> R \in sent

=============================================================================
