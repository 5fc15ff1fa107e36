------------------------- MODULE DownLoadController -------------------------
(***************************************************************************)
(* HGBDownLoadController, the screen "下载管理", on top of the tool: every *)
(* time the view appears it walks through the tasks and starts the ones    *)
(* that were cancelled. The loop runs on the main thread; the blocks its   *)
(* starts submit do not wait for it. The table's buttons are not modelled: *)
(* HGBDownLoadTableCell gives them no target.                              *)
(***************************************************************************)
EXTENDS DownLoadTool

VARIABLES
  todo,      \* tasks monitorDataChange has still to start
  pausing,   \* the task it has started and is about to suspend, or Nil
  paused     \* history: tasks it suspended and nobody touched since

ctlVars == <<todo, pausing, paused>>
allVars == <<vars, ctlVars>>

ASSUME ControllerAssumption == Nil \notin Tasks

CtlTypeOK ==
  /\ todo \in SUBSET Tasks
  /\ pausing \in Tasks \cup {Nil}
  /\ paused \in SUBSET Tasks

Looping == todo # {} \/ pausing # Nil

CtlInit ==
  /\ Init
  /\ todo = {}
  /\ pausing = Nil
  /\ paused = {}

\* Which tasks the loop starts: a running, suspended, completed or failed one
\* is left alone.
ValuesToStart == {status[t] : t \in taskModels}
OnlyCancelled == {t \in taskModels : status[t] = "Cancel"}
ToStart == {t \in taskModels : status[t] \in {"Cancel", "UnExpectedCancel"}}

FreeXfers == {k \in Xfers : xfer[k].block = "none"}

\* viewDidAppear; enough transfers must be left (the bound of Xfers).
viewDidAppear ==
  /\ Idle
  /\ ~Looping
  /\ Cardinality(ToStart) <= Cardinality(FreeXfers)
  /\ todo' = ToStart
  /\ UNCHANGED <<vars, pausing, paused>>

\* One turn of monitorDataChange: start, and for UnExpectedCancel suspend next.
MonitorStart(t) ==
  /\ t \in todo
  /\ pausing = Nil
  /\ \E k \in FreeXfers : start(t, k)
  /\ todo' = todo \ {t}
  /\ pausing' = IF status[t] = "UnExpectedCancel" THEN t ELSE Nil
  /\ paused' = paused \ {t}

\* suspendDownLoad, without effect while the start block has not run.
MonitorSuspendsObject ==
  /\ pausing # Nil
  /\ IF Reachable({pausing}) = {}
       THEN UNCHANGED vars
       ELSE /\ net' = [net EXCEPT ![downLoadTask[pausing]] = Suspended(@)]
            /\ status' = [status EXCEPT ![pausing] = "Suspended"]
            /\ UNCHANGED <<data, session, downLoadTask, taskModels, plist,
                           downLoadTaskModels, files, xfer, written, cancels,
                           finishing, bgVars>>
  /\ pausing' = Nil
  /\ paused' = paused \cup {pausing}
  /\ UNCHANGED todo
MonitorSuspend ==
  /\ pausing # Nil
  /\ IF Reachable({pausing}) = {} THEN UNCHANGED vars
                                  ELSE suspendAll({pausing})
  /\ pausing' = Nil
  /\ paused' = paused \cup {pausing}
  /\ UNCHANGED todo

\* The rest of the application: it uses the tool as a careful caller and
\* registers a task by starting it.
AppCall(t) ==
  /\ \/ \E k \in Xfers : startDownLoad(t, k)
     \/ cancelDownLoad(t)
     \/ suspendDownLoad(t)
     \/ resumeDownLoad(t)
     \/ deleteDownLoadTask(t)
  /\ paused' = paused \ {t}
  /\ UNCHANGED <<todo, pausing>>

Relaunch ==
  /\ Crash \/ (~Looping /\ appTerminate)
  /\ todo' = {}
  /\ pausing' = Nil
  /\ paused' = {}

CtlNext ==
  \/ viewDidAppear
  \/ \E t \in Tasks : MonitorStart(t)
  \/ MonitorSuspend
  \/ ~Looping /\ \E t \in Tasks : AppCall(t)
  \/ ~Looping /\ UNCHANGED ctlVars /\
       (MoveFile \/ \E k \in Xfers : Callback(k))
  \/ UNCHANGED ctlVars /\ \E k \in Xfers : Block(k) \/ NetProgress(k) \/ NetEnds(k)
  \/ Relaunch

CtlSpec == CtlInit /\ [][CtlNext]_allVars

-----------------------------------------------------------------------------
(* Properties. ImplementsRegistry is checked of CtlSpec too: the screen's  *)
(* loop, and a process that dies within it, leave the registry durable.    *)

\* When the loop is over, every task that shows 下载取消 or 意外取消 has a
\* transfer on its way, whatever blocks and network did during the loop.
AppearRestartsCancelled ==
  [][~Looping' /\ (MonitorSuspend \/ \E t \in Tasks : MonitorStart(t))
     => \A t \in taskModels' :
          status'[t] \in {"Cancel", "UnExpectedCancel"}
            => LiveXfers(t)' # {}]_allVars

\* A download the screen restarts only to leave it paused does not run.
PausedStays ==
  \A t \in paused, k \in Xfers : xfer[k].task = t => net[k] # "running"
=============================================================================
