---------------------- MODULE DownLoadController_proofs ----------------------
(***************************************************************************)
(* Theorems about DownLoadController, for any sets of tasks and transfers: *)
(* the types, that the screen is a caller of the manager like any other,   *)
(* so that the registry stays durable under it, and what the loop of       *)
(* monitorDataChange achieves although blocks and network go on beside it. *)
(***************************************************************************)
EXTENDS DownLoadController, DownLoadRegistry_proofs

Cancelled == {"Cancel", "UnExpectedCancel"}

\* What the loop has still to start is registered, and a cancelled task it has
\* not to start any more has a transfer on its way.
LoopInv ==
  Looping =>
    /\ todo \subseteq taskModels
    /\ \A t \in taskModels :
         status[t] \in Cancelled => t \in todo \/ LiveXfers(t) # {}

CtlInv == TypeInv /\ CtlTypeOK /\ LoopInv

-----------------------------------------------------------------------------
(* Types.                                                                  *)

\* Seen from the manager, a step of the composition is a step of its own, a start
\* that no caller asked for, or a suspend.
LEMMA CtlStepIsToolStep ==
  ASSUME CtlTypeOK, [CtlNext]_allVars
  PROVE  \/ [Next]_vars
         \/ \E t \in Tasks, k \in Xfers : start(t, k)
         \/ \E t \in Tasks : suspendAll({t})
<1>1. CASE viewDidAppear \/ UNCHANGED allVars
  BY <1>1 DEF viewDidAppear, allVars
<1>2. ASSUME NEW t \in Tasks, MonitorStart(t)
      PROVE  \E k \in Xfers : start(t, k)
  BY <1>2 DEF MonitorStart, FreeXfers
<1>3. CASE MonitorSuspend
  BY <1>3 DEF MonitorSuspend, CtlTypeOK
<1>4. ASSUME NEW t \in Tasks, AppCall(t)
      PROVE  Api(t)
  BY <1>4 DEF AppCall, Api
<1>5. CASE Relaunch
  BY <1>5 DEF Relaunch, Next
<1>6. CASE MoveFile \/ \E k \in Xfers : Callback(k) \/ Block(k) \/ NetProgress(k) \/ NetEnds(k)
  BY <1>6 DEF Next
<1>7. QED
  BY <1>1, <1>2, <1>3, <1>4, <1>5, <1>6 DEF CtlNext, Next

LEMMA CtlToolTypes ==
  ASSUME TypeInv, CtlTypeOK, [CtlNext]_allVars
  PROVE  TypeInv'
<1>1. CASE [Next]_vars
  BY <1>1, TypesStep, BackgroundStep DEF TypeInv
<1>2. ASSUME UNCHANGED bgVars
      PROVE  BgInv'
  BY <1>2 DEF TypeInv, BgInv, BgTypeOK, HeldIsKnown, ActiveHoldsNone, Held, bgVars
<1>3. ASSUME NEW t \in Tasks, NEW k \in Xfers, start(t, k)
      PROVE  TypeInv'
  BY <1>2, <1>3, StartTypes DEF TypeInv, start
<1>4. ASSUME NEW t \in Tasks, suspendAll({t})
      PROVE  TypeInv'
  BY <1>2, <1>4, SuspendTypes DEF TypeInv, suspendAll
<1>5. QED
  BY <1>1, <1>3, <1>4, CtlStepIsToolStep

LEMMA CtlTypes ==
  ASSUME TypeInv, CtlTypeOK, [CtlNext]_allVars
  PROVE  CtlTypeOK'
<1>1. taskModels \subseteq Tasks
  BY DEF TypeInv, ToolTypeOK
<1>2. CASE viewDidAppear
  BY <1>1, <1>2 DEF CtlTypeOK, viewDidAppear, ToStart
<1>3. ASSUME NEW t \in Tasks, MonitorStart(t)
      PROVE  CtlTypeOK'
  BY <1>3 DEF CtlTypeOK, MonitorStart
<1>4. CASE MonitorSuspend
  BY <1>4 DEF CtlTypeOK, MonitorSuspend
<1>5. ASSUME NEW t \in Tasks, AppCall(t)
      PROVE  CtlTypeOK'
  BY <1>5 DEF CtlTypeOK, AppCall
<1>6. CASE Relaunch
  BY <1>6 DEF CtlTypeOK, Relaunch
<1>7. CASE UNCHANGED ctlVars
  BY <1>7 DEF CtlTypeOK, ctlVars
<1>8. QED
  BY <1>2, <1>3, <1>4, <1>5, <1>6, <1>7 DEF CtlNext, allVars

-----------------------------------------------------------------------------
(* The screen as a caller.                                                 *)

\* The manager with no care asked of its callers, and the theorems about it.
Manager == INSTANCE DownLoadRegistry_proofs WITH Caller <- "any"

LEMMA ManagerAssumptions ==
  Manager!BackgroundAssumption /\ Manager!ToolAssumption /\ Manager!NilAssumption
BY BackgroundAssumption, ToolAssumption, NilAssumption
   DEF Manager!BackgroundAssumption, Manager!ToolAssumption,
       Manager!NilAssumption, Manager!Entry, Manager!State, Entry, State

LEMMA ManagerStutters == UNCHANGED vars <=> UNCHANGED Manager!vars
BY DEF Manager!vars, Manager!toolVars, Manager!taskVars, Manager!xferVars,
       Manager!bgVars, vars, toolVars, taskVars, xferVars, bgVars

LEMMA ManagerInit == Init => Manager!Init
BY DEF Init, BgInit, FreshXfers, Manager!Init, Manager!BgInit, Manager!FreshXfers

\* The calls: the manager asked for no care refuses none of them.
LEMMA ManagerStart ==
  ASSUME NEW t \in Tasks, NEW k \in Xfers, start(t, k)
  PROVE  Manager!startDownLoad(t, k)
BY DEF start, Idle, changeDownLoadTasks, Write, Saved, Marked, bgVars,
       Manager!startDownLoad, Manager!StartAllowed, Manager!start, Manager!Idle,
       Manager!changeDownLoadTasks, Manager!Write, Manager!Saved, Manager!Marked,
       Manager!bgVars

LEMMA ManagerCancel ==
  ASSUME NEW S \in SUBSET Tasks, cancelAll(S)
  PROVE  Manager!cancelAll(S)
BY DEF cancelAll, Idle, Current, Reachable, taskVars, bgVars, Manager!cancelAll,
       Manager!Idle, Manager!Current, Manager!Reachable, Manager!taskVars,
       Manager!bgVars

LEMMA ManagerSuspend ==
  ASSUME NEW S \in SUBSET Tasks, suspendAll(S)
  PROVE  Manager!suspendAll(S)
BY DEF suspendAll, Idle, Current, Reachable, Suspended, changeDownLoadTasks, Write,
       Saved, bgVars, Manager!suspendAll, Manager!Idle, Manager!Current,
       Manager!Reachable, Manager!Suspended, Manager!changeDownLoadTasks,
       Manager!Write, Manager!Saved, Manager!bgVars

LEMMA ManagerApi ==
  ASSUME NEW t \in Tasks, Api(t)
  PROVE  Manager!Api(t)
<1> USE DEF Manager!Api
<1>1. CASE addDownLoadTask(t)
  BY <1>1 DEF addDownLoadTask, Idle, changeDownLoadTasks, Write, Saved, taskVars,
              xferVars, bgVars, Manager!addDownLoadTask, Manager!Idle,
              Manager!changeDownLoadTasks, Manager!Write, Manager!Saved,
              Manager!taskVars, Manager!xferVars, Manager!bgVars
<1>2. CASE \E k \in Xfers : startDownLoad(t, k)
  BY <1>2, ManagerStart DEF startDownLoad
<1>3. CASE cancelDownLoad(t)
  BY <1>3, ManagerCancel
     DEF cancelDownLoad, Manager!cancelDownLoad, Manager!StopAllowed
<1>4. CASE suspendDownLoad(t)
  BY <1>4, ManagerSuspend
     DEF suspendDownLoad, Manager!suspendDownLoad, Manager!StopAllowed
<1>5. CASE resumeDownLoad(t)
  BY <1>5 DEF resumeDownLoad, Idle, Reachable, Resumed, taskVars, bgVars,
              Manager!resumeDownLoad, Manager!Idle, Manager!Reachable,
              Manager!Resumed, Manager!taskVars, Manager!bgVars
<1>6. CASE deleteDownLoadTask(t)
  BY <1>6 DEF deleteDownLoadTask, Idle, Write, taskVars, xferVars, bgVars,
              Manager!deleteDownLoadTask, Manager!Idle, Manager!Write,
              Manager!taskVars, Manager!xferVars, Manager!bgVars
<1>7. QED
  BY <1>1, <1>2, <1>3, <1>4, <1>5, <1>6 DEF Api

LEMMA ManagerAll ==
  ASSUME cancelAllTasks \/ suspendAllTasks
  PROVE  Manager!cancelAllTasks \/ Manager!suspendAllTasks
BY ManagerCancel, ManagerSuspend
   DEF cancelAllTasks, suspendAllTasks, Manager!cancelAllTasks,
       Manager!suspendAllTasks, Manager!StopAllowed

\* The transfers are the same whoever calls.
LEMMA ManagerTransfer ==
  ASSUME NEW k \in Xfers, Block(k) \/ NetProgress(k) \/ NetEnds(k) \/ Callback(k)
  PROVE  \/ Manager!Block(k) \/ Manager!NetProgress(k) \/ Manager!NetEnds(k)
         \/ Manager!Callback(k)
<1>1. CASE Block(k)
  BY <1>1 DEF Block, CreateTransfer, ResumeTransfer, Resumed, taskVars, bgVars,
              Manager!Block, Manager!CreateTransfer, Manager!ResumeTransfer,
              Manager!Resumed, Manager!taskVars, Manager!bgVars
<1>2. CASE NetProgress(k) \/ NetEnds(k)
  BY <1>2 DEF NetProgress, NetEnds, taskVars, bgVars, Manager!NetProgress,
              Manager!NetEnds, Manager!taskVars, Manager!bgVars
<1>3. CASE didWriteData(k)
  BY <1>3 DEF didWriteData, Idle, changeDownLoadTasks, Write, Saved, taskVars,
              bgVars, Manager!Callback, Manager!didWriteData, Manager!Idle,
              Manager!changeDownLoadTasks, Manager!Write, Manager!Saved,
              Manager!taskVars, Manager!bgVars
<1>4. CASE didFinishDownloading(k)
  BY <1>4 DEF didFinishDownloading, Idle, Known, Unmarked, changeDownLoadTasks,
              Write, Saved, taskVars, bgVars, Manager!Callback,
              Manager!didFinishDownloading, Manager!Idle, Manager!Known,
              Manager!Unmarked, Manager!changeDownLoadTasks, Manager!Write,
              Manager!Saved, Manager!taskVars, Manager!bgVars
<1>5. CASE CancelCompletes(k)
  BY <1>5 DEF CancelCompletes, CancelStatus, Idle, Unmarked, changeDownLoadTasks,
              Write, Saved, taskVars, bgVars, Manager!Callback,
              Manager!CancelCompletes, Manager!CancelStatus, Manager!Idle,
              Manager!Unmarked, Manager!changeDownLoadTasks, Manager!Write,
              Manager!Saved, Manager!taskVars, Manager!bgVars
<1>6. QED
  BY <1>1, <1>2, <1>3, <1>4, <1>5 DEF Callback

LEMMA ManagerMove ==
  ASSUME MoveFile
  PROVE  Manager!MoveFile
BY DEF MoveFile, Moved, Missed, LastOne, stopBackgroundTask, Ended, taskVars, xferVars, bgVars,
       Manager!MoveFile, Manager!Moved, Manager!Missed, Manager!LastOne,
       Manager!stopBackgroundTask, Manager!Ended, Manager!taskVars,
       Manager!xferVars, Manager!bgVars

LEMMA ManagerRelaunch ==
  ASSUME Crash \/ appTerminate
  PROVE  Manager!Crash \/ Manager!appTerminate
<1>1. ASSUME NEW p, Launch(p)
      PROVE  Manager!Launch(p)
  BY <1>1 DEF Launch, BgLaunch, Idle, Missed, Manager!Launch, Manager!BgLaunch,
              Manager!Idle, Manager!Missed
<1>2. QED
  BY <1>1 DEF Crash, appTerminate, Idle, Saved, Manager!Crash,
              Manager!appTerminate, Manager!Idle, Manager!Saved

\* The background part has no caller.
LEMMA ManagerBackground ==
  ASSUME BgNext, Idle, UNCHANGED toolVars
  PROVE  Manager!BgNext /\ Manager!Idle /\ UNCHANGED Manager!toolVars
<1>1. /\ appWillBack => Manager!appWillBack
      /\ appActive => Manager!appActive
  BY DEF appWillBack, appActive, startBackgroundTask, stopBackgroundTask, Exchange,
         Ended, Manager!appWillBack, Manager!appActive,
         Manager!startBackgroundTask, Manager!stopBackgroundTask,
         Manager!Exchange, Manager!Ended
<1>2. \A b \in BgIds : /\ StartExpires(b) => Manager!StartExpires(b)
                       /\ MoreExpires(b) => Manager!MoreExpires(b)
  BY DEF StartExpires, MoreExpires, applyForMoreTime, Exchange, Ended,
         Manager!StartExpires, Manager!MoreExpires, Manager!applyForMoreTime,
         Manager!Exchange, Manager!Ended
<1>3. TimerFires => Manager!TimerFires
  BY DEF TimerFires, applyForMoreTime, ProcessRuns, Held, Exchange, Ended,
         Manager!TimerFires, Manager!applyForMoreTime, Manager!ProcessRuns,
         Manager!Held, Manager!Exchange, Manager!Ended
<1>4. Manager!Idle /\ UNCHANGED Manager!toolVars
  BY DEF Idle, toolVars, taskVars, xferVars, Manager!Idle, Manager!toolVars,
         Manager!taskVars, Manager!xferVars
<1>5. QED
  BY <1>1, <1>2, <1>3, <1>4 DEF BgNext, Manager!BgNext

LEMMA ManagerStep ==
  ASSUME CtlTypeOK, [CtlNext]_allVars
  PROVE  [Manager!Next]_(Manager!vars)
<1> USE DEF Manager!Next
<1>1. ASSUME NEW t \in Tasks, NEW k \in Xfers, start(t, k)
      PROVE  Manager!Next
  BY <1>1, ManagerStart DEF Manager!Api
<1>2. ASSUME NEW t \in Tasks, suspendAll({t})
      PROVE  Manager!Next
  BY <1>2, ManagerSuspend
     DEF Manager!Api, Manager!suspendDownLoad, Manager!StopAllowed
<1>3. ASSUME Next
      PROVE  Manager!Next
  BY <1>3, ManagerApi, ManagerAll, ManagerTransfer, ManagerMove, ManagerRelaunch,
     ManagerBackground DEF Next
<1>4. QED
  BY <1>1, <1>2, <1>3, CtlStepIsToolStep, ManagerStutters

-----------------------------------------------------------------------------
(* The registry under the screen.                                          *)

LEMMA StartRegisters ==
  ASSUME TypeInv, NEW t \in Tasks, NEW k \in Xfers, start(t, k)
  PROVE  [Registry!Next]_(Registry!regVars)
<1>1. CASE t \in taskModels
  BY <1>1, Stutters DEF start
<1>2. CASE t \notin taskModels
  BY <1>2, RegisterStep DEF start, changeDownLoadTasks
<1>3. QED
  BY <1>1, <1>2

LEMMA SuspendRegisters ==
  ASSUME TypeInv, NEW S \in SUBSET Tasks, suspendAll(S)
  PROVE  [Registry!Next]_(Registry!regVars)
<1>1. Reachable(S) \in SUBSET Tasks /\ Reachable(S) \subseteq taskModels
  BY DEF Reachable
<1>2. taskModels' = taskModels
  BY <1>1 DEF suspendAll, changeDownLoadTasks
<1>3. Registry!SetStatus(Reachable(S), "Suspended")
  BY <1>1, <1>2, StatusSet DEF suspendAll
<1>4. QED
  BY <1>1, <1>3 DEF Registry!Next, Registry!Suspend

LEMMA CtlRegistryStep ==
  ASSUME TypeInv, CtlTypeOK, PlistMirrorsMemory, [CtlNext]_allVars
  PROVE  [Registry!Next]_(Registry!regVars)
BY CtlStepIsToolStep, RegistryStep, StartRegisters, SuspendRegisters

-----------------------------------------------------------------------------
(* The loop.                                                               *)

\* A start of the loop keeps what the loop has achieved, and adds its task to it.
LEMMA MonitorStartLoops ==
  ASSUME TypeInv, CtlTypeOK, LoopInv, NEW t \in Tasks, MonitorStart(t)
  PROVE  /\ todo' \subseteq taskModels'
         /\ \A u \in taskModels' :
              status'[u] \in Cancelled => u \in todo' \/ LiveXfers(u)' # {}
<1> PICK k \in Xfers : start(t, k)
  BY DEF MonitorStart, FreeXfers
<1>1. /\ Looping /\ t \in todo /\ todo' = todo \ {t}
  BY DEF MonitorStart, Looping
<1>2. status' = status
  BY DEF start
<1>3. taskModels' = taskModels /\ taskModels \subseteq Tasks
  BY <1>1 DEF start, LoopInv, TypeInv, ToolTypeOK
<1>4. QED
  BY <1>1, <1>2, <1>3, StartAddsLive DEF LoopInv

LEMMA MonitorSuspendLoops ==
  ASSUME TypeInv, CtlTypeOK, LoopInv, MonitorSuspend
  PROVE  /\ todo' \subseteq taskModels'
         /\ \A u \in taskModels' :
              status'[u] \in Cancelled => u \in todo' \/ LiveXfers(u)' # {}
<1>1. /\ Looping /\ todo' = todo /\ {pausing} \in SUBSET Tasks
  BY DEF MonitorSuspend, Looping, CtlTypeOK
<1>2. taskModels \subseteq Tasks
  BY DEF TypeInv, ToolTypeOK
<1>3. CASE UNCHANGED vars
  BY <1>1, <1>3 DEF vars, toolVars, taskVars, xferVars, LoopInv, LiveXfers, Live,
                    Transferring
<1>4. CASE suspendAll({pausing})
  <2>1. taskModels' = taskModels \cup Reachable({pausing})
    BY <1>4 DEF suspendAll, changeDownLoadTasks
  <2>2. taskModels' = taskModels
    BY <2>1 DEF Reachable
  <2>3. \A u \in Tasks : status'[u] = status[u] \/ status'[u] = "Suspended"
    BY <1>4 DEF suspendAll
  <2>4. QED
    BY <1>1, <1>2, <1>4, <2>2, <2>3, SuspendKeepsLive DEF LoopInv, Cancelled
<1>5. QED
  BY <1>3, <1>4 DEF MonitorSuspend

LEMMA LoopStep ==
  ASSUME CtlInv, [CtlNext]_allVars, "network" \notin Faults
  PROVE  LoopInv'
<1> USE DEF CtlInv
<1>1. taskModels \subseteq Tasks
  BY DEF TypeInv, ToolTypeOK
<1>2. CASE viewDidAppear
  BY <1>2 DEF viewDidAppear, ToStart, vars, toolVars, taskVars, LoopInv, Cancelled
<1>3. ASSUME NEW t \in Tasks, MonitorStart(t)
      PROVE  LoopInv'
  BY <1>3, MonitorStartLoops DEF LoopInv
<1>4. CASE MonitorSuspend
  BY <1>4, MonitorSuspendLoops DEF LoopInv
<1>5. CASE ~Looping /\ UNCHANGED <<todo, pausing>>
  BY <1>5 DEF LoopInv, Looping
<1>6. CASE Relaunch
  BY <1>6 DEF Relaunch, LoopInv, Looping
<1>7. ASSUME UNCHANGED ctlVars, NEW k \in Xfers,
             Block(k) \/ NetProgress(k) \/ NetEnds(k)
      PROVE  LoopInv'
  <2>1. UNCHANGED <<taskModels, status, todo, pausing>>
    BY <1>7 DEF ctlVars, Block, CreateTransfer, ResumeTransfer, NetProgress, NetEnds,
                taskVars
  <2>2. QED
    BY <1>1, <1>7, <2>1, BesideKeepsLive DEF LoopInv, Looping
<1>8. CASE UNCHANGED allVars
  BY <1>8 DEF allVars, ctlVars, vars, toolVars, taskVars, xferVars, LoopInv, Looping,
              LiveXfers, Live, Transferring
<1>9. QED
  BY <1>2, <1>3, <1>4, <1>5, <1>6, <1>7, <1>8 DEF CtlNext, AppCall, ctlVars

-----------------------------------------------------------------------------
(* Deleted tasks.                                                          *)

\* What the loop has still to start stays registered.
LEMMA TodoStep ==
  ASSUME CtlTypeOK, todo \subseteq taskModels, [CtlNext]_allVars
  PROVE  todo' \subseteq taskModels'
<1>1. CASE viewDidAppear
  BY <1>1 DEF viewDidAppear, ToStart, vars, toolVars
<1>2. ASSUME NEW t \in Tasks, MonitorStart(t)
      PROVE  todo' \subseteq taskModels'
  BY <1>2 DEF MonitorStart, start, changeDownLoadTasks
<1>3. CASE MonitorSuspend
  BY <1>3 DEF MonitorSuspend, suspendAll, changeDownLoadTasks, vars, toolVars
<1>4. CASE ~Looping /\ UNCHANGED todo
  BY <1>4 DEF Looping
<1>5. CASE Relaunch
  BY <1>5 DEF Relaunch
<1>6. ASSUME UNCHANGED ctlVars, NEW k \in Xfers,
             Block(k) \/ NetProgress(k) \/ NetEnds(k)
      PROVE  todo' \subseteq taskModels'
  BY <1>6 DEF ctlVars, Block, CreateTransfer, ResumeTransfer, NetProgress, NetEnds
<1>7. CASE UNCHANGED allVars
  BY <1>7 DEF allVars, ctlVars, vars, toolVars
<1>8. QED
  BY <1>1, <1>2, <1>3, <1>4, <1>5, <1>6, <1>7 DEF CtlNext, AppCall, ctlVars

LEMMA CtlForgets ==
  ASSUME TypeInv, CtlTypeOK, PlistMirrorsMemory, todo \subseteq taskModels,
         [CtlNext]_allVars, NEW t \in Tasks, Forgotten(t), ~AppCall(t)
  PROVE  Forgotten(t)'
<1>1. t \notin taskModels
  BY DEF Forgotten
<1>2. ASSUME UNCHANGED vars
      PROVE  Forgotten(t)'
  BY <1>1, <1>2, NothingRevived DEF vars, toolVars, xferVars, Live, Transferring
<1>3. CASE viewDidAppear \/ UNCHANGED allVars
  BY <1>2, <1>3 DEF viewDidAppear, allVars
<1>4. ASSUME NEW u \in Tasks, MonitorStart(u)
      PROVE  Forgotten(t)'
  BY <1>1, <1>4, StartForgets DEF MonitorStart, FreeXfers
<1>5. CASE MonitorSuspend
  <2>1. {pausing} \in SUBSET Tasks
    BY <1>5 DEF MonitorSuspend, CtlTypeOK
  <2>2. QED
    BY <1>2, <1>5, <2>1, SuspendForgets DEF MonitorSuspend
<1>6. ASSUME NEW u \in Tasks, AppCall(u)
      PROVE  Forgotten(t)'
  <2>1. u # t /\ Api(u)
    BY <1>6 DEF AppCall, Api
  <2>2. QED
    BY <2>1, ApiForgets
<1>7. CASE MoveFile
  BY <1>1, <1>7, NothingRevived DEF MoveFile, xferVars, Live, Transferring
<1>8. CASE Relaunch
  BY <1>8, LaunchForgets DEF Relaunch
<1>9. QED
  BY <1>3, <1>4, <1>5, <1>6, <1>7, <1>8, TransferForgets DEF CtlNext

-----------------------------------------------------------------------------
(* The theorems.                                                           *)

LEMMA CtlInitInv == CtlInit => CtlInv
BY InitTypeInv DEF CtlInit, CtlInv, CtlTypeOK, LoopInv, Looping

\* The loop walks through tasks of the manager and pauses one at a time, and the
\* manager keeps its types under a caller that restarts what it does not own.
THEOREM CtlTypeCorrect == CtlSpec => [](TypeInv /\ CtlTypeOK)
<1>1. CtlInit => TypeInv /\ CtlTypeOK
  BY CtlInitInv DEF CtlInv
<1>2. TypeInv /\ CtlTypeOK /\ [CtlNext]_allVars => (TypeInv /\ CtlTypeOK)'
  BY CtlToolTypes, CtlTypes
<1>3. QED
  BY <1>1, <1>2, PTL DEF CtlSpec

\* Whatever the screen does between two calls of the application, within its loop
\* and when the process dies there, the manager sees calls of its own API and
\* nothing else: what holds of the manager for every caller holds under the screen.
THEOREM ScreenIsCaller == CtlSpec => Manager!Spec
<1>1. CtlInit => Manager!Init
  BY ManagerInit DEF CtlInit
<1>2. CtlTypeOK /\ [CtlNext]_allVars => [Manager!Next]_(Manager!vars)
  BY ManagerStep
<1>3. QED
  BY <1>1, <1>2, CtlTypeCorrect, PTL DEF CtlSpec, Manager!Spec

\* After every step of the screen and of the manager under it the file self.path
\* holds what the registry holds, between two turns of monitorDataChange too.
THEOREM CtlPlistCorrect == CtlSpec => []PlistMirrorsMemory
<1>1. Manager!Spec => []Manager!PlistMirrorsMemory
  BY ManagerAssumptions, Manager!PlistCorrect
<1>2. Manager!PlistMirrorsMemory => PlistMirrorsMemory
  BY DEF Manager!PlistMirrorsMemory, Manager!Saved, PlistMirrorsMemory, Saved
<1>3. QED
  BY <1>1, <1>2, ScreenIsCaller, PTL

LEMMA ManagerLive ==
  \A t : /\ Manager!LiveXfers(t) = LiveXfers(t)
         /\ Manager!LiveXfers(t)' = LiveXfers(t)'
BY DEF Manager!LiveXfers, Manager!Live, Manager!Transferring, LiveXfers, Live,
       Transferring

\* A mark in self.downLoadTaskModels has something live behind it although the
\* screen starts tasks whose former transfer it does not wait for.
THEOREM CtlProgressCorrect == CtlSpec => []InProgressIsLive
<1>1. Manager!Spec => []Manager!InProgressIsLive
  BY ManagerAssumptions, Manager!ProgressCorrect
<1>2. Manager!InProgressIsLive => InProgressIsLive
  BY ManagerLive DEF Manager!InProgressIsLive, InProgressIsLive
<1>3. QED
  BY <1>1, <1>2, ScreenIsCaller, PTL

\* Nor does a restart by the screen leave a task at 下载中 whose last transfer
\* ended: the end of the former transfer and that of the new one are recorded.
THEOREM CtlEndCorrect ==
  ASSUME "network" \notin Faults
  PROVE  CtlSpec => EndIsRecorded
<1>1. Manager!Spec => Manager!EndIsRecorded
  BY ManagerAssumptions, Manager!EndCorrect
<1>2. [\A t \in taskModels \cap taskModels' :
         Manager!LiveXfers(t) # {} /\ Manager!LiveXfers(t)' = {} /\ session'[t]
           => status'[t] # "Runing"]_(Manager!vars)
      => [\A t \in taskModels \cap taskModels' :
            LiveXfers(t) # {} /\ LiveXfers(t)' = {} /\ session'[t]
              => status'[t] # "Runing"]_vars
  BY ManagerLive, ManagerStutters
<1>3. QED
  BY <1>1, <1>2, ScreenIsCaller, PTL DEF Manager!EndIsRecorded, EndIsRecorded

\* Under the screen a deleted task of which nothing is under way comes back by a
\* call of the rest of the application only: the loop starts what it found
\* registered, and nobody deletes a task while it runs.
THEOREM ScreenRevivesNothing ==
  CtlSpec =>
    [][\A t \in Tasks : Forgotten(t) /\ ~Forgotten(t)' => AppCall(t)]_allVars
<1>1. CtlInit => todo \subseteq taskModels
  BY DEF CtlInit
<1>2. CtlTypeOK /\ todo \subseteq taskModels /\ [CtlNext]_allVars
        => (todo \subseteq taskModels)'
  BY TodoStep
<1>3. /\ TypeInv /\ CtlTypeOK /\ PlistMirrorsMemory /\ todo \subseteq taskModels
      /\ [CtlNext]_allVars
      => [\A t \in Tasks : Forgotten(t) /\ ~Forgotten(t)' => AppCall(t)]_allVars
  BY CtlForgets
<1>4. QED
  BY <1>1, <1>2, <1>3, CtlTypeCorrect, CtlPlistCorrect, PTL DEF CtlSpec

\* The screen and the manager together implement the durable registry: a process
\* that dies in the middle of the loop, between the start of a task and its
\* suspend for example, leaves every registered task as it was, and the loop
\* changes a status only as the manager's own calls do.
THEOREM CtlRegistryImplemented == CtlSpec => ImplementsRegistry
<1>1. CtlInit => Registry!Init
  BY DEF CtlInit, Init, Registry!Init, Registry!Fresh, Saved
<1>2. TypeInv /\ CtlTypeOK /\ PlistMirrorsMemory /\ [CtlNext]_allVars
        => [Registry!Next]_(Registry!regVars)
  BY CtlRegistryStep
<1>3. QED
  BY <1>1, <1>2, CtlTypeCorrect, CtlPlistCorrect, PTL
     DEF CtlSpec, Registry!Spec, ImplementsRegistry

\* When viewDidAppear's loop is over, every cancelled task has a transfer on its
\* way, whatever start blocks and network did beside the loop, provided that no
\* transfer fails meanwhile (HGBDownLoadTool would not be told).
THEOREM AppearCorrect ==
  ASSUME "network" \notin Faults
  PROVE  CtlSpec => AppearRestartsCancelled
<1>1. CtlInv /\ [CtlNext]_allVars => CtlInv'
  BY CtlToolTypes, CtlTypes, LoopStep DEF CtlInv
<1>2. CtlInv /\ [CtlNext]_allVars =>
        [~Looping' /\ (MonitorSuspend \/ \E t \in Tasks : MonitorStart(t))
           => \A t \in taskModels' :
                status'[t] \in {"Cancel", "UnExpectedCancel"}
                  => LiveXfers(t)' # {}]_allVars
  <2> SUFFICES ASSUME CtlInv, ~Looping',
                      MonitorSuspend \/ \E t \in Tasks : MonitorStart(t)
               PROVE  \A t \in taskModels' :
                        status'[t] \in Cancelled => LiveXfers(t)' # {}
    BY DEF Cancelled
  <2>1. todo' = {}
    BY DEF Looping
  <2>2. \A t \in taskModels' :
          status'[t] \in Cancelled => t \in todo' \/ LiveXfers(t)' # {}
    BY MonitorStartLoops, MonitorSuspendLoops DEF CtlInv
  <2>3. QED
    BY <2>1, <2>2
<1>3. QED
  BY <1>1, <1>2, CtlInitInv, PTL DEF CtlSpec, AppearRestartsCancelled
=============================================================================
