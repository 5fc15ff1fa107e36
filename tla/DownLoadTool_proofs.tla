------------------------- MODULE DownLoadTool_proofs -------------------------
(***************************************************************************)
(* Theorems about DownLoadTool, for any sets of tasks and transfers, any   *)
(* faults and, where it is not said otherwise, any caller.                 *)
(***************************************************************************)
EXTENDS DownLoadTool, TLAPS

-----------------------------------------------------------------------------
(* The background part on its own (DownLoadBackground), for any sets of    *)
(* identifiers and timers.                                                 *)

\* What the two invariants of the component rest on.
BgInv == BgTypeOK /\ HeldIsKnown /\ ActiveHoldsNone

\* A new process satisfies the invariant (BgInit at start-up).
LEMMA BgInitInv == BgInit => BgInv
BY BackgroundAssumption
   DEF BgInit, BgInv, BgTypeOK, HeldIsKnown, ActiveHoldsNone, Held

\* So does the state a new process is launched into (BgLaunch).
LEMMA BgLaunchInv == BgLaunch => BgInv'
BY BackgroundAssumption
   DEF BgLaunch, BgInv, BgTypeOK, HeldIsKnown, ActiveHoldsNone, Held

\* Ending the task in self.backTask leaves UIKit with none (endBackgroundTask).
LEMMA EndedHoldsNone ==
  ASSUME BgTypeOK, HeldIsKnown
  PROVE  Ended(backTask) = [b \in BgIds |-> "none"]
<1>1. CASE backTask = Invalid
  BY <1>1, BackgroundAssumption DEF BgTypeOK, HeldIsKnown, Held, Ended
<1>2. CASE backTask # Invalid
  <2>1. \A b \in BgIds \ {backTask} : handler[b] = "none"
    BY DEF HeldIsKnown, Held
  <2>2. Ended(backTask) = [b \in BgIds |-> IF b = backTask THEN "none"
                                                          ELSE handler[b]]
    BY <1>2 DEF BgTypeOK, Ended
  <2>3. QED
    BY <2>1, <2>2
<1>3. QED
  BY <1>1, <1>2

\* Replacing the task in self.backTask, or beginning one when there is none,
\* leaves UIKit with the one now in self.backTask.
LEMMA ExchangeKnown ==
  ASSUME BgTypeOK, HeldIsKnown, NEW h \in Handlers,
         NEW old \in BgIds \cup {Invalid},
         old = backTask \/ Held = {},
         Exchange(old, h)
  PROVE  /\ handler' \in [BgIds -> Handlers \cup {"none"}]
         /\ backTask' \in BgIds
         /\ Held' \subseteq {backTask'}
<1>1. Ended(old) = [b \in BgIds |-> "none"]
  <2>1. CASE old = backTask
    BY <2>1, EndedHoldsNone
  <2>2. CASE Held = {} /\ old = Invalid
    BY <2>2 DEF Ended, Held, BgTypeOK
  <2>3. CASE Held = {} /\ old \in BgIds
    BY <2>3, BackgroundAssumption DEF Ended, Held, BgTypeOK
  <2>4. QED
    BY <2>1, <2>2, <2>3
<1>2. PICK b \in BgIds : /\ handler' = [Ended(old) EXCEPT ![b] = h]
                         /\ backTask' = b
  BY DEF Exchange
<1>3. QED
  BY <1>1, <1>2 DEF Held

\* stopBackgroundTask leaves no task, whenever it is called.
LEMMA StopHoldsNone ==
  ASSUME BgInv, stopBackgroundTask, appState' \in {"active", "background"}
  PROVE  BgInv'
<1>1. handler' = [b \in BgIds |-> "none"] /\ backTask' = Invalid
  BY EndedHoldsNone DEF BgInv, stopBackgroundTask
<1>2. liveTimers' \in SUBSET Timers /\ timer' = timer
  BY DEF BgInv, BgTypeOK, stopBackgroundTask
<1>3. QED
  BY <1>1, <1>2 DEF BgInv, BgTypeOK, HeldIsKnown, ActiveHoldsNone, Held

\* Every step of the component on its own keeps the invariant.
LEMMA BgNextInv ==
  ASSUME BgInv, BgNext
  PROVE  BgInv'
<1> USE DEF BgInv
<1>1. CASE appWillBack
  <2>1. Held = {}
    BY <1>1 DEF appWillBack, ActiveHoldsNone
  <2>2. CASE isCanBackGround
    <3>1. Exchange(Invalid, "start")
      BY <1>1, <2>2 DEF appWillBack, startBackgroundTask
    <3>2. /\ handler' \in [BgIds -> Handlers \cup {"none"}]
          /\ backTask' \in BgIds
          /\ Held' \subseteq {backTask'}
      BY <2>1, <3>1, ExchangeKnown DEF Handlers
    <3>3. QED
      BY <1>1, <3>2 DEF appWillBack, BgTypeOK, HeldIsKnown, ActiveHoldsNone
  <2>3. CASE ~isCanBackGround
    BY <1>1, <2>3 DEF appWillBack, BgTypeOK, HeldIsKnown, ActiveHoldsNone, Held
  <2>4. QED
    BY <2>2, <2>3
<1>2. CASE appActive
  <2>1. appState' = "active" /\ stopBackgroundTask
    BY <1>2 DEF appActive
  <2>2. QED
    BY <2>1, StopHoldsNone
<1>3. ASSUME appState = "background", appState' = appState,
             Exchange(backTask, "more"),
             liveTimers' \in SUBSET Timers, timer' \in Timers \cup {NoTimer}
      PROVE  BgInv'
  <2>1. /\ handler' \in [BgIds -> Handlers \cup {"none"}]
        /\ backTask' \in BgIds
        /\ Held' \subseteq {backTask'}
    BY <1>3, ExchangeKnown DEF Handlers, BgTypeOK
  <2>2. QED
    BY <1>3, <2>1 DEF BgTypeOK, HeldIsKnown, ActiveHoldsNone
<1>4. CASE TimerFires
  <2>1. CASE UNCHANGED <<handler, backTask>>
    BY <1>4, <2>1 DEF TimerFires, BgTypeOK, HeldIsKnown, ActiveHoldsNone, Held
  <2>2. CASE appState = "background" /\ Exchange(backTask, "more")
    BY <1>3, <1>4, <2>2 DEF TimerFires, BgTypeOK
  <2>3. QED
    BY <1>4, <2>1, <2>2 DEF TimerFires, applyForMoreTime
<1>5. ASSUME NEW b \in BgIds, StartExpires(b)
      PROVE  BgInv'
  BY <1>3, <1>5 DEF StartExpires, applyForMoreTime, BgTypeOK
<1>6. ASSUME NEW b \in BgIds, MoreExpires(b)
      PROVE  BgInv'
  <2>1. handler' = [c \in BgIds |-> "none"]
    BY <1>6, EndedHoldsNone DEF MoreExpires
  <2>2. QED
    BY <1>6, <2>1 DEF MoreExpires, BgTypeOK, HeldIsKnown, ActiveHoldsNone, Held
<1>7. QED
  BY <1>1, <1>2, <1>4, <1>5, <1>6 DEF BgNext

-----------------------------------------------------------------------------
(* The manager.                                                            *)

\* The types, without those of the background part.
ToolTypeOK ==
  /\ taskModels \in SUBSET Tasks
  /\ downLoadTaskModels \in SUBSET Tasks
  /\ status \in [Tasks -> State]
  /\ data \in [Tasks -> BOOLEAN]
  /\ session \in [Tasks -> BOOLEAN]
  /\ downLoadTask \in [Tasks -> Xfers \cup {Nil}]
  /\ plist \in [Tasks -> Entry \cup {Nil}]
  /\ files \in [Tasks -> FileState]
  /\ xfer \in [Xfers -> [task : Tasks \cup {Nil}, block : BlockState]]
  /\ net \in [Xfers -> NetState]
  /\ written \in SUBSET Xfers
  /\ cancels \in [Xfers -> 0..MaxCancels]
  /\ finishing \in Xfers \cup {Nil}

\* A transfer some block was submitted for belongs to a task; one that is none's
\* has no state yet, and one still queued neither. A task's downLoadTask is a
\* transfer of its own whose block has created it.
OwnerOK ==
  /\ \A k \in Xfers :
       /\ xfer[k].block # "none" => xfer[k].task \in Tasks
       /\ xfer[k].block \in {"none", "queued"} =>
            net[k] = "none" /\ cancels[k] = 0 /\ k \notin written
  /\ \A t \in Tasks :
       downLoadTask[t] # Nil =>
         /\ xfer[downLoadTask[t]].task = t
         /\ xfer[downLoadTask[t]].block \in {"created", "done"}
  /\ finishing # Nil => xfer[finishing].task \in Tasks
  /\ \A k \in Xfers : xfer[k].block = "created" => downLoadTask[xfer[k].task] # Nil

TypeInv == ToolTypeOK /\ OwnerOK /\ BgInv

-----------------------------------------------------------------------------
(* The plist.                                                              *)

\* What changeDownLoadTasks writes and registers.
LEMMA ChangeWrites ==
  ASSUME NEW S \in SUBSET Tasks, changeDownLoadTasks(S),
         taskModels \in SUBSET Tasks, plist \in [Tasks -> Entry \cup {Nil}],
         status' \in [Tasks -> State], data' \in [Tasks -> BOOLEAN]
  PROVE  /\ taskModels' \in SUBSET Tasks
         /\ taskModels' = taskModels \cup S
         /\ plist' \in [Tasks -> Entry \cup {Nil}]
         /\ \A t \in S : plist'[t] = Saved(status'[t], data'[t])
         /\ \A t \in Tasks \ S : plist'[t] = plist[t]
<1> DEFINE new == [t \in S |-> Saved(status'[t], data'[t])]
<1>1. plist' = [t \in Tasks |-> IF t \in S THEN new[t] ELSE plist[t]]
  BY DEF changeDownLoadTasks, Write
<1>2. \A t \in S : new[t] = Saved(status'[t], data'[t]) /\ new[t] \in Entry
  BY DEF Saved, Entry
<1> HIDE DEF new
<1>3. QED
  BY <1>1, <1>2 DEF changeDownLoadTasks

-----------------------------------------------------------------------------
(* Types.                                                                  *)

LEMMA InitTypeInv == Init => TypeInv
BY BgInitInv, ToolAssumption
   DEF Init, FreshXfers, TypeInv, ToolTypeOK, OwnerOK, State, BlockState,
       NetState, FileState, Entry

\* A step of the manager outside the background part.
LEMMA StartTypes ==
  ASSUME TypeInv, NEW t \in Tasks, NEW k \in Xfers, start(t, k)
  PROVE  ToolTypeOK' /\ OwnerOK'
<1> USE DEF TypeInv
<1>1. /\ taskModels' \in SUBSET Tasks
      /\ plist' \in [Tasks -> Entry \cup {Nil}]
  BY ChangeWrites DEF start, ToolTypeOK
<1>2. ToolTypeOK'
  BY <1>1 DEF start, ToolTypeOK, Marked, BlockState
<1>3. OwnerOK'
  BY DEF start, ToolTypeOK, OwnerOK, BlockState
<1>4. QED
  BY <1>2, <1>3

LEMMA AddTypes ==
  ASSUME TypeInv, NEW t \in Tasks, addDownLoadTask(t)
  PROVE  ToolTypeOK' /\ OwnerOK'
<1> USE DEF TypeInv
<1>1. /\ taskModels' \in SUBSET Tasks
      /\ plist' \in [Tasks -> Entry \cup {Nil}]
  BY ChangeWrites DEF addDownLoadTask, ToolTypeOK, taskVars
<1>2. QED
  BY <1>1 DEF addDownLoadTask, ToolTypeOK, OwnerOK, taskVars, xferVars

LEMMA BlockTypes ==
  ASSUME TypeInv, NEW k \in Xfers, Block(k)
  PROVE  ToolTypeOK' /\ OwnerOK'
<1> USE DEF TypeInv
<1>1. CASE CreateTransfer(k)
  BY <1>1, ToolAssumption
     DEF CreateTransfer, ToolTypeOK, OwnerOK, BlockState, NetState
<1>2. CASE ResumeTransfer(k)
  BY <1>2, ToolAssumption
     DEF ResumeTransfer, Resumed, ToolTypeOK, OwnerOK, BlockState, NetState,
         taskVars
<1>3. QED
  BY <1>1, <1>2 DEF Block

LEMMA CancelTypes ==
  ASSUME TypeInv, NEW S \in SUBSET Tasks, cancelAll(S)
  PROVE  ToolTypeOK' /\ OwnerOK'
<1> USE DEF TypeInv
<1>1. \A k \in Current(S) : k \in Xfers /\ xfer[k].block \in {"created", "done"}
  BY DEF Current, Reachable, ToolTypeOK, OwnerOK
<1>2. cancels' \in [Xfers -> 0..MaxCancels]
  BY <1>1, ToolAssumption DEF cancelAll, ToolTypeOK
<1>3. net' \in [Xfers -> NetState]
  BY DEF cancelAll, ToolTypeOK, NetState
<1>4. ToolTypeOK'
  BY <1>2, <1>3 DEF cancelAll, ToolTypeOK, taskVars
<1>5. \A k \in Xfers : xfer[k].block \in {"none", "queued"} =>
        net'[k] = net[k] /\ cancels'[k] = cancels[k] + 0
  BY <1>1 DEF cancelAll
<1>6. OwnerOK'
  BY <1>5 DEF cancelAll, ToolTypeOK, OwnerOK, taskVars
<1>7. QED
  BY <1>4, <1>6

LEMMA SuspendTypes ==
  ASSUME TypeInv, NEW S \in SUBSET Tasks, suspendAll(S)
  PROVE  ToolTypeOK' /\ OwnerOK'
<1> USE DEF TypeInv
<1>1. Reachable(S) \in SUBSET Tasks
  BY DEF Reachable, ToolTypeOK
<1>2. /\ status' \in [Tasks -> State]
      /\ data' \in [Tasks -> BOOLEAN]
  BY DEF suspendAll, ToolTypeOK, State
<1>3. /\ taskModels' \in SUBSET Tasks
      /\ plist' \in [Tasks -> Entry \cup {Nil}]
  BY <1>1, <1>2, ChangeWrites DEF suspendAll, ToolTypeOK
<1>4. net' \in [Xfers -> NetState]
  BY DEF suspendAll, Suspended, ToolTypeOK, NetState
<1>5. ToolTypeOK'
  BY <1>2, <1>3, <1>4 DEF suspendAll, ToolTypeOK
<1>6. \A k \in Xfers : net[k] = "none" => net'[k] = "none"
  BY DEF suspendAll, Suspended
<1>7. OwnerOK'
  BY <1>6 DEF suspendAll, ToolTypeOK, OwnerOK
<1>8. QED
  BY <1>5, <1>7

LEMMA ResumeTypes ==
  ASSUME TypeInv, NEW t \in Tasks, resumeDownLoad(t)
  PROVE  ToolTypeOK' /\ OwnerOK'
BY ToolAssumption
   DEF TypeInv, resumeDownLoad, Reachable, Resumed, ToolTypeOK, OwnerOK,
       NetState, taskVars

LEMMA DeleteTypes ==
  ASSUME TypeInv, NEW t \in Tasks, deleteDownLoadTask(t)
  PROVE  ToolTypeOK' /\ OwnerOK'
BY DEF TypeInv, deleteDownLoadTask, Write, ToolTypeOK, OwnerOK, taskVars,
       xferVars

LEMMA NetTypes ==
  ASSUME TypeInv, NEW k \in Xfers, NetProgress(k) \/ NetEnds(k)
  PROVE  ToolTypeOK' /\ OwnerOK'
<1> USE DEF TypeInv
<1>1. CASE NetProgress(k)
  BY <1>1 DEF NetProgress, ToolTypeOK, OwnerOK, taskVars
<1>2. CASE NetEnds(k)
  <2>1. PICK o \in {"finished", "failed"} : net' = [net EXCEPT ![k] = o]
    BY <1>2 DEF NetEnds
  <2>2. QED
    BY <1>2, <2>1 DEF NetEnds, ToolTypeOK, OwnerOK, NetState, taskVars
<1>3. QED
  BY <1>1, <1>2

LEMMA CallbackTypes ==
  ASSUME TypeInv, NEW k \in Xfers, Callback(k)
  PROVE  ToolTypeOK' /\ OwnerOK'
<1> USE DEF TypeInv
<1> DEFINE t == xfer[k].task
<1>1. CASE didWriteData(k)
  <2>1. t \in Tasks
    BY <1>1 DEF didWriteData, ToolTypeOK, OwnerOK, BlockState
  <2>2. /\ status' \in [Tasks -> State]
        /\ data' \in [Tasks -> BOOLEAN]
    BY <1>1 DEF didWriteData, ToolTypeOK, State, taskVars
  <2>3. /\ taskModels' \in SUBSET Tasks
        /\ plist' \in [Tasks -> Entry \cup {Nil}]
    BY <1>1, <2>1, <2>2, ChangeWrites DEF didWriteData, ToolTypeOK
  <2>4. QED
    BY <1>1, <2>2, <2>3 DEF didWriteData, ToolTypeOK, OwnerOK, taskVars
<1>2. CASE didFinishDownloading(k)
  <2>1. t \in Tasks
    BY <1>2 DEF didFinishDownloading, ToolTypeOK, OwnerOK, BlockState
  <2>2. /\ status' \in [Tasks -> State]
        /\ data' \in [Tasks -> BOOLEAN]
    BY <1>2 DEF didFinishDownloading, ToolTypeOK, State, taskVars
  <2>3. /\ taskModels' \in SUBSET Tasks
        /\ plist' \in [Tasks -> Entry \cup {Nil}]
    BY <1>2, <2>1, <2>2, ChangeWrites DEF didFinishDownloading, ToolTypeOK
  <2>4. ToolTypeOK'
    BY <1>2, <2>2, <2>3
       DEF didFinishDownloading, ToolTypeOK, NetState, taskVars, Unmarked
  <2>5. OwnerOK'
    BY <1>2, <2>1, ToolAssumption
       DEF didFinishDownloading, ToolTypeOK, OwnerOK, NetState, taskVars
  <2>6. QED
    BY <2>4, <2>5
<1>3. CASE CancelCompletes(k)
  <2>1. t \in Tasks
    BY <1>3, ToolAssumption DEF CancelCompletes, ToolTypeOK, OwnerOK, BlockState
  <2>2. /\ status' \in [Tasks -> State]
        /\ data' \in [Tasks -> BOOLEAN]
    BY <1>3, <2>1 DEF CancelCompletes, CancelStatus, ToolTypeOK, State
  <2>3. /\ taskModels' \in SUBSET Tasks
        /\ plist' \in [Tasks -> Entry \cup {Nil}]
    BY <1>3, <2>1, <2>2, ChangeWrites DEF CancelCompletes, ToolTypeOK
  <2>4. /\ net' \in [Xfers -> NetState]
        /\ cancels' \in [Xfers -> 0..MaxCancels]
    BY <1>3, ToolAssumption DEF CancelCompletes, ToolTypeOK, NetState
  <2>5. ToolTypeOK'
    BY <1>3, <2>2, <2>3, <2>4 DEF CancelCompletes, ToolTypeOK, Unmarked
  <2>6. xfer[k].block \notin {"none", "queued"}
    BY <1>3, ToolAssumption DEF CancelCompletes, ToolTypeOK, OwnerOK
  <2>7. OwnerOK'
    BY <1>3, <2>6 DEF CancelCompletes, ToolTypeOK, OwnerOK
  <2>8. QED
    BY <2>5, <2>7
<1>4. QED
  BY <1>1, <1>2, <1>3 DEF Callback

LEMMA MoveTypes ==
  ASSUME TypeInv, MoveFile
  PROVE  ToolTypeOK' /\ OwnerOK'
<1>1. files' \in [Tasks -> FileState]
  BY DEF MoveFile, Moved, Missed, FileState, TypeInv, ToolTypeOK, OwnerOK
<1>2. QED
  BY <1>1, ToolAssumption
     DEF MoveFile, TypeInv, ToolTypeOK, OwnerOK, taskVars, xferVars

LEMMA LaunchTypes ==
  ASSUME TypeInv, NEW p \in [Tasks -> Entry \cup {Nil}], Launch(p)
  PROVE  ToolTypeOK' /\ OwnerOK'
<1>1. /\ status' \in [Tasks -> State]
      /\ data' \in [Tasks -> BOOLEAN]
  BY NilAssumption DEF Launch, State, Entry
<1>2. /\ taskModels' \in SUBSET Tasks
      /\ files' \in [Tasks -> FileState]
      /\ xfer' \in [Xfers -> [task : Tasks \cup {Nil}, block : BlockState]]
      /\ net' \in [Xfers -> NetState]
      /\ cancels' \in [Xfers -> 0..MaxCancels]
  BY ToolAssumption
     DEF Launch, Missed, FileState, TypeInv, ToolTypeOK, BlockState, NetState
<1>3. ToolTypeOK'
  BY <1>1, <1>2 DEF Launch, ToolTypeOK
<1>4. OwnerOK'
  BY DEF Launch, OwnerOK
<1>5. QED
  BY <1>3, <1>4

\* What appTerminate writes before the process ends.
LEMMA TerminateWrites ==
  ASSUME TypeInv, appTerminate
  PROVE  \E p \in [Tasks -> Entry \cup {Nil}] : Launch(p)
<1> DEFINE p == [t \in Tasks |-> IF t \in taskModels
                                   THEN Saved(status[t], data[t])
                                   ELSE plist[t]]
<1>1. p \in [Tasks -> Entry \cup {Nil}]
  BY DEF TypeInv, ToolTypeOK, Saved, Entry
<1>2. Launch(p)
  BY DEF appTerminate
<1> HIDE DEF p
<1>3. QED
  BY <1>1, <1>2

LEMMA TypesStep ==
  ASSUME TypeInv, [Next]_vars
  PROVE  ToolTypeOK' /\ OwnerOK'
<1>1. ASSUME NEW t \in Tasks, Api(t)
      PROVE  ToolTypeOK' /\ OwnerOK'
  BY <1>1, AddTypes, StartTypes, CancelTypes, SuspendTypes, ResumeTypes,
     DeleteTypes DEF Api, startDownLoad, cancelDownLoad, suspendDownLoad
<1>2. CASE cancelAllTasks
  BY <1>2, CancelTypes DEF cancelAllTasks
<1>3. CASE suspendAllTasks
  BY <1>3, SuspendTypes DEF suspendAllTasks
<1>4. ASSUME NEW k \in Xfers,
             Block(k) \/ NetProgress(k) \/ NetEnds(k) \/ Callback(k)
      PROVE  ToolTypeOK' /\ OwnerOK'
  BY <1>4, BlockTypes, NetTypes, CallbackTypes
<1>5. CASE MoveFile
  BY <1>5, MoveTypes
<1>6. CASE UNCHANGED toolVars
  BY <1>6 DEF TypeInv, ToolTypeOK, OwnerOK, toolVars, taskVars, xferVars
<1>7. CASE Crash
  BY <1>7, LaunchTypes DEF Crash, TypeInv, ToolTypeOK
<1>8. CASE appTerminate
  BY <1>8, TerminateWrites, LaunchTypes
<1>9. QED
  BY <1>1, <1>2, <1>3, <1>4, <1>5, <1>6, <1>7, <1>8 DEF Next, vars

\* Of the manager's own steps, only the end of a download and a launch touch the
\* background part.
LEMMA BackgroundStep ==
  ASSUME TypeInv, [Next]_vars
  PROVE  BgInv'
<1> USE DEF TypeInv
<1>1. CASE UNCHANGED bgVars
  BY <1>1 DEF BgInv, BgTypeOK, HeldIsKnown, ActiveHoldsNone, Held, bgVars
<1>2. ASSUME NEW t \in Tasks, Api(t)
      PROVE  UNCHANGED bgVars
  BY <1>2 DEF Api, addDownLoadTask, startDownLoad, start, cancelDownLoad,
              cancelAll, suspendDownLoad, suspendAll, resumeDownLoad,
              deleteDownLoadTask
<1>3. CASE cancelAllTasks \/ suspendAllTasks
  BY <1>1, <1>3 DEF cancelAllTasks, cancelAll, suspendAllTasks, suspendAll
<1>4. ASSUME NEW k \in Xfers,
             Block(k) \/ NetProgress(k) \/ NetEnds(k) \/ Callback(k)
      PROVE  UNCHANGED bgVars
  BY <1>4 DEF Block, CreateTransfer, ResumeTransfer, NetProgress, NetEnds,
              Callback, didWriteData, didFinishDownloading, CancelCompletes
<1>5. CASE MoveFile
  BY <1>1, <1>5, StopHoldsNone DEF MoveFile, BgInv, BgTypeOK
<1>6. CASE BgNext
  BY <1>6, BgNextInv
<1>7. CASE Crash \/ appTerminate
  BY <1>7, BgLaunchInv DEF Crash, appTerminate, Launch
<1>8. CASE UNCHANGED vars
  BY <1>1, <1>8 DEF vars
<1>9. QED
  BY <1>1, <1>2, <1>3, <1>4, <1>5, <1>6, <1>7, <1>8 DEF Next

LEMMA TypeInvCorrect == Spec => []TypeInv
<1>1. TypeInv /\ [Next]_vars => TypeInv'
  BY TypesStep, BackgroundStep DEF TypeInv
<1>2. QED
  BY <1>1, InitTypeInv, PTL DEF Spec

\* Type correctness of the manager with its background part.
THEOREM TypeCorrect == Spec => []TypeOK
<1>1. TypeInv => TypeOK
  BY DEF TypeInv, ToolTypeOK, BgInv, TypeOK
<1>2. QED
  BY <1>1, TypeInvCorrect, PTL

\* Whatever the user, the system and the expiration handlers do, UIKit never
\* counts a background task the tool does not know (startBackgroundTask,
\* applyForMoreTime, stopBackgroundTask).
THEOREM BackgroundCorrect == Spec => []HeldIsKnown
<1>1. TypeInv => HeldIsKnown
  BY DEF TypeInv, BgInv
<1>2. QED
  BY <1>1, TypeInvCorrect, PTL

\* An active application holds no background task: appActive has ended the one
\* that resigning began, however the expiration handlers and the timer came.
THEOREM ActiveCorrect == Spec => []ActiveHoldsNone
<1>1. TypeInv => ActiveHoldsNone
  BY DEF TypeInv, BgInv
<1>2. QED
  BY <1>1, TypeInvCorrect, PTL

-----------------------------------------------------------------------------
(* The plist is the registry.                                              *)

\* A call that changes the fields of the tasks of S only, and then runs
\* changeDownLoadTask on them.
LEMMA ChangeMirrors ==
  ASSUME TypeInv, TypeInv', PlistMirrorsMemory,
         NEW S \in SUBSET Tasks, changeDownLoadTasks(S),
         \A t \in Tasks \ S : status'[t] = status[t] /\ data'[t] = data[t]
  PROVE  PlistMirrorsMemory'
<1>1. /\ taskModels' = taskModels \cup S
      /\ \A t \in S : plist'[t] = Saved(status'[t], data'[t])
      /\ \A t \in Tasks \ S : plist'[t] = plist[t]
  BY ChangeWrites DEF TypeInv, ToolTypeOK
<1>2. QED
  BY <1>1 DEF PlistMirrorsMemory, Saved

LEMMA ApiMirrors ==
  ASSUME TypeInv, TypeInv', PlistMirrorsMemory, NEW t \in Tasks, Api(t)
  PROVE  PlistMirrorsMemory'
<1>1. CASE addDownLoadTask(t)
  BY <1>1, ChangeMirrors DEF addDownLoadTask, taskVars
<1>2. ASSUME NEW k \in Xfers, startDownLoad(t, k)
      PROVE  PlistMirrorsMemory'
  <2>1. CASE t \in taskModels
    BY <1>2, <2>1 DEF startDownLoad, start, PlistMirrorsMemory
  <2>2. CASE t \notin taskModels
    BY <1>2, <2>2, ChangeMirrors DEF startDownLoad, start
  <2>3. QED
    BY <2>1, <2>2
<1>3. CASE cancelDownLoad(t)
  BY <1>3 DEF cancelDownLoad, cancelAll, taskVars, PlistMirrorsMemory
<1>4. CASE suspendDownLoad(t)
  <2>1. Reachable({t}) \in SUBSET Tasks
    BY DEF Reachable
  <2>2. QED
    BY <1>4, <2>1, ChangeMirrors
       DEF suspendDownLoad, suspendAll, TypeInv, ToolTypeOK
<1>5. CASE resumeDownLoad(t)
  BY <1>5 DEF resumeDownLoad, taskVars, PlistMirrorsMemory
<1>6. CASE deleteDownLoadTask(t)
  BY <1>6 DEF deleteDownLoadTask, Write, taskVars, PlistMirrorsMemory
<1>7. QED
  BY <1>1, <1>2, <1>3, <1>4, <1>5, <1>6 DEF Api

LEMMA CallbackMirrors ==
  ASSUME TypeInv, TypeInv', PlistMirrorsMemory, NEW k \in Xfers, Callback(k)
  PROVE  PlistMirrorsMemory'
<1> DEFINE t == xfer[k].task
<1>1. CASE didWriteData(k)
  <2>1. t \in Tasks
    BY <1>1 DEF didWriteData, TypeInv, ToolTypeOK, OwnerOK, BlockState
  <2>2. CASE t \in taskModels
    BY <1>1, <2>1, <2>2, ChangeMirrors
       DEF didWriteData, TypeInv, ToolTypeOK
  <2>3. CASE t \notin taskModels
    BY <1>1, <2>3 DEF didWriteData, taskVars, PlistMirrorsMemory
  <2>4. QED
    BY <2>2, <2>3
<1>2. CASE didFinishDownloading(k)
  <2>1. t \in Tasks
    BY <1>2 DEF didFinishDownloading, TypeInv, ToolTypeOK, OwnerOK, BlockState
  <2>2. CASE t \in taskModels
    BY <1>2, <2>1, <2>2, ChangeMirrors
       DEF didFinishDownloading, Known, TypeInv, ToolTypeOK
  <2>3. CASE t \notin taskModels
    BY <1>2, <2>3 DEF didFinishDownloading, Known, taskVars, PlistMirrorsMemory
  <2>4. QED
    BY <2>2, <2>3
<1>3. CASE CancelCompletes(k)
  <2>1. t \in Tasks
    BY <1>3, ToolAssumption
       DEF CancelCompletes, TypeInv, ToolTypeOK, OwnerOK, BlockState
  <2>2. QED
    BY <1>3, <2>1, ChangeMirrors DEF CancelCompletes, TypeInv, ToolTypeOK
<1>4. QED
  BY <1>1, <1>2, <1>3 DEF Callback

\* A new process has read back what the plist it found says.
LEMMA LaunchMirrors ==
  ASSUME NEW p \in [Tasks -> Entry \cup {Nil}], Launch(p)
  PROVE  PlistMirrorsMemory'
BY NilAssumption DEF Launch, PlistMirrorsMemory, Saved, Entry

LEMMA MirrorStep ==
  ASSUME TypeInv, TypeInv', PlistMirrorsMemory, [Next]_vars
  PROVE  PlistMirrorsMemory'
<1>1. CASE cancelAllTasks
  BY <1>1 DEF cancelAllTasks, cancelAll, taskVars, PlistMirrorsMemory
<1>2. CASE suspendAllTasks
  <2>1. Reachable(Tasks) \in SUBSET Tasks
    BY DEF Reachable
  <2>2. QED
    BY <1>2, <2>1, ChangeMirrors
       DEF suspendAllTasks, suspendAll, TypeInv, ToolTypeOK
<1>3. ASSUME NEW k \in Xfers, Block(k) \/ NetProgress(k) \/ NetEnds(k)
      PROVE  UNCHANGED <<plist, taskModels, status, data>>
  BY <1>3 DEF Block, CreateTransfer, ResumeTransfer, NetProgress, NetEnds,
              taskVars
<1>4. CASE MoveFile \/ UNCHANGED toolVars
  BY <1>4 DEF MoveFile, toolVars, taskVars, PlistMirrorsMemory
<1>5. CASE Crash
  BY <1>5, LaunchMirrors DEF Crash, TypeInv, ToolTypeOK
<1>6. CASE appTerminate
  BY <1>6, TerminateWrites, LaunchMirrors
<1>7. QED
  BY <1>1, <1>2, <1>3, <1>4, <1>5, <1>6, ApiMirrors, CallbackMirrors
     DEF Next, vars, PlistMirrorsMemory

\* After every handler the file self.path holds exactly what the registry holds
\* (addDownLoadTask, changeDownLoadTask, deleteDownLoadTask, appTerminate), so
\* that a process that dies between two handlers loses nothing.
THEOREM PlistCorrect == Spec => []PlistMirrorsMemory
<1>1. Init => PlistMirrorsMemory
  BY DEF Init, PlistMirrorsMemory
<1>2. QED
  BY <1>1, MirrorStep, TypeInvCorrect, PTL DEF Spec

-----------------------------------------------------------------------------
(* The tasks in progress.                                                  *)

\* What InProgressIsLive needs beside the types: a mark has something live
\* behind it, and no transfer fails silently.
ProgressInv ==
  /\ \A t \in downLoadTaskModels :
       \E k \in Xfers : xfer[k].task = t /\ Live(k)
  /\ \A k \in Xfers : net[k] # "failed"
  /\ \A k \in Xfers : xfer[k].block \in {"created", "done"} => net[k] # "none"

\* A step that clears no mark but those of D keeps the others' transfers live.
LEMMA MarksKept ==
  ASSUME TypeInv, ProgressInv, NEW D,
         downLoadTaskModels' = downLoadTaskModels \ D,
         \A k \in Xfers : Live(k) /\ xfer[k].task \notin D =>
           Live(k)' /\ xfer'[k].task = xfer[k].task
  PROVE  \A t \in downLoadTaskModels' :
           \E k \in Xfers : xfer'[k].task = t /\ Live(k)'
<1>1. TAKE t \in downLoadTaskModels'
<1>2. t \in downLoadTaskModels /\ t \notin D
  OBVIOUS
<1>3. PICK k \in Xfers : xfer[k].task = t /\ Live(k)
  BY <1>2 DEF ProgressInv
<1>4. QED
  BY <1>2, <1>3

LEMMA StartProgress ==
  ASSUME TypeInv, ProgressInv, NEW t \in Tasks, NEW k \in Xfers, start(t, k)
  PROVE  ProgressInv'
<1> USE DEF TypeInv, ToolTypeOK
<1>1. /\ xfer'[k].task = t
      /\ xfer'[k].block = "queued"
      /\ \A j \in Xfers \ {k} : xfer'[j] = xfer[j]
      /\ UNCHANGED <<net, cancels>>
      /\ downLoadTaskModels' = downLoadTaskModels \cup {t}
  BY DEF start, Marked
<1>2. ~Live(k)
  BY ToolAssumption DEF Live, Transferring, start, OwnerOK
<1>3. Live(k)'
  BY <1>1 DEF Live, Transferring
<1>4. \A j \in Xfers \ {k} : Live(j) => Live(j)'
  BY <1>1 DEF Live, Transferring
<1>5. \A u \in downLoadTaskModels' :
        \E j \in Xfers : xfer'[j].task = u /\ Live(j)'
  BY <1>1, <1>2, <1>3, <1>4 DEF ProgressInv
<1>6. QED
  BY <1>1, <1>5 DEF ProgressInv

\* A step that unmarks nothing and ends nothing.
LEMMA QuietProgress ==
  ASSUME TypeInv, ProgressInv,
         downLoadTaskModels' = downLoadTaskModels,
         \A k \in Xfers : xfer'[k].task = xfer[k].task,
         \A k \in Xfers : Live(k) => Live(k)',
         \A k \in Xfers : net'[k] # "failed",
         \A k \in Xfers : xfer'[k].block \in {"created", "done"} =>
                            net'[k] # "none"
  PROVE  ProgressInv'
<1>1. downLoadTaskModels' = downLoadTaskModels \ {}
  OBVIOUS
<1>2. QED
  BY <1>1, MarksKept DEF ProgressInv

LEMMA ApiProgress ==
  ASSUME TypeInv, ProgressInv, NEW t \in Tasks, Api(t)
  PROVE  ProgressInv'
<1> USE DEF TypeInv, ToolTypeOK
<1>1. CASE addDownLoadTask(t) \/ deleteDownLoadTask(t)
  BY <1>1 DEF addDownLoadTask, deleteDownLoadTask, xferVars, Live,
              Transferring, ProgressInv
<1>2. CASE \E k \in Xfers : startDownLoad(t, k)
  BY <1>2, StartProgress DEF startDownLoad
<1>3. ASSUME NEW S \in SUBSET Tasks, cancelAll(S)
      PROVE  ProgressInv'
  <2>1. \A k \in Xfers : Live(k) => Live(k)'
    BY <1>3, ToolAssumption DEF cancelAll, Live, Transferring
  <2>2. QED
    BY <1>3, <2>1, QuietProgress DEF cancelAll, ProgressInv
<1>4. ASSUME NEW S \in SUBSET Tasks, suspendAll(S)
      PROVE  ProgressInv'
  <2>1. \A k \in Xfers : Live(k) => Live(k)'
    BY <1>4 DEF suspendAll, Suspended, Live, Transferring
  <2>2. QED
    BY <1>4, <2>1, QuietProgress DEF suspendAll, Suspended, ProgressInv
<1>5. CASE resumeDownLoad(t)
  <2>1. \A k \in Xfers : Live(k) => Live(k)'
    BY <1>5 DEF resumeDownLoad, Resumed, Live, Transferring
  <2>2. QED
    BY <1>5, <2>1, QuietProgress DEF resumeDownLoad, Resumed, ProgressInv
<1>6. QED
  BY <1>1, <1>2, <1>3, <1>4, <1>5 DEF Api, cancelDownLoad, suspendDownLoad

LEMMA BlockProgress ==
  ASSUME TypeInv, ProgressInv, NEW k \in Xfers, Block(k)
  PROVE  ProgressInv'
<1> USE DEF TypeInv, ToolTypeOK
<1>1. CASE CreateTransfer(k)
  <2>1. \A j \in Xfers : Live(j) => Live(j)'
    BY <1>1 DEF CreateTransfer, Live, Transferring
  <2>2. \A j \in Xfers : xfer'[j].task = xfer[j].task
    BY <1>1 DEF CreateTransfer
  <2>3. \A j \in Xfers : net'[j] # "failed"
    BY <1>1 DEF CreateTransfer, ProgressInv
  <2>4. \A j \in Xfers : xfer'[j].block \in {"created", "done"} =>
                           net'[j] # "none"
    BY <1>1 DEF CreateTransfer, ProgressInv
  <2>5. QED
    BY <1>1, <2>1, <2>2, <2>3, <2>4, QuietProgress DEF CreateTransfer
<1>2. CASE ResumeTransfer(k)
  <2> DEFINE d == downLoadTask[xfer[k].task]
  <2>1. d \in Xfers
    BY <1>2, ToolAssumption DEF ResumeTransfer, OwnerOK
  <2>2. net' = [net EXCEPT ![d] = Resumed(@)]
    BY <1>2 DEF ResumeTransfer
  <2>3. xfer' = [xfer EXCEPT ![k].block = "done"]
    BY <1>2 DEF ResumeTransfer
  <2> HIDE DEF d
  <2>4. \A j \in Xfers : Live(j) => Live(j)'
    BY <1>2, <2>1, <2>2, <2>3
       DEF ResumeTransfer, Resumed, Live, Transferring
  <2>5. \A j \in Xfers : xfer'[j].task = xfer[j].task
    BY <2>3
  <2>6. \A j \in Xfers : net'[j] # "failed"
    BY <2>1, <2>2 DEF Resumed, ProgressInv
  <2>7. \A j \in Xfers : xfer'[j].block \in {"created", "done"} =>
                           net'[j] # "none"
    BY <1>2, <2>1, <2>2, <2>3 DEF ResumeTransfer, Resumed, ProgressInv
  <2>8. QED
    BY <1>2, <2>4, <2>5, <2>6, <2>7, QuietProgress DEF ResumeTransfer
<1>3. QED
  BY <1>1, <1>2 DEF Block

LEMMA CallbackProgress ==
  ASSUME TypeInv, ProgressInv, NEW k \in Xfers, Callback(k)
  PROVE  ProgressInv'
<1> USE DEF TypeInv, ToolTypeOK
<1>1. CASE didWriteData(k)
  BY <1>1 DEF didWriteData, Live, Transferring, ProgressInv
<1>2. CASE didFinishDownloading(k)
  <2>1. \A j \in Xfers : Live(j) /\ j # k => Live(j)'
    BY <1>2 DEF didFinishDownloading, Live, Transferring
  <2>2. \A t \in downLoadTaskModels' :
          \E j \in Xfers : xfer'[j].task = t /\ Live(j)'
    BY <1>2, <2>1, MarksKept DEF didFinishDownloading, Unmarked
  <2>3. QED
    BY <1>2, <2>2 DEF didFinishDownloading, ProgressInv
<1>3. CASE CancelCompletes(k)
  <2>1. \A j \in Xfers : Live(j) /\ j # k => Live(j)'
    BY <1>3 DEF CancelCompletes, Live, Transferring
  <2>2. \A t \in downLoadTaskModels' :
          \E j \in Xfers : xfer'[j].task = t /\ Live(j)'
    BY <1>3, <2>1, MarksKept DEF CancelCompletes, Unmarked
  <2>3. QED
    BY <1>3, <2>2 DEF CancelCompletes, ProgressInv
<1>4. QED
  BY <1>1, <1>2, <1>3 DEF Callback

LEMMA ProgressStep ==
  ASSUME TypeInv, ProgressInv, [Next]_vars, "network" \notin Faults
  PROVE  ProgressInv'
<1> USE DEF TypeInv, ToolTypeOK
<1>1. CASE cancelAllTasks
  <2>1. \A k \in Xfers : Live(k) => Live(k)'
    BY <1>1, ToolAssumption
       DEF cancelAllTasks, cancelAll, Live, Transferring
  <2>2. QED
    BY <1>1, <2>1, QuietProgress DEF cancelAllTasks, cancelAll, ProgressInv
<1>2. CASE suspendAllTasks
  <2>1. \A k \in Xfers : Live(k) => Live(k)'
    BY <1>2 DEF suspendAllTasks, suspendAll, Suspended, Live, Transferring
  <2>2. QED
    BY <1>2, <2>1, QuietProgress
       DEF suspendAllTasks, suspendAll, Suspended, ProgressInv
<1>3. ASSUME NEW k \in Xfers, NetProgress(k) \/ NetEnds(k)
      PROVE  ProgressInv'
  <2>1. CASE NetProgress(k)
    BY <2>1 DEF NetProgress, Live, Transferring, ProgressInv
  <2>2. CASE NetEnds(k)
    <3>1. net' = [net EXCEPT ![k] = "finished"]
      BY <2>2 DEF NetEnds
    <3>2. \A j \in Xfers : Live(j) => Live(j)'
      BY <2>2, <3>1 DEF NetEnds, Live, Transferring
    <3>3. QED
      BY <2>2, <3>1, <3>2, QuietProgress DEF NetEnds, ProgressInv
  <2>3. QED
    BY <1>3, <2>1, <2>2
<1>4. CASE MoveFile \/ UNCHANGED toolVars
  <2>1. UNCHANGED <<downLoadTaskModels, xferVars>>
    BY <1>4 DEF MoveFile, toolVars
  <2>2. QED
    BY <2>1 DEF xferVars, Live, Transferring, ProgressInv
<1>5. CASE Crash \/ appTerminate
  BY <1>5 DEF Crash, appTerminate, Launch, ProgressInv
<1>6. QED
  BY <1>1, <1>2, <1>3, <1>4, <1>5, ApiProgress, BlockProgress,
     CallbackProgress DEF Next, vars

\* Whatever calls arrive in whatever order, double starts, late cancels and
\* deletes included, a task in self.downLoadTaskModels has a start block, a
\* transfer or a cancel completion still to come that clears its mark
\* (startDownLoad..., didFinishDownloading, cancelDownLoad).
THEOREM ProgressCorrect == Spec => []InProgressIsLive
<1>1. CASE "network" \in Faults
  <2>1. InProgressIsLive
    BY <1>1 DEF InProgressIsLive
  <2>2. QED
    BY <2>1, PTL
<1>2. CASE "network" \notin Faults
  <2>1. Init => ProgressInv
    BY DEF Init, FreshXfers, ProgressInv
  <2>2. TypeInv /\ ProgressInv /\ [Next]_vars => ProgressInv'
    BY <1>2, ProgressStep
  <2>3. ProgressInv => InProgressIsLive
    BY DEF ProgressInv, InProgressIsLive, LiveXfers
  <2>4. QED
    BY <2>1, <2>2, <2>3, TypeInvCorrect, PTL DEF Spec
<1>3. QED
  BY <1>1, <1>2

-----------------------------------------------------------------------------
(* The end of a task's last transfer.                                      *)

\* A transfer with no block has no life, so that a start takes none from a task.
LEMMA StartAddsLive ==
  ASSUME TypeInv, NEW t \in Tasks, NEW k \in Xfers, start(t, k)
  PROVE  /\ k \in LiveXfers(t)'
         /\ \A u \in Tasks : LiveXfers(u) \subseteq LiveXfers(u)'
<1>1. /\ xfer' = [xfer EXCEPT ![k] = [task |-> t, block |-> "queued"]]
      /\ net' = net /\ cancels' = cancels
      /\ xfer[k].block = "none"
  BY DEF start
<1>2. DOMAIN xfer = Xfers
  BY DEF TypeInv, ToolTypeOK
<1>3. xfer'[k] = [task |-> t, block |-> "queued"] /\ \A j \in Xfers \ {k} : xfer'[j] = xfer[j]
  BY <1>1, <1>2
<1>4. net[k] = "none" /\ cancels[k] = 0
  BY <1>1 DEF TypeInv, OwnerOK
<1>5. ~Live(k)
  BY <1>1, <1>4 DEF Live, Transferring
<1>6. k \in LiveXfers(t)'
  BY <1>3 DEF LiveXfers, Live, Transferring
<1>7. ASSUME NEW u \in Tasks, NEW j \in LiveXfers(u)
      PROVE  j \in LiveXfers(u)'
  BY <1>1, <1>3, <1>5, <1>7 DEF LiveXfers, Live, Transferring
<1>8. QED
  BY <1>6, <1>7

\* A suspend leaves the transfer it stops on its way.
LEMMA SuspendKeepsLive ==
  ASSUME NEW S \in SUBSET Tasks, suspendAll(S), NEW u \in Tasks
  PROVE  LiveXfers(u) \subseteq LiveXfers(u)'
<1>1. /\ xfer' = xfer /\ cancels' = cancels
      /\ \A j \in Xfers : net'[j] = net[j] \/ (net[j] = "running" /\ net'[j] = "suspended")
  BY DEF suspendAll, Suspended
<1>2. QED
  BY <1>1 DEF LiveXfers, Live, Transferring

\* A transfer that is created, resumed or makes progress stays on its way, and so
\* does one whose end waits for its callback, unless it fails.
LEMMA BesideKeepsLive ==
  ASSUME TypeInv, NEW k \in Xfers, Block(k) \/ NetProgress(k) \/ NetEnds(k),
         "network" \notin Faults, NEW u \in Tasks
  PROVE  LiveXfers(u) \subseteq LiveXfers(u)'
<1>1. DOMAIN xfer = Xfers /\ DOMAIN net = Xfers
  BY DEF TypeInv, ToolTypeOK
<1>2. CASE CreateTransfer(k)
  <2>1. /\ xfer' = [xfer EXCEPT ![k].block = "created"]
        /\ net' = [net EXCEPT ![k] = "suspended"]
        /\ cancels' = cancels
    BY <1>2 DEF CreateTransfer
  <2>2. /\ net'[k] = "suspended" /\ xfer'[k].task = xfer[k].task
        /\ \A j \in Xfers \ {k} : net'[j] = net[j] /\ xfer'[j] = xfer[j]
    BY <1>1, <2>1 DEF TypeInv, ToolTypeOK
  <2>3. QED
    BY <2>1, <2>2 DEF LiveXfers, Live, Transferring
<1>3. CASE ResumeTransfer(k)
  <2> DEFINE d == downLoadTask[xfer[k].task]
  <2>1. /\ xfer' = [xfer EXCEPT ![k].block = "done"]
        /\ net' = [net EXCEPT ![d] = Resumed(@)]
        /\ cancels' = cancels
        /\ xfer[k].block = "created"
    BY <1>3 DEF ResumeTransfer
  <2>2. \A j \in Xfers : net'[j] = net[j] \/ (net[j] = "suspended" /\ net'[j] = "running")
    BY <1>1, <2>1 DEF Resumed
  <2>3. /\ xfer'[k].task = xfer[k].task
        /\ \A j \in Xfers \ {k} : xfer'[j] = xfer[j]
    BY <1>1, <2>1 DEF TypeInv, ToolTypeOK
  <2>4. QED
    BY <2>1, <2>2, <2>3 DEF LiveXfers, Live, Transferring
<1>4. CASE NetProgress(k)
  BY <1>4 DEF NetProgress, xferVars, LiveXfers, Live, Transferring
<1>5. CASE NetEnds(k)
  <2>1. xfer' = xfer /\ cancels' = cancels /\ net' = [net EXCEPT ![k] = "finished"]
    BY <1>5 DEF NetEnds
  <2>2. net'[k] = "finished" /\ \A j \in Xfers \ {k} : net'[j] = net[j]
    BY <1>1, <2>1
  <2>3. QED
    BY <2>1, <2>2 DEF LiveXfers, Live, Transferring
<1>6. QED
  BY <1>2, <1>3, <1>4, <1>5 DEF Block

\* A cancel only asks: the transfer ends when its completion runs.
LEMMA CancelKeepsLive ==
  ASSUME TypeInv, NEW S \in SUBSET Tasks, cancelAll(S), NEW u \in Tasks
  PROVE  LiveXfers(u) \subseteq LiveXfers(u)'
<1>1. /\ xfer' = xfer
      /\ \A j \in Xfers :
           /\ net'[j] = net[j] \/ net'[j] = "cancelling"
           /\ cancels[j] > 0 => cancels'[j] > 0
  BY ToolAssumption DEF cancelAll, TypeInv, ToolTypeOK
<1>2. QED
  BY <1>1 DEF LiveXfers, Live, Transferring

\* Nor does any other call of the API end one.
LEMMA ApiKeepsLive ==
  ASSUME TypeInv, NEW t \in Tasks, Api(t), NEW u \in Tasks
  PROVE  LiveXfers(u) \subseteq LiveXfers(u)'
<1>1. CASE addDownLoadTask(t) \/ deleteDownLoadTask(t)
  BY <1>1 DEF addDownLoadTask, deleteDownLoadTask, xferVars, LiveXfers, Live,
              Transferring
<1>2. CASE resumeDownLoad(t)
  <2>1. /\ xfer' = xfer /\ cancels' = cancels
        /\ \A j \in Xfers :
             net'[j] = net[j] \/ (net[j] = "suspended" /\ net'[j] = "running")
    BY <1>2 DEF resumeDownLoad, Resumed, TypeInv, ToolTypeOK
  <2>2. QED
    BY <2>1 DEF LiveXfers, Live, Transferring
<1>3. QED
  BY <1>1, <1>2, StartAddsLive, CancelKeepsLive, SuspendKeepsLive
     DEF Api, startDownLoad, cancelDownLoad, suspendDownLoad

\* A callback ends transfers of its own task only, and one that ends the last
\* of a registered task leaves it completed or cancelled.
LEMMA CallbackRecordsEnd ==
  ASSUME TypeInv, NEW k \in Xfers, Callback(k),
         NEW t \in taskModels, LiveXfers(t) # {}, LiveXfers(t)' = {}
  PROVE  status'[t] # "Runing"
<1> USE DEF TypeInv, ToolTypeOK
<1>1. CASE didWriteData(k)
  BY <1>1 DEF didWriteData, LiveXfers, Live, Transferring
<1>2. CASE didFinishDownloading(k)
  <2>1. \A j \in Xfers \ {k} : Live(j)' <=> Live(j)
    BY <1>2 DEF didFinishDownloading, Live, Transferring
  <2>2. xfer' = xfer
    BY <1>2 DEF didFinishDownloading
  <2>3. xfer[k].task = t
    BY <2>1, <2>2 DEF LiveXfers
  <2>4. QED
    BY <1>2, <2>3 DEF didFinishDownloading, Known
<1>3. CASE CancelCompletes(k)
  <2>1. \A j \in Xfers \ {k} : Live(j)' <=> Live(j)
    BY <1>3 DEF CancelCompletes, Live, Transferring
  <2>2. xfer' = xfer
    BY <1>3 DEF CancelCompletes
  <2>3. xfer[k].task = t
    BY <2>1, <2>2 DEF LiveXfers
  <2>4. QED
    BY <1>3, <2>3 DEF CancelCompletes, CancelStatus
<1>4. QED
  BY <1>1, <1>2, <1>3 DEF Callback

LEMMA EndStep ==
  ASSUME TypeInv, [Next]_vars, "network" \notin Faults,
         NEW t \in taskModels, LiveXfers(t) # {}, LiveXfers(t)' = {}, session'[t]
  PROVE  status'[t] # "Runing"
<1>0. t \in Tasks
  BY DEF TypeInv, ToolTypeOK
<1>1. ~ (LiveXfers(t) \subseteq LiveXfers(t)')
  OBVIOUS
<1>2. ASSUME NEW u \in Tasks
      PROVE  ~Api(u)
  BY <1>0, <1>1, ApiKeepsLive
<1>3. ~cancelAllTasks /\ ~suspendAllTasks
  BY <1>0, <1>1, CancelKeepsLive, SuspendKeepsLive
     DEF cancelAllTasks, suspendAllTasks
<1>4. ASSUME NEW k \in Xfers
      PROVE  ~Block(k) /\ ~NetProgress(k) /\ ~NetEnds(k)
  BY <1>0, <1>1, BesideKeepsLive
<1>5. CASE MoveFile \/ UNCHANGED toolVars
  BY <1>1, <1>5 DEF MoveFile, toolVars, xferVars, LiveXfers, Live, Transferring
<1>6. CASE Crash \/ appTerminate
  BY <1>0, <1>6 DEF Crash, appTerminate, Launch
<1>7. QED
  BY <1>2, <1>3, <1>4, <1>5, <1>6, CallbackRecordsEnd DEF Next, vars

\* The end of the last transfer of a task that is still registered, by the finish
\* of the download or by a cancel and in whatever order the two callbacks come,
\* takes the task out of 下载中 (didFinishDownloading, the completion of
\* cancelByProducingResumeData). A transfer that fails is the exception.
THEOREM EndCorrect ==
  ASSUME "network" \notin Faults
  PROVE  Spec => EndIsRecorded
<1>1. TypeInv /\ [Next]_vars =>
        [\A t \in taskModels \cap taskModels' :
           LiveXfers(t) # {} /\ LiveXfers(t)' = {} /\ session'[t]
             => status'[t] # "Runing"]_vars
  BY EndStep
<1>2. QED
  BY <1>1, TypeInvCorrect, PTL DEF Spec, EndIsRecorded

-----------------------------------------------------------------------------
(* A deletion lasts.                                                       *)

\* A task of which nothing is left, and of which a step registers nothing and
\* brings nothing to life, stays forgotten.
LEMMA NothingRevived ==
  ASSUME NEW t \in Tasks, Forgotten(t), t \notin taskModels',
         \A k \in Xfers :
           Live(k)' /\ xfer'[k].task = t => Live(k) /\ xfer[k].task = t
  PROVE  Forgotten(t)'
BY DEF Forgotten, LiveXfers

\* Cancels and suspends, of one task or of all, reach registered tasks only.
LEMMA CancelForgets ==
  ASSUME TypeInv, NEW t \in Tasks, Forgotten(t), NEW S \in SUBSET Tasks, cancelAll(S)
  PROVE  Forgotten(t)'
<1>1. t \notin taskModels
  BY DEF Forgotten
<1>2. \A k \in Current(S) : k \in Xfers /\ xfer[k].task # t
  BY <1>1 DEF Current, Reachable, TypeInv, ToolTypeOK, OwnerOK
<1>3. /\ UNCHANGED <<xfer, taskModels>>
      /\ \A k \in Xfers : xfer[k].task = t =>
           net'[k] = net[k] /\ cancels'[k] = cancels[k]
  BY <1>2 DEF cancelAll, TypeInv, ToolTypeOK
<1>4. QED
  BY <1>1, <1>3, NothingRevived DEF Live, Transferring

LEMMA SuspendForgets ==
  ASSUME TypeInv, NEW t \in Tasks, Forgotten(t), NEW S \in SUBSET Tasks, suspendAll(S)
  PROVE  Forgotten(t)'
<1>1. t \notin taskModels' /\ UNCHANGED <<xfer, cancels>>
  BY DEF Forgotten, suspendAll, changeDownLoadTasks, Reachable
<1>2. \A k \in Xfers : net'[k] = net[k] \/ net[k] = "running"
  BY DEF suspendAll, Suspended
<1>3. QED
  BY <1>1, <1>2, NothingRevived DEF Live, Transferring

\* A start brings back its own task only.
LEMMA StartForgets ==
  ASSUME TypeInv, NEW t \in Tasks, Forgotten(t), NEW u \in Tasks \ {t},
         NEW j \in Xfers, start(u, j)
  PROVE  Forgotten(t)'
<1>1. t \notin taskModels'
  BY DEF Forgotten, start, changeDownLoadTasks
<1>2. /\ xfer'[j].task = u /\ \A k \in Xfers \ {j} : xfer'[k] = xfer[k]
      /\ UNCHANGED <<net, cancels>>
  BY DEF start, TypeInv, ToolTypeOK
<1>3. QED
  BY <1>1, <1>2, NothingRevived DEF Live, Transferring

\* A call reaches registered tasks only, or its own.
LEMMA ApiForgets ==
  ASSUME TypeInv, NEW t \in Tasks, Forgotten(t), NEW u \in Tasks, Api(u),
         u = t => ~addDownLoadTask(t) /\ \A k \in Xfers : ~startDownLoad(t, k)
  PROVE  Forgotten(t)'
<1> USE DEF TypeInv, ToolTypeOK
<1>1. t \notin taskModels
  BY DEF Forgotten
<1>2. CASE addDownLoadTask(u)
  BY <1>1, <1>2, NothingRevived
     DEF addDownLoadTask, changeDownLoadTasks, xferVars, Live, Transferring
<1>3. CASE resumeDownLoad(u)
  <2>1. UNCHANGED <<xfer, cancels, taskModels>>
    BY <1>3 DEF resumeDownLoad
  <2>2. \A k \in Xfers : net'[k] = net[k] \/ net[k] = "suspended"
    BY <1>3 DEF resumeDownLoad, Resumed
  <2>3. QED
    BY <1>1, <2>1, <2>2, NothingRevived DEF Live, Transferring
<1>4. CASE deleteDownLoadTask(u)
  BY <1>1, <1>4, NothingRevived DEF deleteDownLoadTask, xferVars, Live, Transferring
<1>5. QED
  BY <1>2, <1>3, <1>4, StartForgets, CancelForgets, SuspendForgets
     DEF Api, startDownLoad, cancelDownLoad, suspendDownLoad

\* A block, a transfer or a callback of the task would have kept it from being
\* forgotten.
LEMMA TransferForgets ==
  ASSUME TypeInv, NEW t \in Tasks, Forgotten(t), NEW k \in Xfers,
         Block(k) \/ NetProgress(k) \/ NetEnds(k) \/ Callback(k)
  PROVE  Forgotten(t)'
<1> USE DEF TypeInv, ToolTypeOK
<1>1. t \notin taskModels /\ \A j \in Xfers : Live(j) => xfer[j].task # t
  BY DEF Forgotten, LiveXfers
<1>2. CASE CreateTransfer(k)
  <2>1. Live(k)
    BY <1>2 DEF CreateTransfer, Live, Transferring
  <2>2. /\ \A j \in Xfers \ {k} : xfer'[j] = xfer[j] /\ net'[j] = net[j]
        /\ xfer'[k].task = xfer[k].task
        /\ UNCHANGED <<cancels, taskModels>>
    BY <1>2 DEF CreateTransfer
  <2>3. QED
    BY <1>1, <2>1, <2>2, NothingRevived DEF Live, Transferring
<1>3. CASE ResumeTransfer(k)
  <2> DEFINE d == downLoadTask[xfer[k].task]
  <2>1. net' = [net EXCEPT ![d] = Resumed(@)]
    BY <1>3 DEF ResumeTransfer
  <2> HIDE DEF d
  <2>2. \A j \in Xfers : net'[j] = net[j] \/ net[j] = "suspended"
    BY <2>1 DEF Resumed
  <2>3. \A j \in Xfers : /\ xfer'[j].task = xfer[j].task
                         /\ xfer'[j].block = "queued" => xfer[j].block = "queued"
    BY <1>3 DEF ResumeTransfer
  <2>4. UNCHANGED <<cancels, taskModels>>
    BY <1>3 DEF ResumeTransfer
  <2>5. QED
    BY <1>1, <2>2, <2>3, <2>4, NothingRevived DEF Live, Transferring
<1>4. CASE NetProgress(k) \/ NetEnds(k)
  <2>1. UNCHANGED <<xfer, cancels, taskModels>>
    BY <1>4 DEF NetProgress, NetEnds
  <2>2. \A j \in Xfers : net'[j] = net[j] \/ net[j] = "running"
    BY <1>4 DEF NetProgress, NetEnds
  <2>3. QED
    BY <1>1, <2>1, <2>2, NothingRevived DEF Live, Transferring
<1>5. CASE didWriteData(k)
  <2>1. UNCHANGED <<xfer, net, cancels>>
    BY <1>5 DEF didWriteData
  <2>2. t \notin taskModels'
    BY <1>1, <1>5 DEF didWriteData, changeDownLoadTasks
  <2>3. QED
    BY <2>1, <2>2, NothingRevived DEF Live, Transferring
<1>6. CASE didFinishDownloading(k)
  <2>1. /\ UNCHANGED <<xfer, cancels>>
        /\ \A j \in Xfers : net'[j] = net[j] \/ net'[j] = "gone"
    BY <1>6 DEF didFinishDownloading
  <2>2. t \notin taskModels'
    BY <1>1, <1>6 DEF didFinishDownloading, Known, changeDownLoadTasks
  <2>3. QED
    BY <2>1, <2>2, NothingRevived DEF Live, Transferring
<1>7. CASE CancelCompletes(k)
  <2>1. xfer[k].task # t
    BY <1>1, <1>7 DEF CancelCompletes, Live
  <2>2. /\ UNCHANGED xfer
        /\ \A j \in Xfers \ {k} : net'[j] = net[j] /\ cancels'[j] = cancels[j]
    BY <1>7 DEF CancelCompletes
  <2>3. t \notin taskModels'
    BY <1>1, <1>7, <2>1 DEF CancelCompletes, changeDownLoadTasks
  <2>4. QED
    BY <2>1, <2>2, <2>3, NothingRevived DEF Live, Transferring
<1>8. QED
  BY <1>2, <1>3, <1>4, <1>5, <1>6, <1>7 DEF Block, Callback

\* The plist a new process reads has no entry of the task: here the proof needs
\* the plist to be the registry.
LEMMA LaunchForgets ==
  ASSUME PlistMirrorsMemory, NEW t \in Tasks, Forgotten(t), Crash \/ appTerminate
  PROVE  Forgotten(t)'
<1>1. t \notin taskModels /\ plist[t] = Nil
  BY DEF Forgotten, PlistMirrorsMemory
<1>2. t \notin taskModels'
  BY <1>1 DEF Crash, appTerminate, Launch
<1>3. \A k \in Xfers : ~Live(k)'
  BY DEF Crash, appTerminate, Launch, Live, Transferring
<1>4. QED
  BY <1>2, <1>3, NothingRevived

LEMMA ForgottenStep ==
  ASSUME TypeInv, PlistMirrorsMemory, [Next]_vars, NEW t \in Tasks, Forgotten(t),
         ~addDownLoadTask(t), \A k \in Xfers : ~startDownLoad(t, k)
  PROVE  Forgotten(t)'
<1>1. t \notin taskModels
  BY DEF Forgotten
<1>2. CASE cancelAllTasks \/ suspendAllTasks
  BY <1>2, CancelForgets, SuspendForgets DEF cancelAllTasks, suspendAllTasks
<1>3. CASE MoveFile \/ UNCHANGED toolVars
  BY <1>1, <1>3, NothingRevived
     DEF MoveFile, toolVars, xferVars, Live, Transferring
<1>4. QED
  BY <1>2, <1>3, ApiForgets, TransferForgets, LaunchForgets DEF Next, vars

\* A deletion lasts once nothing of the task is under way: no call on another
\* task, no callback, no crash and no end of the process registers it again or
\* starts a transfer of it (deleteDownLoadTask, the completion of
\* cancelByProducingResumeData, initDownLoadManage). Before that it does not
\* (DeletedStaysDeleted).
THEOREM ForgottenCorrect == Spec => ForgottenStays
<1>1. TypeInv /\ PlistMirrorsMemory /\ [Next]_vars =>
        [\A t \in Tasks :
           Forgotten(t) /\ ~Forgotten(t)' =>
             addDownLoadTask(t) \/ \E k \in Xfers : startDownLoad(t, k)]_vars
  BY ForgottenStep
<1>2. QED
  BY <1>1, TypeInvCorrect, PlistCorrect, PTL DEF Spec, ForgottenStays

-----------------------------------------------------------------------------
(* Completed downloads have their file.                                    *)

\* The file of a completed task has been moved or was missed, or its handler is
\* about to move it; the object of a deleted task keeps its status, hence every t.
CompletedInv ==
  \A t \in Tasks :
    status[t] = "Completed" =>
      \/ files[t] # "none"
      \/ finishing # Nil /\ xfer[finishing].task = t /\ t \in taskModels

\* A step between two handlers that completes nothing and removes no file.
LEMMA NothingCompleted ==
  ASSUME CompletedInv, Idle, files' = files,
         \A t \in Tasks : status'[t] = "Completed" => status[t] = "Completed"
  PROVE  CompletedInv'
BY DEF CompletedInv, Idle

LEMMA CallbackCompletes ==
  ASSUME TypeInv, CompletedInv, NEW k \in Xfers, Callback(k)
  PROVE  CompletedInv'
<1> USE DEF TypeInv, ToolTypeOK
<1>1. CASE didWriteData(k)
  BY <1>1, NothingCompleted DEF didWriteData, taskVars
<1>2. CASE didFinishDownloading(k)
  <2>1. \A t \in Tasks : status[t] = "Completed" => files'[t] # "none"
    BY <1>2 DEF didFinishDownloading, CompletedInv, Idle
  <2>2. CASE xfer[k].task \in taskModels
    <3>1. xfer[k].task \in taskModels'
      BY <1>2, <2>2 DEF didFinishDownloading, Known, changeDownLoadTasks
    <3>2. \A t \in Tasks : t # xfer[k].task => status'[t] = status[t]
      BY <1>2, <2>2 DEF didFinishDownloading, Known
    <3>3. finishing' = k /\ k # Nil /\ xfer'[k].task = xfer[k].task
      BY <1>2, ToolAssumption DEF didFinishDownloading
    <3>4. QED
      BY <2>1, <3>1, <3>2, <3>3 DEF CompletedInv
  <2>3. CASE xfer[k].task \notin taskModels
    BY <1>2, <2>1, <2>3 DEF didFinishDownloading, Known, taskVars, CompletedInv
  <2>4. QED
    BY <2>2, <2>3
<1>3. CASE CancelCompletes(k)
  BY <1>3, NothingCompleted DEF CancelCompletes, CancelStatus
<1>4. QED
  BY <1>1, <1>2, <1>3 DEF Callback

\* No launch invents a completion: the status it reads is the one the object had,
\* and the file of the handler that was interrupted counts as missed.
LEMMA LaunchCompletes ==
  ASSUME TypeInv, PlistMirrorsMemory, CompletedInv, Crash \/ appTerminate
  PROVE  CompletedInv'
<1> USE DEF TypeInv, ToolTypeOK
<1>1. SUFFICES ASSUME NEW t \in Tasks, status'[t] = "Completed"
               PROVE  files'[t] # "none"
  BY <1>1 DEF CompletedInv
<1>2. t \in taskModels /\ status[t] = "Completed"
  BY <1>1 DEF Crash, appTerminate, Launch, PlistMirrorsMemory, Saved
<1>3. files'[t] = IF Idle THEN files[t] ELSE Missed(finishing)[t]
  BY <1>2, NilAssumption
     DEF Crash, appTerminate, Launch, PlistMirrorsMemory, Saved, Entry
<1>4. QED
  BY <1>2, <1>3 DEF CompletedInv, Missed, Idle

LEMMA CompletedStep ==
  ASSUME TypeInv, PlistMirrorsMemory, CompletedInv, [Next]_vars
  PROVE  CompletedInv'
<1> USE DEF TypeInv, ToolTypeOK
<1>1. ASSUME NEW t \in Tasks, Api(t)
      PROVE  CompletedInv'
  BY <1>1, NothingCompleted
     DEF Api, addDownLoadTask, startDownLoad, start, cancelDownLoad, cancelAll,
         suspendDownLoad, suspendAll, resumeDownLoad, deleteDownLoadTask,
         taskVars
<1>2. CASE cancelAllTasks \/ suspendAllTasks
  BY <1>2, NothingCompleted
     DEF cancelAllTasks, cancelAll, suspendAllTasks, suspendAll, taskVars
<1>3. ASSUME NEW k \in Xfers, NetProgress(k) \/ NetEnds(k)
      PROVE  CompletedInv'
  BY <1>3 DEF NetProgress, NetEnds, taskVars, CompletedInv
<1>4. ASSUME NEW k \in Xfers, Block(k)
      PROVE  CompletedInv'
  <2>1. \A j \in Xfers : xfer'[j].task = xfer[j].task
    BY <1>4 DEF Block, CreateTransfer, ResumeTransfer
  <2>2. UNCHANGED <<status, files, finishing, taskModels>>
    BY <1>4 DEF Block, CreateTransfer, ResumeTransfer, taskVars
  <2>3. QED
    BY <2>1, <2>2 DEF CompletedInv
<1>5. CASE MoveFile
  BY <1>5 DEF MoveFile, Moved, Missed, taskVars, xferVars, CompletedInv
<1>6. CASE UNCHANGED toolVars
  BY <1>6 DEF toolVars, taskVars, xferVars, CompletedInv
<1>7. QED
  BY <1>1, <1>2, <1>3, <1>4, <1>5, <1>6, CallbackCompletes, LaunchCompletes
     DEF Next, vars

\* A registered task that shows 下载完成 has its file at task.path between two
\* handlers (didFinishDownloading, moveFilePath), whoever calls in whatever order
\* and through every death of the process, unless its own move failed or was
\* forestalled by such a death. What the status owes across launches it owes to
\* the plist, hence PlistMirrorsMemory.
THEOREM CompletedCorrect == Spec => []CompletedHasFile
<1>1. Init => CompletedInv
  BY DEF Init, CompletedInv
<1>2. TypeInv /\ PlistMirrorsMemory /\ CompletedInv /\ [Next]_vars => CompletedInv'
  BY CompletedStep
<1>3. TypeInv /\ CompletedInv => CompletedHasFile
  BY DEF TypeInv, ToolTypeOK, CompletedInv, CompletedHasFile, Idle
<1>4. QED
  BY <1>1, <1>2, <1>3, TypeInvCorrect, PlistCorrect, PTL DEF Spec

-----------------------------------------------------------------------------
(* A careful caller's transfers are marked.                                *)

\* With a careful caller a task has one live transfer, the tool can reach it
\* once it is created, a cancelled transfer does not run on, and the mark
\* follows.
CarefulInv ==
  /\ \A j, k \in Xfers :
       Live(j) /\ Live(k) /\ xfer[j].task = xfer[k].task => j = k
  /\ \A k \in Xfers :
       Live(k) /\ xfer[k].block \in {"created", "done"} =>
         downLoadTask[xfer[k].task] = k
  /\ \A k \in Xfers :
       cancels[k] > 0 => net[k] \in {"cancelling", "finished", "gone", "failed"}
  /\ \A k \in Xfers : xfer[k].block \in {"created", "done"} => net[k] # "none"
  /\ TransferIsMarked

\* A step that keeps owners and downLoadTask, makes nothing live and cancels
\* nothing: what is left to show is the marks.
LEMMA FewerLive ==
  ASSUME TypeInv, CarefulInv, UNCHANGED <<xfer, downLoadTask>>,
         \A k \in Xfers : Live(k)' => Live(k),
         \A k \in Xfers : cancels'[k] > 0 => cancels[k] > 0,
         \A k \in Xfers :
           \/ net'[k] = net[k]
           \/ cancels[k] = 0 /\ net'[k] # "none"
           \/ net'[k] \in {"gone", "finished", "failed"},
         TransferIsMarked'
  PROVE  CarefulInv'
<1>1. \A k \in Xfers : cancels[k] = 0 \/ cancels[k] > 0
  BY ToolAssumption DEF TypeInv, ToolTypeOK
<1>2. \A k \in Xfers : cancels'[k] > 0 =>
        net'[k] \in {"cancelling", "finished", "gone", "failed"}
  BY <1>1 DEF CarefulInv
<1>3. QED
  BY <1>2 DEF CarefulInv

LEMMA StartCareful ==
  ASSUME TypeInv, CarefulInv, NEW t \in Tasks, NEW k \in Xfers,
         LiveXfers(t) = {}, start(t, k)
  PROVE  CarefulInv'
<1> USE DEF TypeInv, ToolTypeOK
<1>1. /\ xfer'[k].task = t
      /\ xfer'[k].block = "queued"
      /\ \A j \in Xfers \ {k} : xfer'[j] = xfer[j]
      /\ UNCHANGED <<net, cancels, downLoadTask>>
      /\ downLoadTaskModels' = downLoadTaskModels \cup {t}
  BY DEF start, Marked
<1>2. net[k] = "none" /\ cancels[k] = 0
  BY DEF start, OwnerOK
<1>3. \A j \in Xfers \ {k} : /\ Live(j)' <=> Live(j)
                             /\ Transferring(j)' <=> Transferring(j)
  BY <1>1 DEF Live, Transferring
<1>4. \A j \in Xfers : Live(j) => xfer[j].task # t
  BY DEF LiveXfers
<1>5. \A i, j \in Xfers :
        Live(i)' /\ Live(j)' /\ xfer'[i].task = xfer'[j].task => i = j
  BY <1>1, <1>3, <1>4 DEF CarefulInv
<1>6. \A j \in Xfers :
        Live(j)' /\ xfer'[j].block \in {"created", "done"} =>
          downLoadTask'[xfer'[j].task] = j
  BY <1>1, <1>3 DEF CarefulInv
<1>7. TransferIsMarked'
  BY <1>1, <1>3 DEF CarefulInv, TransferIsMarked
<1>8. QED
  BY <1>1, <1>2, <1>5, <1>6, <1>7 DEF CarefulInv

\* The transfer a cancel reaches is the task's only one that may be live.
LEMMA CancelCareful ==
  ASSUME TypeInv, CarefulInv, NEW S \in SUBSET Tasks,
         \A t \in S : Settled(t), cancelAll(S)
  PROVE  CarefulInv'
<1> USE DEF TypeInv, ToolTypeOK
<1>1. UNCHANGED <<xfer, downLoadTask, downLoadTaskModels>>
  BY DEF cancelAll, taskVars
<1>2. \A k \in Current(S) :
        /\ k \in Xfers
        /\ xfer[k].task \in S
        /\ downLoadTask[xfer[k].task] = k
        /\ xfer[k].block \in {"created", "done"}
  BY DEF Current, Reachable, OwnerOK
<1>3. \A k \in Xfers : /\ k \notin Current(S) => /\ Live(k)' <=> Live(k)
                                                 /\ net'[k] = net[k]
                                                 /\ cancels'[k] = cancels[k]
                       /\ Transferring(k)' => Transferring(k)
  BY ToolAssumption DEF cancelAll, Live, Transferring
<1>4. \A k \in Xfers : xfer[k].task \in S /\ Live(k) =>
        xfer[k].block = "done"
  <2>1. TAKE k \in Xfers
  <2>2. HAVE xfer[k].task \in S /\ Live(k)
  <2>3. xfer[k].block \notin {"queued", "created"}
    BY <2>2 DEF Settled
  <2>4. xfer[k].block # "none"
    BY <2>2, ToolAssumption DEF OwnerOK, Live, Transferring
  <2>5. QED
    BY <2>3, <2>4 DEF BlockState
<1>5. \A k \in Xfers : xfer[k].task \in S /\ Live(k)' =>
        downLoadTask[xfer[k].task] = k
  BY <1>2, <1>3, <1>4 DEF CarefulInv
<1>6. \A j, k \in Xfers :
        Live(j)' /\ Live(k)' /\ xfer'[j].task = xfer'[k].task => j = k
  BY <1>1, <1>2, <1>3, <1>5 DEF CarefulInv
<1>7. \A k \in Xfers :
        Live(k)' /\ xfer'[k].block \in {"created", "done"} =>
          downLoadTask'[xfer'[k].task] = k
  BY <1>1, <1>2, <1>3, <1>5 DEF CarefulInv
<1>8. \A k \in Current(S) :
        net'[k] \in {"cancelling", "finished", "gone", "failed"}
  BY <1>2 DEF cancelAll, CarefulInv, NetState
<1>9. \A k \in Xfers :
        /\ cancels'[k] > 0 =>
             net'[k] \in {"cancelling", "finished", "gone", "failed"}
        /\ xfer'[k].block \in {"created", "done"} => net'[k] # "none"
  BY <1>1, <1>3, <1>8 DEF CarefulInv
<1>10. TransferIsMarked'
  BY <1>1, <1>3 DEF CarefulInv, TransferIsMarked
<1>11. QED
  BY <1>6, <1>7, <1>9, <1>10 DEF CarefulInv

LEMMA SuspendCareful ==
  ASSUME TypeInv, CarefulInv, NEW S \in SUBSET Tasks, suspendAll(S)
  PROVE  CarefulInv'
<1> USE DEF TypeInv, ToolTypeOK
<1>1. UNCHANGED <<xfer, downLoadTask, downLoadTaskModels, cancels>>
  BY DEF suspendAll
<1>2. \A k \in Xfers :
        \/ net'[k] = net[k]
        \/ net[k] = "running" /\ net'[k] = "suspended"
  BY DEF suspendAll, Suspended
<1>3. \A k \in Xfers : Transferring(k)' <=> Transferring(k)
  BY <1>1, <1>2 DEF Transferring
<1>4. \A k \in Xfers : Live(k)' <=> Live(k)
  BY <1>1, <1>3 DEF Live
<1>5. \A k \in Xfers :
        cancels[k] > 0 => net'[k] = net[k]
  BY <1>2 DEF CarefulInv
<1>6. TransferIsMarked'
  BY <1>1, <1>3 DEF CarefulInv, TransferIsMarked
<1>7. QED
  BY <1>1, <1>2, <1>4, <1>5, <1>6 DEF CarefulInv

LEMMA ApiCareful ==
  ASSUME TypeInv, CarefulInv, Caller = "careful", NEW t \in Tasks, Api(t)
  PROVE  CarefulInv'
<1> USE DEF TypeInv, ToolTypeOK
<1>1. CASE addDownLoadTask(t) \/ deleteDownLoadTask(t)
  BY <1>1 DEF addDownLoadTask, deleteDownLoadTask, taskVars, xferVars, Live,
              Transferring, TransferIsMarked, CarefulInv
<1>2. CASE \E k \in Xfers : startDownLoad(t, k)
  BY <1>2, StartCareful DEF startDownLoad, StartAllowed
<1>3. CASE cancelDownLoad(t)
  BY <1>3, CancelCareful DEF cancelDownLoad, StopAllowed
<1>4. CASE suspendDownLoad(t)
  BY <1>4, SuspendCareful DEF suspendDownLoad
<1>5. CASE resumeDownLoad(t)
  <2> DEFINE d == downLoadTask[t]
  <2>1. d \in Xfers /\ net' = [net EXCEPT ![d] = Resumed(@)]
    BY <1>5 DEF resumeDownLoad, Reachable
  <2> HIDE DEF d
  <2>2. UNCHANGED <<xfer, downLoadTask, downLoadTaskModels, cancels>>
    BY <1>5 DEF resumeDownLoad, taskVars
  <2>3. \A k \in Xfers :
          \/ net'[k] = net[k]
          \/ net[k] = "suspended" /\ net'[k] = "running"
    BY <2>1 DEF Resumed
  <2>4. \A k \in Xfers : /\ Transferring(k)' <=> Transferring(k)
                         /\ Live(k)' <=> Live(k)
    BY <2>2, <2>3 DEF Transferring, Live
  <2>5. \A k \in Xfers : cancels[k] > 0 => net'[k] = net[k]
    BY <2>3 DEF CarefulInv
  <2>6. TransferIsMarked'
    BY <2>2, <2>4 DEF CarefulInv, TransferIsMarked
  <2>7. QED
    BY <2>2, <2>3, <2>4, <2>5, <2>6 DEF CarefulInv
<1>6. QED
  BY <1>1, <1>2, <1>3, <1>4, <1>5 DEF Api

LEMMA BlockCareful ==
  ASSUME TypeInv, CarefulInv, NEW k \in Xfers, Block(k)
  PROVE  CarefulInv'
<1> USE DEF TypeInv, ToolTypeOK
<1>1. CASE CreateTransfer(k)
  <2> DEFINE t == xfer[k].task
  <2>1. t \in Tasks /\ cancels[k] = 0 /\ net[k] = "none"
    BY <1>1 DEF CreateTransfer, OwnerOK
  <2>2. /\ downLoadTask'[t] = k
        /\ \A u \in Tasks \ {t} : downLoadTask'[u] = downLoadTask[u]
    BY <1>1, <2>1 DEF CreateTransfer
  <2>3. \A j \in Xfers : /\ xfer'[j].task = xfer[j].task
                         /\ j # k => xfer'[j] = xfer[j] /\ net'[j] = net[j]
    BY <1>1 DEF CreateTransfer
  <2>4. net'[k] = "suspended" /\ UNCHANGED <<cancels, downLoadTaskModels>>
    BY <1>1 DEF CreateTransfer
  <2>5. \A j \in Xfers : /\ Transferring(j)' <=> Transferring(j)
                         /\ Live(j)' <=> Live(j)
    BY <1>1, <2>3, <2>4 DEF CreateTransfer, Transferring, Live
  <2>6. \A j \in Xfers : Live(j) /\ xfer[j].task = t => j = k
    BY <1>1 DEF CreateTransfer, Transferring, Live, CarefulInv
  <2>7. \A j \in Xfers :
          Live(j)' /\ xfer'[j].block \in {"created", "done"} =>
            downLoadTask'[xfer'[j].task] = j
    <3>1. TAKE j \in Xfers
    <3>2. CASE j = k
      BY <2>2, <2>3, <3>2
    <3>3. CASE j # k
      BY <2>2, <2>3, <2>5, <2>6, <3>3 DEF CarefulInv, OwnerOK
    <3>4. QED
      BY <3>2, <3>3
  <2>8. TransferIsMarked'
    BY <2>3, <2>4, <2>5 DEF CarefulInv, TransferIsMarked
  <2>9. QED
    BY <2>1, <2>3, <2>4, <2>5, <2>7, <2>8 DEF CarefulInv
<1>2. CASE ResumeTransfer(k)
  <2> DEFINE d == downLoadTask[xfer[k].task]
  <2>1. d \in Xfers /\ net' = [net EXCEPT ![d] = Resumed(@)]
    BY <1>2, ToolAssumption DEF ResumeTransfer, OwnerOK
  <2> HIDE DEF d
  <2>2. UNCHANGED <<downLoadTask, downLoadTaskModels, cancels>>
    BY <1>2 DEF ResumeTransfer, taskVars
  <2>3. \A j \in Xfers :
          \/ net'[j] = net[j]
          \/ net[j] = "suspended" /\ net'[j] = "running"
    BY <2>1 DEF Resumed
  <2>4. \A j \in Xfers :
          /\ xfer'[j].task = xfer[j].task
          /\ xfer'[j].block = "queued" <=> xfer[j].block = "queued"
          /\ xfer'[j].block \in {"created", "done"} =>
               xfer[j].block \in {"created", "done"}
    BY <1>2 DEF ResumeTransfer
  <2>5. \A j \in Xfers : /\ Transferring(j)' <=> Transferring(j)
                         /\ Live(j)' <=> Live(j)
    BY <2>2, <2>3, <2>4 DEF Transferring, Live
  <2>6. \A j \in Xfers : cancels[j] > 0 => net'[j] = net[j]
    BY <2>3 DEF CarefulInv
  <2>7. TransferIsMarked'
    BY <2>2, <2>4, <2>5 DEF CarefulInv, TransferIsMarked
  <2>8. QED
    BY <2>2, <2>3, <2>4, <2>5, <2>6, <2>7 DEF CarefulInv
<1>3. QED
  BY <1>1, <1>2 DEF Block

\* A mark is cleared only by the end of the one live transfer of its task.
LEMMA CallbackCareful ==
  ASSUME TypeInv, CarefulInv, NEW k \in Xfers, Callback(k)
  PROVE  CarefulInv'
<1> USE DEF TypeInv, ToolTypeOK
<1>1. CASE didWriteData(k)
  BY <1>1 DEF didWriteData, taskVars, Live, Transferring, TransferIsMarked,
              CarefulInv
<1>2. CASE didFinishDownloading(k)
  <2>1. UNCHANGED <<xfer, downLoadTask, cancels>>
    BY <1>2 DEF didFinishDownloading, taskVars
  <2>2. net' = [net EXCEPT ![k] = "gone"]
    BY <1>2 DEF didFinishDownloading
  <2>3. xfer[k].block \in {"created", "done"}
    BY <1>2 DEF didFinishDownloading, OwnerOK, BlockState
  <2>4. \A j \in Xfers : /\ Transferring(j)' => Transferring(j) /\ j # k
                         /\ Live(j)' => Live(j)
    BY <1>2, <2>1, <2>2, <2>3 DEF didFinishDownloading, Transferring, Live
  <2>5. Live(k)
    BY <1>2 DEF didFinishDownloading, Live, Transferring
  <2>6. \A j \in Xfers : Transferring(j)' => xfer[j].task # xfer[k].task
    BY <2>4, <2>5 DEF CarefulInv, Live
  <2>7. TransferIsMarked'
    BY <1>2, <2>1, <2>4, <2>6
       DEF didFinishDownloading, Unmarked, CarefulInv, TransferIsMarked
  <2>8. QED
    BY <2>1, <2>2, <2>4, <2>7, FewerLive
<1>3. CASE CancelCompletes(k)
  <2>1. UNCHANGED <<xfer, downLoadTask>>
    BY <1>3 DEF CancelCompletes
  <2>2. /\ \A j \in Xfers \ {k} : net'[j] = net[j] /\ cancels'[j] = cancels[j]
        /\ net'[k] = IF net[k] = "cancelling" THEN "gone" ELSE net[k]
        /\ cancels'[k] = cancels[k] - 1
        /\ cancels[k] > 0
    BY <1>3 DEF CancelCompletes
  <2>3. net'[k] \in {"gone", "failed"} /\ (net'[k] = net[k] \/ net'[k] = "gone")
    BY <1>3, <2>2 DEF CancelCompletes, CarefulInv
  <2>4. xfer[k].block # "queued" /\ Live(k)
    BY <2>2, ToolAssumption DEF OwnerOK, Live
  <2>5. \A j \in Xfers : /\ Transferring(j)' => Transferring(j) /\ j # k
                         /\ Live(j)' => Live(j)
    BY <2>1, <2>2, <2>3, <2>4 DEF Transferring, Live
  <2>6. \A j \in Xfers : Transferring(j)' => xfer[j].task # xfer[k].task
    BY <2>4, <2>5 DEF CarefulInv, Live
  <2>7. TransferIsMarked'
    BY <1>3, <2>1, <2>5, <2>6
       DEF CancelCompletes, Unmarked, CarefulInv, TransferIsMarked
  <2>8. QED
    BY <2>1, <2>2, <2>3, <2>5, <2>7, FewerLive
<1>4. QED
  BY <1>1, <1>2, <1>3 DEF Callback

LEMMA CarefulStep ==
  ASSUME TypeInv, CarefulInv, [Next]_vars, Caller = "careful"
  PROVE  CarefulInv'
<1> USE DEF TypeInv, ToolTypeOK
<1>1. CASE cancelAllTasks
  BY <1>1, CancelCareful DEF cancelAllTasks, StopAllowed
<1>2. CASE suspendAllTasks
  BY <1>2, SuspendCareful DEF suspendAllTasks
<1>3. ASSUME NEW k \in Xfers, NetProgress(k) \/ NetEnds(k)
      PROVE  CarefulInv'
  <2>1. UNCHANGED <<xfer, downLoadTask, cancels, downLoadTaskModels>>
    BY <1>3 DEF NetProgress, NetEnds, taskVars
  <2>2. \A j \in Xfers :
          \/ net'[j] = net[j]
          \/ net[j] = "running" /\ net'[j] \in {"finished", "failed"}
    BY <1>3 DEF NetProgress, NetEnds
  <2>3. \A j \in Xfers : /\ Transferring(j)' => Transferring(j)
                         /\ Live(j)' => Live(j)
    BY <2>1, <2>2 DEF Transferring, Live
  <2>4. TransferIsMarked'
    BY <2>1, <2>3 DEF CarefulInv, TransferIsMarked
  <2>5. QED
    BY <2>1, <2>2, <2>3, <2>4, FewerLive
<1>4. CASE MoveFile \/ UNCHANGED toolVars
  BY <1>4 DEF MoveFile, toolVars, taskVars, xferVars, Live, Transferring,
              TransferIsMarked, CarefulInv
<1>5. CASE Crash \/ appTerminate
  BY <1>5 DEF Crash, appTerminate, Launch, Live, Transferring,
              TransferIsMarked, CarefulInv
<1>6. QED
  BY <1>1, <1>2, <1>3, <1>4, <1>5, ApiCareful, BlockCareful, CallbackCareful
     DEF Next, vars

LEMMA CarefulCorrect ==
  ASSUME Caller = "careful"
  PROVE  Spec => []CarefulInv
<1>1. Init => CarefulInv
  BY DEF Init, FreshXfers, Live, Transferring, TransferIsMarked, CarefulInv
<1>2. TypeInv /\ CarefulInv /\ [Next]_vars => CarefulInv'
  BY CarefulStep
<1>3. QED
  BY <1>1, <1>2, TypeInvCorrect, PTL DEF Spec

\* A caller that waits for the end of a task's transfers before it starts it
\* again, and for the start block before it cancels or suspends it, never sees
\* a transfer whose task is missing from self.downLoadTaskModels, so that
\* didFinishDownloading never ends the background task under a transfer.
THEOREM MarkCorrect ==
  ASSUME Caller = "careful"
  PROVE  Spec => []TransferIsMarked
<1>1. CarefulInv => TransferIsMarked
  BY DEF CarefulInv
<1>2. QED
  BY <1>1, CarefulCorrect, PTL

\* A suspend reaches the one transfer that may run for its task.
LEMMA SuspendReaches ==
  ASSUME TypeInv, CarefulInv, NEW S \in SUBSET Tasks, suspendAll(S),
         NEW t \in Tasks, status[t] # "Suspended", status'[t] = "Suspended",
         NEW k \in Xfers, xfer[k].task = t
  PROVE  net'[k] # "running"
<1> USE DEF TypeInv, ToolTypeOK
<1>1. t \in Reachable(S)
  BY DEF suspendAll
<1>2. CASE net[k] = "running"
  <2>1. Live(k) /\ xfer[k].block \in {"created", "done"}
    BY <1>2 DEF Live, Transferring, OwnerOK, BlockState
  <2>2. k \in Current(S)
    BY <1>1, <2>1 DEF CarefulInv, Current
  <2>3. QED
    BY <2>2 DEF suspendAll, Suspended
<1>3. CASE net[k] # "running"
  BY <1>3 DEF suspendAll, Suspended
<1>4. QED
  BY <1>2, <1>3

LEMMA SuspendStep ==
  ASSUME TypeInv, CarefulInv, [Next]_vars, NEW t \in Tasks,
         status[t] # "Suspended", status'[t] = "Suspended", session'[t],
         NEW k \in Xfers, xfer[k].task = t
  PROVE  net'[k] # "running"
<1> USE DEF TypeInv, ToolTypeOK
<1>1. CASE \E S \in SUBSET Tasks : suspendAll(S)
  BY <1>1, SuspendReaches
<1>2. ASSUME NEW u \in Tasks, Api(u), ~suspendDownLoad(u)
      PROVE  status' = status
  BY <1>2 DEF Api, addDownLoadTask, startDownLoad, start, cancelDownLoad,
              cancelAll, resumeDownLoad, deleteDownLoadTask, taskVars
<1>3. CASE cancelAllTasks
  BY <1>3 DEF cancelAllTasks, cancelAll, taskVars
<1>4. ASSUME NEW j \in Xfers,
             Block(j) \/ NetProgress(j) \/ NetEnds(j) \/ Callback(j)
      PROVE  status'[t] = status[t] \/ status'[t] # "Suspended"
  BY <1>4 DEF Block, CreateTransfer, ResumeTransfer, NetProgress, NetEnds,
              Callback, didWriteData, didFinishDownloading, CancelCompletes,
              CancelStatus, taskVars
<1>5. CASE MoveFile \/ UNCHANGED toolVars
  BY <1>5 DEF MoveFile, toolVars, taskVars
<1>6. CASE Crash \/ appTerminate
  BY <1>6 DEF Crash, appTerminate, Launch
<1>7. QED
  BY <1>1, <1>2, <1>3, <1>4, <1>5, <1>6
     DEF Next, vars, suspendDownLoad, suspendAllTasks

\* For such a caller a suspend that turns a task to 下载暂停 leaves no transfer of
\* it running (suspendDownLoad..., suspendAllTasks).
THEOREM SuspendCorrect ==
  ASSUME Caller = "careful"
  PROVE  Spec => SuspendStopsTransfer
<1>1. TypeInv /\ CarefulInv /\ [Next]_vars =>
        [\A t \in Tasks :
           status[t] # "Suspended" /\ status'[t] = "Suspended" /\ session'[t]
             => \A k \in Xfers : xfer[k].task = t => net'[k] # "running"]_vars
  BY SuspendStep
<1>2. QED
  BY <1>1, TypeInvCorrect, CarefulCorrect, PTL DEF Spec, SuspendStopsTransfer

\* The only step of a finish handler that gives the background task up while
\* the app stays in the background.
LEMMA CoverStep ==
  ASSUME TypeInv, CarefulInv, [Next]_vars,
         finishing # Nil, backTask # Invalid, backTask' = Invalid,
         appState' = "background", NEW k \in Xfers
  PROVE  ~Transferring(k)
<1> USE DEF TypeInv, ToolTypeOK
<1>1. CASE MoveFile
  <2>1. LastOne
    BY <1>1 DEF MoveFile, bgVars
  <2>2. QED
    BY <2>1 DEF LastOne, CarefulInv, TransferIsMarked
<1>2. ASSUME NEW j \in Xfers, Block(j) \/ NetProgress(j) \/ NetEnds(j)
      PROVE  backTask' = backTask
  BY <1>2 DEF Block, CreateTransfer, ResumeTransfer, NetProgress, NetEnds,
              bgVars
<1>3. ASSUME NEW j \in Xfers
      PROVE  ~Callback(j)
  BY DEF Callback, didWriteData, didFinishDownloading, CancelCompletes, Idle
<1>4. ASSUME NEW t \in Tasks
      PROVE  ~Api(t)
  BY DEF Api, addDownLoadTask, startDownLoad, start, cancelDownLoad, cancelAll,
         suspendDownLoad, suspendAll, resumeDownLoad, deleteDownLoadTask, Idle
<1>5. ~cancelAllTasks /\ ~suspendAllTasks /\ ~Idle
  BY DEF cancelAllTasks, cancelAll, suspendAllTasks, suspendAll, Idle
<1>6. CASE Crash \/ appTerminate
  BY <1>6 DEF Crash, appTerminate, Launch, BgLaunch
<1>7. CASE UNCHANGED vars
  BY <1>7 DEF vars, bgVars
<1>8. QED
  BY <1>1, <1>2, <1>3, <1>4, <1>5, <1>6, <1>7 DEF Next

\* For such a caller didFinishDownloading ends the background task only when no
\* transfer is under way (its test of self.downLoadTaskModels.count).
THEOREM BackgroundCovers ==
  ASSUME Caller = "careful"
  PROVE  Spec => BackgroundCoversTransfers
<1>1. TypeInv /\ CarefulInv /\ [Next]_vars =>
        [finishing # Nil /\ backTask # Invalid /\ backTask' = Invalid
           /\ appState = "background" /\ appState' = "background"
         => \A k \in Xfers : ~Transferring(k)]_vars
  BY CoverStep
<1>2. QED
  BY <1>1, TypeInvCorrect, CarefulCorrect, PTL
     DEF Spec, BackgroundCoversTransfers

=============================================================================
