---------------------------- MODULE DownLoadTool ----------------------------
(***************************************************************************)
(* HGBDownLoadTool, the download manager: the registry of tasks in memory  *)
(* and its copy in a plist, the NSURLSession transfers it starts, and the  *)
(* delegate callbacks that report on them.                                 *)
(*                                                                         *)
(* The API calls, the delegate callbacks (task.queue = nil, so the main    *)
(* queue) and the background handlers run on the main thread, one at a     *)
(* time. The block startDownLoad... puts on a global queue, the network,   *)
(* and the death of the process interleave with all of them.               *)
(***************************************************************************)
EXTENDS DownLoadBackground

CONSTANTS
  Tasks,    \* HGBDownLoadTask objects, each with its own id, url and path
  Xfers,    \* NSURLSessionDownloadTask objects one process may create
  Nil,      \* nil: no object, no plist entry
  MaxCancels,   \* cancel calls that may await their completion, per transfer
  Faults,   \* what goes wrong: a subset of {"crash", "network", "disk"}
  Caller    \* "any": every call at any time; "careful": see StartAllowed

ASSUME ToolAssumption ==
  /\ Nil \notin Xfers
  /\ MaxCancels \in Nat
  /\ Faults \subseteq {"crash", "network", "disk"}
  /\ Caller \in {"any", "careful"}

VARIABLES
  taskModels,   \* self.taskModels: ids with an object in memory
  downLoadTaskModels,  \* self.downLoadTaskModels: ids believed in progress
  status,       \* task.status
  data,         \* does task.data hold resume data
  session,      \* task.session # nil
  downLoadTask, \* task.downLoadTask
  plist,        \* the file self.path: id |-> what dictionaryFromTaskModel wrote
  files,        \* per task, what lies at task.path: see FileState
  xfer,         \* per transfer: whose it is, how far the start block is
  net,          \* per transfer: its NSURLSessionTask state
  written,      \* transfers with a didWriteData callback on the main queue
  cancels,      \* per transfer: completion handlers of cancel still to run
  finishing     \* the transfer whose didFinish handler is half done, or Nil

taskVars == <<status, data, session, downLoadTask>>
xferVars == <<xfer, net, written, cancels>>
toolVars == <<taskModels, downLoadTaskModels, plist, files, finishing,
              taskVars, xferVars>>
vars == <<toolVars, bgVars>>

\* HGBDownloadState. HGBDownloadStateFailed is declared and never assigned.
State == {"Runing", "Suspended", "Completed", "Cancel", "UnExpectedCancel",
          "Failed"}

\* The start block: not submitted, queued, transfer created, over.
BlockState == {"none", "queued", "created", "done"}

\* "finished" and "failed": the outcome is known, its callback not yet run.
NetState == {"none", "suspended", "running", "cancelling", "finished",
             "failed", "gone"}

\* No file; the file of a download; no file although a download came to its end,
\* because the move failed or the process died before it ("missed" is history:
\* the code cannot tell it from "none").
FileState == {"none", "there", "missed"}

Entry == [status : State, data : BOOLEAN]

ASSUME NilAssumption == Nil \notin Entry

TypeOK ==
  /\ BgTypeOK
  /\ taskModels \in SUBSET Tasks
  /\ downLoadTaskModels \in SUBSET Tasks
  /\ status \in [Tasks -> State]
  /\ data \in [Tasks -> BOOLEAN]
  /\ session \in [Tasks -> BOOLEAN]
  /\ downLoadTask \in [Tasks -> Xfers \cup {Nil}]
  /\ plist \in [Tasks -> Entry \cup {Nil}]
  /\ files \in [Tasks -> FileState]
  /\ xfer \in [Xfers -> [task : Tasks \cup {Nil}, block : BlockState]]
  /\ net \in [Xfers -> NetState]
  /\ written \in SUBSET Xfers
  /\ cancels \in [Xfers -> 0..MaxCancels]
  /\ finishing \in Xfers \cup {Nil}

-----------------------------------------------------------------------------
(* A process: what it holds in memory is made anew from the plist.         *)

FreshXfers ==
  /\ xfer = [k \in Xfers |-> [task |-> Nil, block |-> "none"]]
  /\ net = [k \in Xfers |-> "none"]
  /\ written = {}
  /\ cancels = [k \in Xfers |-> 0]

\* initDownLoadManage with no plist on disk.
Init ==
  /\ BgInit
  /\ plist = [t \in Tasks |-> Nil]
  /\ files = [t \in Tasks |-> "none"]
  /\ taskModels = {}
  /\ downLoadTaskModels = {}
  /\ status = [t \in Tasks |-> "Runing"]
  /\ data = [t \in Tasks |-> FALSE]
  /\ session = [t \in Tasks |-> FALSE]
  /\ downLoadTask = [t \in Tasks |-> Nil]
  /\ finishing = Nil
  /\ FreshXfers

\* The main thread is between two handlers.
Idle == finishing = Nil

-----------------------------------------------------------------------------
(* The plist: read the file, set or remove one entry, write it whole.      *)

\* What dictionaryFromTaskModel writes (see DownLoadTask).
Saved(st, d) == [status |-> st, data |-> d]

\* The file once the entries of the tasks of S are as "new" says.
Write(S, new) ==
  plist' = [t \in Tasks |-> IF t \in S THEN new[t] ELSE plist[t]]

\* changeDownLoadTask (and addDownLoadTask, whose task is not registered): the
\* entry in the file and the object in the registry, from the primed fields.
changeInMemory(S) == UNCHANGED plist /\ taskModels' = taskModels \cup S
changeDownLoadTasks(S) ==
  /\ Write(S, [t \in S |-> Saved(status'[t], data'[t])])
  /\ taskModels' = taskModels \cup S

-----------------------------------------------------------------------------
(* The API.                                                                *)

\* The transfer is yet to be created, or not over.
Transferring(k) ==
  \/ xfer[k].block = "queued"
  \/ net[k] \in {"suspended", "running", "cancelling", "finished"}

Live(k) == Transferring(k) \/ cancels[k] > 0

LiveXfers(t) == {k \in Xfers : xfer[k].task = t /\ Live(k)}

\* The tool refuses no call. A careful caller starts a task only when its earlier
\* transfers are over, and cancels or suspends it only when no block of a start
\* is still to run: the tool offers no way to wait for either.
StartAllowed(t) == Caller = "careful" => LiveXfers(t) = {}

Settled(t) ==
  \A k \in Xfers : xfer[k].task = t => xfer[k].block \notin {"queued", "created"}

StopAllowed(S) == Caller = "careful" => \A t \in S : Settled(t)

\* The marks of downLoadTaskModels: a task started, a task that ended.
MarkedTransfer(t) == downLoadTaskModels \cup {downLoadTask[t]}
MarkedWhenAdded(t) ==
  IF t \in taskModels THEN downLoadTaskModels ELSE downLoadTaskModels \cup {t}
Marked(t) == downLoadTaskModels \cup {t}

NeverUnmarked(t) == downLoadTaskModels
Unmarked(t) == downLoadTaskModels \ {t}

\* addDownLoadTask as a call of its own: registered, not started.
addDownLoadTask(t) ==
  /\ Idle
  /\ t \notin taskModels
  /\ UNCHANGED <<taskVars, xferVars>>
  /\ changeDownLoadTasks({t})
  /\ UNCHANGED <<downLoadTaskModels, files, finishing, bgVars>>

\* startDownLoad: registers an unknown task, marks it in progress and leaves
\* the creation of transfer k to a block on a global queue.
start(t, k) ==
  /\ Idle
  /\ xfer[k].block = "none"
  /\ UNCHANGED <<status, data, downLoadTask>>
  /\ IF t \in taskModels THEN UNCHANGED <<plist, taskModels>>
                         ELSE changeDownLoadTasks({t})
  /\ downLoadTaskModels' = Marked(t)
  /\ session' = [session EXCEPT ![t] = TRUE]
  /\ xfer' = [xfer EXCEPT ![k] = [task |-> t, block |-> "queued"]]
  /\ UNCHANGED <<net, written, cancels, files, finishing, bgVars>>

startDownLoad(t, k) == StartAllowed(t) /\ start(t, k)

\* The block, first statement: a suspended transfer, from the resume data or
\* from the url, becomes the task's downLoadTask; the former one is dropped.
CreateTransfer(k) ==
  /\ xfer[k].block = "queued"
  /\ xfer' = [xfer EXCEPT ![k].block = "created"]
  /\ net' = [net EXCEPT ![k] = "suspended"]
  /\ downLoadTask' = [downLoadTask EXCEPT ![xfer[k].task] = k]
  /\ UNCHANGED <<taskModels, downLoadTaskModels, status, data, session, plist,
                 files, written, cancels, finishing, bgVars>>

\* A transfer after NSURLSessionTask's resume, or its suspend.
NotResumed(s) == s
Resumed(s) == IF s = "suspended" THEN "running" ELSE s

NotSuspended(s) == s
Suspended(s) == IF s = "running" THEN "suspended" ELSE s

\* The block, last statement: resumes whatever downLoadTask now is.
ResumeTransfer(k) ==
  /\ xfer[k].block = "created"
  /\ xfer' = [xfer EXCEPT ![k].block = "done"]
  /\ net' = [net EXCEPT ![downLoadTask[xfer[k].task]] = Resumed(@)]
  /\ UNCHANGED <<taskModels, downLoadTaskModels, taskVars, plist, files,
                 written, cancels, finishing, bgVars>>

\* The registered tasks of S whose transfer has been created: the calls below
\* return without effect for the others.
Reachable(S) == {t \in S \cap taskModels : downLoadTask[t] # Nil}

Current(S) == {downLoadTask[t] : t \in Reachable(S)}

\* cancelDownLoad for one task, cancelAllTasks for all: the call only asks.
cancelAll(S) ==
  /\ Idle
  /\ Current(S) # {}
  /\ \A k \in Current(S) : cancels[k] < MaxCancels
  /\ cancels' = [k \in Xfers |-> cancels[k] + IF k \in Current(S) THEN 1 ELSE 0]
  /\ net' = [k \in Xfers |->
               IF k \in Current(S) /\ net[k] \in {"suspended", "running"}
                 THEN "cancelling" ELSE net[k]]
  /\ UNCHANGED <<taskModels, downLoadTaskModels, taskVars, plist, files, xfer,
                 written, finishing, bgVars>>

cancelDownLoad(t) == StopAllowed({t}) /\ cancelAll({t})
cancelAllTasks == StopAllowed(Tasks) /\ cancelAll(Tasks)

\* suspendDownLoad for one task, suspendAllTasks for all: whatever the status
\* was, it becomes Suspended.
suspendAll(S) ==
  /\ Idle
  /\ Reachable(S) # {}
  /\ net' = [k \in Xfers |-> IF k \in Current(S) THEN Suspended(net[k])
                                                 ELSE net[k]]
  /\ status' = [t \in Tasks |-> IF t \in Reachable(S) THEN "Suspended"
                                                      ELSE status[t]]
  /\ UNCHANGED <<data, session, downLoadTask>>
  /\ changeDownLoadTasks(Reachable(S))
  /\ UNCHANGED <<downLoadTaskModels, files, xfer, written, cancels, finishing,
                 bgVars>>

suspendDownLoad(t) == StopAllowed({t}) /\ suspendAll({t})
suspendAllTasks == StopAllowed(Tasks) /\ suspendAll(Tasks)

\* resumeDownLoad: the status stays as it is until data arrives.
resumeDownLoad(t) ==
  /\ Idle
  /\ t \in Reachable({t})
  /\ net' = [net EXCEPT ![downLoadTask[t]] = Resumed(@)]
  /\ UNCHANGED <<taskModels, downLoadTaskModels, taskVars, plist, files, xfer,
                 written, cancels, finishing, bgVars>>

\* deleteDownLoadTask: the registry and the plist forget the task; its transfer,
\* its pending completions and its mark in downLoadTaskModels stay.
deleteInMemory(t) ==
  /\ Idle
  /\ t \in taskModels \/ plist[t] # Nil
  /\ taskModels' = taskModels \ {t}
  /\ UNCHANGED <<plist, downLoadTaskModels, files, finishing, taskVars,
                 xferVars, bgVars>>
deleteDownLoadTask(t) ==
  /\ Idle
  /\ t \in taskModels \/ plist[t] # Nil
  /\ taskModels' = taskModels \ {t}
  /\ Write({t}, [u \in {t} |-> Nil])
  /\ UNCHANGED <<downLoadTaskModels, files, finishing, taskVars, xferVars,
                 bgVars>>

-----------------------------------------------------------------------------
(* The network.                                                            *)

\* Bytes arrive: a didWriteData callback is put on the main queue.
NetProgress(k) ==
  /\ net[k] = "running"
  /\ k \notin written
  /\ written' = written \cup {k}
  /\ UNCHANGED <<taskModels, downLoadTaskModels, taskVars, plist, files, xfer,
                 net, cancels, finishing, bgVars>>

\* The transfer ends, well or not. didCompleteWithError, which would report the
\* error, is not implemented by the tool: nothing is put on the queue.
NetEnds(k) ==
  /\ net[k] = "running"
  /\ \E o \in {"finished"} \cup IF "network" \in Faults THEN {"failed"} ELSE {} :
       net' = [net EXCEPT ![k] = o]
  /\ UNCHANGED <<taskModels, downLoadTaskModels, taskVars, plist, files, xfer,
                 written, cancels, finishing, bgVars>>

-----------------------------------------------------------------------------
(* The callbacks, in the order of the main queue: those of a transfer's    *)
(* data before that of its end, that of its end before those of a cancel   *)
(* that came too late.                                                     *)

\* didWriteData, for a task still registered.
didWriteData(k) ==
  LET t == xfer[k].task IN
  /\ Idle
  /\ k \in written
  /\ written' = written \ {k}
  /\ IF t \in taskModels
       THEN /\ status' = [status EXCEPT ![t] = "Runing"]
            /\ UNCHANGED <<data, session, downLoadTask>>
            /\ changeDownLoadTasks({t})
       ELSE UNCHANGED <<taskVars, plist, taskModels>>
  /\ UNCHANGED <<downLoadTaskModels, files, xfer, net, cancels, finishing,
                 bgVars>>

\* Is the task of a finished transfer still known.
KnownIfMarked(t) == t \in downLoadTaskModels
Known(t) == t \in taskModels

\* didFinishDownloading up to the call of moveFilePath. The main thread stays
\* in it until MoveFile, unless the process dies in between.
didFinishDownloading(k) ==
  LET t == xfer[k].task IN
  /\ Idle
  /\ net[k] = "finished"
  /\ k \notin written
  /\ net' = [net EXCEPT ![k] = "gone"]
  /\ downLoadTaskModels' = Unmarked(t)
  /\ finishing' = k
  /\ IF Known(t)
       THEN /\ status' = [status EXCEPT ![t] = "Completed"]
            /\ UNCHANGED <<data, session, downLoadTask>>
            /\ changeDownLoadTasks({t})
       ELSE UNCHANGED <<taskVars, plist, taskModels>>
  /\ UNCHANGED <<files, xfer, written, cancels, bgVars>>

\* No task is believed in progress any more.
AlwaysLast == TRUE
LastOne == downLoadTaskModels = {}

\* Transfer k of a task still registered leaves no new file behind.
Missed(k) ==
  [t \in Tasks |-> IF t = xfer[k].task /\ t \in taskModels /\ files[t] = "none"
                     THEN "missed" ELSE files[t]]

\* moveFilePath for a task still registered, when createDirectoryPath and
\* moveItemAtPath succeed and when one of them fails. Nothing is moved onto a
\* file that exists.
MovedIfCurrent(k, moves) ==
  LET t == xfer[k].task IN
  IF ~moves THEN Missed(k)
  ELSE IF t \in taskModels /\ downLoadTask[t] = k
         THEN [files EXCEPT ![t] = "there"] ELSE files
Moved(k, moves) ==
  LET t == xfer[k].task IN
  IF ~moves THEN Missed(k)
  ELSE IF t \in taskModels THEN [files EXCEPT ![t] = "there"] ELSE files

\* The rest of didFinishDownloading, which does not look at what moveFilePath
\* returns. The temporary file goes either way.
MoveFile ==
  /\ finishing # Nil
  /\ finishing' = Nil
  /\ \E moves \in {TRUE} \cup IF "disk" \in Faults THEN {FALSE} ELSE {} :
       files' = Moved(finishing, moves)
  /\ IF LastOne THEN stopBackgroundTask /\ UNCHANGED appState
                ELSE UNCHANGED bgVars
  /\ UNCHANGED <<taskModels, downLoadTaskModels, taskVars, plist, xferVars>>

\* The completion of cancelByProducingResumeData, with or without data. It
\* holds the object, so that change... registers a deleted task again.
CancelOnlySuspended(s) == IF s = "Suspended" THEN "UnExpectedCancel" ELSE s
CancelStatus(s) ==
  CASE s = "Suspended" -> "UnExpectedCancel"
    [] s = "Runing"    -> "Cancel"
    [] OTHER           -> s

CancelCompletes(k) ==
  LET t == xfer[k].task IN
  /\ Idle
  /\ cancels[k] > 0
  /\ k \notin written
  /\ net[k] # "finished"
  /\ cancels' = [cancels EXCEPT ![k] = @ - 1]
  /\ net' = [net EXCEPT ![k] = IF @ = "cancelling" THEN "gone" ELSE @]
  /\ \E resumeData \in BOOLEAN : data' = [data EXCEPT ![t] = resumeData]
  /\ status' = [status EXCEPT ![t] = CancelStatus(@)]
  /\ UNCHANGED <<session, downLoadTask>>
  /\ changeDownLoadTasks({t})
  /\ downLoadTaskModels' = Unmarked(t)
  /\ UNCHANGED <<files, xfer, written, finishing, bgVars>>

-----------------------------------------------------------------------------
(* The process.                                                            *)

\* A new process reads the plist p: the objects, their status and data come
\* from their entries, everything else is as in a new object. An element of
\* Tasks without an entry stands from then on for a task not yet created.
Launch(p) ==
  /\ plist' = p
  /\ taskModels' = {t \in Tasks : p[t] # Nil}
  /\ status' = [t \in Tasks |-> IF p[t] = Nil THEN "Runing" ELSE p[t].status]
  /\ data' = [t \in Tasks |-> p[t] # Nil /\ p[t].data]
  /\ downLoadTaskModels' = {}
  /\ session' = [t \in Tasks |-> FALSE]
  /\ downLoadTask' = [t \in Tasks |-> Nil]
  /\ finishing' = Nil
  /\ xfer' = [k \in Xfers |-> [task |-> Nil, block |-> "none"]]
  /\ net' = [k \in Xfers |-> "none"]
  /\ written' = {}
  /\ cancels' = [k \in Xfers |-> 0]
  /\ files' = [t \in Tasks |-> IF p[t] = Nil THEN "none"
                               ELSE IF Idle THEN files[t] ELSE Missed(finishing)[t]]
  /\ BgLaunch

\* The process dies anywhere and is launched again later.
Crash == "crash" \in Faults /\ Launch(plist)

\* The user ends it: appTerminate saves every task first.
appTerminate ==
  /\ "crash" \in Faults
  /\ Idle
  /\ Launch([t \in Tasks |-> IF t \in taskModels THEN Saved(status[t], data[t])
                                                 ELSE plist[t]])

Api(t) ==
  \/ addDownLoadTask(t)
  \/ \E k \in Xfers : startDownLoad(t, k)
  \/ cancelDownLoad(t)
  \/ suspendDownLoad(t)
  \/ resumeDownLoad(t)
  \/ deleteDownLoadTask(t)

Callback(k) == didWriteData(k) \/ didFinishDownloading(k) \/ CancelCompletes(k)

Block(k) == CreateTransfer(k) \/ ResumeTransfer(k)

Next ==
  \/ \E t \in Tasks : Api(t)
  \/ cancelAllTasks
  \/ suspendAllTasks
  \/ \E k \in Xfers : Block(k) \/ NetProgress(k) \/ NetEnds(k) \/ Callback(k)
  \/ MoveFile
  \/ Idle /\ BgNext /\ UNCHANGED toolVars
  \/ Crash
  \/ appTerminate

Spec == Init /\ [][Next]_vars

\* GCD runs the blocks it was given and the main run loop the callbacks queued
\* on it. Neither the user nor the network owes anything.
FairSpec ==
  /\ Spec
  /\ \A k \in Xfers : WF_vars(Block(k)) /\ WF_vars(Callback(k))
  /\ WF_vars(MoveFile)

-----------------------------------------------------------------------------
(* Properties.                                                             *)

\* Between two handlers the plist is an exact copy of the registry, so that a
\* crash there loses nothing: no change of status or resume data, and no
\* removal, stays in memory only.
PlistMirrorsMemory ==
  \A t \in Tasks :
    plist[t] = IF t \in taskModels THEN Saved(status[t], data[t]) ELSE Nil

\* What the program sees of the manager: which tasks it knows, and their objects.
Registry == INSTANCE TaskRegistry
  WITH registered <- taskModels,
       fields <- [t \in Tasks |-> Saved(status[t], data[t])]

\* The manager implements a durable registry: a process that dies between any
\* two steps, also within didFinishDownloading, or is ended by the user, leaves
\* every registered task exactly as it was, and a status changes only in the
\* ways TaskRegistry allows.
ImplementsRegistry == Registry!Spec

\* A task marked in progress has a start block, a transfer or a completion that
\* will clear the mark, whatever double starts, cancels and deletes came before
\* (a failing transfer excepted, see FailureIsReported).
InProgressIsLive ==
  "network" \notin Faults =>
    \A t \in downLoadTaskModels : LiveXfers(t) # {}

\* Conversely, a transfer under way is marked: its task is in
\* downLoadTaskModels, deleted or not.
TransferIsMarked ==
  \A k \in Xfers : Transferring(k) => xfer[k].task \in downLoadTaskModels

\* A task whose download is 下载完成 has its file at task.path, through restarts
\* and whatever transfer, dropped ones included, the download came with, but for
\* the two ways the code loses it: the move failed and nobody looked, or the
\* process died between the write of the plist and the move. No other order of
\* calls, callbacks and launches ends in a completed task without a file.
CompletedHasFile ==
  Idle => \A t \in taskModels : status[t] = "Completed" => files[t] # "none"

\* When the last transfer of a registered task ends in this process, the
\* task does not go on showing 下载中 (no failing transfer, see below).
EndIsRecorded ==
  [][\A t \in taskModels \cap taskModels' :
       LiveXfers(t) # {} /\ LiveXfers(t)' = {} /\ session'[t]
         => status'[t] # "Runing"]_vars

\* didFinishDownloading ends the background task only when no transfer is left
\* that needs it.
BackgroundCoversTransfers ==
  [][finishing # Nil /\ backTask # Invalid /\ backTask' = Invalid
       /\ appState = "background" /\ appState' = "background"
     => \A k \in Xfers : ~Transferring(k)]_vars

\* When a suspend turns a task to 下载暂停, none of its transfers goes on.
SuspendStopsTransfer ==
  [][\A t \in Tasks :
       status[t] # "Suspended" /\ status'[t] = "Suspended" /\ session'[t]
         => \A k \in Xfers : xfer[k].task = t => net'[k] # "running"]_vars

\* A deleted task comes back only when the caller adds or starts it again.
DeletedStaysDeleted ==
  [][\A t \in taskModels' \ taskModels :
       addDownLoadTask(t) \/ \E k \in Xfers : startDownLoad(t, k)]_vars

\* Nothing of task t is left: no object, no block, transfer or completion.
Forgotten(t) == t \notin taskModels /\ LiveXfers(t) = {}

\* What does hold of a deletion: once nothing of the deleted task is under way,
\* no callback and no new process registers it again, and it stays without
\* transfers, until the caller adds or starts it.
ForgottenStays ==
  [][\A t \in Tasks :
       Forgotten(t) /\ ~Forgotten(t)' =>
         addDownLoadTask(t) \/ \E k \in Xfers : startDownLoad(t, k)]_vars

\* A started transfer gets going, unless it is replaced by another start before
\* its block resumes it, or the process dies.
StartIsServed ==
  \A k \in Xfers :
    xfer[k].block = "queued" ~>
      \/ net[k] \notin {"none", "suspended"}
      \/ xfer[k].block = "none"
      \/ xfer[k].block # "queued" /\ downLoadTask[xfer[k].task] # k

\* A download that came to its end is recorded as completed.
FinishIsRecorded ==
  \A k \in Xfers, t \in Tasks :
    net[k] = "finished" /\ xfer[k].task = t ~>
      \/ status[t] = "Completed"
      \/ t \notin taskModels
      \/ xfer[k].task # t

\* A cancel that reached a transfer ends with its task out of the tasks in
\* progress.
CancelIsServed ==
  \A k \in Xfers, t \in Tasks :
    cancels[k] > 0 /\ xfer[k].task = t ~> t \notin downLoadTaskModels

\* A failed transfer is recorded as 下载失败.
FailureIsReported ==
  \A k \in Xfers, t \in Tasks :
    net[k] = "failed" /\ xfer[k].task = t ~>
      \/ status[t] = "Failed"
      \/ t \notin taskModels
      \/ xfer[k].task # t
=============================================================================
