----------------------- MODULE DownLoadRegistry_proofs -----------------------
(***************************************************************************)
(* The download manager implements TaskRegistry: every step of the manager *)
(* is a step of the durable registry, or leaves it alone. The two facts    *)
(* the proof rests on are the types and that the plist is the registry:    *)
(* without the second, a restart could change a registered task.           *)
(***************************************************************************)
EXTENDS DownLoadTool_proofs

\* The fields the refinement maps a task object to.
Fields == [t \in Tasks |-> Saved(status[t], data[t])]

LEMMA FieldsOf ==
  ASSUME TypeInv
  PROVE  \A t \in Tasks : Fields[t] = Saved(status[t], data[t])
BY DEF Fields

\* What changes neither the registered tasks nor a status or resume data is no
\* step of the registry.
LEMMA Stutters ==
  ASSUME UNCHANGED <<taskModels, status, data>>
  PROVE  UNCHANGED Registry!regVars
BY DEF Registry!regVars

\* One status given to registered tasks is SetStatus.
LEMMA StatusSet ==
  ASSUME TypeInv, NEW S \in SUBSET Tasks, S \subseteq taskModels, NEW s,
         taskModels' = taskModels, data' = data,
         status' = [t \in Tasks |-> IF t \in S THEN s ELSE status[t]]
  PROVE  Registry!SetStatus(S, s)
BY DEF Registry!SetStatus, Saved

LEMMA RegisterStep ==
  ASSUME TypeInv, NEW t \in Tasks, UNCHANGED <<status, data>>,
         taskModels' = taskModels \cup {t}
  PROVE  Registry!Next
<1>1. Registry!Register(t)
  BY DEF Registry!Register
<1> QED BY <1>1 DEF Registry!Next

LEMMA ApiStep ==
  ASSUME TypeInv, NEW t \in Tasks, Api(t)
  PROVE  Registry!Next \/ UNCHANGED Registry!regVars
<1>1. CASE addDownLoadTask(t)
  BY <1>1, RegisterStep DEF addDownLoadTask, changeDownLoadTasks, taskVars
<1>2. CASE \E k \in Xfers : startDownLoad(t, k)
  <2> PICK k \in Xfers : start(t, k)
    BY <1>2 DEF startDownLoad
  <2>1. CASE t \in taskModels
    BY <2>1, Stutters DEF start
  <2>2. CASE t \notin taskModels
    BY <2>2, RegisterStep DEF start, changeDownLoadTasks
  <2> QED BY <2>1, <2>2
<1>3. CASE cancelDownLoad(t)
  BY <1>3, Stutters DEF cancelDownLoad, cancelAll, taskVars
<1>4. CASE suspendDownLoad(t)
  <2>1. Registry!SetStatus(Reachable({t}), "Suspended")
    BY <1>4, StatusSet DEF suspendDownLoad, suspendAll, Reachable, changeDownLoadTasks
  <2>2. Reachable({t}) \in SUBSET Tasks
    BY DEF Reachable
  <2> QED BY <2>1, <2>2 DEF Registry!Next, Registry!Suspend
<1>5. CASE resumeDownLoad(t)
  BY <1>5, Stutters DEF resumeDownLoad, taskVars
<1>6. CASE deleteDownLoadTask(t)
  <2>1. Registry!Delete(t)
    BY <1>6 DEF deleteDownLoadTask, taskVars, Registry!Delete
  <2> QED BY <2>1 DEF Registry!Next
<1> QED BY <1>1, <1>2, <1>3, <1>4, <1>5, <1>6 DEF Api

LEMMA AllStep ==
  ASSUME TypeInv, cancelAllTasks \/ suspendAllTasks
  PROVE  Registry!Next \/ UNCHANGED Registry!regVars
<1>1. CASE cancelAllTasks
  BY <1>1, Stutters DEF cancelAllTasks, cancelAll, taskVars
<1>2. CASE suspendAllTasks
  <2>1. Reachable(Tasks) \in SUBSET Tasks /\ Reachable(Tasks) \subseteq taskModels
    BY DEF Reachable
  <2>2. Registry!SetStatus(Reachable(Tasks), "Suspended")
    <3>1. taskModels' = taskModels
      BY <1>2, <2>1 DEF suspendAllTasks, suspendAll, changeDownLoadTasks
    <3> QED BY <1>2, <2>1, <3>1, StatusSet DEF suspendAllTasks, suspendAll
  <2> QED BY <2>1, <2>2 DEF Registry!Next, Registry!Suspend
<1> QED BY <1>1, <1>2

\* A callback of data, of an end and of a cancel; the first two pass over a task
\* that was deleted, the third registers it.
LEMMA CallbackStep ==
  ASSUME TypeInv, NEW k \in Xfers, Callback(k)
  PROVE  Registry!Next \/ UNCHANGED Registry!regVars
<1> DEFINE t == xfer[k].task
<1>1. xfer[k].block \notin {"none", "queued"}
  BY DEF Callback, didWriteData, didFinishDownloading, CancelCompletes, TypeInv,
         OwnerOK, ToolTypeOK
<1>2. t \in Tasks
  BY <1>1 DEF TypeInv, OwnerOK
<1>3. CASE didWriteData(k)
  <2>1. CASE t \in taskModels
    <3>1. /\ taskModels' = taskModels
          /\ data' = data
          /\ status' = [u \in Tasks |-> IF u \in {t} THEN "Runing" ELSE status[u]]
      <4>1. status \in [Tasks -> State]
        BY DEF TypeInv, ToolTypeOK
      <4>2. status' = [status EXCEPT ![t] = "Runing"] /\ data' = data
        BY <1>3, <2>1 DEF didWriteData
      <4>3. taskModels' = taskModels
        BY <1>3, <2>1 DEF didWriteData, changeDownLoadTasks
      <4> QED BY <1>2, <4>1, <4>2, <4>3
    <3>2. Registry!SetStatus({t}, "Runing")
      BY <1>2, <2>1, <3>1, StatusSet
    <3> QED BY <1>2, <3>2 DEF Registry!Next, Registry!Receive
  <2>2. CASE t \notin taskModels
    BY <1>3, <2>2, Stutters DEF didWriteData, taskVars
  <2> QED BY <2>1, <2>2
<1>4. CASE didFinishDownloading(k)
  <2>1. CASE t \in taskModels
    <3>1. /\ taskModels' = taskModels
          /\ data' = data
          /\ status' = [u \in Tasks |-> IF u \in {t} THEN "Completed" ELSE status[u]]
      <4>1. status \in [Tasks -> State]
        BY DEF TypeInv, ToolTypeOK
      <4>2. status' = [status EXCEPT ![t] = "Completed"] /\ data' = data
        BY <1>4, <2>1 DEF didFinishDownloading, Known
      <4>3. taskModels' = taskModels
        BY <1>4, <2>1 DEF didFinishDownloading, Known, changeDownLoadTasks
      <4> QED BY <1>2, <4>1, <4>2, <4>3
    <3>2. Registry!SetStatus({t}, "Completed")
      BY <1>2, <2>1, <3>1, StatusSet
    <3> QED BY <1>2, <3>2 DEF Registry!Next, Registry!Complete
  <2>2. CASE t \notin taskModels
    BY <1>4, <2>2, Stutters DEF didFinishDownloading, Known, taskVars
  <2> QED BY <2>1, <2>2
<1>5. CASE CancelCompletes(k)
  <2>1. PICK resumeData \in BOOLEAN : data' = [data EXCEPT ![t] = resumeData]
    BY <1>5 DEF CancelCompletes
  <2>2. status' = [status EXCEPT ![t] = CancelStatus(@)]
    BY <1>5 DEF CancelCompletes
  <2>3. taskModels' = taskModels \cup {t}
    BY <1>5 DEF CancelCompletes, changeDownLoadTasks
  <2>4. \A s : CancelStatus(s) = Registry!Cancelled(s)
    BY DEF CancelStatus, Registry!Cancelled
  <2>5. \A u \in Tasks :
          Saved(status'[u], data'[u]) =
            IF u = t THEN Saved(CancelStatus(status[t]), resumeData)
                     ELSE Saved(status[u], data[u])
    BY <1>2, <2>1, <2>2 DEF TypeInv, ToolTypeOK
  <2>6. Registry!CancelEnds(t)
    BY <1>2, <2>3, <2>4, <2>5 DEF Registry!CancelEnds, Saved
  <2> QED BY <1>2, <2>6 DEF Registry!Next
<1> QED BY <1>3, <1>4, <1>5 DEF Callback

\* A new process that reads the plist finds the registry it left.
LEMMA RestartStep ==
  ASSUME TypeInv, PlistMirrorsMemory, Crash \/ appTerminate
  PROVE  Registry!Next
<1>1. \A t \in Tasks : Saved(status[t], data[t]) # Nil
  BY NilAssumption DEF Saved, Entry, TypeInv, ToolTypeOK
<1>2. Launch(plist)
  <2>1. CASE Crash
    BY <2>1 DEF Crash
  <2>2. CASE appTerminate
    <3>1. plist = [t \in Tasks |-> IF t \in taskModels THEN Saved(status[t], data[t])
                                                       ELSE plist[t]]
      BY DEF PlistMirrorsMemory, TypeInv, ToolTypeOK
    <3> QED BY <2>2, <3>1 DEF appTerminate
  <2> QED BY <2>1, <2>2
<1>3. taskModels' = taskModels
  BY <1>1, <1>2 DEF Launch, PlistMirrorsMemory, TypeInv, ToolTypeOK
<1>4. \A t \in Tasks :
        Saved(status'[t], data'[t]) =
          IF t \in taskModels THEN Saved(status[t], data[t]) ELSE Registry!Fresh
  <2> TAKE t \in Tasks
  <2>1. CASE t \in taskModels
    <3>1. plist[t] = Saved(status[t], data[t]) /\ plist[t] # Nil
      BY <1>1, <2>1 DEF PlistMirrorsMemory
    <3>2. status'[t] = status[t] /\ data'[t] = data[t]
      BY <1>2, <3>1 DEF Launch, Saved, TypeInv, ToolTypeOK
    <3> QED BY <2>1, <3>2
  <2>2. CASE t \notin taskModels
    <3>1. plist[t] = Nil
      BY <2>2 DEF PlistMirrorsMemory
    <3>2. status'[t] = "Runing" /\ data'[t] = FALSE
      BY <1>2, <3>1 DEF Launch
    <3> QED BY <2>2, <3>2 DEF Registry!Fresh, Saved
  <2> QED BY <2>1, <2>2
<1>5. Registry!Restart
  BY <1>3, <1>4 DEF Registry!Restart
<1> QED BY <1>5 DEF Registry!Next

LEMMA RegistryStep ==
  ASSUME TypeInv, PlistMirrorsMemory, [Next]_vars
  PROVE  [Registry!Next]_(Registry!regVars)
<1>1. ASSUME NEW t \in Tasks, Api(t) PROVE [Registry!Next]_(Registry!regVars)
  BY <1>1, ApiStep
<1>2. CASE cancelAllTasks \/ suspendAllTasks
  BY <1>2, AllStep
<1>3. ASSUME NEW k \in Xfers, Block(k) \/ NetProgress(k) \/ NetEnds(k)
      PROVE  [Registry!Next]_(Registry!regVars)
  BY <1>3, Stutters DEF Block, CreateTransfer, ResumeTransfer, NetProgress, NetEnds,
                        taskVars
<1>4. ASSUME NEW k \in Xfers, Callback(k) PROVE [Registry!Next]_(Registry!regVars)
  BY <1>4, CallbackStep
<1>5. CASE MoveFile
  BY <1>5, Stutters DEF MoveFile, taskVars
<1>6. CASE Idle /\ BgNext /\ UNCHANGED toolVars
  BY <1>6, Stutters DEF toolVars, taskVars
<1>7. CASE Crash \/ appTerminate
  BY <1>7, RestartStep
<1>8. CASE UNCHANGED vars
  BY <1>8, Stutters DEF vars, toolVars, taskVars
<1> QED BY <1>1, <1>2, <1>3, <1>4, <1>5, <1>6, <1>7, <1>8 DEF Next

\* The manager implements the durable registry, for any caller, any number of
\* tasks and transfers, and a process that may die between any two steps.
THEOREM RegistryImplemented == Spec => ImplementsRegistry
<1>1. Init => Registry!Init
  BY DEF Init, Registry!Init, Registry!Fresh, Saved
<1>2. TypeInv /\ PlistMirrorsMemory /\ [Next]_vars => [Registry!Next]_(Registry!regVars)
  BY RegistryStep
<1> QED
  BY <1>1, <1>2, TypeInvCorrect, PlistCorrect, PTL DEF Spec, Registry!Spec, ImplementsRegistry
=============================================================================
