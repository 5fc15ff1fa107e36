---------------------------- MODULE TaskRegistry ----------------------------
(***************************************************************************)
(* What HGBDownLoadTool promises the program about its tasks, without the  *)
(* plist, the transfers, the blocks and the callbacks behind it: a durable *)
(* registry.  A task is registered or not, and its object holds a status   *)
(* and perhaps resume data.  A restart of the process keeps the registered *)
(* tasks exactly as they were and forgets the others.                      *)
(***************************************************************************)
CONSTANT Tasks

VARIABLES
  registered,  \* the tasks the manager knows
  fields       \* per task object: its status, and whether it has resume data

regVars == <<registered, fields>>

Fresh == [status |-> "Runing", data |-> FALSE]

Init == registered = {} /\ fields = [t \in Tasks |-> Fresh]

\* The program adds a task or starts one: the object goes in as it is.
Register(t) ==
  /\ registered' = registered \cup {t}
  /\ UNCHANGED fields

\* The objects of S get a status, the rest stays.
SetStatus(S, s) ==
  /\ S \subseteq registered
  /\ fields' = [t \in Tasks |-> IF t \in S THEN [fields[t] EXCEPT !.status = s]
                                           ELSE fields[t]]
  /\ UNCHANGED registered

\* Data arrives for a registered task, its download ends, some tasks are
\* suspended.
Receive(t) == SetStatus({t}, "Runing")
Complete(t) == SetStatus({t}, "Completed")
Suspend(S) == SetStatus(S, "Suspended")

\* A cancel completes, with or without resume data: the status tells a cancel
\* of a running download from one of a suspended download, and never turns into
\* a cancelled one what was neither. The task is registered afterwards.
Cancelled(s) ==
  CASE s = "Runing" -> "Cancel"
    [] s = "Suspended" -> "UnExpectedCancel"
    [] OTHER -> s

CancelEnds(t) ==
  \E resumeData \in BOOLEAN :
    /\ registered' = registered \cup {t}
    /\ fields' = [fields EXCEPT ![t] = [status |-> Cancelled(@.status),
                                        data |-> resumeData]]

Delete(t) ==
  /\ registered' = registered \ {t}
  /\ UNCHANGED fields

\* The process ends, in whatever way, and another one takes over.
Restart ==
  /\ fields' = [t \in Tasks |-> IF t \in registered THEN fields[t] ELSE Fresh]
  /\ UNCHANGED registered

Next ==
  \/ \E t \in Tasks : Register(t) \/ Receive(t) \/ Complete(t) \/ CancelEnds(t) \/ Delete(t)
  \/ \E S \in SUBSET Tasks : Suspend(S)
  \/ Restart

Spec == Init /\ [][Next]_regVars
=============================================================================
