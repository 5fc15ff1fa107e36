------------------------- MODULE DownLoadBackground -------------------------
(***************************************************************************)
(* The background-execution part of HGBDownLoadTool: the UIKit background  *)
(* task that keeps the process alive while downloads run, and the          *)
(* repeating NSTimer that asks for more time (HGBDownLoadTool.m, "后台").  *)
(* Everything here runs on the main thread.                                *)
(***************************************************************************)
EXTENDS Naturals, FiniteSets

CONSTANTS
  BgIds,           \* identifiers UIKit hands out (UIBackgroundTaskIdentifier)
  Timers,          \* NSTimer objects; their number bounds the leaked timers
  Invalid,         \* UIBackgroundTaskInvalid, also the value of an unset id
  NoTimer,         \* nil
  isCanBackGround  \* the tool's property: may it run in the background

ASSUME BackgroundAssumption ==
  /\ Invalid \notin BgIds
  /\ NoTimer \notin Timers
  /\ isCanBackGround \in BOOLEAN

VARIABLES
  appState,    \* "active", or "background" from WillResignActive on
  backTask,    \* self.backTask
  handler,     \* which expiration handler UIKit holds for an identifier
  liveTimers,  \* timers still scheduled on the run loop
  timer        \* self.timer

bgVars == <<appState, backTask, handler, liveTimers, timer>>

\* The two blocks passed to beginBackgroundTaskWithExpirationHandler.
Handlers == {"start", "more"}

Held == {b \in BgIds : handler[b] # "none"}

BgTypeOK ==
  /\ appState \in {"active", "background"}
  /\ backTask \in BgIds \cup {Invalid}
  /\ handler \in [BgIds -> Handlers \cup {"none"}]
  /\ liveTimers \in SUBSET Timers
  /\ timer \in Timers \cup {NoTimer}

BgInit ==
  /\ appState = "active"
  /\ backTask = Invalid
  /\ handler = [b \in BgIds |-> "none"]
  /\ liveTimers = {}
  /\ timer = NoTimer

-----------------------------------------------------------------------------
(* UIKit, as the tool uses it.                                             *)

\* endBackgroundTask: on the invalid identifier, nothing.
Ended(b) == IF b = Invalid THEN handler ELSE [handler EXCEPT ![b] = "none"]

\* [app endBackgroundTask:old], then a new task whose expiration runs block h.
Exchange(old, h) ==
  \E b \in BgIds :
    /\ Ended(old)[b] = "none"
    /\ handler' = [Ended(old) EXCEPT ![b] = h]
    /\ backTask' = b

\* A process that is in the background and holds no task is suspended.
ProcessRuns == appState = "active" \/ Held # {}

-----------------------------------------------------------------------------
(* The tool's own methods.                                                 *)

\* self.backTask = a new task; the old identifier is overwritten, not ended.
startBackgroundTask == Exchange(Invalid, "start")

\* "low" is app.backgroundTimeRemaining < 60.
beginWithoutEnd(low) ==
  IF low THEN Exchange(Invalid, "more") ELSE UNCHANGED <<handler, backTask>>
applyForMoreTime(low) ==
  IF low THEN Exchange(backTask, "more") ELSE UNCHANGED <<handler, backTask>>

forgetBackgroundTask ==
  /\ backTask' = Invalid
  /\ liveTimers' = liveTimers \ {timer}
  /\ UNCHANGED <<handler, timer>>
stopBackgroundTask ==
  /\ handler' = Ended(backTask)
  /\ backTask' = Invalid
  /\ liveTimers' = IF backTask = Invalid THEN liveTimers
                                         ELSE liveTimers \ {timer}
  /\ UNCHANGED timer

appWillBack ==
  /\ appState = "active"
  /\ appState' = "background"
  /\ IF isCanBackGround THEN startBackgroundTask
                        ELSE UNCHANGED <<handler, backTask>>
  /\ UNCHANGED <<liveTimers, timer>>

appActive ==
  /\ appState = "background"
  /\ appState' = "active"
  /\ stopBackgroundTask

\* The block of startBackgroundTask: a new repeating timer, fired at once. The
\* time remaining when a task expires is below the tool's 60 seconds.
StartExpires(b) ==
  /\ appState = "background"
  /\ handler[b] = "start"
  /\ \E t \in Timers \ liveTimers :
       /\ liveTimers' = liveTimers \cup {t}
       /\ timer' = t
  /\ applyForMoreTime(TRUE)
  /\ UNCHANGED appState

\* The block of applyForMoreTime: ends self.backTask, leaves the timer alone.
MoreExpires(b) ==
  /\ appState = "background"
  /\ handler[b] = "more"
  /\ handler' = Ended(backTask)
  /\ backTask' = Invalid
  /\ UNCHANGED <<appState, liveTimers, timer>>

\* A tick of a scheduled timer. In the foreground the time is unlimited.
TimerFires ==
  /\ liveTimers # {}
  /\ ProcessRuns
  /\ \E low \in BOOLEAN :
       /\ low => appState = "background"
       /\ applyForMoreTime(low)
  /\ UNCHANGED <<appState, liveTimers, timer>>

\* A new process: no task, no timer.
BgLaunch ==
  /\ appState' = "active"
  /\ backTask' = Invalid
  /\ handler' = [b \in BgIds |-> "none"]
  /\ liveTimers' = {}
  /\ timer' = NoTimer

BgNext ==
  \/ appWillBack
  \/ appActive
  \/ TimerFires
  \/ \E b \in BgIds : StartExpires(b) \/ MoreExpires(b)

-----------------------------------------------------------------------------
(* Properties.                                                             *)

\* Every task UIKit still counts is the one in self.backTask, so that the tool
\* can end it: begin-without-end (a task the system would kill the app for)
\* never happens, although startBackgroundTask overwrites the identifier.
HeldIsKnown == Held \subseteq {backTask}

\* While the app is active it holds no background task: appActive ended the
\* one of the last background period, whatever its handlers did meanwhile.
ActiveHoldsNone == appState = "active" => Held = {}

=============================================================================
