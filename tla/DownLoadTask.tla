---------------------------- MODULE DownLoadTask ----------------------------
(***************************************************************************)
(* HGBDownLoadTask, the model of one download: how its fields are set, and *)
(* how it becomes the dictionary kept in the plist and a model again.      *)
(***************************************************************************)
EXTENDS Integers

CONSTANTS
  Ids,       \* time stamps init hands out as ids
  Urls,      \* remote addresses
  LastName,  \* LastName[u]: last path component of u, cut at a "?"
  Nil,       \* nil
  MaxSize,   \* largest file, in bytes: bounds the model
  Precision, \* the integers up to it are floats (2^24 in the code)
  Ulps       \* distances of neighbouring floats: 1, 2, 4, ... up to MaxSize

ASSUME TaskAssumption ==
  /\ MaxSize \in Nat
  /\ Precision \in Nat \ {0}
  /\ Precision % 2 = 0
  /\ Ulps \subseteq Nat \ {0}
  /\ \A p \in Ulps : p = 1 \/ \E q \in Ulps : p = 2 * q
  /\ \E p \in Ulps : MaxSize < p * Precision
  /\ DOMAIN LastName = Urls

VARIABLES
  task,   \* the model in memory
  dic     \* the dictionary last written for it, or Nil

taskVars == <<task, dic>>

State == {"Runing", "Suspended", "Completed", "Cancel", "UnExpectedCancel",
          "Failed"}
Names == {LastName[u] : u \in Urls}

ASSUME NilAssumption ==
  /\ Nil \notin Ids \cup Names \cup State \cup {"common", "data"} \cup Int
  /\ Nil \notin Ids \X Names

\* NSURLSession's size of a file whose length the server does not tell.
SizeUnknown == -1

\* progress, a fraction in the code, in percent.
Progress(written, total) ==
  IF total = SizeUnknown THEN -100 * written ELSE (100 * written) \div total

\* The fields dictionaryFromTaskModel looks at; session, downLoadTask and queue
\* stay in the process.
Fields == {"id", "name", "groupId", "url", "path", "data", "status",
           "progress", "downloadSize", "totalSize"}

Model == [id : Ids, name : Names \cup {Nil}, groupId : {"common"},
          url : Urls \cup {Nil}, path : (Ids \X Names) \cup {Nil},
          data : {"data", Nil}, status : State, progress : Int,
          downloadSize : 0..MaxSize, totalSize : 0..MaxSize \cup {SizeUnknown}]

TaskTypeOK == task \in Model

-----------------------------------------------------------------------------

\* init. (Here and below, a definition placed before another one with the same
\* parameters is a mutant of it: the bug a property of the runs must catch.)
NewWithoutGroup(i) ==
  [id |-> i, name |-> Nil, groupId |-> Nil, url |-> Nil, path |-> Nil,
   data |-> Nil, status |-> "Runing", progress |-> 0, downloadSize |-> 0,
   totalSize |-> 0]
New(i) ==
  [id |-> i, name |-> Nil, groupId |-> "common", url |-> Nil, path |-> Nil,
   data |-> Nil, status |-> "Runing", progress |-> 0, downloadSize |-> 0,
   totalSize |-> 0]

\* setUrl: path and name are derived from the url once, and kept when the url
\* changes later.
WithUrl(m, u) ==
  [m EXCEPT !.url = u,
            !.path = IF @ = Nil THEN <<m.id, LastName[u]>> ELSE @,
            !.name = IF @ = Nil THEN LastName[u] ELSE @]

\* dictionaryFromTaskModel: the fields that are not nil.
dictionaryWithoutData(m) ==
  [f \in {g \in Fields \ {"data"} : m[g] # Nil} |-> m[f]]
dictionaryFromTaskModel(m) == [f \in {g \in Fields : m[g] # Nil} |-> m[f]]

\* The distance of the floats around x.
Ulp(x) ==
  CHOOSE p \in Ulps : x < p * Precision /\ (p = 1 \/ 2 * x >= p * Precision)

\* floatValue: the nearest float, at a tie the even one. (SizeUnknown is a float.)
RoundsUp(x, p) ==
  \/ 2 * (x % p) > p
  \/ 2 * (x % p) = p /\ (x \div p) % 2 = 1

Rounded(x, p) == (IF RoundsUp(x, p) THEN (x \div p) + 1 ELSE x \div p) * p

floatTruncated(x) == (x \div Ulp(x)) * Ulp(x)
floatValue(x) == IF x < 0 THEN x ELSE Rounded(x, Ulp(x))

\* The bound cuts no rounding short.
ASSUME MaxSizeAssumption == floatValue(MaxSize) = MaxSize

\* taskModelFormDictionary, on a model init just made with id i: each key that
\* is present, in the order of the code, url through its setter before path.
\* The key tested for progress is "progross", which no dictionary has.
Get(d, f, default) == IF f \in DOMAIN d THEN d[f] ELSE default

taskModelFormDictionary(d, i) ==
  LET named == [New(i) EXCEPT !.id = Get(d, "id", i),
                              !.name = Get(d, "name", Nil),
                              !.groupId = Get(d, "groupId", "common")]
      addressed == IF "url" \in DOMAIN d THEN WithUrl(named, d["url"]) ELSE named
  IN  [addressed EXCEPT
         !.path = Get(d, "path", @),
         !.data = Get(d, "data", Nil),
         !.status = Get(d, "status", @),
         !.progress = IF "progross" \in DOMAIN d THEN d["progress"] ELSE @,
         !.downloadSize = floatValue(Get(d, "downloadSize", 0)),
         !.totalSize = floatValue(Get(d, "totalSize", 0))]

-----------------------------------------------------------------------------

Init ==
  /\ \E i \in Ids : task = New(i)
  /\ dic = Nil

\* setUrl, as the caller does before the task is first started.
setUrl ==
  /\ \E u \in Urls : task' = WithUrl(task, u)
  /\ UNCHANGED dic

\* What HGBDownLoadTool's callbacks store: bytes that arrived, the end of the
\* download, a cancel with or without resume data. Each is saved at once.
Update(m) ==
  /\ task.url # Nil
  /\ task' = m
  /\ dic' = dictionaryFromTaskModel(m)

didWriteSwapped ==
  \E total \in 1..MaxSize :
    Update([task EXCEPT !.status = "Runing", !.totalSize = total \div 2,
                        !.downloadSize = total])
didWriteData ==
  \E total \in 1..MaxSize \cup {SizeUnknown} :
    \E written \in IF total = SizeUnknown THEN {MaxSize}
                   ELSE {total \div 2, total - 1, total} :
      Update([task EXCEPT !.status = "Runing", !.totalSize = total,
                          !.downloadSize = written,
                          !.progress = Progress(written, total)])

didFinishDownloading ==
  \E total \in 1..MaxSize :
    Update([task EXCEPT !.status = "Completed", !.totalSize = total,
                        !.downloadSize = total, !.progress = 100])

cancelCompletes ==
  \E d \in {"data", Nil}, s \in {"Cancel", "UnExpectedCancel"} :
    Update([task EXCEPT !.status = s, !.data = d])

\* A new process reads the dictionary.
Relaunch ==
  /\ dic # Nil
  /\ \E i \in Ids : task' = taskModelFormDictionary(dic, i)
  /\ UNCHANGED dic

Next == setUrl \/ didWriteData \/ didFinishDownloading \/ cancelCompletes \/ Relaunch

Spec == Init /\ [][Next]_taskVars

-----------------------------------------------------------------------------
(* Properties.                                                             *)

\* What tells one download from another, where its file goes, how it stands
\* and where it can resume survive a restart.
IdentitySurvives ==
  [][Relaunch => \A f \in {"id", "name", "groupId", "path", "data", "status"} :
                   task'[f] = task[f]]_taskVars

\* A size read back is off by at most one part in Precision, and exact for a
\* file of at most that many bytes.
SizesSurvive ==
  [][Relaunch =>
       \A f \in {"downloadSize", "totalSize"} :
         LET x == task[f]
             y == task'[f]
             off == IF y > x THEN y - x ELSE x - y
         IN  IF x <= Precision THEN y = x
                               ELSE off * Precision <= x]_taskVars

\* The bytes downloaded never exceed the size of the file, also when each of
\* the two was rounded on its own.
DownloadedWithinTotal ==
  task.totalSize # SizeUnknown => task.downloadSize <= task.totalSize

=============================================================================
