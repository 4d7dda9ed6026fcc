----------------------------- MODULE ConfigReload -----------------------------
(***************************************************************************)
(* ConfigManager (config.go): the configuration file, the editors that     *)
(* write it, and the goroutine that looks at its modification time every   *)
(* five seconds and loads it again.  A load reads the file first and asks  *)
(* for its time last, and an editor may write in between.                  *)
(*                                                                         *)
(* main loads the file once, by LoadConfig; nothing in the proxy makes a   *)
(* ConfigManager yet.                                                      *)
(***************************************************************************)
EXTENDS Naturals

CONSTANTS
  Missing,   \* no file
  NoConfig,  \* nothing loaded yet
  MaxWrites, \* bound: writes of the file
  MaxTime    \* bound: the clock of the file system stops there

ASSUME ConfigBoundAssumption == MaxWrites \in Nat /\ MaxTime \in Nat \ {0}

\* A file is empty while an editor that truncates it has not written yet; a
\* broken one is no YAML.
Content == [version : 0 .. MaxWrites, form : {"whole", "empty", "broken"}]
ASSUME NamesAssumption == Missing \notin Content /\ NoConfig \notin Content

VARIABLES
  now,          \* the clock of the file system, in its granules
  content,      \* the file
  modTime,      \* and its time
  writes,       \* writes so far
  managerAt,    \* "read", "install" or "waiting"; "failed": no manager was made
  buffer,       \* what ReadFile has returned
  config,       \* the configuration that GetConfig returns
  lastModTime,
  raced,        \* history: whether the last write came between the read of a load and
                \* its install, or, while none was under way, with no later time than
                \* the file had as the last load ended
  loadedAt      \* history: that time

file == <<content, modTime, writes>>
manager == <<managerAt, buffer, config, lastModTime>>
history == <<raced, loadedAt>>
cvars == <<now, file, manager, history>>

ConfigTypeOK ==
  /\ now \in 1 .. MaxTime
  /\ content \in Content \union {Missing}
  /\ modTime \in 1 .. MaxTime
  /\ writes \in 0 .. MaxWrites
  /\ managerAt \in {"read", "install", "waiting", "failed"}
  /\ buffer \in Content \union {Missing}
  /\ config \in Content \union {NoConfig}
  /\ lastModTime \in 0 .. MaxTime
  /\ raced \in BOOLEAN
  /\ loadedAt \in 0 .. MaxTime

\* NewConfigManager begins with a load.
ConfigInit ==
  /\ now = 1 /\ modTime = 1 /\ writes = 0
  /\ content \in {[version |-> 0, form |-> form] : form \in {"whole", "broken"}} \union {Missing}
  /\ managerAt = "read" /\ buffer = Missing /\ config = NoConfig /\ lastModTime = 0
  /\ raced = FALSE /\ loadedAt = 0

-----------------------------------------------------------------------------
(***************************************************************************)
(* The editors.                                                            *)
(***************************************************************************)
Tick == now < MaxTime /\ now' = now + 1 /\ UNCHANGED <<file, manager, history>>

Write(form, time) ==
  /\ writes < MaxWrites
  /\ writes' = writes + 1
  /\ content' = [version |-> writes + 1, form |-> form]
  /\ modTime' = time
  /\ raced' = (managerAt = "install" \/ (managerAt = "waiting" /\ time <= loadedAt))
  /\ UNCHANGED <<now, manager, loadedAt>>

\* In place: the file is cut to nothing and filled by a second write.
Truncate == Write("empty", now)
Fill ==
  /\ content # Missing /\ content.form = "empty"
  /\ \E form \in {"whole", "broken"} : Write(form, now)

\* By renaming another file, which keeps its own time.
Replace == \E form \in {"whole", "broken"}, time \in 1 .. now : Write(form, time)

RemoveFile ==
  /\ writes < MaxWrites
  /\ writes' = writes + 1
  /\ content' = Missing
  /\ UNCHANGED <<now, modTime, manager, history>>

-----------------------------------------------------------------------------
(***************************************************************************)
(* The manager.                                                            *)
(***************************************************************************)
\* watchConfig: the time is compared with that of the last load.
Changed == content # Missing /\ modTime > lastModTime

WatchConfig ==
  /\ managerAt = "waiting" /\ Changed
  /\ managerAt' = "read"
  /\ UNCHANGED <<now, file, buffer, config, lastModTime, history>>

\* Mutant of Unloaded: the error ends the watch.
UnloadedForGood == managerAt' = "failed"

\* Without a configuration there is no manager; with one, the error is printed
\* and the watch goes on.
Unloaded == managerAt' = IF config = NoConfig THEN "failed" ELSE "waiting"

\* loadConfig: ReadFile and Unmarshal.  An empty file is a configuration of
\* defaults.
Loadable == content # Missing /\ content.form # "broken"

ReadFile ==
  /\ managerAt = "read"
  /\ IF ~Loadable
     THEN Unloaded /\ UNCHANGED buffer
     ELSE managerAt' = "install" /\ buffer' = content
  /\ UNCHANGED <<now, file, config, lastModTime, history>>

\* Mutant of Install: the time of the load instead of the file's.
InstallAtNow ==
  /\ managerAt = "install"
  /\ config' = buffer
  /\ lastModTime' = now
  /\ managerAt' = "waiting"
  /\ loadedAt' = IF content = Missing THEN loadedAt ELSE modTime
  /\ UNCHANGED <<now, file, buffer, raced>>

\* Under the lock: the configuration, and the time the file has by now.
Install ==
  /\ managerAt = "install"
  /\ config' = buffer
  /\ lastModTime' = IF content = Missing THEN lastModTime ELSE modTime
  /\ managerAt' = "waiting"
  /\ loadedAt' = IF content = Missing THEN loadedAt ELSE modTime
  /\ UNCHANGED <<now, file, buffer, raced>>

-----------------------------------------------------------------------------
Manage == WatchConfig \/ ReadFile \/ Install
ConfigNext == Tick \/ Truncate \/ Fill \/ Replace \/ RemoveFile \/ Manage

\* The ticker goes on for ever, and so does the goroutine.
ConfigSpec == ConfigInit /\ [][ConfigNext]_cvars /\ WF_cvars(Manage)

-----------------------------------------------------------------------------
Overlooked == managerAt = "waiting" /\ Loadable /\ ~Changed /\ config # content

\* The manager settles on an old configuration only for a cause: the file was
\* written between the read of a load and its question for the time, or carries
\* no later time than the manager has seen.  Broken, missing and half-written
\* files in between, whatever their times, never make it miss the last one.
OverlookedForCause == Overlooked => raced

\* Once the editors rest on a file that can be loaded, and the last write had
\* no such misfortune, the manager serves it, however many loads have failed.
AtRest == writes = MaxWrites /\ Loadable /\ ~raced
EventuallyServed ==
  AtRest ~> (config = content \/ (config = NoConfig /\ managerAt = "failed"))
=============================================================================
