---------------------------- MODULE SnapshotFile ----------------------------
(***************************************************************************)
(* persist_snapshot_new of hft-recovery: write and sync a temporary file,  *)
(* link it at its destination, remove the temporary name, sync the         *)
(* directory.  Calls of several threads and processes run at the same time *)
(* for one destination; any step may fail, a process may stop, and the     *)
(* machine may lose power.                                                 *)
(*                                                                         *)
(* The file system is external.  A call's file is identified by the call.  *)
(* A name changes at once for every process; a power loss takes back any   *)
(* of the changes to the directory since it was last synced, and any data  *)
(* of a file that was not synced.                                          *)
(***************************************************************************)
EXTENDS Integers

CONSTANTS
  Calls,      \* calls of persist_snapshot_new
  TempNames,  \* names of temporary files
  TempOf,     \* the temporary name of each call: process id and counter
  Dest,       \* the destination
  None        \* no file

ASSUME SnapshotFileAssumption ==
  /\ TempOf \in [Calls -> TempNames]
  /\ Dest \notin TempNames
  /\ None \notin Calls

Names == TempNames \cup {Dest}

VARIABLES
  pc,       \* where each call is
  result,   \* what it returned
  dir,      \* the file each name refers to
  stored,   \* the same on disk, as of the last sync of the directory
  data,     \* how much of each call's file has been written
  flushed,  \* files whose data is on disk
  power     \* no power loss has happened yet

fsVars == <<dir, stored, data, flushed>>
vars == <<pc, result, fsVars, power>>

Init ==
  /\ pc = [c \in Calls |-> "start"]
  /\ result = [c \in Calls |-> "None"]
  /\ dir = [n \in Names |-> None]
  /\ stored = [n \in Names |-> None]
  /\ data = [c \in Calls |-> "partial"]
  /\ flushed = {}
  /\ power = TRUE

Live(c) == pc[c] \notin {"start", "done"}

Goto(c, place) == pc' = [pc EXCEPT ![c] = place] /\ UNCHANGED <<result, power>>
Return(c, value) ==
  /\ pc' = [pc EXCEPT ![c] = "done"]
  /\ result' = [result EXCEPT ![c] = value]
  /\ UNCHANGED power

\* Temporary names without the counter.

\* path.exists.  The process id and the counter keep the names of live calls apart.
CheckExists(c) ==
  /\ pc[c] = "start"
  /\ \A d \in Calls : Live(d) => TempOf[d] # TempOf[c]
  /\ IF dir[Dest] # None THEN Return(c, "BeforePublication") ELSE Goto(c, "create")
  /\ UNCHANGED fsVars

\* create_new fails on a name that an earlier process left behind.
CreateTemporary(c) ==
  /\ pc[c] = "create"
  /\ dir[TempOf[c]] = None
  /\ dir' = [dir EXCEPT ![TempOf[c]] = c]
  /\ Goto(c, "write")
  /\ UNCHANGED <<stored, data, flushed>>

WriteAll(c) ==
  /\ pc[c] = "write"
  /\ data' = [data EXCEPT ![c] = "whole"]
  /\ Goto(c, "sync")
  /\ UNCHANGED <<dir, stored, flushed>>

\* Mutant: the temporary file is linked without a sync.
SyncAllSkipped(c) ==
  /\ pc[c] = "sync"
  /\ Goto(c, "link")
  /\ UNCHANGED fsVars

SyncAll(c) ==
  /\ pc[c] = "sync"
  /\ flushed' = flushed \cup {c}
  /\ Goto(c, "link")
  /\ UNCHANGED <<dir, stored, data>>

\* A rename would replace the destination.
HardLinkReplaces(c) ==
  /\ pc[c] = "link"
  /\ dir[TempOf[c]] # None
  /\ dir' = [dir EXCEPT ![Dest] = dir[TempOf[c]]]
  /\ Goto(c, "unlink")
  /\ UNCHANGED <<stored, data, flushed>>

\* hard_link fails when the destination exists or the temporary name does not.
HardLink(c) ==
  /\ pc[c] = "link"
  /\ dir[Dest] = None /\ dir[TempOf[c]] # None
  /\ dir' = [dir EXCEPT ![Dest] = dir[TempOf[c]]]
  /\ Goto(c, "unlink")
  /\ UNCHANGED <<stored, data, flushed>>

\* Any of the first steps fails, for its own reason or for an I/O error.
FailBeforePublication(c) ==
  /\ pc[c] \in {"create", "write", "sync", "link"}
  /\ Goto(c, "cleanup")
  /\ UNCHANGED fsVars

\* The result of this remove_file is ignored.
Cleanup(c) ==
  /\ pc[c] = "cleanup"
  /\ dir' \in {dir, [dir EXCEPT ![TempOf[c]] = None]}
  /\ Return(c, "BeforePublication")
  /\ UNCHANGED <<stored, data, flushed>>

RemoveTemporary(c) ==
  /\ pc[c] = "unlink"
  /\ dir' = [dir EXCEPT ![TempOf[c]] = None]
  /\ Goto(c, "dirsync")
  /\ UNCHANGED <<stored, data, flushed>>

\* Mutant: success is returned without a sync of the directory.
SyncDirectorySkipped(c) ==
  /\ pc[c] = "dirsync"
  /\ Return(c, "Ok")
  /\ UNCHANGED fsVars

SyncDirectory(c) ==
  /\ pc[c] = "dirsync"
  /\ stored' = dir
  /\ Return(c, "Ok")
  /\ UNCHANGED <<dir, data, flushed>>

FailAfterPublication(c) ==
  /\ pc[c] \in {"unlink", "dirsync"}
  /\ Return(c, "Published")
  /\ UNCHANGED fsVars

\* The process of call c stops; the file system goes on.
ProcessStops(c) ==
  /\ Live(c)
  /\ pc' = [pc EXCEPT ![c] = "done"]
  /\ UNCHANGED <<result, fsVars, power>>

\* Every process stops, and what was not synced may be lost, name by name.
PowerLoss ==
  /\ power
  /\ power' = FALSE
  /\ pc' = [c \in Calls |-> IF Live(c) THEN "done" ELSE pc[c]]
  /\ dir' \in {d \in [Names -> Calls \cup {None}] : \A n \in Names : d[n] \in {dir[n], stored[n]}}
  /\ stored' = dir'
  /\ data' \in {d \in [Calls -> {"partial", "whole"}] :
                  \A c \in Calls : d[c] = data[c] \/ (c \notin flushed /\ d[c] = "partial")}
  /\ UNCHANGED <<result, flushed>>

Next ==
  \/ \E c \in Calls :
       \/ CheckExists(c) \/ CreateTemporary(c) \/ WriteAll(c) \/ SyncAll(c) \/ HardLink(c)
       \/ FailBeforePublication(c) \/ Cleanup(c)
       \/ RemoveTemporary(c) \/ SyncDirectory(c) \/ FailAfterPublication(c)
       \/ ProcessStops(c)
  \/ PowerLoss

Spec == Init /\ [][Next]_vars

-----------------------------------------------------------------------------
\* Type correctness.
TypeOK ==
  /\ pc \in [Calls -> {"start", "create", "write", "sync", "link", "unlink", "dirsync",
                       "cleanup", "done"}]
  /\ result \in [Calls -> {"None", "Ok", "BeforePublication", "Published"}]
  /\ dir \in [Names -> Calls \cup {None}] /\ stored \in [Names -> Calls \cup {None}]
  /\ data \in [Calls -> {"partial", "whole"}]
  /\ flushed \subseteq Calls

\* Whoever opens the destination finds a whole snapshot, at any moment, after
\* any failed or interrupted call and after a power loss.
DestinationIsWhole == dir[Dest] # None => data[dir[Dest]] = "whole"

\* A call that returned Ok has published its own snapshot for good: no later
\* call, crash or power loss removes or replaces it.
OkIsDurable == \A c \in Calls : result[c] = "Ok" => dir[Dest] = c /\ stored[Dest] = c

\* "Errors report whether the destination was published": after Published the
\* destination holds this call's snapshot (a power loss may take it back), after
\* BeforePublication it never does.
ErrorReportsPublication ==
  \A c \in Calls :
    /\ result[c] = "BeforePublication" => dir[Dest] # c
    /\ result[c] = "Published" /\ power => dir[Dest] = c

\* What persist_snapshot_new returns is true, then and after any power loss.
ResultIsTrue == OkIsDurable /\ ErrorReportsPublication

\* What the calls rely on between their steps, whatever the others do: a live
\* call's temporary name is its own and refers to its own file, only files that
\* are whole and on disk are linked at the destination, and the directory on
\* disk either lacks the destination or agrees with the running one.
PublicationInv ==
  /\ TypeOK
  /\ \A c, d \in Calls : Live(c) /\ Live(d) /\ TempOf[c] = TempOf[d] => c = d
  /\ stored[Dest] \in {None, dir[Dest]}
  /\ dir[Dest] # None => dir[Dest] \in flushed
  /\ \A c \in Calls :
       /\ c \in flushed => data[c] = "whole"
       /\ pc[c] = "sync" => data[c] = "whole"
       /\ pc[c] \in {"link", "unlink", "dirsync"} => c \in flushed
       /\ pc[c] \in {"write", "sync", "link"} => dir[TempOf[c]] = c
       /\ pc[c] \in {"start", "create", "write", "sync", "link", "cleanup"} => dir[Dest] # c
       /\ pc[c] \in {"unlink", "dirsync"} => dir[Dest] = c
       /\ result[c] # "None" => pc[c] = "done"
  /\ ResultIsTrue

\* "readers never observe an overwrite gap": while the machine runs a published
\* destination neither disappears nor changes to another file.
NeverReplaced == [][dir[Dest] # None /\ power' = power => dir'[Dest] = dir[Dest]]_vars
=============================================================================
