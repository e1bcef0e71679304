-------------------------- MODULE SnapshotFileProofs --------------------------
(***************************************************************************)
(* The guarantees of persist_snapshot_new, for any number of calls and any *)
(* reuse of temporary names by later processes.                            *)
(***************************************************************************)
EXTENDS SnapshotFile, TLAPS

\* The definitions every step uses.
USE DEF Live, Goto, Return, fsVars, vars, Names

\* The file system holds neither a destination nor a temporary name before the
\* first call of persist_snapshot_new.
LEMMA InitInv == Init => PublicationInv
  BY SnapshotFileAssumption
     DEF Init, PublicationInv, TypeOK, ResultIsTrue, OkIsDurable, ErrorReportsPublication

\* The steps up to hard_link, and those of an error before publication, keep the
\* invariant: they touch no name but the call's own temporary one.
LEMMA BeforePublicationStep ==
  ASSUME PublicationInv, NEW c \in Calls,
         \/ CheckExists(c) \/ CreateTemporary(c) \/ WriteAll(c) \/ SyncAll(c)
         \/ FailBeforePublication(c) \/ Cleanup(c)
  PROVE  PublicationInv'
<1> USE SnapshotFileAssumption DEF PublicationInv, TypeOK, ResultIsTrue, OkIsDurable, ErrorReportsPublication
<1>1. CASE CheckExists(c)
  BY <1>1 DEF CheckExists
<1>2. CASE CreateTemporary(c)
  BY <1>2 DEF CreateTemporary
<1>3. CASE WriteAll(c)
  BY <1>3 DEF WriteAll
<1>4. CASE SyncAll(c)
  BY <1>4 DEF SyncAll
<1>5. CASE FailBeforePublication(c)
  BY <1>5 DEF FailBeforePublication
<1>6. CASE Cleanup(c)
  BY <1>6 DEF Cleanup
<1> QED
  BY <1>1, <1>2, <1>3, <1>4, <1>5, <1>6

\* hard_link and the steps after it keep the invariant.
LEMMA PublicationStep ==
  ASSUME PublicationInv, NEW c \in Calls,
         \/ HardLink(c) \/ RemoveTemporary(c) \/ SyncDirectory(c) \/ FailAfterPublication(c)
         \/ ProcessStops(c)
  PROVE  PublicationInv'
<1> USE SnapshotFileAssumption DEF PublicationInv, TypeOK, ResultIsTrue, OkIsDurable, ErrorReportsPublication
<1>1. CASE HardLink(c)
  BY <1>1 DEF HardLink
<1>2. CASE RemoveTemporary(c)
  BY <1>2 DEF RemoveTemporary
<1>3. CASE SyncDirectory(c)
  BY <1>3 DEF SyncDirectory
<1>4. CASE FailAfterPublication(c)
  BY <1>4 DEF FailAfterPublication
<1>5. CASE ProcessStops(c)
  BY <1>5 DEF ProcessStops
<1> QED
  BY <1>1, <1>2, <1>3, <1>4, <1>5

\* A power loss keeps the invariant: the destination it leaves is the one on disk
\* or the running one, and both refer to a flushed file or to none.
LEMMA PowerLossStep == PublicationInv /\ PowerLoss => PublicationInv'
  BY SnapshotFileAssumption
     DEF PublicationInv, TypeOK, ResultIsTrue, OkIsDurable, ErrorReportsPublication, PowerLoss

\* Every step of any interleaving of calls, failures and crashes keeps it.
LEMMA NextInv == PublicationInv /\ [Next]_vars => PublicationInv'
<1> SUFFICES ASSUME PublicationInv, [Next]_vars PROVE PublicationInv'
  OBVIOUS
<1>1. CASE \E c \in Calls :
             \/ CheckExists(c) \/ CreateTemporary(c) \/ WriteAll(c) \/ SyncAll(c) \/ HardLink(c)
             \/ FailBeforePublication(c) \/ Cleanup(c)
             \/ RemoveTemporary(c) \/ SyncDirectory(c) \/ FailAfterPublication(c)
             \/ ProcessStops(c)
  BY <1>1, BeforePublicationStep, PublicationStep
<1>2. CASE PowerLoss
  BY <1>2, PowerLossStep
<1>3. CASE UNCHANGED vars
  BY <1>3 DEF PublicationInv, TypeOK, ResultIsTrue, OkIsDurable, ErrorReportsPublication
<1> QED
  BY <1>1, <1>2, <1>3 DEF Next

\* What the calls of persist_snapshot_new rely on between their steps holds
\* always.
THEOREM AlwaysPublicationInv == Spec => []PublicationInv
  BY InitInv, NextInv, PTL DEF Spec

\* Whoever opens the destination finds a whole snapshot.
THEOREM DestinationAlwaysWhole == Spec => []DestinationIsWhole
<1>1. PublicationInv => DestinationIsWhole
  BY SnapshotFileAssumption DEF PublicationInv, TypeOK, DestinationIsWhole
<1> QED
  BY <1>1, AlwaysPublicationInv, PTL

\* A snapshot for which persist_snapshot_new returned Ok stays at its destination,
\* and the two kinds of SnapshotPersistError tell the truth about it.
THEOREM ResultsAlwaysTrue == Spec => []ResultIsTrue
<1>1. PublicationInv => ResultIsTrue
  BY DEF PublicationInv
<1> QED
  BY <1>1, AlwaysPublicationInv, PTL

\* While the machine runs no step removes or replaces a published destination.
THEOREM DestinationNeverReplaced == Spec => NeverReplaced
<1>1. PublicationInv /\ [Next]_vars
        => [dir[Dest] # None /\ power' = power => dir'[Dest] = dir[Dest]]_vars
  BY SnapshotFileAssumption
     DEF PublicationInv, TypeOK, Next, CheckExists, CreateTemporary, WriteAll, SyncAll, HardLink,
         FailBeforePublication, Cleanup, RemoveTemporary, SyncDirectory, FailAfterPublication,
         ProcessStops, PowerLoss
<1> QED
  BY <1>1, AlwaysPublicationInv, PTL DEF Spec, NeverReplaced
=============================================================================
