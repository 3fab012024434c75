--------------------------- MODULE IngestionProofs ---------------------------
(***************************************************************************)
(* Theorems about the ingestion worker, for every set of documents, texts  *)
(* and processes, every batch size and every failure threshold.            *)
(***************************************************************************)
EXTENDS Ingestion, TLAPS

\* Where a claim loop stands decides what its transaction holds.
TickShape ==
    \A w \in Workers :
       /\ pc[w] \in {"storing", "writing", "aborted"} => cur[w] \in Docs /\ body[w] \in Contents
       /\ pc[w] \in {"idle", "stopped", "polling"} => cur[w] = NoDoc
       /\ pc[w] \in {"idle", "stopped"} =>
             pending[w] = {} /\ polled[w] = {} /\ failed[w] = {} /\ parking[w] = {}

TypeInv == TypeOK /\ TickShape

LEMMA InitTypeInv == Init => TypeInv
  BY ConstantsAssumption DEF Init, TypeInv, TypeOK, TickShape, NoVersions

LEMMA NewNoIsPositive ==
    ASSUME NEW rows \in SUBSET Version, NEW n \in NewNo(rows)
    PROVE  n \in Nat \ {0}
  BY DEF NewNo, Version, IsLive, HasLive

LEMMA ClosedIsVersion == ASSUME NEW r \in Version PROVE Closed(r) \in Version
  BY DEF Closed, Version

LEMMA ReleaseType ==
    ASSUME TypeInv, NEW w \in Workers, Release(w)
    PROVE  /\ pending' \in [Workers -> SUBSET Docs] /\ polled' \in [Workers -> SUBSET Docs]
           /\ failed' \in [Workers -> SUBSET Docs] /\ parking' \in [Workers -> SUBSET Docs]
           /\ draft' \in [Workers -> [Docs -> SUBSET Version]]
           /\ cur' \in [Workers -> Docs \cup {NoDoc}]
           /\ body' \in [Workers -> Contents \cup {Absent}]
           /\ pending'[w] = {} /\ polled'[w] = {} /\ failed'[w] = {} /\ parking'[w] = {}
           /\ cur'[w] = NoDoc
           /\ \A v \in Workers \ {w} :
                /\ pending'[v] = pending[v] /\ polled'[v] = polled[v]
                /\ failed'[v] = failed[v] /\ parking'[v] = parking[v]
                /\ cur'[v] = cur[v] /\ body'[v] = body[v]
  BY DEF TypeInv, TypeOK, Release, NoVersions

LEMMA NextTypeInv == TypeInv /\ [Next]_vars => TypeInv'
<1> SUFFICES ASSUME TypeInv, [Next]_vars PROVE TypeInv'
  OBVIOUS
<1> USE ConstantsAssumption
<1>1. ASSUME NEW d \in Docs, BecomeDue(d) PROVE TypeInv'
  BY <1>1 DEF BecomeDue, TypeInv, TypeOK, TickShape, txVars, sweepVars, envVars
<1>2. ASSUME NEW d \in Docs, Publish(d) PROVE TypeInv'
  BY <1>2 DEF Publish, TypeInv, TypeOK, TickShape, txVars, sweepVars, schedVars
<1>3. ASSUME NEW w \in Workers, Claim(w) PROVE TypeInv'
  <2>1. PICK S \in SUBSET Claimable :
           /\ pending' = [pending EXCEPT ![w] = S]
           /\ draft' = [draft EXCEPT ![w] = [d \in Docs |-> IF d \in S THEN versions[d] ELSE {}]]
    BY <1>3 DEF Claim
  <2>2. S \subseteq Docs
    BY DEF Claimable, TypeInv, TypeOK
  <2>3. draft' \in [Workers -> [Docs -> SUBSET Version]]
    BY <2>1, <2>2 DEF TypeInv, TypeOK
  <2> QED
    BY <1>3, <2>1, <2>2, <2>3 DEF Claim, TypeInv, TypeOK, TickShape, schedVars, sweepVars, envVars
<1>4. ASSUME NEW w \in Workers, FetchNothing(w) PROVE TypeInv'
  BY <1>4 DEF FetchNothing, MarkOk, IsNext, TypeInv, TypeOK, TickShape, schedVars, sweepVars, envVars
<1>5. ASSUME NEW w \in Workers, FetchUnchanged(w) PROVE TypeInv'
  <2>0. PICK d \in Docs :
           /\ \E r \in draft[w][d] : draft' = [draft EXCEPT ![w][d] = (@ \ {r}) \cup {Closed(r)}]
           /\ pending' = [pending EXCEPT ![w] = @ \ {d}]
           /\ MarkOk(w, d)
    BY <1>5 DEF FetchUnchanged
  <2>1. PICK r \in draft[w][d] : draft' = [draft EXCEPT ![w][d] = (@ \ {r}) \cup {Closed(r)}]
    BY <2>0
  <2>2. r \in Version
    BY <2>1 DEF TypeInv, TypeOK
  <2>3. draft' \in [Workers -> [Docs -> SUBSET Version]]
    BY <2>1, <2>2, ClosedIsVersion DEF TypeInv, TypeOK
  <2> QED
    BY <1>5, <2>0, <2>3 DEF FetchUnchanged, MarkOk, TypeInv, TypeOK, TickShape,
                            schedVars, sweepVars, envVars
<1>6. ASSUME NEW w \in Workers, FetchChanged(w) PROVE TypeInv'
  BY <1>6 DEF FetchChanged, IsNext, TypeInv, TypeOK, TickShape, schedVars, sweepVars, envVars
<1>7. ASSUME NEW w \in Workers, FetchFails(w) PROVE TypeInv'
  BY <1>7 DEF FetchFails, MarkFailed, IsNext, TypeInv, TypeOK, TickShape,
              schedVars, sweepVars, envVars
<1>8. ASSUME NEW w \in Workers, PutBlob(w) PROVE TypeInv'
  BY <1>8 DEF PutBlob, TypeInv, TypeOK, TickShape, schedVars, txVars, sweepVars, envVars
<1>9. ASSUME NEW w \in Workers, PutFails(w) PROVE TypeInv'
  BY <1>9 DEF PutFails, MarkFailed, TypeInv, TypeOK, TickShape, schedVars, sweepVars, envVars
<1>10. ASSUME NEW w \in Workers, AlignFails(w) PROVE TypeInv'
  BY <1>10 DEF AlignFails, MarkFailed, TypeInv, TypeOK, TickShape, schedVars, sweepVars, envVars
<1>11. ASSUME NEW w \in Workers, WriteVersion(w) PROVE TypeInv'
  <2>1. cur[w] \in Docs /\ body[w] \in Contents
    BY <1>11 DEF WriteVersion, TypeInv, TickShape
  <2>2. PICK n \in NewNo(draft[w][cur[w]]) :
           draft' = [draft EXCEPT ![w][cur[w]] = Superseded(draft[w][cur[w]], n, body[w])]
    BY <1>11 DEF WriteVersion
  <2>3. draft[w][cur[w]] \in SUBSET Version
    BY <2>1 DEF TypeInv, TypeOK
  <2>4. n \in Nat \ {0}
    BY <2>2, <2>3, NewNoIsPositive
  <2>5. [no |-> n, content |-> body[w], open |-> TRUE] \in Version
    BY <2>1, <2>4 DEF Version
  <2>6. Superseded(draft[w][cur[w]], n, body[w]) \in SUBSET Version
    BY <2>3, <2>5, ClosedIsVersion DEF Superseded
  <2>7. draft' \in [Workers -> [Docs -> SUBSET Version]]
    BY <2>1, <2>2, <2>6 DEF TypeInv, TypeOK
  <2> QED
    BY <1>11, <2>1, <2>7 DEF WriteVersion, MarkOk, TypeInv, TypeOK, TickShape,
                             schedVars, sweepVars, envVars
<1>12. ASSUME NEW w \in Workers, WriteConflicts(w) PROVE TypeInv'
  BY <1>12 DEF WriteConflicts, Aborts, TypeInv, TypeOK, TickShape, schedVars, txVars, sweepVars, envVars
<1>21. ASSUME NEW w \in Workers, WriteRefused(w) PROVE TypeInv'
  BY <1>21 DEF WriteRefused, Aborts, TypeInv, TypeOK, TickShape, schedVars, txVars, sweepVars, envVars
<1>13. ASSUME NEW w \in Workers, Commit(w) PROVE TypeInv'
  <2>1. Release(w)
    BY <1>13 DEF Commit
  <2>2. /\ due' \subseteq Docs /\ ahead' \subseteq Docs \X Docs
        /\ failures' \in [Docs -> Nat] /\ incidents' \in [Docs -> Nat]
        /\ versions' \in [Docs -> SUBSET Version]
    BY <1>13 DEF Commit, TypeInv, TypeOK
  <2> QED
    BY <1>13, <2>1, <2>2, ReleaseType DEF Commit, TypeInv, TypeOK, TickShape, sweepVars, envVars
<1>14. ASSUME NEW w \in Workers, Rollback(w) PROVE TypeInv'
  <2>1. Release(w)
    BY <1>14 DEF Rollback
  <2> QED
    BY <1>14, <2>1, ReleaseType DEF Rollback, TypeInv, TypeOK, TickShape,
                                    schedVars, sweepVars, envVars
<1>20. ASSUME NEW w \in Workers, ConnectionLost(w) PROVE TypeInv'
  <2>1. Release(w)
    BY <1>20 DEF ConnectionLost
  <2> QED
    BY <1>20, <2>1, ReleaseType DEF ConnectionLost, Disrupt, TypeInv, TypeOK, TickShape,
                                    schedVars, sweepVars
<1>15. ASSUME NEW w \in Workers, Crash(w) PROVE TypeInv'
  <2>1. Release(w)
    BY <1>15 DEF Crash
  <2> QED
    BY <1>15, <2>1, ReleaseType DEF Crash, Disrupt, TypeInv, TypeOK, TickShape, schedVars
<1>16. ASSUME NEW w \in Workers,
              Signal(w) \/ StopClaiming(w) \/ StopSweeping(w) \/ Start(w)
       PROVE  TypeInv'
  <2>1. CASE Signal(w)
    BY <2>1 DEF Signal, Disrupt, TypeInv, TypeOK, TickShape, schedVars, txVars, sweepVars
  <2>2. CASE StopClaiming(w)
    BY <2>2 DEF StopClaiming, TypeInv, TypeOK, TickShape, schedVars, txVars, sweepVars, envVars
  <2>3. CASE StopSweeping(w)
    BY <2>3 DEF StopSweeping, TypeInv, TypeOK, TickShape, schedVars, txVars, envVars
  <2>4. CASE Start(w)
    BY <2>4 DEF Start, TypeInv, TypeOK, TickShape, schedVars, txVars, envVars
  <2> QED
    BY <1>16, <2>1, <2>2, <2>3, <2>4
<1>17. ASSUME NEW w \in Workers, SweepReadKeys(w) PROVE TypeInv'
  BY <1>17 DEF SweepReadKeys, Referenced, ReferencedBy, Version, TypeInv, TypeOK, TickShape,
               schedVars, txVars, envVars
<1>18. ASSUME NEW w \in Workers,
              SweepList(w) \/ SweepDelete(w) \/ SweepDone(w) \/ SweepFails(w)
       PROVE  TypeInv'
  <2>1. CASE SweepList(w)
    BY <2>1 DEF SweepList, TypeInv, TypeOK, TickShape, schedVars, txVars, envVars
  <2>2. CASE SweepDelete(w)
    BY <2>2 DEF SweepDelete, TypeInv, TypeOK, TickShape, schedVars, txVars, envVars
  <2>3. CASE SweepDone(w)
    BY <2>3 DEF SweepDone, TypeInv, TypeOK, TickShape, schedVars, txVars, envVars
  <2>4. CASE SweepFails(w)
    BY <2>4 DEF SweepFails, Disrupt, TypeInv, TypeOK, TickShape, schedVars, txVars
  <2> QED
    BY <1>18, <2>1, <2>2, <2>3, <2>4
<1>19. ASSUME UNCHANGED vars PROVE TypeInv'
  BY <1>19 DEF vars, TypeInv, TypeOK, TickShape
<1> QED
  BY <1>1, <1>2, <1>3, <1>4, <1>5, <1>6, <1>7, <1>8, <1>9, <1>10, <1>11, <1>12, <1>13, <1>14,
     <1>15, <1>16, <1>17, <1>18, <1>19, <1>20, <1>21 DEF Next, TickStep, SweepStep

\* The variables of the worker always have their types.
THEOREM TypeCorrect == Spec => []TypeOK
<1>1. Spec => []TypeInv
  BY InitTypeInv, NextTypeInv, PTL DEF Spec
<1> QED
  BY <1>1, PTL DEF TypeInv
-----------------------------------------------------------------------------
\* Most steps leave the transactions and the rows they will publish alone.
txRows == <<failures, incidents, versions, pending, polled, failed, parking, draft, cur>>

Quiet ==
    /\ UNCHANGED txRows /\ body' = body
    /\ \A w \in Workers : pc'[w] \in {"storing", "writing"} => pc[w] \in {"storing", "writing"}

\* A transaction ends without a trace in the database.
Discard(w) ==
    /\ Release(w) /\ UNCHANGED <<failures, incidents, versions>>
    /\ pc'[w] \notin {"storing", "writing"}
    /\ \A v \in Workers \ {w} : pc'[v] = pc[v]

\* The steps that change what some transaction holds.
TxStep(w) ==
    \/ Claim(w) \/ FetchNothing(w) \/ FetchUnchanged(w) \/ FetchChanged(w) \/ FetchFails(w)
    \/ PutFails(w) \/ AlignFails(w) \/ WriteVersion(w) \/ Commit(w) \/ Discard(w)

LEMMA StepClasses ==
    ASSUME TypeInv, [Next]_vars
    PROVE  Quiet \/ \E w \in Workers : TxStep(w)
<1> USE DEF Quiet, txRows, TypeInv, TypeOK
<1>1. ASSUME NEW d \in Docs, BecomeDue(d) \/ Publish(d) PROVE Quiet
  BY <1>1 DEF BecomeDue, Publish, txVars, schedVars
<1>2. ASSUME NEW w \in Workers, PutBlob(w) \/ WriteConflicts(w) \/ WriteRefused(w) PROVE Quiet
  BY <1>2 DEF PutBlob, WriteConflicts, WriteRefused, Aborts, txVars, schedVars
<1>3. ASSUME NEW w \in Workers, Signal(w) \/ StopClaiming(w) \/ StopSweeping(w) \/ Start(w)
      PROVE  Quiet
  BY <1>3 DEF Signal, StopClaiming, StopSweeping, Start, txVars, schedVars
<1>4. ASSUME NEW w \in Workers, SweepStep(w) \/ SweepFails(w) PROVE Quiet
  BY <1>4 DEF SweepStep, SweepReadKeys, SweepList, SweepDelete, SweepDone, SweepFails,
              txVars, schedVars
<1>5. ASSUME NEW w \in Workers, Rollback(w) \/ ConnectionLost(w) \/ Crash(w) PROVE Discard(w)
  BY <1>5 DEF Rollback, ConnectionLost, Crash, Discard, schedVars
<1>6. CASE UNCHANGED vars
  BY <1>6 DEF vars
<1> QED
  BY <1>1, <1>2, <1>3, <1>4, <1>5, <1>6 DEF Next, TickStep, TxStep

-----------------------------------------------------------------------------
\* Row locks.  The sets a transaction sorts its rows into stay apart, and the
\* rows of one transaction stay apart from those of every other.
Sorted(w) ==
    /\ pending[w] \cap polled[w] = {}
    /\ pending[w] \cap failed[w] = {}
    /\ polled[w] \cap failed[w] = {}
    /\ cur[w] \notin pending[w] \cup polled[w] \cup failed[w]

LockInv == LockExclusion /\ \A w \in Workers : Sorted(w)

LEMMA InitLockInv == Init => LockInv
  BY DEF Init, LockInv, LockExclusion, Sorted, Claimed

\* Rows only move between the sets of their transaction during a tick.
LEMMA TickKeepsLocks ==
    ASSUME TypeInv, LockInv, NEW w \in Workers,
           \/ FetchNothing(w) \/ FetchUnchanged(w) \/ FetchChanged(w) \/ FetchFails(w)
           \/ PutFails(w) \/ AlignFails(w) \/ WriteVersion(w)
    PROVE  /\ Claimed(w)' = Claimed(w) /\ Sorted(w)'
           /\ \A v \in Workers \ {w} : /\ Claimed(v)' = Claimed(v)
                                       /\ Sorted(v)'
<1> USE ConstantsAssumption DEF TypeInv, TypeOK, TickShape, LockInv, Claimed, Sorted
<1>1. CASE FetchNothing(w)
  BY <1>1 DEF FetchNothing, IsNext, MarkOk
<1>2. CASE FetchUnchanged(w)
  BY <1>2 DEF FetchUnchanged, IsNext, MarkOk
<1>3. CASE FetchChanged(w)
  BY <1>3 DEF FetchChanged, IsNext
<1>4. CASE FetchFails(w)
  BY <1>4 DEF FetchFails, IsNext, MarkFailed
<1>5. CASE PutFails(w)
  BY <1>5 DEF PutFails, MarkFailed
<1>6. CASE AlignFails(w)
  BY <1>6 DEF AlignFails, MarkFailed
<1>7. CASE WriteVersion(w)
  BY <1>7 DEF WriteVersion, MarkOk
<1> QED
  BY <1>1, <1>2, <1>3, <1>4, <1>5, <1>6, <1>7

LEMMA ClaimTakesFreeRows ==
    ASSUME TypeInv, NEW w \in Workers, Claim(w)
    PROVE  /\ Claimed(w)' \subseteq Claimable /\ Claimed(w)' = pending'[w]
           /\ polled'[w] = {} /\ failed'[w] = {} /\ parking'[w] = {} /\ cur'[w] = NoDoc
           /\ pending'[w] \subseteq Docs
           /\ draft'[w] = [d \in Docs |-> IF d \in pending'[w] THEN versions[d] ELSE {}]
           /\ \A v \in Workers \ {w} : Claimed(v)' = Claimed(v) /\ draft'[v] = draft[v]
  BY DEF Claim, Claimed, Claimable, TypeInv, TypeOK, TickShape

LEMMA ReleaseFreesRows ==
    ASSUME TypeInv, NEW w \in Workers, Release(w)
    PROVE  /\ Claimed(w)' = {}
           /\ \A v \in Workers \ {w} : Claimed(v)' = Claimed(v)
  BY ReleaseType DEF Claimed

LEMMA NextLockInv == TypeInv /\ LockInv /\ [Next]_vars => LockInv'
<1> SUFFICES ASSUME TypeInv, LockInv, [Next]_vars PROVE LockInv'
  OBVIOUS
<1>1. CASE Quiet
  BY <1>1 DEF Quiet, txRows, LockInv, LockExclusion, Claimed, Sorted
<1>2. ASSUME NEW w \in Workers, Claim(w) PROVE LockInv'
  <2>0. /\ Claimed(w)' \subseteq Claimable
        /\ \A v \in Workers \ {w} : Claimed(v)' = Claimed(v)
    BY <1>2, ClaimTakesFreeRows
  <2>1. \A v \in Workers \ {w} : Claimable \cap Claimed(v) = {}
    BY DEF Claimable, Locked
  <2>2. LockExclusion'
    BY <2>0, <2>1 DEF LockInv, LockExclusion
  <2>3. \A v \in Workers \ {w} : Sorted(v)'
    BY <1>2 DEF Claim, LockInv, Sorted, TypeInv, TypeOK
  <2>4. Sorted(w)'
    BY <1>2, ClaimTakesFreeRows, ConstantsAssumption DEF Sorted
  <2> QED
    BY <2>2, <2>3, <2>4 DEF LockInv
<1>3. ASSUME NEW w \in Workers, Commit(w) \/ Discard(w) PROVE LockInv'
  <2>1. Release(w)
    BY <1>3 DEF Commit, Discard
  <2>2. \A v \in Workers : Sorted(v)'
    BY <2>1, ReleaseType, ConstantsAssumption DEF LockInv, Sorted
  <2> QED
    BY <2>1, <2>2, ReleaseFreesRows DEF LockInv, LockExclusion
<1>4. ASSUME NEW w \in Workers, TxStep(w), ~Claim(w), ~Commit(w), ~Discard(w) PROVE LockInv'
  BY <1>4, TickKeepsLocks DEF TxStep, LockInv, LockExclusion
<1> QED
  BY <1>1, <1>2, <1>3, <1>4, StepClasses

\* SKIP LOCKED keeps replicas apart: no schedule row is ever in two open ticks.
THEOREM LocksExclude == Spec => []LockExclusion
<1>1. Spec => []TypeInv
  BY InitTypeInv, NextTypeInv, PTL DEF Spec
<1>2. Spec => []LockInv
  BY InitLockInv, NextLockInv, <1>1, PTL DEF Spec
<1> QED
  BY <1>2, PTL DEF LockInv
-----------------------------------------------------------------------------
\* The kill switch.  No transaction holds a parked row, and it has written an
\* incident exactly for those of its failures that pass the threshold.
ParkInv ==
    /\ IncidentIffParked
    /\ \A w \in Workers :
          /\ \A d \in Claimed(w) : ~Parked(d)
          /\ parking[w] = {d \in failed[w] : failures[d] + 1 > FailureThreshold}

LEMMA InitParkInv == Init => ParkInv
  BY ConstantsAssumption DEF Init, ParkInv, IncidentIffParked, Claimed, Parked

LEMMA MarkFailedParks ==
    ASSUME TypeInv, ParkInv, NEW w \in Workers, NEW d \in Docs, MarkFailed(w, d),
           UNCHANGED failures
    PROVE  /\ parking'[w] = {e \in failed'[w] : failures'[e] + 1 > FailureThreshold}
           /\ \A v \in Workers \ {w} : parking'[v] = parking[v] /\ failed'[v] = failed[v]
  BY ConstantsAssumption DEF MarkFailed, ParkInv, TypeInv, TypeOK

LEMMA NextParkInv == TypeInv /\ LockInv /\ ParkInv /\ [Next]_vars => ParkInv'
<1> SUFFICES ASSUME TypeInv, LockInv, ParkInv, [Next]_vars PROVE ParkInv'
  OBVIOUS
<1> USE ConstantsAssumption
<1>1. CASE Quiet
  BY <1>1 DEF Quiet, txRows, ParkInv, IncidentIffParked, Claimed, Parked
<1>2. ASSUME NEW w \in Workers, Claim(w) PROVE ParkInv'
  <2>1. /\ Claimed(w)' \subseteq Claimable
        /\ \A v \in Workers \ {w} : Claimed(v)' = Claimed(v)
        /\ failed'[w] = {} /\ parking'[w] = {}
    BY <1>2, ClaimTakesFreeRows
  <2>2. UNCHANGED <<failures, incidents, failed, parking>>
    BY <1>2 DEF Claim, schedVars
  <2> QED
    BY <2>1, <2>2 DEF ParkInv, IncidentIffParked, Parked, Claimable
<1>3. ASSUME NEW w \in Workers,
             \/ FetchNothing(w) \/ FetchUnchanged(w) \/ FetchChanged(w) \/ FetchFails(w)
             \/ PutFails(w) \/ AlignFails(w) \/ WriteVersion(w)
      PROVE  ParkInv'
  <2>1. \A v \in Workers : Claimed(v)' = Claimed(v)
    BY <1>3, TickKeepsLocks
  <2>2. UNCHANGED <<failures, incidents>>
    BY <1>3 DEF FetchNothing, FetchUnchanged, FetchChanged, FetchFails, PutFails, AlignFails,
                WriteVersion, schedVars
  <2>3. CASE FetchFails(w) \/ PutFails(w) \/ AlignFails(w)
    <3>1. PICK d \in Docs : MarkFailed(w, d)
      BY <2>3 DEF FetchFails, PutFails, AlignFails, TypeInv, TickShape
    <3> QED
      BY <2>1, <2>2, <3>1, MarkFailedParks DEF ParkInv, IncidentIffParked, Parked
  <2>4. CASE FetchNothing(w) \/ FetchUnchanged(w) \/ FetchChanged(w) \/ WriteVersion(w)
    <3>1. UNCHANGED <<failed, parking>>
      BY <2>4 DEF FetchNothing, FetchUnchanged, FetchChanged, WriteVersion, MarkOk
    <3> QED
      BY <2>1, <2>2, <3>1 DEF ParkInv, IncidentIffParked, Parked
  <2> QED
    BY <1>3, <2>3, <2>4
<1>4. ASSUME NEW w \in Workers, Commit(w) PROVE ParkInv'
  <2>1. Release(w)
    BY <1>4 DEF Commit
  <2>2. /\ Claimed(w)' = {} /\ failed'[w] = {} /\ parking'[w] = {}
        /\ \A v \in Workers \ {w} : /\ Claimed(v)' = Claimed(v)
                                    /\ failed'[v] = failed[v] /\ parking'[v] = parking[v]
    BY <2>1, ReleaseFreesRows, ReleaseType
  <2>3. ASSUME NEW v \in Workers \ {w}, NEW d \in Claimed(v) PROVE failures'[d] = failures[d]
    <3>0. d \in Docs
      BY DEF TypeInv, TypeOK, Claimed
    <3>1. d \notin Claimed(w) /\ d \in Docs
      BY <3>0 DEF LockInv, LockExclusion
    <3>2. d \notin polled[w] /\ d \notin failed[w]
      BY <3>1 DEF Claimed
    <3> QED
      BY <1>4, <3>1, <3>2 DEF Commit
  <2>4. ASSUME NEW v \in Workers
        PROVE  /\ \A d \in Claimed(v)' : ~Parked(d)'
               /\ parking'[v] = {d \in failed'[v] : failures'[d] + 1 > FailureThreshold}
    <3>1. CASE v = w
      BY <2>2, <3>1
    <3>2. CASE v # w
      <4>1. failed[v] \subseteq Claimed(v)
        BY DEF Claimed
      <4> QED
        BY <2>2, <2>3, <3>2, <4>1 DEF ParkInv, Parked
    <3> QED
      BY <3>1, <3>2
  <2>5. IncidentIffParked'
    <3>1. ASSUME NEW d \in Docs
          PROVE  /\ failures'[d] <= FailureThreshold + 1
                 /\ incidents'[d] = IF Parked(d)' THEN 1 ELSE 0
      <4>1. polled[w] \cap failed[w] = {} /\ polled[w] \cup failed[w] \subseteq Claimed(w)
        BY DEF LockInv, Sorted, Claimed
      <4>2. failures[d] \in Nat /\ incidents[d] \in Nat
        BY DEF TypeInv, TypeOK
      <4>3. CASE d \in polled[w]
        <5>1. ~Parked(d) /\ d \notin parking[w]
          BY <4>1, <4>3 DEF ParkInv
        <5>2. failures'[d] = 0 /\ incidents'[d] = incidents[d]
          BY <1>4, <4>3, <5>1 DEF Commit
        <5> QED
          BY <5>1, <5>2 DEF ParkInv, IncidentIffParked, Parked
      <4>4. CASE d \in failed[w]
        <5>1. ~Parked(d) /\ (d \in parking[w] <=> failures[d] + 1 > FailureThreshold)
          BY <4>1, <4>4 DEF ParkInv
        <5>2. failures'[d] = failures[d] + 1
          BY <1>4, <4>1, <4>4 DEF Commit
        <5>3. incidents'[d] = IF d \in parking[w] THEN incidents[d] + 1 ELSE incidents[d]
          BY <1>4 DEF Commit
        <5> QED
          BY <4>2, <5>1, <5>2, <5>3 DEF ParkInv, IncidentIffParked, Parked
      <4>5. CASE d \notin polled[w] /\ d \notin failed[w]
        <5>1. d \notin parking[w]
          BY <4>5 DEF ParkInv
        <5>2. failures'[d] = failures[d] /\ incidents'[d] = incidents[d]
          BY <1>4, <4>5, <5>1 DEF Commit
        <5> QED
          BY <5>2 DEF ParkInv, IncidentIffParked, Parked
      <4> QED
        BY <4>3, <4>4, <4>5
    <3> QED
      BY <3>1 DEF IncidentIffParked
  <2> QED
    BY <2>4, <2>5 DEF ParkInv
<1>5. ASSUME NEW w \in Workers, Discard(w) PROVE ParkInv'
  <2>1. /\ Claimed(w)' = {} /\ failed'[w] = {} /\ parking'[w] = {}
        /\ \A v \in Workers \ {w} : /\ Claimed(v)' = Claimed(v)
                                    /\ failed'[v] = failed[v] /\ parking'[v] = parking[v]
    BY <1>5, ReleaseFreesRows, ReleaseType DEF Discard
  <2> QED
    BY <1>5, <2>1 DEF Discard, ParkInv, IncidentIffParked, Parked
<1> QED
  BY <1>1, <1>2, <1>3, <1>4, <1>5, StepClasses DEF TxStep

\* Each row is parked by exactly one incident, and no row fails past that.
THEOREM ParkedOnce == Spec => []IncidentIffParked
<1>1. Spec => []TypeInv
  BY InitTypeInv, NextTypeInv, PTL DEF Spec
<1>2. Spec => []LockInv
  BY InitLockInv, NextLockInv, <1>1, PTL DEF Spec
<1>3. Spec => []ParkInv
  BY InitParkInv, NextParkInv, <1>1, <1>2, PTL DEF Spec
<1> QED
  BY <1>3, PTL DEF ParkInv
-----------------------------------------------------------------------------
\* Histories.  A non-empty history starts at version 1.
Good(rows) == IsHistory(rows) /\ (rows # {} => Taken(rows, 1))

LEMMA HistoryOfRow ==
    ASSUME NEW rows \in SUBSET Version, IsHistory(rows)
    PROVE  /\ DOMAIN HistoryOf(rows) = {r.no : r \in rows}
           /\ \A r \in rows : HistoryOf(rows)[r.no] = r.content
<1>1. ASSUME NEW r \in rows PROVE HistoryOf(rows)[r.no] = r.content
  <2>1. (CHOOSE q \in rows : q.no = r.no) = r
    BY DEF IsHistory
  <2> QED
    BY <2>1 DEF HistoryOf
<1> QED
  BY <1>1 DEF HistoryOf

\* Two histories with the same numbers and texts are the same sequence.
LEMMA SameHistory ==
    ASSUME NEW P \in SUBSET Version, NEW Q \in SUBSET Version, IsHistory(P), IsHistory(Q),
           \A p \in P : \E q \in Q : q.no = p.no /\ q.content = p.content,
           \A q \in Q : \E p \in P : q.no = p.no /\ q.content = p.content
    PROVE  HistoryOf(P) = HistoryOf(Q)
<1>1. {p.no : p \in P} = {q.no : q \in Q}
  OBVIOUS
<1>2. ASSUME NEW n \in {p.no : p \in P} PROVE HistoryOf(P)[n] = HistoryOf(Q)[n]
  <2>1. PICK p \in P : n = p.no
    OBVIOUS
  <2>2. PICK q \in Q : q.no = p.no /\ q.content = p.content
    OBVIOUS
  <2>3. HistoryOf(P)[p.no] = p.content /\ HistoryOf(Q)[q.no] = q.content
    BY HistoryOfRow
  <2> QED
    BY <2>1, <2>2, <2>3
<1>3. PICK N : N = {p.no : p \in P}
  OBVIOUS
<1>4. PICK h, k : h = HistoryOf(P) /\ k = HistoryOf(Q)
  OBVIOUS
<1>5. /\ h = [n \in N |-> h[n]] /\ k = [n \in N |-> k[n]]
  BY <1>1, <1>3, <1>4 DEF HistoryOf
<1>6. \A n \in N : h[n] = k[n]
  BY <1>2, <1>3, <1>4
<1>7. h = k
  BY <1>5, <1>6
<1> QED
  BY <1>4, <1>7

\* EXTEND_VALID_TO_SQL: stamping a row leaves the sequence of texts as it was.
LEMMA ClosingKeepsHistory ==
    ASSUME NEW rows \in SUBSET Version, Good(rows), NEW r \in rows,
           NEW D, D = (rows \ {r}) \cup {Closed(r)}
    PROVE  Good(D) /\ HistoryOf(D) = HistoryOf(rows) /\ D \in SUBSET Version
<1>1. /\ Closed(r) \in Version /\ Closed(r).no = r.no /\ Closed(r).content = r.content
      /\ ~Closed(r).open
  BY ClosedIsVersion DEF Closed, Version
<1>2. D \in SUBSET Version
  BY <1>1
<1>3. \A x \in D : \E q \in rows : q.no = x.no /\ q.content = x.content /\ (x.open => q.open)
  BY <1>1
<1>4. \A q \in rows : \E x \in D : q.no = x.no /\ q.content = x.content
  BY <1>1
<1>5. IsHistory(D)
  <2>1. \A x, y \in D : x.no = y.no => x = y
    BY <1>1 DEF Good, IsHistory
  <2>2. \A x \in D : x.no = 1 \/ \E y \in D : x.no = y.no + 1
    BY <1>3, <1>4 DEF Good, IsHistory
  <2>3. \A x, y \in D : y.open => x.no <= y.no
    BY <1>3 DEF Good, IsHistory
  <2>4. \A x, y \in D : y.no = x.no + 1 => x.content # y.content
    BY <1>3 DEF Good, IsHistory
  <2> QED
    BY <2>1, <2>2, <2>3, <2>4 DEF IsHistory
<1>6. D # {} => Taken(D, 1)
  BY <1>4 DEF Good, Taken
<1>7. HistoryOf(D) = HistoryOf(rows)
  BY <1>2, <1>3, <1>4, <1>5, SameHistory DEF Good
<1> QED
  BY <1>2, <1>5, <1>6, <1>7 DEF Good

\* INSERT_VERSION_SQL then CLOSE_PREV_VERSION_SQL: one more text at the end,
\* different from the last.
LEMMA SupersedingAppends ==
    ASSUME NEW rows \in SUBSET Version, Good(rows), NEW c \in Contents,
           NEW n \in NewNo(rows), ~Taken(rows, n),
           \A r \in rows : IsLive(rows, r) => r.content # c
    PROVE  /\ Good(Superseded(rows, n, c))
           /\ Promise!Appends(HistoryOf(rows), HistoryOf(Superseded(rows, n, c)))
<1> DEFINE new == [no |-> n, content |-> c, open |-> TRUE]
           D == Superseded(rows, n, c)
<1>1. n \in Nat \ {0} /\ new \in Version
  BY NewNoIsPositive DEF Version
<1>2. new \in D /\ new.no = n /\ new.content = c
  BY DEF Superseded
<1>3. \A q \in rows : q \in Version /\ Closed(q) \in Version /\ Closed(q).no = q.no
                     /\ Closed(q).content = q.content /\ ~Closed(q).open
  BY ClosedIsVersion DEF Closed, Version
<1>4. \A q \in rows : q.open => IsLive(rows, q)
  BY DEF Good, IsHistory, IsLive
<1>5. \A x \in D : x = new \/ \E q \in rows : x.no = q.no /\ x.content = q.content /\ ~x.open
  BY <1>3, <1>4 DEF Superseded
<1>6. \A q \in rows : \E x \in D : x.no = q.no /\ x.content = q.content
  BY <1>3 DEF Superseded
<1>7. D \in SUBSET Version
  BY <1>1, <1>3 DEF Superseded
<1>8. \A q \in rows : q.no < n
  <2>1. CASE HasLive(rows)
    <3>1. PICK r \in rows : IsLive(rows, r) /\ n = r.no + 1
      BY <2>1 DEF NewNo
    <3>2. \A q \in rows : q.no <= r.no
      BY <3>1 DEF IsLive, Good, IsHistory
    <3> QED
      BY <3>1, <3>2, <1>3 DEF Version
  <2>2. CASE ~HasLive(rows)
    BY <2>2 DEF NewNo, Good
  <2> QED
    BY <2>1, <2>2
<1>9. n = 1 \/ \E q \in rows : n = q.no + 1 /\ q.content # c
  <2>1. CASE HasLive(rows)
    <3>1. PICK r \in rows : IsLive(rows, r) /\ n = r.no + 1
      BY <2>1 DEF NewNo
    <3> QED
      BY <3>1
  <2>2. CASE ~HasLive(rows)
    BY <2>2 DEF NewNo
  <2> QED
    BY <2>1, <2>2
<1>10. IsHistory(D)
  <2>1. \A x, y \in D : x.no = y.no => x = y
    <3> SUFFICES ASSUME NEW x \in D, NEW y \in D, x.no = y.no PROVE x = y
      OBVIOUS
    <3>1. CASE x = new \/ y = new
      <4>1. \A z \in D : z # new => z.no # n
        <5>1. ASSUME NEW z \in D, z # new PROVE z.no # n
          <6>1. PICK q \in rows : z.no = q.no
            BY <5>1, <1>5
          <6>2. q.no \in Nat /\ q.no < n
            BY <1>3, <1>8 DEF Version
          <6> QED
            BY <6>1, <6>2, <1>1
        <5> QED
          BY <5>1
      <4> QED
        BY <3>1, <4>1, <1>2
    <3>2. CASE x # new /\ y # new
      <4>1. PICK p \in rows : x = IF IsLive(rows, p) THEN Closed(p) ELSE p
        BY <3>2 DEF Superseded
      <4>2. PICK q \in rows : y = IF IsLive(rows, q) THEN Closed(q) ELSE q
        BY <3>2 DEF Superseded
      <4>3. p = q
        BY <4>1, <4>2, <1>3 DEF Good, IsHistory
      <4> QED
        BY <4>1, <4>2, <4>3
    <3> QED
      BY <3>1, <3>2
  <2>2. \A x \in D : x.no = 1 \/ \E y \in D : x.no = y.no + 1
    BY <1>2, <1>5, <1>6, <1>9 DEF Good, IsHistory
  <2>3. \A x, y \in D : y.open => x.no <= y.no
    <3>1. \A x \in D : x.no <= n
      BY <1>1, <1>2, <1>3, <1>5, <1>8 DEF Version
    <3> QED
      BY <3>1, <1>2, <1>5
  <2>4. \A x, y \in D : y.no = x.no + 1 => x.content # y.content
    <3> SUFFICES ASSUME NEW x \in D, NEW y \in D, y.no = x.no + 1
                 PROVE  x.content # y.content
      OBVIOUS
    <3>1. CASE y = new
      <4>1. x # new
        BY <3>1, <1>1, <1>2
      <4>2. PICK p \in rows : x.no = p.no /\ x.content = p.content
        BY <4>1, <1>5
      <4>3. PICK q \in rows : n = q.no + 1 /\ q.content # c
        BY <3>1, <4>2, <1>2, <1>3, <1>9 DEF Version
      <4>4. p = q
        BY <3>1, <4>2, <4>3, <1>2, <1>3 DEF Good, IsHistory, Version
      <4> QED
        BY <3>1, <4>2, <4>3, <4>4, <1>2
    <3>2. CASE y # new
      <4>1. PICK q \in rows : y.no = q.no /\ y.content = q.content
        BY <3>2, <1>5
      <4>2. x # new
        BY <4>1, <1>1, <1>2, <1>3, <1>8 DEF Version
      <4>3. PICK p \in rows : x.no = p.no /\ x.content = p.content
        BY <4>2, <1>5
      <4> QED
        BY <4>1, <4>3 DEF Good, IsHistory
    <3> QED
      BY <3>1, <3>2
  <2> QED
    BY <2>1, <2>2, <2>3, <2>4 DEF IsHistory
<1>11. Taken(D, 1)
  <2>1. CASE rows = {}
    BY <2>1, <1>2, <1>9 DEF Taken
  <2>2. CASE rows # {}
    BY <2>2, <1>6 DEF Good, Taken
  <2> QED
    BY <2>1, <2>2
<1>12. Promise!Appends(HistoryOf(rows), HistoryOf(D))
  <2>1. /\ DOMAIN HistoryOf(rows) = {r.no : r \in rows}
        /\ \A r \in rows : HistoryOf(rows)[r.no] = r.content
    BY HistoryOfRow DEF Good
  <2>2. /\ DOMAIN HistoryOf(D) = {r.no : r \in D}
        /\ \A r \in D : HistoryOf(D)[r.no] = r.content
    BY <1>7, <1>10, HistoryOfRow
  <2>3. n \in DOMAIN HistoryOf(D) /\ HistoryOf(D)[n] = c
    BY <2>2, <1>2
  <2>4. n \notin DOMAIN HistoryOf(rows)
    BY <2>1 DEF Taken
  <2>5. DOMAIN HistoryOf(D) = DOMAIN HistoryOf(rows) \cup {n}
    BY <2>1, <2>2, <1>2, <1>5, <1>6
  <2>6. \A i \in DOMAIN HistoryOf(rows) : i < n /\ HistoryOf(D)[i] = HistoryOf(rows)[i]
    BY <2>1, <2>2, <1>6, <1>8
  <2>7. n = 1 \/ (n - 1 \in DOMAIN HistoryOf(rows) /\ HistoryOf(rows)[n - 1] # HistoryOf(D)[n])
    BY <2>1, <2>3, <1>3, <1>9 DEF Version
  <2> QED
    BY <2>3, <2>4, <2>5, <2>6, <2>7 DEF Promise!Appends
<1> QED
  BY <1>10, <1>11, <1>12 DEF Good
-----------------------------------------------------------------------------
\* What a transaction is going to publish for a document it holds: what is there
\* already, or one text more; and the text in its hands is not the live one.
Publishable(w, d) ==
    /\ Good(draft[w][d])
    /\ d \notin polled[w] => draft[w][d] = versions[d]
    /\ \/ HistoryOf(draft[w][d]) = HistoryOf(versions[d])
       \/ Promise!Appends(HistoryOf(versions[d]), HistoryOf(draft[w][d]))

InHand(w) ==
    pc[w] \in {"storing", "writing"} =>
       \A r \in draft[w][cur[w]] : IsLive(draft[w][cur[w]], r) => r.content # body[w]

HistInv ==
    /\ \A d \in Docs : Good(versions[d])
    /\ \A w \in Workers : InHand(w) /\ \A d \in Claimed(w) : Publishable(w, d)

LEMMA InitHistInv == Init => HistInv
  BY DEF Init, HistInv, InHand, Claimed, Good, IsHistory, NoVersions

\* A step of w inside its tick does not touch the transactions of the others.
LEMMA OthersKeepPublishable ==
    ASSUME TypeInv, LockInv, HistInv, NEW w \in Workers,
           \/ FetchNothing(w) \/ FetchUnchanged(w) \/ FetchChanged(w) \/ FetchFails(w)
           \/ PutFails(w) \/ AlignFails(w) \/ WriteVersion(w)
    PROVE  /\ versions' = versions
           /\ \A v \in Workers \ {w} : InHand(v)' /\ \A d \in Claimed(v)' : Publishable(v, d)'
<1>1. \A v \in Workers \ {w} :
         /\ pc'[v] = pc[v] /\ draft'[v] = draft[v] /\ cur'[v] = cur[v] /\ body'[v] = body[v]
         /\ polled'[v] = polled[v]
  BY DEF FetchNothing, FetchUnchanged, FetchChanged, FetchFails, PutFails, AlignFails,
         WriteVersion, MarkOk, MarkFailed, TypeInv, TypeOK
<1>2. versions' = versions
  BY DEF FetchNothing, FetchUnchanged, FetchChanged, FetchFails, PutFails, AlignFails,
         WriteVersion
<1>3. \A v \in Workers : Claimed(v)' = Claimed(v)
  BY TickKeepsLocks
<1> QED
  BY <1>1, <1>2, <1>3 DEF HistInv, InHand, Publishable

LEMMA NextHistInv == TypeInv /\ LockInv /\ HistInv /\ [Next]_vars => HistInv'
<1> SUFFICES ASSUME TypeInv, LockInv, HistInv, [Next]_vars PROVE HistInv'
  OBVIOUS
<1> USE ConstantsAssumption
<1>1. CASE Quiet
  BY <1>1 DEF Quiet, txRows, HistInv, InHand, Publishable, Claimed
<1>2. ASSUME NEW w \in Workers, Claim(w) PROVE HistInv'
  <2>1. /\ Claimed(w)' = pending'[w] /\ pending'[w] \subseteq Docs
        /\ draft'[w] = [d \in Docs |-> IF d \in pending'[w] THEN versions[d] ELSE {}]
        /\ \A v \in Workers \ {w} : Claimed(v)' = Claimed(v) /\ draft'[v] = draft[v]
    BY <1>2, ClaimTakesFreeRows
  <2>2. UNCHANGED <<versions, polled, cur, body>>
    BY <1>2 DEF Claim
  <2>3. pc'[w] = "polling" /\ \A v \in Workers \ {w} : pc'[v] = pc[v]
    BY <1>2 DEF Claim, TypeInv, TypeOK
  <2>4. \A d \in Claimed(w)' : Publishable(w, d)'
    BY <2>1, <2>2 DEF HistInv, Publishable
  <2>5. \A v \in Workers \ {w} : InHand(v)' /\ \A d \in Claimed(v)' : Publishable(v, d)'
    BY <2>1, <2>2, <2>3 DEF HistInv, InHand, Publishable
  <2>6. InHand(w)'
    BY <2>3 DEF InHand
  <2> QED
    BY <2>2, <2>4, <2>5, <2>6 DEF HistInv
<1>3. ASSUME NEW w \in Workers,
             FetchNothing(w) \/ FetchFails(w) \/ PutFails(w) \/ AlignFails(w)
      PROVE  HistInv'
  <2>1. Claimed(w)' = Claimed(w)
    BY <1>3, TickKeepsLocks
  <2>2. draft' = draft /\ pc'[w] = "polling" /\ polled[w] \subseteq polled'[w]
    BY <1>3 DEF FetchNothing, FetchFails, PutFails, AlignFails, MarkOk, MarkFailed, TypeInv, TypeOK
  <2>3. versions' = versions
    BY <1>3, OthersKeepPublishable
  <2>4. InHand(w)' /\ \A d \in Claimed(w)' : Publishable(w, d)'
    BY <2>1, <2>2, <2>3 DEF HistInv, InHand, Publishable
  <2> QED
    BY <1>3, <2>3, <2>4, OthersKeepPublishable DEF HistInv
<1>4. ASSUME NEW w \in Workers, FetchUnchanged(w) PROVE HistInv'
  <2>1. PICK d \in Docs :
           /\ IsNext(w, d)
           /\ \E r \in draft[w][d] : draft' = [draft EXCEPT ![w][d] = (@ \ {r}) \cup {Closed(r)}]
           /\ MarkOk(w, d)
    BY <1>4 DEF FetchUnchanged
  <2>2. PICK r \in draft[w][d] : draft' = [draft EXCEPT ![w][d] = (@ \ {r}) \cup {Closed(r)}]
    BY <2>1
  <2>3. d \in Claimed(w) /\ d \notin polled[w]
    BY <2>1 DEF IsNext, LockInv, Sorted, Claimed
  <2>4. /\ draft[w][d] \in SUBSET Version /\ Good(draft[w][d])
        /\ draft[w][d] = versions[d]
    BY <2>3 DEF HistInv, Publishable, TypeInv, TypeOK
  <2>5. /\ draft'[w][d] = (draft[w][d] \ {r}) \cup {Closed(r)}
        /\ \A e \in Docs \ {d} : draft'[w][e] = draft[w][e]
    BY <2>2 DEF TypeInv, TypeOK
  <2>6. Good(draft'[w][d]) /\ HistoryOf(draft'[w][d]) = HistoryOf(versions[d])
    BY <2>4, <2>5, ClosingKeepsHistory
  <2>7. Claimed(w)' = Claimed(w) /\ Claimed(w) \subseteq Docs
    <3>1. Claimed(w)' = Claimed(w)
      BY <1>4, TickKeepsLocks
    <3>2. Claimed(w) \subseteq Docs
      BY DEF Claimed, TypeInv, TypeOK
    <3> QED
      BY <3>1, <3>2
  <2>8. polled'[w] = polled[w] \cup {d} /\ pc'[w] = "polling"
    BY <1>4, <2>1 DEF FetchUnchanged, MarkOk, TypeInv, TypeOK
  <2>9. versions' = versions
    BY <1>4, OthersKeepPublishable
  <2>10. \A e \in Claimed(w)' : Publishable(w, e)'
    <3> SUFFICES ASSUME NEW e \in Claimed(w)' PROVE Publishable(w, e)'
      OBVIOUS
    <3>1. CASE e = d
      BY <3>1, <2>6, <2>8, <2>9 DEF Publishable
    <3>2. CASE e # d
      BY <3>2, <2>5, <2>7, <2>8, <2>9 DEF HistInv, Publishable
    <3> QED
      BY <3>1, <3>2
  <2>11. InHand(w)'
    BY <2>8 DEF InHand
  <2> QED
    BY <1>4, <2>9, <2>10, <2>11, OthersKeepPublishable DEF HistInv
<1>5. ASSUME NEW w \in Workers, FetchChanged(w) PROVE HistInv'
  <2>1. PICK d \in Docs :
           /\ \A r \in draft[w][d] : IsLive(draft[w][d], r) => r.content # upstream[d]
           /\ cur' = [cur EXCEPT ![w] = d]
           /\ body' = [body EXCEPT ![w] = upstream[d]]
    BY <1>5 DEF FetchChanged
  <2>2. cur'[w] = d /\ body'[w] = upstream[d] /\ draft' = draft /\ polled' = polled
    BY <1>5, <2>1 DEF FetchChanged, TypeInv, TypeOK
  <2>3. versions' = versions /\ Claimed(w)' = Claimed(w)
    BY <1>5, TickKeepsLocks, OthersKeepPublishable
  <2>4. InHand(w)'
    BY <2>1, <2>2 DEF InHand
  <2>5. \A e \in Claimed(w)' : Publishable(w, e)'
    BY <2>2, <2>3 DEF HistInv, Publishable
  <2> QED
    BY <1>5, <2>3, <2>4, <2>5, OthersKeepPublishable DEF HistInv
<1>6. ASSUME NEW w \in Workers, WriteVersion(w) PROVE HistInv'
  <2> DEFINE d == cur[w]
  <2>1. d \in Docs /\ body[w] \in Contents /\ pc[w] = "writing"
    BY <1>6 DEF WriteVersion, TypeInv, TickShape
  <2>2. PICK n \in NewNo(draft[w][d]) :
           /\ ~Taken(draft[w][d], n)
           /\ draft' = [draft EXCEPT ![w][d] = Superseded(draft[w][d], n, body[w])]
    BY <1>6 DEF WriteVersion
  <2>3. d \in Claimed(w) /\ d \notin polled[w]
    BY <2>1 DEF LockInv, Sorted, Claimed
  <2>4. /\ draft[w][d] \in SUBSET Version /\ Good(draft[w][d])
        /\ draft[w][d] = versions[d]
    BY <2>1, <2>3 DEF HistInv, Publishable, TypeInv, TypeOK
  <2>5. /\ draft'[w][d] = Superseded(draft[w][d], n, body[w])
        /\ \A e \in Docs \ {d} : draft'[w][e] = draft[w][e]
    BY <2>1, <2>2 DEF TypeInv, TypeOK
  <2>6. \A r \in draft[w][d] : IsLive(draft[w][d], r) => r.content # body[w]
    BY <2>1 DEF HistInv, InHand
  <2>7. /\ Good(draft'[w][d])
        /\ Promise!Appends(HistoryOf(versions[d]), HistoryOf(draft'[w][d]))
    BY <2>1, <2>2, <2>4, <2>5, <2>6, SupersedingAppends
  <2>8. Claimed(w)' = Claimed(w) /\ Claimed(w) \subseteq Docs
    <3>1. Claimed(w)' = Claimed(w)
      BY <1>6, TickKeepsLocks
    <3>2. Claimed(w) \subseteq Docs
      BY DEF Claimed, TypeInv, TypeOK
    <3> QED
      BY <3>1, <3>2
  <2>9. polled'[w] = polled[w] \cup {d} /\ pc'[w] = "polling"
    BY <1>6 DEF WriteVersion, MarkOk, TypeInv, TypeOK
  <2>10. versions' = versions
    BY <1>6, OthersKeepPublishable
  <2>11. \A e \in Claimed(w)' : Publishable(w, e)'
    <3> SUFFICES ASSUME NEW e \in Claimed(w)' PROVE Publishable(w, e)'
      OBVIOUS
    <3>1. CASE e = d
      BY <3>1, <2>7, <2>9, <2>10 DEF Publishable
    <3>2. CASE e # d
      BY <3>2, <2>5, <2>8, <2>9, <2>10 DEF HistInv, Publishable
    <3> QED
      BY <3>1, <3>2
  <2>12. InHand(w)'
    BY <2>9 DEF InHand
  <2> QED
    BY <1>6, <2>10, <2>11, <2>12, OthersKeepPublishable DEF HistInv
<1>7. ASSUME NEW w \in Workers, Commit(w) \/ Discard(w) PROVE HistInv'
  <2>1. Release(w)
    BY <1>7 DEF Commit, Discard
  <2>2. /\ Claimed(w)' = {}
        /\ \A v \in Workers \ {w} :
             /\ Claimed(v)' = Claimed(v) /\ polled'[v] = polled[v] /\ cur'[v] = cur[v]
             /\ body'[v] = body[v]
    BY <2>1, ReleaseFreesRows, ReleaseType
  <2>3. \A v \in Workers \ {w} : draft'[v] = draft[v]
    BY <2>1 DEF Release, TypeInv, TypeOK
  <2>4. /\ pc'[w] \notin {"storing", "writing"}
        /\ \A v \in Workers \ {w} : pc'[v] = pc[v]
    BY <1>7 DEF Commit, Discard, TypeInv, TypeOK
  <2>5. \A d \in Docs : Good(versions'[d])
    <3>1. CASE Commit(w)
      <4>1. polled[w] \cup failed[w] \subseteq Claimed(w)
        BY DEF Claimed
      <4> QED
        BY <3>1, <4>1 DEF Commit, HistInv, Publishable
    <3>2. CASE Discard(w)
      BY <3>2 DEF Discard, HistInv
    <3> QED
      BY <1>7, <3>1, <3>2
  <2>6. ASSUME NEW v \in Workers \ {w}, NEW d \in Claimed(v) PROVE versions'[d] = versions[d]
    <3>1. CASE Commit(w)
      <4>1. d \in Docs
        BY DEF Claimed, TypeInv, TypeOK
      <4>2. d \notin Claimed(w)
        BY DEF LockInv, LockExclusion
      <4>3. d \notin polled[w] \cup failed[w]
        BY <4>2 DEF Claimed
      <4> QED
        BY <3>1, <4>1, <4>3 DEF Commit
    <3>2. CASE Discard(w)
      BY <3>2 DEF Discard
    <3> QED
      BY <1>7, <3>1, <3>2
  <2>7. \A v \in Workers \ {w} : InHand(v)' /\ \A d \in Claimed(v)' : Publishable(v, d)'
    BY <2>2, <2>3, <2>4, <2>6 DEF HistInv, InHand, Publishable
  <2>8. InHand(w)'
    BY <2>4 DEF InHand
  <2> QED
    BY <2>2, <2>5, <2>7, <2>8 DEF HistInv
<1> QED
  BY <1>1, <1>2, <1>3, <1>4, <1>5, <1>6, <1>7, StepClasses DEF TxStep
\* The safety invariants of a run, together.
SafetyInv == TypeInv /\ LockInv /\ ParkInv /\ HistInv

LEMMA SafetyInvHolds == Spec => []SafetyInv
<1>1. Init => SafetyInv
  BY InitTypeInv, InitLockInv, InitParkInv, InitHistInv DEF SafetyInv
<1>2. SafetyInv /\ [Next]_vars => SafetyInv'
  BY NextTypeInv, NextLockInv, NextParkInv, NextHistInv DEF SafetyInv
<1> QED
  BY <1>1, <1>2, PTL DEF Spec

\* Whatever is polled, lost, retried or rolled back, the committed rows of a
\* document form a history.
THEOREM HistoriesKept == Spec => []HistoryKept
<1>1. SafetyInv => HistoryKept
  BY DEF SafetyInv, HistInv, HistoryKept, Good
<1> QED
  BY <1>1, SafetyInvHolds, PTL

-----------------------------------------------------------------------------
\* The worker implements VersionHistory.
LEMMA InitRefines == Init => Promise!HInit
<1> SUFFICES ASSUME Init PROVE Promise!HInit
  OBVIOUS
<1>1. \A d \in Docs : DOMAIN HistoryOf(versions[d]) = {}
  BY DEF Init, NoVersions, HistoryOf
<1>2. \A d \in Docs : ~Parked(d)
  BY ConstantsAssumption DEF Init, Parked
<1> QED
  BY <1>1, <1>2 DEF Promise!HInit

\* Only COMMIT publishes.
LEMMA OnlyCommitPublishes ==
    ASSUME TypeInv, [Next]_vars, ~\E w \in Workers : Commit(w)
    PROVE  UNCHANGED <<failures, incidents, versions>>
<1>1. CASE Quiet
  BY <1>1 DEF Quiet, txRows
<1>2. ASSUME NEW w \in Workers, TxStep(w) PROVE UNCHANGED <<failures, incidents, versions>>
  BY <1>2 DEF TxStep, Claim, FetchNothing, FetchUnchanged, FetchChanged, FetchFails, PutFails,
              AlignFails, WriteVersion, Discard, schedVars
<1> QED
  BY <1>1, <1>2, StepClasses

LEMMA CommitRefines ==
    ASSUME SafetyInv, NEW w \in Workers, Commit(w)
    PROVE  Promise!HNext
<1> DEFINE h == [d \in Docs |-> HistoryOf(versions[d])]
           p == {d \in Docs : Parked(d)}
<1>1. polled[w] \cup failed[w] \subseteq Claimed(w) /\ polled[w] \cap failed[w] = {}
  BY DEF SafetyInv, LockInv, Sorted, Claimed
<1>2. p \subseteq p'
  <2> SUFFICES ASSUME NEW d \in Docs, Parked(d) PROVE Parked(d)'
    OBVIOUS
  <2>1. d \notin polled[w] \cup failed[w]
    BY <1>1 DEF SafetyInv, ParkInv
  <2> QED
    BY <2>1 DEF Commit, Parked
<1>3. ASSUME NEW d \in Docs
      PROVE  \/ h'[d] = h[d]
             \/ Promise!Appends(h[d], h'[d]) /\ d \notin p'
  <2>1. CASE d \in polled[w]
    <3>1. versions'[d] = draft[w][d] /\ failures'[d] = 0
      BY <2>1 DEF Commit
    <3>2. ~Parked(d)'
      BY <3>1, ConstantsAssumption DEF Parked
    <3> QED
      BY <1>1, <2>1, <3>1, <3>2 DEF SafetyInv, HistInv, Publishable
  <2>2. CASE d \notin polled[w]
    <3>1. versions'[d] = versions[d]
      BY <1>1, <2>2 DEF Commit, SafetyInv, HistInv, Publishable
    <3> QED
      BY <3>1
  <2> QED
    BY <2>1, <2>2
<1> QED
  BY <1>2, <1>3 DEF Promise!HNext

LEMMA StepRefines == SafetyInv /\ [Next]_vars => [Promise!HNext]_(Promise!hvars)
<1> SUFFICES ASSUME SafetyInv, [Next]_vars PROVE [Promise!HNext]_(Promise!hvars)
  OBVIOUS
<1>1. CASE \E w \in Workers : Commit(w)
  BY <1>1, CommitRefines
<1>2. CASE ~\E w \in Workers : Commit(w)
  <2>1. UNCHANGED <<failures, versions>>
    BY <1>2, OnlyCommitPublishes DEF SafetyInv
  <2> QED
    BY <2>1 DEF Promise!hvars, Parked
<1> QED
  BY <1>1, <1>2

\* Every behaviour of the worker is one VersionHistory allows: append-only
\* histories without repetition, final once the document is parked.
THEOREM WorkerKeepsPromise == Spec => PromiseKept
<1> QED
  BY InitRefines, StepRefines, SafetyInvHolds, PTL DEF Spec, PromiseKept, Promise!HSpec

-----------------------------------------------------------------------------
\* A parked row is frozen: only its own transaction could touch it, and no
\* transaction holds it.
LEMMA StepFreezesParked ==
    ASSUME SafetyInv, [Next]_vars, NEW d \in Docs, Parked(d)
    PROVE  failures'[d] = failures[d] /\ incidents'[d] = incidents[d] /\ versions'[d] = versions[d]
<1>1. CASE \E w \in Workers : Commit(w)
  <2>1. PICK w \in Workers : Commit(w)
    BY <1>1
  <2>2. d \notin Claimed(w)
    BY DEF SafetyInv, ParkInv
  <2>3. d \notin polled[w] /\ d \notin failed[w]
    BY <2>2 DEF Claimed
  <2>4. d \notin parking[w]
    BY <2>3 DEF SafetyInv, ParkInv
  <2> QED
    BY <2>1, <2>3, <2>4 DEF Commit
<1>2. CASE ~\E w \in Workers : Commit(w)
  BY <1>2, OnlyCommitPublishes DEF SafetyInv
<1> QED
  BY <1>1, <1>2

\* A parked row is out of every later tick (loop.py CLAIM_SQL, failure_count <= $1):
\* no step changes the row, its incidents or its versions.
THEOREM ParkedStaysFrozen == Spec => ParkedIsFrozen
<1>1. SafetyInv /\ [Next]_vars =>
         [\A d \in Docs : Parked(d) =>
            /\ failures'[d] = failures[d]
            /\ incidents'[d] = incidents[d]
            /\ versions'[d] = versions[d]]_vars
  BY StepFreezesParked
<1> QED
  BY <1>1, SafetyInvHolds, PTL DEF Spec, ParkedIsFrozen
-----------------------------------------------------------------------------
\* Blobs.  No step takes a text out of the committed versions.
LEMMA ReferencedGrows ==
    ASSUME SafetyInv, SafetyInv', [Next]_vars
    PROVE  Referenced \subseteq Referenced'
<1> SUFFICES ASSUME NEW d \in Docs, NEW r \in versions[d]
             PROVE  \E q \in versions'[d] : q.content = r.content
  BY DEF Referenced, ReferencedBy
<1> DEFINE g == HistoryOf(versions[d])
           h == HistoryOf(versions'[d])
<1>1. /\ versions[d] \in SUBSET Version /\ IsHistory(versions[d])
      /\ versions'[d] \in SUBSET Version /\ IsHistory(versions'[d])
  BY DEF SafetyInv, TypeInv, TypeOK, HistInv, Good
<1>2. r.no \in DOMAIN g /\ g[r.no] = r.content
  BY <1>1, HistoryOfRow
<1>3. g = h \/ Promise!Appends(g, h)
  BY StepRefines DEF Promise!HNext, Promise!hvars
<1>4. r.no \in DOMAIN h /\ h[r.no] = r.content
  BY <1>2, <1>3 DEF Promise!Appends
<1>5. DOMAIN h = {q.no : q \in versions'[d]}
  BY DEF HistoryOf
<1>6. PICK q \in versions'[d] : q.no = r.no
  BY <1>4, <1>5
<1>7. h[q.no] = q.content
  BY <1>1, HistoryOfRow
<1> QED
  BY <1>4, <1>6, <1>7

\* What protects a committed text once no pass is under way: every pass that
\* starts later has it among its keys.
Guarded(c) ==
    /\ c \in Referenced /\ c \in blobs
    /\ \A w \in Workers : Sweeping(w) => c \in keys[w]

LEMMA StepGuards ==
    ASSUME SafetyInv, SafetyInv', [Next]_vars, NEW c \in Contents, Guarded(c)
    PROVE  Guarded(c)'
<1> USE DEF SafetyInv, TypeInv, TypeOK, Guarded, Sweeping
<1>1. c \in Referenced'
  BY ReferencedGrows
<1> SUFFICES c \in blobs' /\ \A w \in Workers : Sweeping(w)' => c \in keys'[w]
  BY <1>1
<1>2. ASSUME NEW w \in Workers, SweepReadKeys(w)
      PROVE  c \in blobs' /\ \A v \in Workers : Sweeping(v)' => c \in keys'[v]
  BY <1>2 DEF SweepReadKeys
<1>3. ASSUME NEW w \in Workers, SweepDelete(w)
      PROVE  c \in blobs' /\ \A v \in Workers : Sweeping(v)' => c \in keys'[v]
  BY <1>3 DEF SweepDelete
<1>4. ASSUME NEW w \in Workers,
             SweepList(w) \/ SweepDone(w) \/ SweepFails(w) \/ StopSweeping(w) \/ Start(w) \/ Crash(w)
      PROVE  c \in blobs' /\ \A v \in Workers : Sweeping(v)' => c \in keys'[v]
  <2>1. CASE SweepList(w)
    BY <2>1 DEF SweepList
  <2>2. CASE SweepDone(w)
    BY <2>2 DEF SweepDone
  <2>3. CASE SweepFails(w)
    BY <2>3 DEF SweepFails
  <2>4. CASE StopSweeping(w)
    BY <2>4 DEF StopSweeping
  <2>5. CASE Start(w)
    BY <2>5 DEF Start
  <2>6. CASE Crash(w)
    BY <2>6 DEF Crash
  <2> QED
    BY <1>4, <2>1, <2>2, <2>3, <2>4, <2>5, <2>6
<1>5. ASSUME NEW w \in Workers, Claim(w) \/ TickStep(w) \/ ConnectionLost(w) \/ Signal(w)
                                 \/ StopClaiming(w)
      PROVE  c \in blobs' /\ UNCHANGED <<sweepPc, keys>>
  BY <1>5 DEF Claim, TickStep, FetchNothing, FetchUnchanged, FetchChanged, FetchFails, PutBlob,
              PutFails, AlignFails, WriteVersion, WriteConflicts, WriteRefused, Aborts,
              Commit, Rollback,
              ConnectionLost, Signal, StopClaiming, sweepVars
<1>6. ASSUME NEW d \in Docs, BecomeDue(d) \/ Publish(d)
      PROVE  UNCHANGED <<blobs, sweepPc, keys>>
  BY <1>6 DEF BecomeDue, Publish, sweepVars
<1>7. CASE UNCHANGED vars
  BY <1>7 DEF vars
<1> QED
  BY <1>2, <1>3, <1>4, <1>5, <1>6, <1>7 DEF Next, SweepStep

\* A blob that was referenced while no pass ran is there for ever (sweep.py
\* sweep_once), for any number of processes polling and sweeping at once.
THEOREM SettledBlobsStay == Spec => SettledBlobKept
<1> SUFFICES ASSUME NEW c \in Contents PROVE Spec => [](Settled(c) => [](c \in blobs))
  BY DEF SettledBlobKept
<1>1. Settled(c) => Guarded(c)
  BY DEF Settled, Guarded
<1>2. SafetyInv /\ SafetyInv' /\ Guarded(c) /\ [Next]_vars => Guarded(c)'
  BY StepGuards
<1>3. Guarded(c) => c \in blobs
  BY DEF Guarded
<1> QED
  BY <1>1, <1>2, <1>3, SafetyInvHolds, PTL DEF Spec
-----------------------------------------------------------------------------
\* What is relied on was uploaded before, so it is there unless a pass took it
\* while it was relied on.
BlobInv == Relied \subseteq blobs \cup raced

LEMMA ClosedText == ASSUME NEW r \in Version PROVE Closed(r).content = r.content
  BY DEF Closed, Version

LEMMA ClosedKeepsTexts ==
    ASSUME NEW rows \in SUBSET Version, NEW r \in rows
    PROVE  ReferencedBy((rows \ {r}) \cup {Closed(r)}) = ReferencedBy(rows)
  BY ClosedText DEF ReferencedBy

LEMMA SupersededTexts ==
    ASSUME NEW rows \in SUBSET Version, NEW n, NEW c
    PROVE  ReferencedBy(Superseded(rows, n, c)) \subseteq ReferencedBy(rows) \cup {c}
<1> SUFFICES ASSUME NEW q \in Superseded(rows, n, c)
             PROVE  q.content \in ReferencedBy(rows) \cup {c}
  BY DEF ReferencedBy
<1>1. CASE q = [no |-> n, content |-> c, open |-> TRUE]
  BY <1>1
<1>2. CASE \E r \in rows : q = r \/ q = Closed(r)
  BY <1>2, ClosedText DEF ReferencedBy
<1> QED
  BY <1>1, <1>2 DEF Superseded

\* A step that relies on nothing new and takes nothing away.
LEMMA NoNewReliance ==
    ASSUME BlobInv, blobs \cup raced \subseteq (blobs \cup raced)',
           \A d \in Docs : ReferencedBy(versions'[d]) \subseteq Relied,
           \A w \in Workers, d \in Docs : ReferencedBy(draft'[w][d]) \subseteq Relied,
           \A w \in Workers : pc'[w] = "writing" => body'[w] \in Relied \cup (blobs \cup raced)'
    PROVE  BlobInv'
<1> SUFFICES ASSUME NEW c \in Relied' PROVE c \in (blobs \cup raced)'
  BY DEF BlobInv
<1>1. \/ \E d \in Docs : c \in ReferencedBy(versions'[d])
      \/ \E w \in Workers, d \in Docs : c \in ReferencedBy(draft'[w][d])
      \/ \E w \in Workers : pc'[w] = "writing" /\ c = body'[w]
  BY DEF Relied, ReferencedBy
<1>2. c \in Relied \/ c \in (blobs \cup raced)'
  BY <1>1
<1> QED
  BY <1>2 DEF BlobInv

LEMMA AlreadyRelied ==
    ASSUME TypeInv
    PROVE  /\ \A d \in Docs : ReferencedBy(versions[d]) \subseteq Relied
           /\ \A w \in Workers, d \in Docs : ReferencedBy(draft[w][d]) \subseteq Relied
           /\ \A w \in Workers : pc[w] = "writing" => body[w] \in Relied
           /\ ReferencedBy({}) = {}
<1>1. \A d \in Docs : ReferencedBy(versions[d]) \subseteq Contents
  BY DEF TypeInv, TypeOK, Version, ReferencedBy
<1>2. \A w \in Workers, d \in Docs : ReferencedBy(draft[w][d]) \subseteq Contents
  BY DEF TypeInv, TypeOK, Version, ReferencedBy
<1>3. \A w \in Workers : pc[w] = "writing" => body[w] \in Contents
  BY DEF TypeInv, TickShape
<1>4. ReferencedBy({}) = {}
  BY DEF ReferencedBy
<1> QED
  BY <1>1, <1>2, <1>3, <1>4 DEF Relied

LEMMA StepKeepsBlobs ==
    ASSUME TypeInv, BlobInv, [Next]_vars
    PROVE  BlobInv'
<1> USE AlreadyRelied DEF TypeInv, TypeOK
<1> DEFINE HasAll == blobs \cup raced \subseteq (blobs \cup raced)'
           VersionsIn == \A d \in Docs : ReferencedBy(versions'[d]) \subseteq Relied
           DraftsIn == \A w \in Workers, d \in Docs : ReferencedBy(draft'[w][d]) \subseteq Relied
           BodiesIn == \A w \in Workers :
                          pc'[w] = "writing" => body'[w] \in Relied \cup (blobs \cup raced)'
<1>0. ASSUME HasAll, VersionsIn, DraftsIn, BodiesIn PROVE BlobInv'
  BY <1>0, NoNewReliance
<1>1. ASSUME UNCHANGED <<versions, draft, body, pc, blobs, raced>> PROVE BlobInv'
  BY <1>1 DEF BlobInv, Relied, ReferencedBy
<1>2. ASSUME NEW d \in Docs, BecomeDue(d) \/ Publish(d) PROVE BlobInv'
  BY <1>1, <1>2 DEF BecomeDue, Publish, txVars, sweepVars
<1>3. ASSUME NEW w \in Workers, Claim(w) PROVE BlobInv'
  <2>1. UNCHANGED <<versions, blobs, raced, body>>
    BY <1>3 DEF Claim, sweepVars
  <2>2. PICK S \in SUBSET Claimable :
           draft' = [draft EXCEPT ![w] = [d \in Docs |-> IF d \in S THEN versions[d] ELSE {}]]
    BY <1>3 DEF Claim
  <2>3. \A v \in Workers, d \in Docs :
           draft'[v][d] \in {draft[v][d], versions[d], {}}
    BY <2>2
  <2>4. DraftsIn
    BY <2>3
  <2>5. \A v \in Workers : pc'[v] = "writing" => pc[v] = "writing"
    BY <1>3 DEF Claim
  <2> QED
    BY <1>0, <2>1, <2>4, <2>5
<1>4. ASSUME NEW w \in Workers, FetchUnchanged(w) PROVE BlobInv'
  <2>1. PICK d \in Docs : \E r \in draft[w][d] :
           draft' = [draft EXCEPT ![w][d] = (@ \ {r}) \cup {Closed(r)}]
    BY <1>4 DEF FetchUnchanged
  <2>2. PICK r \in draft[w][d] : draft' = [draft EXCEPT ![w][d] = (@ \ {r}) \cup {Closed(r)}]
    BY <2>1
  <2>3. ReferencedBy(draft'[w][d]) = ReferencedBy(draft[w][d])
    <3>1. draft[w][d] \in SUBSET Version /\ draft'[w][d] = (draft[w][d] \ {r}) \cup {Closed(r)}
      BY <2>2
    <3> QED
      BY <3>1, ClosedKeepsTexts
  <2>4. \A v \in Workers, e \in Docs :
           draft'[v][e] = IF v = w /\ e = d THEN draft'[w][d] ELSE draft[v][e]
    BY <2>2
  <2>5. \A v \in Workers, e \in Docs : ReferencedBy(draft'[v][e]) = ReferencedBy(draft[v][e])
    BY <2>3, <2>4
  <2>6. UNCHANGED <<versions, blobs, raced, pc, body>>
    BY <1>4 DEF FetchUnchanged, sweepVars
  <2> QED
    BY <1>0, <2>5, <2>6
<1>5. ASSUME NEW w \in Workers, FetchNothing(w) \/ FetchChanged(w) \/ FetchFails(w)
      PROVE  BlobInv'
  <2>1. UNCHANGED <<versions, blobs, raced, draft>>
    BY <1>5 DEF FetchNothing, FetchChanged, FetchFails, sweepVars
  <2>2. \A v \in Workers : pc'[v] = "writing" => pc[v] = "writing" /\ body'[v] = body[v]
    <3>1. CASE FetchNothing(w) \/ FetchFails(w)
      BY <3>1 DEF FetchNothing, FetchFails
    <3>2. CASE FetchChanged(w)
      BY <3>2 DEF FetchChanged
    <3> QED
      BY <1>5, <3>1, <3>2
  <2> QED
    BY <1>0, <2>1, <2>2
<1>6. ASSUME NEW w \in Workers,
             PutBlob(w) \/ PutFails(w) \/ AlignFails(w) \/ WriteConflicts(w) \/ WriteRefused(w)
      PROVE  BlobInv'
  <2>1. UNCHANGED <<versions, draft>>
    BY <1>6 DEF PutBlob, PutFails, AlignFails, WriteConflicts, WriteRefused, Aborts, txVars
  <2>2. HasAll
    <3>1. CASE PutBlob(w)
      BY <3>1 DEF PutBlob
    <3>2. CASE PutFails(w)
      BY <3>2 DEF PutFails
    <3>3. CASE AlignFails(w) \/ WriteConflicts(w) \/ WriteRefused(w)
      BY <3>3 DEF AlignFails, WriteConflicts, WriteRefused, Aborts, sweepVars
    <3> QED
      BY <1>6, <3>1, <3>2, <3>3
  <2>3. BodiesIn
    <3>1. CASE PutBlob(w)
      BY <3>1 DEF PutBlob, txVars
    <3>2. CASE PutFails(w)
      BY <3>2 DEF PutFails
    <3>3. CASE AlignFails(w)
      BY <3>3 DEF AlignFails
    <3>4. CASE WriteConflicts(w) \/ WriteRefused(w)
      BY <3>4 DEF WriteConflicts, WriteRefused, Aborts, txVars
    <3> QED
      BY <1>6, <3>1, <3>2, <3>3, <3>4
  <2> QED
    BY <1>0, <2>1, <2>2, <2>3
<1>7. ASSUME NEW w \in Workers, WriteVersion(w) PROVE BlobInv'
  <2>1. PICK n : draft' = [draft EXCEPT ![w][cur[w]] = Superseded(draft[w][cur[w]], n, body[w])]
    BY <1>7 DEF WriteVersion
  <2>2. body[w] \in Relied /\ cur[w] \in Docs
    BY <1>7 DEF WriteVersion, TickShape
  <2>3. ReferencedBy(Superseded(draft[w][cur[w]], n, body[w])) \subseteq Relied
    <3>1. draft[w][cur[w]] \in SUBSET Version /\ ReferencedBy(draft[w][cur[w]]) \subseteq Relied
      BY <2>2
    <3>2. ReferencedBy(Superseded(draft[w][cur[w]], n, body[w]))
             \subseteq ReferencedBy(draft[w][cur[w]]) \cup {body[w]}
      BY ONLY <3>1, SupersededTexts
    <3> QED
      BY <2>2, <3>1, <3>2
  <2>4. \A v \in Workers, e \in Docs :
           draft'[v][e] = IF v = w /\ e = cur[w]
                          THEN Superseded(draft[w][cur[w]], n, body[w]) ELSE draft[v][e]
    BY <2>1, <2>2
  <2>5. DraftsIn
    BY <2>3, <2>4
  <2>6. UNCHANGED <<versions, blobs, raced>>
    BY <1>7 DEF WriteVersion, sweepVars
  <2>7. \A v \in Workers : pc'[v] = "writing" => pc[v] = "writing" /\ body'[v] = body[v]
    BY <1>7 DEF WriteVersion
  <2> QED
    BY <1>0, <2>5, <2>6, <2>7
<1>8. ASSUME NEW w \in Workers, Release(w)
      PROVE  DraftsIn /\ \A v \in Workers \ {w} : body'[v] = body[v]
  BY <1>8 DEF Release, NoVersions
<1>9. ASSUME NEW w \in Workers, Commit(w) PROVE BlobInv'
  <2>1. Release(w) /\ UNCHANGED <<blobs, raced>>
    BY <1>9 DEF Commit, sweepVars
  <2>2. VersionsIn
    BY <1>9 DEF Commit
  <2>3. pc'[w] # "writing" /\ \A v \in Workers \ {w} : pc'[v] = pc[v]
    BY <1>9 DEF Commit
  <2> QED
    BY <1>0, <1>8, <2>1, <2>2, <2>3
<1>10. ASSUME NEW w \in Workers, Rollback(w) \/ ConnectionLost(w) \/ Crash(w) PROVE BlobInv'
  <2>1. Release(w) /\ UNCHANGED <<blobs, raced, versions>>
    BY <1>10 DEF Rollback, ConnectionLost, Crash, sweepVars
  <2>2. pc'[w] # "writing" /\ \A v \in Workers \ {w} : pc'[v] = pc[v]
    BY <1>10 DEF Rollback, ConnectionLost, Crash
  <2> QED
    BY <1>0, <1>8, <2>1, <2>2
<1>11. ASSUME NEW w \in Workers, SweepDelete(w) PROVE BlobInv'
  <2>1. PICK c : blobs' = blobs \ {c} /\ raced' = raced \cup ({c} \cap Relied)
    BY <1>11 DEF SweepDelete
  <2>2. UNCHANGED <<versions, draft, body, pc>>
    BY <1>11 DEF SweepDelete, txVars
  <2>3. Relied' = Relied
    BY <2>2 DEF Relied, ReferencedBy
  <2> QED
    BY <2>1, <2>3 DEF BlobInv
<1>12. ASSUME NEW w \in Workers,
              SweepReadKeys(w) \/ SweepList(w) \/ SweepDone(w) \/ SweepFails(w)
       PROVE  BlobInv'
  BY <1>1, <1>12 DEF SweepReadKeys, SweepList, SweepDone, SweepFails, txVars
<1>13. ASSUME NEW w \in Workers, Signal(w) \/ StopClaiming(w) \/ StopSweeping(w) \/ Start(w)
       PROVE  BlobInv'
  <2>1. UNCHANGED <<versions, draft, body, blobs, raced>>
    BY <1>13 DEF Signal, StopClaiming, StopSweeping, Start, txVars, sweepVars
  <2>2. \A v \in Workers : pc'[v] = "writing" => pc[v] = "writing"
    BY <1>13 DEF Signal, StopClaiming, StopSweeping, Start
  <2> QED
    BY <1>0, <2>1, <2>2
<1>14. CASE UNCHANGED vars
  BY <1>1, <1>14 DEF vars
<1> QED
  BY <1>2, <1>3, <1>4, <1>5, <1>6, <1>7, <1>9, <1>10, <1>11, <1>12, <1>13, <1>14
     DEF Next, TickStep, SweepStep

\* poll.py uploads before it inserts, so a committed version lacks its blob only
\* where a pass of sweep.py deleted that blob while a poll or a version relied on
\* it: no failure, retry, rollback, crash or restart leaves a version without one,
\* whatever the passes of all the processes do meanwhile.
THEOREM MissingBlobsRaced == Spec => []BlobsPresent
<1>1. Init => BlobInv
  <2>1. ReferencedBy({}) = {}
    BY DEF ReferencedBy
  <2> QED
    BY <2>1 DEF Init, BlobInv, Relied, NoVersions
<1>2. TypeInv /\ BlobInv /\ [Next]_vars => BlobInv'
  BY StepKeepsBlobs
<1>3. TypeInv /\ BlobInv => BlobsPresent
  BY AlreadyRelied DEF BlobInv, BlobsPresent, Referenced
<1> QED
  BY <1>1, <1>2, <1>3, InitTypeInv, NextTypeInv, PTL DEF Spec
=============================================================================
