--------------------------- MODULE DistributedLock ---------------------------
(***************************************************************************)
(* withLock of DistributedLockService: a job runs while the Redis key of   *)
(* its resource holds its token.  Nothing extends the time to live of a    *)
(* key, so a job may go on after its key has expired.  A token is random   *)
(* and belongs to one call: the job stands for its token.                  *)
(***************************************************************************)
CONSTANTS
    Jobs,        \* calls of withLock that may be under way
    NoJob,
    Resources,   \* names under which jobs exclude one another
    Nothing

ASSUME JobsAssumption == NoJob \notin Jobs /\ Nothing \notin Resources

VARIABLES
    lock,     \* resource -> the job whose token its key holds
    holding,  \* job -> the resource it entered and has not left
    overrun,  \* jobs inside whose key has expired
    expired   \* resources of which a job was overrun, ever

lockVars == <<lock, holding, overrun, expired>>

LockTypeOK ==
    /\ lock \in [Resources -> Jobs \cup {NoJob}]
    /\ holding \in [Jobs -> Resources \cup {Nothing}]
    /\ overrun \subseteq Jobs
    /\ expired \subseteq Resources

LockInit ==
    /\ lock = [r \in Resources |-> NoJob]
    /\ holding = [j \in Jobs |-> Nothing]
    /\ overrun = {}
    /\ expired = {}
----------------------------------------------------------------------------
(* acquire: SET NX.  A job that finds the key set is skipped or tries again *)
(* and changes nothing.                                                     *)
Acquire(j, r) ==
    /\ holding[j] = Nothing
    /\ lock[r] = NoJob
    /\ lock' = [lock EXCEPT ![r] = j]
    /\ holding' = [holding EXCEPT ![j] = r]
    /\ UNCHANGED <<overrun, expired>>

(* Mutation: release deletes the key whatever token it holds. *)
ReleasedWhateverToken(j, r) == [lock EXCEPT ![r] = NoJob]

(* The release script deletes the key if it holds the token of the job. *)
Released(j, r) == IF lock[r] = j THEN [lock EXCEPT ![r] = NoJob] ELSE lock

(* The end of withLock.  Redis may be out of reach: the key stays. *)
Release(j) ==
    /\ holding[j] # Nothing
    /\ lock' \in {Released(j, holding[j]), lock}
    /\ holding' = [holding EXCEPT ![j] = Nothing]
    /\ overrun' = overrun \ {j}
    /\ UNCHANGED expired

(* The process of the job ends without release. *)
Abandon(j) ==
    /\ holding' = [holding EXCEPT ![j] = Nothing]
    /\ overrun' = overrun \ {j}
    /\ UNCHANGED <<lock, expired>>

Holders(r) == {j \in Jobs : holding[j] = r /\ lock[r] = j}

(* The time to live of the key ends: its job, if it is still inside, has    *)
(* overrun it.                                                              *)
Expire(r) ==
    /\ lock[r] # NoJob
    /\ lock' = [lock EXCEPT ![r] = NoJob]
    /\ overrun' = overrun \cup Holders(r)
    /\ expired' = IF Holders(r) = {} THEN expired ELSE expired \cup {r}
    /\ UNCHANGED holding
----------------------------------------------------------------------------
(* A job inside that has not overrun its key still holds it, so that two    *)
(* jobs are inside one resource only after one of them has overrun.  A      *)
(* release that deletes the key of a later holder would break this.         *)
HoldersExclude ==
    \A j \in Jobs :
        holding[j] # Nothing /\ j \notin overrun => lock[holding[j]] = j
==============================================================================
