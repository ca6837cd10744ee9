--------------------------- MODULE PlatformTenants ---------------------------
(***************************************************************************)
(* One tenant as the platform's operators see it: suspension, lock,        *)
(* deletion and its cancellation, the hourly deletion job and the purge,   *)
(* the cached status TenantGuard admits requests by, the lifecycle events, *)
(* and the impersonation sessions of one operator for one user.  Requests  *)
(* interleave at their awaits; a save writes every column of the row that  *)
(* was loaded, for TypeORM compares it with the row of the database.       *)
(***************************************************************************)
EXTENDS DistributedLock, SchemaHistory, FiniteSets

CONSTANTS PlatformRequests, \* 1..n: requests of operators and runs of the job, in the order they begin
          Visitors,         \* requests TenantGuard admits or refuses
          DeletionLock,     \* the lock tenant-deletion:<id>
          TenantPlots       \* [kinds, requests, visits, crashes]

VARIABLES tenant,         \* the row: status and deletionScheduledAt (no, later, due)
          stateCache,     \* the cached status; whether a save overlapped its loading
          platformOp,     \* what each request is doing
          visitor,        \* what each guarded request is doing
          trail,          \* tenant_lifecycle_events
          tenantSessions, \* the refresh tokens of the tenant's users
          impersonations, \* the impersonation sessions, by the request that started them
          decided,        \* history: the last request that decided on the status
          beside,         \* history: the pairs of requests that overlapped
          tenantPlot      \* the plot, and the crashes left

tenantVars == <<tenant, stateCache, platformOp, visitor, trail, tenantSessions, impersonations,
                decided, beside, tenantPlot>>

TenantStatuses == {"ACTIVE", "SUSPENDED", "GRACE_PERIOD", "LOCKED", "PENDING_DELETION"}
Gone == [status |-> "none", scheduled |-> "no"]
NoCache == [status |-> "none", raced |-> FALSE]
AtRest == [kind |-> "none", at |-> "idle", row |-> Gone, was |-> Gone]

Decisions == {"suspend", "grace", "reactivate", "lock", "delete", "deleteNow", "cancel"}
Edits == {"update", "edit"} \* updateTenant; the tenant's own settings and the security policies
OtherKinds == {"cron", "revokeAll", "impersonate", "endImpersonation"}

ASSUME PlatformAssumption ==
  /\ PlatformRequests = 1..Cardinality(PlatformRequests) /\ IsFiniteSet(PlatformRequests)
  /\ PlatformRequests \subseteq Jobs
  /\ DeletionLock \in Resources
  /\ TenantPlots \subseteq [kinds : SUBSET (Decisions \cup Edits \cup OtherKinds), requests : Nat,
                           visits : BOOLEAN, crashes : Nat]

TenantInit ==
  \E plot \in TenantPlots :
    /\ tenantPlot = plot
    /\ tenant = [status |-> "ACTIVE", scheduled |-> "no"]
    /\ stateCache = NoCache
    /\ platformOp = [o \in PlatformRequests |-> AtRest]
    /\ visitor = [v \in Visitors |-> [at |-> "idle", status |-> "none", raced |-> FALSE]]
    /\ trail = <<>>
    /\ tenantSessions = "open"
    /\ impersonations = {}
    /\ decided = 0
    /\ beside = {}

Busy(o) == platformOp[o].at \notin {"idle", "done"}
OpAt(o, step) == platformOp[o].at = step
OpGoes(o, step) == platformOp' = [platformOp EXCEPT ![o].at = step]
Apart(o, p) == {o, p} \notin beside

FirstStepOf(kind) ==
  CASE kind \in Decisions \cup Edits -> "load"
    [] kind = "cron" -> "enter"
    [] kind = "revokeAll" -> "sessions"
    [] kind = "impersonate" -> "look"
    [] kind = "endImpersonation" -> "end"

BeginOp(o) ==
  /\ OpAt(o, "idle")
  /\ o <= tenantPlot.requests
  /\ \A p \in PlatformRequests : p < o => ~OpAt(p, "idle")
  /\ \E kind \in tenantPlot.kinds :
       platformOp' = [platformOp EXCEPT ![o].kind = kind, ![o].at = FirstStepOf(kind)]
  /\ beside' = beside \cup {{o, p} : p \in {x \in PlatformRequests : Busy(x)}}
  /\ UNCHANGED <<tenant, stateCache, visitor, trail, tenantSessions, impersonations, decided, tenantPlot>>
----------------------------------------------------------------------------
(* What each operation refuses, and what it makes of the row it loaded.     *)
Refused(kind, row) ==
  \/ row.status = "none"
  \/ kind \in {"suspend", "grace"} /\ row.status = "SUSPENDED"
  \/ kind = "reactivate" /\ row.status = "ACTIVE" /\ row.scheduled = "no"
  \/ kind = "reactivate" /\ row.status = "PENDING_DELETION" /\ row.scheduled = "due"
  \/ kind \in {"delete", "deleteNow"} /\ row.status = "PENDING_DELETION"
  \/ kind = "cancel" /\ (row.status # "PENDING_DELETION" \/ row.scheduled # "later")

Decide(kind, row) ==
  CASE kind = "suspend"    -> [row EXCEPT !.status = "SUSPENDED"]
    [] kind = "grace"      -> [row EXCEPT !.status = "GRACE_PERIOD"]
    [] kind = "lock"       -> [row EXCEPT !.status = "LOCKED"]
    [] kind = "delete"     -> [status |-> "PENDING_DELETION", scheduled |-> "later"]
    [] kind = "deleteNow"  -> [status |-> "PENDING_DELETION", scheduled |-> "due"]
    [] kind \in {"reactivate", "cancel"} -> [status |-> "ACTIVE", scheduled |-> "no"]
    [] OTHER -> row

LoadTenant(o) ==
  LET kind == platformOp[o].kind IN
  /\ OpAt(o, "load")
  /\ platformOp' = IF Refused(kind, tenant)
                     THEN [platformOp EXCEPT ![o].at = "done"]
                     ELSE [platformOp EXCEPT ![o] = [kind |-> kind, at |-> "save", was |-> tenant,
                                                     row |-> Decide(kind, tenant)]]
  /\ UNCHANGED <<tenant, stateCache, visitor, trail, tenantSessions, impersonations, decided, beside, tenantPlot>>

\* Mutation: an edit of the settings drops the cached status, a decision does not.
AfterSaveSwapped(kind) == IF kind \in Edits THEN "forget" ELSE "record"

\* The platform's operations drop the cached status; the edits of others do not.
AfterSave(kind) == IF kind = "edit" THEN "done" ELSE "forget"

\* A visitor that has loaded the status and not cached it yet misses the change.
MissedByVisitors == [v \in Visitors |-> [visitor[v] EXCEPT !.raced = @ \/ visitor[v].at = "remember"]]

SaveTenant(o) ==
  LET kind == platformOp[o].kind IN
  /\ OpAt(o, "save")
  /\ tenant' = platformOp[o].row
  /\ OpGoes(o, AfterSave(kind))
  /\ decided' = IF kind \in Decisions THEN o ELSE decided
  /\ visitor' = MissedByVisitors
  /\ UNCHANGED <<stateCache, trail, tenantSessions, impersonations, beside, tenantPlot>>

\* invalidateTenantStateCache; the last thing a deletion does.
ForgetState(o) ==
  /\ OpAt(o, "forget")
  /\ stateCache' = NoCache
  /\ OpGoes(o, IF platformOp[o].row.status = "none" THEN "leave" ELSE "record")
  /\ UNCHANGED <<tenant, visitor, trail, tenantSessions, impersonations, decided, beside, tenantPlot>>

\* recordLifecycleEvent and the entry in the platform's audit log.
RecordEvent(o) ==
  LET op == platformOp[o] IN
  /\ OpAt(o, "record")
  /\ trail' = Append(trail, [by |-> o, from |-> op.was, to |-> op.row])
  /\ OpGoes(o, IF op.row.status = "none" THEN "forget" ELSE IF op.kind = "deleteNow" THEN "enter" ELSE "done")
  /\ UNCHANGED <<tenant, stateCache, visitor, tenantSessions, impersonations, decided, beside, tenantPlot>>
----------------------------------------------------------------------------
(* executeScheduledDeletion, by the job or right after it was scheduled.    *)

DeletionDue(row) == row.status = "PENDING_DELETION" /\ row.scheduled = "due"

\* withLock, without retries.
EnterDeletion(o) ==
  /\ OpAt(o, "enter")
  /\ \/ /\ Acquire(o, DeletionLock)
        /\ OpGoes(o, "check")
     \/ /\ lock[DeletionLock] # NoJob
        /\ OpGoes(o, "done")
        /\ UNCHANGED lockVars
  /\ UNCHANGED <<tenant, stateCache, visitor, trail, tenantSessions, impersonations, decided, beside, tenantPlot>>

CheckDeletion(o) ==
  /\ OpAt(o, "check")
  /\ platformOp' = [platformOp EXCEPT ![o].at = IF DeletionDue(tenant) THEN "revoke" ELSE "leave",
                                      ![o].was = tenant]
  /\ UNCHANGED <<tenant, stateCache, visitor, trail, tenantSessions, impersonations, decided, beside, tenantPlot>>

\* revokeTenantSessions and revokeAllSessions.
RevokeTenantSessions(o) ==
  /\ OpAt(o, "revoke") \/ OpAt(o, "sessions")
  /\ tenantSessions' = "revoked"
  /\ OpGoes(o, IF OpAt(o, "revoke") THEN "purge" ELSE "done")
  /\ UNCHANGED <<tenant, stateCache, visitor, trail, impersonations, decided, beside, tenantPlot>>

TENANT_PURGE_TABLES ==
  {"time_entries", "task_assignees", "webhook_deliveries", "notifications", "notification_preferences",
   "reviews", "processing_type_eligibilities", "tasks", "attendance", "performance_reviews",
   "staff_availability_slots", "transactions", "payouts", "recurring_transactions", "invoices",
   "purchase_invoices", "employee_wallets", "department_budgets", "payroll_runs", "bookings", "clients",
   "processing_types", "service_packages", "task_templates", "transaction_categories", "vendors",
   "webhooks", "email_templates", "daily_metrics", "privacy_requests", "outbox_events", "audit_logs",
   "subscriptions", "impersonation_sessions"}

\* Every DELETE ... WHERE tenant_id = $1 names a table and a column of the database.
PurgeSucceeds ==
  \A t \in TENANT_PURGE_TABLES \cup {"user_preferences", "profiles", "users"} :
    HasColumns(FreshSchema(Len(Ordered)), t, {"tenant_id"})

(* One transaction: the row is locked and checked again, then every table  *)
(* is purged; a statement that fails takes the whole purge back.           *)
PurgeTenant(o) ==
  LET purged == DeletionDue(tenant) /\ PurgeSucceeds IN
  /\ OpAt(o, "purge")
  /\ platformOp' = [platformOp EXCEPT ![o].at = IF purged THEN "record"
                                                ELSE IF DeletionDue(tenant) THEN "failed" ELSE "leave",
                                      ![o].row = IF purged THEN Gone ELSE @]
  /\ tenant' = IF purged THEN Gone ELSE tenant
  /\ visitor' = IF purged THEN MissedByVisitors ELSE visitor
  /\ UNCHANGED <<stateCache, trail, tenantSessions, impersonations, decided, beside, tenantPlot>>

LeaveDeletion(o) ==
  /\ OpAt(o, "leave") \/ OpAt(o, "failed")
  /\ Release(o)
  /\ OpGoes(o, "done")
  /\ UNCHANGED <<tenant, stateCache, visitor, trail, tenantSessions, impersonations, decided, beside, tenantPlot>>

\* The day the deletion is scheduled for.
DeletionFallsDue ==
  /\ tenant.scheduled = "later"
  /\ tenant' = [tenant EXCEPT !.scheduled = "due"]
  /\ platformOp' = [o \in PlatformRequests |->
       [platformOp[o] EXCEPT !.row = IF @.scheduled = "later" THEN [@ EXCEPT !.scheduled = "due"] ELSE @]]
  /\ UNCHANGED <<stateCache, visitor, trail, tenantSessions, impersonations, decided, beside, tenantPlot>>

\* A user logs in, whatever the status of the tenant.
UserSignsIn ==
  /\ tenantSessions = "revoked"
  /\ tenantSessions' = "open"
  /\ UNCHANGED <<tenant, stateCache, platformOp, visitor, trail, impersonations, decided, beside, tenantPlot>>
----------------------------------------------------------------------------
(* Impersonation: one operator, one user.                                   *)

LookForSession(o) ==
  /\ OpAt(o, "look")
  /\ OpGoes(o, IF impersonations = {} THEN "open" ELSE "done")
  /\ UNCHANGED <<tenant, stateCache, visitor, trail, tenantSessions, impersonations, decided, beside, tenantPlot>>

\* IDX_impersonation_active_unique.
MayInsertSession(active) == active = {}

\* The insert, or its unique violation, which is answered like a session found.
OpenImpersonation(o) ==
  /\ OpAt(o, "open")
  /\ impersonations' = IF MayInsertSession(impersonations) THEN impersonations \cup {o} ELSE impersonations
  /\ OpGoes(o, "done")
  /\ UNCHANGED <<tenant, stateCache, visitor, trail, tenantSessions, decided, beside, tenantPlot>>

EndImpersonation(o) ==
  /\ OpAt(o, "end")
  /\ \/ \E s \in impersonations : impersonations' = impersonations \ {s}
     \/ impersonations = {} /\ UNCHANGED impersonations
  /\ OpGoes(o, "done")
  /\ UNCHANGED <<tenant, stateCache, visitor, trail, tenantSessions, decided, beside, tenantPlot>>
----------------------------------------------------------------------------
(* TenantGuard: the cached status, or the loaded one, which it caches.      *)
VisitorGoes(v, at, status, raced) ==
  visitor' = [visitor EXCEPT ![v] = [at |-> at, status |-> status, raced |-> raced]]

ReadState(v) ==
  /\ visitor[v].at = "idle"
  /\ tenantPlot.visits
  /\ IF stateCache.status # "none"
       THEN VisitorGoes(v, "answer", stateCache.status, stateCache.raced)
       ELSE VisitorGoes(v, "fetch", "none", FALSE)
  /\ UNCHANGED <<tenant, stateCache, platformOp, trail, tenantSessions, impersonations, decided, beside, tenantPlot>>

FetchState(v) ==
  /\ visitor[v].at = "fetch"
  /\ VisitorGoes(v, IF tenant.status = "none" THEN "refused" ELSE "remember", tenant.status, FALSE)
  /\ UNCHANGED <<tenant, stateCache, platformOp, trail, tenantSessions, impersonations, decided, beside, tenantPlot>>

RememberState(v) ==
  /\ visitor[v].at = "remember"
  /\ stateCache' = [status |-> visitor[v].status, raced |-> visitor[v].raced]
  /\ VisitorGoes(v, "answer", visitor[v].status, visitor[v].raced)
  /\ UNCHANGED <<tenant, platformOp, trail, tenantSessions, impersonations, decided, beside, tenantPlot>>

AnswerVisitor(v) ==
  /\ visitor[v].at = "answer"
  /\ VisitorGoes(v, IF visitor[v].status \in {"ACTIVE", "GRACE_PERIOD"} THEN "admitted" ELSE "refused",
                 visitor[v].status, visitor[v].raced)
  /\ UNCHANGED <<tenant, stateCache, platformOp, trail, tenantSessions, impersonations, decided, beside, tenantPlot>>

\* TENANT_STATE_TTL_MS.
StateExpires ==
  /\ stateCache.status # "none"
  /\ stateCache' = NoCache
  /\ UNCHANGED <<tenant, platformOp, visitor, trail, tenantSessions, impersonations, decided, beside, tenantPlot>>

\* The process of a request dies; its lock stays until it expires.
CrashOp(o) ==
  /\ Busy(o)
  /\ ~OpAt(o, "crashed")
  /\ tenantPlot.crashes > 0
  /\ tenantPlot' = [tenantPlot EXCEPT !.crashes = @ - 1]
  /\ OpGoes(o, "crashed")
  /\ Abandon(o)
  /\ UNCHANGED <<tenant, stateCache, visitor, trail, tenantSessions, impersonations, decided, beside>>

TenantNext ==
  \/ /\ \/ \E o \in PlatformRequests :
             \/ BeginOp(o) \/ LoadTenant(o) \/ SaveTenant(o) \/ ForgetState(o) \/ RecordEvent(o)
             \/ CheckDeletion(o) \/ RevokeTenantSessions(o) \/ PurgeTenant(o)
             \/ LookForSession(o) \/ OpenImpersonation(o) \/ EndImpersonation(o)
        \/ \E v \in Visitors : ReadState(v) \/ FetchState(v) \/ RememberState(v) \/ AnswerVisitor(v)
        \/ DeletionFallsDue \/ UserSignsIn \/ StateExpires
     /\ UNCHANGED lockVars
  \/ \E o \in PlatformRequests : EnterDeletion(o) \/ LeaveDeletion(o) \/ CrashOp(o)
  \/ /\ Expire(DeletionLock)
     /\ UNCHANGED tenantVars

TenantSpec == LockInit /\ TenantInit /\ [][TenantNext]_<<lockVars, tenantVars>>
----------------------------------------------------------------------------
TenantTypeOK ==
  /\ LockTypeOK
  /\ tenant \in [status : TenantStatuses \cup {"none"}, scheduled : {"no", "later", "due"}]
  /\ stateCache \in [status : TenantStatuses \cup {"none"}, raced : BOOLEAN]
  /\ \A o \in PlatformRequests : platformOp[o].row.status \in TenantStatuses \cup {"none"}
  /\ \A v \in Visitors : visitor[v].status \in TenantStatuses \cup {"none"}
  /\ tenantSessions \in {"open", "revoked"} /\ impersonations \subseteq PlatformRequests
  /\ decided \in PlatformRequests \cup {0} /\ Len(trail) <= 2 * Cardinality(PlatformRequests)

(* The status is the one the operator who decided last gave it, or the     *)
(* deletion that was decided has purged the tenant, unless another save    *)
(* overlapped: one that loaded the row before the decision was saved       *)
(* writes the old status back.                                             *)
DecisionStands ==
  decided # 0 =>
    \/ tenant.status = platformOp[decided].row.status
    \/ tenant.status = "none" /\ platformOp[decided].row.status = "PENDING_DELETION"
    \/ \E o \in PlatformRequests : platformOp[o].kind \in Decisions \cup Edits /\ ~Apart(o, decided)

\* Between the save or the purge and the dropping of the cached status, or dead there.
BeforeForgetting(o) ==
  OpAt(o, "forget") \/ OpAt(o, "crashed") \/ (OpAt(o, "record") /\ platformOp[o].row.status = "none")

(* TenantGuard admits and refuses by the tenant's status: the cached one   *)
(* differs from it only while a request is between its save, or its purge, *)
(* and the dropping of the cache, or died there, or when a visitor loaded  *)
(* the status before that and cached it after, or when an edit wrote       *)
(* another one back, which drops no cache.                                 *)
CacheFollowsTenant ==
    \/ stateCache.status \in {"none", tenant.status} \/ stateCache.raced
    \/ \E o \in PlatformRequests : BeforeForgetting(o)
    \/ \E o, p \in PlatformRequests :
         platformOp[o].kind = "edit" /\ platformOp[p].kind \in Decisions \cup Edits /\ ~Apart(o, p)

(* The lifecycle events chain: each starts from the row the previous one   *)
(* left (but for the day on which the deletion falls due), unless their    *)
(* requests overlapped another, or one died before its event.              *)
TrailChains ==
  \A n \in 1..Len(trail) - 1 :
    \/ trail[n + 1].from.status = trail[n].to.status
    \/ \E o \in PlatformRequests : OpAt(o, "crashed")
    \/ \E pair \in beside : \E o \in pair : platformOp[o].kind \in Decisions \cup Edits

(* The sessions of the users are revoked because an operator asked for it, *)
(* or because the deletion of the tenant has fallen due - and then no      *)
(* operator can cancel it any more, unless one suspends or locks the       *)
(* tenant first, which is not refused, nor is the reactivation after it.   *)
RevokedForAReason ==
  tenantSessions = "revoked" =>
    \/ DeletionDue(tenant) \/ tenant.status = "none"
    \/ \E o \in PlatformRequests :
         \/ platformOp[o].kind = "revokeAll"
         \/ platformOp[o].kind \in {"suspend", "grace", "lock"} /\ platformOp[o].at \notin {"load", "save"}
    \/ \E pair \in beside : \E o \in pair : platformOp[o].kind \in {"cron", "deleteNow"}

(* One impersonation session at a time, although two starts may both find   *)
(* none.                                                                    *)
OneImpersonation == Cardinality(impersonations) <= 1

TenantStateAgrees == DecisionStands /\ CacheFollowsTenant /\ TrailChains /\ RevokedForAReason /\ OneImpersonation

==============================================================================
