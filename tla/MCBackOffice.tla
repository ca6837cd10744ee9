----------------------------- MODULE MCBackOffice -----------------------------
(***************************************************************************)
(* One run over eleven subsystems that share no state: "part" says which   *)
(* one moves, the others rest in an initial state of theirs.  Every        *)
(* subsystem has plots: small instances, each with the requests, the       *)
(* bounds and the faults of one question.                                  *)
(***************************************************************************)
EXTENDS SchemaUpgrade, AuthSessions, PlatformTenants, WebhookDelivery, StaffSchedule,
        MessageDelivery, AuditChain, IdempotentRequests, TimeTracking, ClientRecords, StaffRecords

CONSTANTS g1, g2, a1, a2, m1, m2, r1, r2, r3, o1, o2
VARIABLE part

backVars == <<upgradeVars, authVars, lockVars, tenantVars, hookVars, scheduleVars, messageVars, auditVars,
              keyVars, timeVars, recordVars, staffRecordVars, part>>
----------------------------------------------------------------------------
\* A fresh installation; an upgrade with two migrators; rollbacks; crashes.
UpgradePlot(migrators, installed, starts, mayFail, reverts, floor) ==
  [migrators |-> migrators, installed |-> installed, starts |-> starts, faults |-> mayFail,
   reverts |-> reverts, floor |-> floor]
FreshThenRollback == UpgradePlot({"m1"}, 0, 2, 0, 79, 25)
UpgradePlotsMC == {
  FreshThenRollback,
  UpgradePlot({"m1"}, 0, 2, 1, 1, 25),
  UpgradePlot({"m1"}, 0, 2, 2, 0, 25),
  UpgradePlot({"m1", "m2"}, 100, 2, 1, 0, 25),
  UpgradePlot({"m1", "m2"}, 100, 2, 0, 1, 25)}

AuthPlot(kinds, mfa, legacy, mayFail) == [kinds |-> kinds, mfa |-> mfa, legacy |-> legacy, faults |-> mayFail]
AuthPlotsMC == {
  AuthPlot({"login", "reset", "refresh"}, FALSE, FALSE, 0),
  AuthPlot({"login", "reset", "forgot"}, FALSE, TRUE, 0),
  AuthPlot({"totp", "login"}, TRUE, FALSE, 0),
  AuthPlot({"recovery", "enableMfa", "disableMfa"}, TRUE, FALSE, 0),
  AuthPlot({"refresh", "logoutAll"}, FALSE, FALSE, 1),
  AuthPlot({"refresh", "logout", "revokeOthers"}, FALSE, FALSE, 0),
  AuthPlot({"deactivate", "activate", "verifyEmail", "login"}, FALSE, FALSE, 0),
  AuthPlot({"forgot", "reset"}, FALSE, FALSE, 1),
  AuthPlot({"force", "reset", "forgot"}, FALSE, FALSE, 0),
  AuthPlot({"force", "refresh"}, FALSE, FALSE, 0),
  AuthPlot({"totp", "reset", "deactivate"}, TRUE, FALSE, 0),
  AuthPlot({"totp", "disableMfa", "reset"}, TRUE, FALSE, 0)}

TenantPlot(kinds, requests, visits, crashes) ==
  [kinds |-> kinds, requests |-> requests, visits |-> visits, crashes |-> crashes]
TenantPlotsMC == {
  TenantPlot({"suspend", "update", "edit", "lock"}, 2, TRUE, 0),
  TenantPlot({"grace", "suspend", "reactivate"}, 3, FALSE, 0),
  TenantPlot({"delete", "cancel", "cron", "reactivate"}, 3, FALSE, 0),
  TenantPlot({"deleteNow", "cron"}, 2, FALSE, 0),
  TenantPlot({"deleteNow", "lock", "revokeAll"}, 2, FALSE, 0),
  TenantPlot({"delete", "update"}, 2, TRUE, 1),
  TenantPlot({"impersonate", "endImpersonation"}, 3, FALSE, 1)}

HookPlot(listening, queue, durable, flips, mayFail) ==
  [endpoints |-> listening, queue |-> queue, durable |-> durable, flips |-> flips, faults |-> mayFail]
HookPlotsMC == {
  HookPlot({"w1", "w2"}, TRUE, TRUE, 0, 1),
  HookPlot({"w1", "w2"}, TRUE, FALSE, 1, 0),
  HookPlot({"w1"}, TRUE, TRUE, 1, 2),
  HookPlot({"w1", "w2"}, FALSE, FALSE, 0, 1),
  HookPlot({"w1", "w2"}, FALSE, TRUE, 1, 0)}

Slot(u, from, till, first, last) ==
  [id |-> u, user |-> u, from |-> from, till |-> till, first |-> first, last |-> last, by |-> 0]
Shape(from, till, first, last) == [from |-> from, till |-> till, first |-> first, last |-> last]
Shapes == {Shape(1, 3, 1, 3), Shape(2, 5, 1, 1), Shape(1, 5, 2, 3), Shape(3, 5, 1, 1)}

SchedulePlot(kinds, requests, drafts, weeks, starts, required, given, shapes, others, changes) ==
  [kinds |-> kinds, requests |-> requests, drafts |-> drafts, times |-> [weeks |-> weeks, starts |-> starts],
   hours |-> 2, required |-> required, slots |-> given, shapes |-> shapes, others |-> others, changes |-> changes]
ConfirmAndMove(requests, drafts, weeks, starts, required, given, others, changes) ==
  SchedulePlot({"confirm", "move"}, requests, drafts, weeks, starts, required, given, {}, others, changes)
SchedulePlotsMC == {
  ConfirmAndMove(3, {g1, g2}, {1}, {1, 3}, 1, {}, {"team"}, 2),
  ConfirmAndMove(2, {g1}, {1}, {1, 2}, 1, {}, {"team", "assign", "close", "duty"}, 3),
  ConfirmAndMove(3, {g1}, {1, 2}, {1, 2}, 1, {}, {"assign", "start"}, 2),
  ConfirmAndMove(2, {g1, g2}, {1}, {1, 2}, 2, {Slot(a1, 1, 3, 1, 1)}, {"assign", "close"}, 2),
  SchedulePlot({"create", "edit", "confirm"}, 3, {g1}, {1}, {1, 2}, 1, {}, {}, {}, 0),
  SchedulePlot({"createSlot", "updateSlot"}, 2, {}, {}, {}, 1, {Slot(a1, 1, 3, 1, 1)}, Shapes, {"slots"}, 1),
  SchedulePlot({"createSlot", "updateSlot"}, 3, {}, {}, {}, 1, {}, Shapes, {}, 0),
  SchedulePlot({"createSlot", "create"}, 2, {g1}, {1, 2}, {1, 3}, 1, {Slot(a1, 1, 3, 1, 2)}, Shapes, {"slots"}, 1)}

MessagePlot(event, posted, queue, durable, flips, mayFail, changes) ==
  [event |-> event, posted |-> posted, queue |-> queue, durable |-> durable, flips |-> flips,
   faults |-> mayFail, changes |-> changes]
MessagePlotsMC == {
  MessagePlot(BookingRescheduledMail, <<>>, TRUE, TRUE, 1, 2, 0),
  MessagePlot(BookingRescheduledMail, <<>>, TRUE, FALSE, 0, 2, 0),
  MessagePlot(BookingConfirmedMail, <<Job(1, "letter")>>, TRUE, TRUE, 0, 2, 0),
  MessagePlot(TaskAssignedMail, <<>>, FALSE, FALSE, 0, 1, 0),
  MessagePlot(BookingCancelledMail, <<Job(2, "letter")>>, TRUE, TRUE, 1, 2, 0),
  MessagePlot(PaymentReceiptMail, <<>>, FALSE, FALSE, 0, 1, 0),
  MessagePlot(NoEvent, <<Job(1, "letter"), Job(2, "letter")>>, TRUE, TRUE, 0, 3, 0),
  MessagePlot(BookingCreatedBell, <<>>, TRUE, TRUE, 1, 1, 1),
  MessagePlot(TaskAssignedBell, <<>>, FALSE, FALSE, 0, 1, 4),
  MessagePlot(TaskCompletedBell, <<>>, TRUE, TRUE, 0, 1, 3),
  MessagePlot(BookingCompletedBell, <<>>, TRUE, FALSE, 0, 1, 0)}

AuditPlot(logs, queue, mixed, mayFail) == [logs |-> logs, queue |-> queue, mixed |-> mixed, faults |-> mayFail]
AuditPlotsMC == {
  AuditPlot({"l1", "l2"}, TRUE, {}, 3),
  AuditPlot(Logs, TRUE, {}, 2),
  AuditPlot(Logs, TRUE, {"l2"}, 1),
  AuditPlot(Logs, FALSE, {}, 2)}

KeyPlot(age, crashes, cacheFaults, failures) ==
  [age |-> age, crashes |-> crashes, cacheFaults |-> cacheFaults, failures |-> failures]
KeyPlotsMC == {KeyPlot(TRUE, 1, 0, 1), KeyPlot(TRUE, 0, 1, 0), KeyPlot(FALSE, 1, 1, 1)}

TimePlotsMC == {
  <<"start", "stop", "edit", "edit">>, <<"start", "start", "stop", "delete">>, <<"start", "start", "edit", "stop">>}

RecordPlot(kinds, offered, reserved, mayFail) ==
  [kinds |-> kinds, offered |-> offered, booked |-> reserved, faults |-> mayFail]
RecordPlotsMC == {
  RecordPlot({"list", "reprice", "activate"}, {o1}, {}, 0),
  RecordPlot({"list", "reprice", "remove"}, {o1}, {}, 1),
  RecordPlot({"list", "create", "clone", "remove"}, {o1}, {o1}, 1),
  RecordPlot({"edit", "delete"}, {}, {}, 0),
  RecordPlot({"edit", "tag"}, {}, {}, 0)}

StaffPlot(kinds, who, mayFail) == [kinds |-> kinds, person |-> who, faults |-> mayFail]
StaffPlotsMC == {
  StaffPlot({"createStaff", "createProfile", "removeUser"}, NoAccount, 0),
  StaffPlot({"updateProfile", "deleteProfile", "createProfile", "removeUser"}, Member, 0),
  StaffPlot({"updateUser", "removeUser", "updateProfile"}, Member, 0),
  StaffPlot({"createProfile", "removeUser"}, Account, 1)}
----------------------------------------------------------------------------
Parts == {"schema", "auth", "tenants", "webhooks", "schedule", "messages", "audit", "keys", "time", "records",
          "staff"}
First(plots) == CHOOSE plot \in plots : TRUE

PartInit ==
  /\ part \in Parts
  /\ UpgradeInit  /\ (part = "schema" \/ upgrade.reverts = FreshThenRollback.reverts)
  /\ AuthInit     /\ (part = "auth" \/ authPlot = First(AuthPlots))
  /\ LockInit
  /\ TenantInit   /\ (part = "tenants" \/ tenantPlot = First(TenantPlots))
  /\ HookInit     /\ (part = "webhooks" \/ hookPlot = First(HookPlots))
  /\ ScheduleInit /\ (part = "schedule" \/ schedulePlot = First(SchedulePlots))
  /\ MessageInit  /\ (part = "messages" \/ messagePlot = First(MessagePlots))
  /\ AuditInit    /\ (part = "audit" \/ auditPlot = First(AuditPlots))
  /\ KeyInit      /\ (part = "keys" \/ keyPlot = First(KeyPlots))
  /\ TimeInit     /\ (part = "time" \/ timePlot = First(TimePlots))
  /\ RecordInit   /\ (part = "records" \/ recordPlot = First(RecordPlots))
  /\ StaffRecordsInit /\ (part = "staff" \/ staffPlot = First(StaffPlots))

OthersRest ==
  /\ part # "schema"   => UNCHANGED upgradeVars
  /\ part # "auth"     => UNCHANGED authVars
  /\ part # "tenants"  => UNCHANGED <<lockVars, tenantVars>>
  /\ part # "webhooks" => UNCHANGED hookVars
  /\ part # "schedule" => UNCHANGED scheduleVars
  /\ part # "messages" => UNCHANGED messageVars
  /\ part # "audit"    => UNCHANGED auditVars
  /\ part # "keys"     => UNCHANGED keyVars
  /\ part # "time"     => UNCHANGED timeVars
  /\ part # "records"  => UNCHANGED recordVars
  /\ part # "staff"    => UNCHANGED staffRecordVars

PartNext ==
  /\ part' = part
  /\ \/ part = "schema" /\ UpgradeNext
     \/ part = "auth" /\ AuthNext
     \/ part = "tenants" /\ TenantNext
     \/ part = "webhooks" /\ HookNext
     \/ part = "schedule" /\ ScheduleNext
     \/ part = "messages" /\ MessageNext
     \/ part = "audit" /\ AuditNext
     \/ part = "keys" /\ KeyNext
     \/ part = "time" /\ TimeNext
     \/ part = "records" /\ RecordNext
     \/ part = "staff" /\ StaffRecordsNext
  /\ OthersRest

PartSpec == PartInit /\ [][PartNext]_backVars
----------------------------------------------------------------------------
(* The type of the subsystem that moves. *)
BackOfficeTypeOK ==
  /\ part = "schema" => UpgradeTypeOK
  /\ part = "auth" => AuthTypeOK
  /\ part = "tenants" => TenantTypeOK
  /\ part = "webhooks" => HookTypeOK
  /\ part = "schedule" => ScheduleTypeOK
  /\ part = "messages" => MessageTypeOK
  /\ part = "audit" => AuditTypeOK
  /\ part = "keys" => KeyTypeOK
  /\ part = "time" => TimeTypeOK
  /\ part = "records" => RecordTypeOK
  /\ part = "staff" => StaffRecordsTypeOK

(* A lone migrate.js that is retried ends well, every finished upgrade has  *)
(* the tables and columns of a fresh installation, and no application       *)
(* serves without a column its entities name.                               *)
UpgradesEndWell ==
  part = "schema" => LoneMigratorSucceeds /\ UpgradeConverges /\ ServedSchemaIsCompatible

(* Of overlapping requests one uses a token or a code, the latest link      *)
(* alone resets a password, a used verification link verifies, and failed   *)
(* logins that do not overlap are all counted.                              *)
SignInsAreRight ==
  part = "auth" => CredentialsAreSpentOnce /\ LatestLinkOnly /\ UsedLinkVerifies /\ LockoutCounts

(* Webhooks, e-mails, notifications and audit entries reach whom they      *)
(* should on some path, and twice only for a reason.                        *)
EverybodyIsReached ==
  /\ part = "webhooks" => WebhooksDelivered
  /\ part = "messages" => MessagesArrive
  /\ part = "audit" => TrailHolds

(* Conflict verdicts say what the schedule says, and slots of one employee  *)
(* overlap only when their requests did.                                    *)
ScheduleIsSound == part = "schedule" => VerdictsAreRight /\ SlotsDisjoint

(* Timers add up, the cached list of packages is current, the outbox events *)
(* tell what the rows of packages and clients say, and a deleted user is    *)
(* off the payroll, unless a row was saved from an old copy or the drop of  *)
(* the list, or the event of the deletion, was missed.                      *)
RecordsHoldTogether ==
  /\ part = "time" => TimesAddUp
  /\ part = "records" => OffersListIsCurrent /\ EventsTellTheRows
  /\ part = "staff" => ProfilesFollowUsers
===============================================================================
