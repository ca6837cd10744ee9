---------------- MODULE MigrationsThird ----------------
(***************************************************************************)
(* The migrations of src/src/database/migrations from                     *)
(* 1772100000000-AddRoleToPackageItems                                    *)
(* to 20260701000000-BackfillPlatformUsersColumns                         *)
(* as the tables and columns their up and their down create, drop, rename  *)
(* and rely on, statement by statement. Column types, indexes,             *)
(* constraints, enum types and the rows a migration rewrites are left out; *)
(* the tables and columns such a statement names are kept as Uses.         *)
(***************************************************************************)
EXTENDS SchemaOps

AddRoleToPackageItems1772100000000 ==
  Migration("AddRoleToPackageItems1772100000000", <<1772100, 0>>,
    << AddIfAbsent("package_items", {"role"}) >>,
    << DropIfPresent("package_items", {"role"}) >>)

AddVenueCostToBookings1772200000000 ==
  Migration("AddVenueCostToBookings1772200000000", <<1772200, 0>>,
    << Add("bookings", {"venue_cost"}) >>,
    << Drop("bookings", {"venue_cost"}) >>)

AuditLogEntityIdNullableAndSequenceUnique1772300000000 ==
  Migration("AuditLogEntityIdNullableAndSequenceUnique1772300000000", <<1772300, 0>>,
    << Uses("audit_logs", {"entity_id", "created_at", "sequence_number", "tenant_id"}) >>,
    << Uses("audit_logs", {"sequence_number", "tenant_id"}) >>)

AuditLogDropCompositePkAndIndexCreatedAt1772400000000 ==
  Migration("AuditLogDropCompositePkAndIndexCreatedAt1772400000000", <<1772400, 0>>,
    << Uses("audit_logs", {"created_at"}) >>,
    <<>>)

AddMissingEnumValues1772500000000 ==
  Migration("AddMissingEnumValues1772500000000", <<1772500, 0>>,
    <<>>,
    <<>>)

FixBookingStatusCheck1772600000000 ==
  Migration("FixBookingStatusCheck1772600000000", <<1772600, 0>>,
    << Uses("bookings", {}) >>,
    << Uses("bookings", {}) >>)

ConvertRemainingVarcharEnums1772700000000_up1 ==
  << IfTable("payouts", Uses("payouts", {"status", "currency"})) >>

ConvertRemainingVarcharEnums1772700000000_up2 ==
  << IfTable("transactions", Uses("transactions", {"currency"})),
     IfTable("platform_users", Uses("platform_users", {"role", "status"})) >>

ConvertRemainingVarcharEnums1772700000000_up3 ==
  << IfTable("platform_audit_logs", Uses("platform_audit_logs", {"action"})) >>

ConvertRemainingVarcharEnums1772700000000_down ==
  << IfTable("platform_audit_logs", Uses("platform_audit_logs", {"action"})),
     IfTable("platform_users", Uses("platform_users", {"role", "status"})),
     IfTable("transactions", Uses("transactions", {"currency"})),
     IfTable("payouts", Uses("payouts", {"status", "currency"})) >>

ConvertRemainingVarcharEnums1772700000000 ==
  Migration("ConvertRemainingVarcharEnums1772700000000", <<1772700, 0>>,
    ConvertRemainingVarcharEnums1772700000000_up1
      \o ConvertRemainingVarcharEnums1772700000000_up2
      \o ConvertRemainingVarcharEnums1772700000000_up3,
    ConvertRemainingVarcharEnums1772700000000_down)

AddTenantDeletionDueIndex1772800000000 ==
  Migration("AddTenantDeletionDueIndex1772800000000", <<1772800, 0>>,
    << Uses("tenants", {"deletion_scheduled_at", "status"}) >>,
    <<>>)

ExtendOutboxEventsForDurableRelay1772900000000 ==
  Migration("ExtendOutboxEventsForDurableRelay1772900000000", <<1772900, 0>>,
    << AddIfAbsent("outbox_events", {"tenantId", "aggregateType", "eventVersion", "correlationId",
           "occurredAt", "claimedBy", "claimLeaseExpiresAt", "nextAttemptAt", "dispatchedAt",
           "deadLetteredAt"}),
       Uses("outbox_events", {"createdAt", "status"}),
       CreateIfAbsent("consumer_inbox", {"id", "consumerName", "eventId", "processedAt"}),
       Uses("consumer_inbox", {"eventId"}) >>,
    << DropTableIfPresent("consumer_inbox"),
       DropIfPresent("outbox_events", {"deadLetteredAt", "dispatchedAt", "nextAttemptAt",
           "claimLeaseExpiresAt", "claimedBy", "occurredAt", "correlationId", "eventVersion",
           "aggregateType", "tenantId"}) >>)

EnablePgStatStatements1772910000000 ==
  Migration("EnablePgStatStatements1772910000000", <<1772910, 0>>,
    <<>>,
    <<>>)

AddTasksCursorPaginationIndex1773000000000 ==
  Migration("AddTasksCursorPaginationIndex1773000000000", <<1773000, 0>>,
    << Uses("tasks", {"created_at", "id", "tenant_id"}) >>,
    <<>>)

AddBookingCompletedNotificationType1773100000000 ==
  Migration("AddBookingCompletedNotificationType1773100000000", <<1773100, 0>>,
    <<>>,
    <<>>)

AddTransactionIdempotencyKey1773200000000 ==
  Migration("AddTransactionIdempotencyKey1773200000000", <<1773200, 0>>,
    << Add("transactions", {"idempotency_key"}), Uses("transactions", {"tenant_id"}) >>,
    << Drop("transactions", {"idempotency_key"}) >>)

EnforceGlobalUniqueUserEmail20260125000000 ==
  Migration("EnforceGlobalUniqueUserEmail20260125000000", <<20260125, 0>>,
    << IfTable("users", Uses("users", {"email", "deleted_at", "tenant_id"})) >>,
    << Uses("users", {"email", "tenant_id"}) >>)

AddBookingHandoverAndTransactionReference20260426000000 ==
  Migration("AddBookingHandoverAndTransactionReference20260426000000", <<20260426, 0>>,
    << IfTable("bookings", AddIfAbsent("bookings", {"handover_type"})),
       IfTable("transactions", AddIfAbsent("transactions", {"reference"})) >>,
    << DropIfPresent("transactions", {"reference"}), DropIfPresent("bookings", {"handover_type"}) >>)

ConvertBookingHandoverTypeToEnum20260427000000 ==
  Migration("ConvertBookingHandoverTypeToEnum20260427000000", <<20260427, 0>>,
    << IfTable("bookings", Uses("bookings", {"handover_type"})) >>,
    << IfTable("bookings", Uses("bookings", {"handover_type"})) >>)

TransactionReversalAndRelaxXor20260501000000_up ==
  << IfTable("transactions", Uses("transactions", {"booking_id", "task_id", "payout_id"})),
     IfTable("transactions", AddIfAbsent("transactions", {"reversal_of_id", "voided_at", "voided_by"})) >>

TransactionReversalAndRelaxXor20260501000000_down ==
  << IfTable("transactions", DropIfPresent("transactions", {"reversal_of_id", "voided_at", "voided_by"})),
     IfTable("transactions", Uses("transactions", {"booking_id", "task_id", "payout_id"})) >>

TransactionReversalAndRelaxXor20260501000000 ==
  Migration("TransactionReversalAndRelaxXor20260501000000", <<20260501, 0>>,
    TransactionReversalAndRelaxXor20260501000000_up,
    TransactionReversalAndRelaxXor20260501000000_down)

AddPgTrgmIlikeIndexes20260504000000 ==
  Migration("AddPgTrgmIlikeIndexes20260504000000", <<20260504, 0>>,
    <<>>,
    <<>>)

CreateStaffAvailabilitySlots20260504100000 ==
  Migration("CreateStaffAvailabilitySlots20260504100000", <<20260504, 100000>>,
    << Create("staff_availability_slots", {"id", "tenant_id", "user_id", "day_of_week", "start_time",
           "end_time", "is_recurring", "effective_from", "effective_to", "created_at", "updated_at"}) >>,
    << DropTable("staff_availability_slots") >>)

AddRecurringTransactionRruleString20260510000000 ==
  Migration("AddRecurringTransactionRruleString20260510000000", <<20260510, 0>>,
    << AddIfAbsent("recurring_transactions", {"rrule_string"}) >>,
    << DropIfPresent("recurring_transactions", {"rrule_string"}) >>)

RemoveTaskTypeAddProcessingTypeEligibility20260515000000 ==
  Migration("RemoveTaskTypeAddProcessingTypeEligibility20260515000000", <<20260515, 0>>,
    << AddIfAbsent("processing_types", {"price", "default_commission_amount"}),
       CreateIfAbsent("processing_type_eligibilities", {"id", "tenant_id", "created_at", "updated_at",
           "user_id", "processing_type_id"}),
       Uses("processing_types", {"id"}), Uses("processing_type_eligibilities", {"tenant_id", "user_id"}),
       AddIfAbsent("tasks", {"processing_type_id"}), DropIfPresent("tasks", {"task_type_id"}),
       DropTableIfPresent("task_type_eligibilities"), DropTableIfPresent("package_items"),
       DropTableIfPresent("task_types") >>,
    << CreateIfAbsent("task_types", {"id", "tenant_id", "created_at", "updated_at", "name", "description",
           "default_commission_amount", "is_active"}),
       CreateIfAbsent("package_items", {"id", "tenant_id", "created_at", "updated_at", "package_id",
           "task_type_id", "quantity"}),
       CreateIfAbsent("task_type_eligibilities", {"id", "tenant_id", "created_at", "updated_at", "user_id",
           "task_type_id"}),
       AddIfAbsent("tasks", {"task_type_id"}), DropIfPresent("tasks", {"processing_type_id"}),
       DropTableIfPresent("processing_type_eligibilities"),
       DropIfPresent("processing_types", {"price", "default_commission_amount"}) >>)

PackageScopedProcessingTypes20260516000000 ==
  Migration("PackageScopedProcessingTypes20260516000000", <<20260516, 0>>,
    << Add("processing_types", {"package_id"}),
       Uses("processing_types", {"name", "tenant_id", "is_active", "sort_order"}),
       Uses("service_packages", {"id"}) >>,
    << Uses("processing_types", {"name", "tenant_id"}), Drop("processing_types", {"package_id"}) >>)

RenameTransactionCategoryColumns20260601000000 ==
  Migration("RenameTransactionCategoryColumns20260601000000", <<20260601, 0>>,
    << Rename("transaction_categories", "isActive", "is_active"),
       Rename("transaction_categories", "parentId", "parent_id") >>,
    << Rename("transaction_categories", "parent_id", "parentId"),
       Rename("transaction_categories", "is_active", "isActive") >>)

AddMissingEntityColumns20260602000000_up ==
  << IfTable("bookings", AddIfAbsent("bookings", {"handover_type"})),
     IfTable("outbox_events", AddIfAbsent("outbox_events", {"retryCount"})),
     IfTable("recurring_transactions", AddIfAbsent("recurring_transactions", {"failure_count",
         "last_error"})),
     IfTable("subscriptions", AddIfAbsent("subscriptions", {"plan", "start_date", "end_date",
         "auto_renew"})),
     CreateIfAbsent("department_budgets", {"id", "created_at", "updated_at", "tenant_id", "department",
         "budget_amount", "period", "start_date", "end_date", "notes"}),
     Uses("tenants", {"id"}), Uses("department_budgets", {"tenant_id", "period"}) >>

AddMissingEntityColumns20260602000000_down ==
  << DropTableIfPresent("department_budgets"),
     DropIfPresent("subscriptions", {"auto_renew", "end_date", "start_date", "plan"}),
     DropIfPresent("recurring_transactions", {"last_error", "failure_count"}),
     DropIfPresent("outbox_events", {"retryCount"}) >>

AddMissingEntityColumns20260602000000 ==
  Migration("AddMissingEntityColumns20260602000000", <<20260602, 0>>,
    AddMissingEntityColumns20260602000000_up,
    AddMissingEntityColumns20260602000000_down)

SafetyNetTransactionAndTaskTemplateColumns20260603000000 ==
  Migration("SafetyNetTransactionAndTaskTemplateColumns20260603000000", <<20260603, 0>>,
    << IfTable("task_templates", AddIfAbsent("task_templates", {"processing_type_id"})),
       IfTable("transactions", AddIfAbsent("transactions", {"reference", "reversal_of_id", "voided_at",
           "voided_by"})),
       IfTable("transactions", Uses("transactions", {"id"})) >>,
    << Uses("transactions", {}),
       DropIfPresent("transactions", {"voided_by", "voided_at", "reversal_of_id", "reference"}),
       DropIfPresent("task_templates", {"processing_type_id"}) >>)

BackfillRecurringTransactionRruleString20260603100000 ==
  Migration("BackfillRecurringTransactionRruleString20260603100000", <<20260603, 100000>>,
    << Uses("recurring_transactions", {}) >>,
    <<>>)

AddTransactionPurchaseInvoiceId20260607000000_up ==
  << IfTable("purchase_invoices", IfTable("transactions", AddIfAbsent("transactions",
         {"purchase_invoice_id"}))),
     IfTable("purchase_invoices", IfTable("transactions", Uses("purchase_invoices", {"id", "tenant_id",
         "transaction_id"}))),
     IfColumns("transactions", {"purchase_invoice_id"}, Uses("transactions", {"booking_id", "task_id",
         "payout_id"})) >>

AddTransactionPurchaseInvoiceId20260607000000_down ==
  << IfTable("transactions", Uses("transactions", {"booking_id", "task_id", "payout_id"})),
     IfTable("transactions", DropIfPresent("transactions", {"purchase_invoice_id"})) >>

AddTransactionPurchaseInvoiceId20260607000000 ==
  Migration("AddTransactionPurchaseInvoiceId20260607000000", <<20260607, 0>>,
    AddTransactionPurchaseInvoiceId20260607000000_up,
    AddTransactionPurchaseInvoiceId20260607000000_down)

RemoveHandoverTypeFromBookings20260608000000 ==
  Migration("RemoveHandoverTypeFromBookings20260608000000", <<20260608, 0>>,
    << Drop("bookings", {"handover_type"}) >>,
    << Add("bookings", {"handover_type"}) >>)

RemoveVenueCostFromBookings20260608000001 ==
  Migration("RemoveVenueCostFromBookings20260608000001", <<20260608, 1>>,
    << Drop("bookings", {"venue_cost"}) >>,
    << Add("bookings", {"venue_cost"}) >>)

CreatePlatformRefreshTokensTable20260610000000 ==
  Migration("CreatePlatformRefreshTokensTable20260610000000", <<20260610, 0>>,
    << Create("platform_refresh_tokens", {"id", "token_hash", "user_id", "expires_at", "is_revoked",
           "user_agent", "ip_address", "created_at", "last_used_at", "device_name"}) >>,
    << DropTable("platform_refresh_tokens") >>)

AddSkipStaffCheckToServicePackages1718064000000 ==
  Migration("AddSkipStaffCheckToServicePackages1718064000000", <<1718064, 0>>,
    << Add("service_packages", {"skip_staff_check"}) >>,
    << Drop("service_packages", {"skip_staff_check"}) >>)

BackfillPlatformUsersColumns20260701000000 ==
  Migration("BackfillPlatformUsersColumns20260701000000", <<20260701, 0>>,
    << IfTable("platform_users", AddIfAbsent("platform_users", {"mfa_enabled", "mfa_secret",
           "mfa_recovery_codes", "last_login_at", "last_login_ip", "ip_allowlist", "trusted_devices",
           "failed_login_attempts", "locked_until", "must_change_password", "password_changed_at",
           "deleted_at"})) >>,
    <<>>)

\* The migration files of this module, in the order of their file names.
MigrationsThirdFiles ==
  << AddRoleToPackageItems1772100000000,
     AddVenueCostToBookings1772200000000,
     AuditLogEntityIdNullableAndSequenceUnique1772300000000,
     AuditLogDropCompositePkAndIndexCreatedAt1772400000000,
     AddMissingEnumValues1772500000000,
     FixBookingStatusCheck1772600000000,
     ConvertRemainingVarcharEnums1772700000000,
     AddTenantDeletionDueIndex1772800000000,
     ExtendOutboxEventsForDurableRelay1772900000000,
     EnablePgStatStatements1772910000000,
     AddTasksCursorPaginationIndex1773000000000,
     AddBookingCompletedNotificationType1773100000000,
     AddTransactionIdempotencyKey1773200000000,
     EnforceGlobalUniqueUserEmail20260125000000,
     AddBookingHandoverAndTransactionReference20260426000000,
     ConvertBookingHandoverTypeToEnum20260427000000,
     TransactionReversalAndRelaxXor20260501000000,
     AddPgTrgmIlikeIndexes20260504000000,
     CreateStaffAvailabilitySlots20260504100000,
     AddRecurringTransactionRruleString20260510000000,
     RemoveTaskTypeAddProcessingTypeEligibility20260515000000,
     PackageScopedProcessingTypes20260516000000,
     RenameTransactionCategoryColumns20260601000000,
     AddMissingEntityColumns20260602000000,
     SafetyNetTransactionAndTaskTemplateColumns20260603000000,
     BackfillRecurringTransactionRruleString20260603100000,
     AddTransactionPurchaseInvoiceId20260607000000,
     RemoveHandoverTypeFromBookings20260608000000,
     RemoveVenueCostFromBookings20260608000001,
     CreatePlatformRefreshTokensTable20260610000000,
     AddSkipStaffCheckToServicePackages1718064000000,
     BackfillPlatformUsersColumns20260701000000 >>

============================================================
