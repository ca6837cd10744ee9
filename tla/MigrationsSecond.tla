---------------- MODULE MigrationsSecond ----------------
(***************************************************************************)
(* The migrations of src/src/database/migrations from                     *)
(* 1767800000000-AddNewEntities                                           *)
(* to 1772000000000-CreateProcessingTypes                                 *)
(* as the tables and columns their up and their down create, drop, rename  *)
(* and rely on, statement by statement. Column types, indexes,             *)
(* constraints, enum types and the rows a migration rewrites are left out; *)
(* the tables and columns such a statement names are kept as Uses.         *)
(***************************************************************************)
EXTENDS SchemaOps

AddNewEntities1767800000000_up1 ==
  << Create("privacy_requests", {"id", "created_at", "updated_at", "tenant_id", "user_id", "type", "status",
         "requested_at", "processed_at", "completed_at", "expires_at", "download_url", "file_path",
         "error_message", "processed_by", "metadata"}),
     Uses("users", {"id"}),
     Create("consents", {"id", "created_at", "updated_at", "tenant_id", "user_id", "type", "granted",
         "granted_at", "revoked_at", "policy_version", "ip_address", "user_agent"}) >>

AddNewEntities1767800000000_up2 ==
  << Create("webhook_deliveries", {"id", "created_at", "updated_at", "tenant_id", "webhook_id",
         "event_type", "request_body", "request_headers", "status", "response_status", "response_body",
         "attempt_number", "max_attempts", "next_retry_at", "delivered_at", "duration_ms",
         "error_message"}),
     Uses("webhooks", {"id"}),
     Create("performance_reviews", {"id", "created_at", "updated_at", "tenant_id", "user_id", "reviewer_id",
         "period_type", "period_start", "period_end", "status", "overall_rating", "strengths",
         "areas_for_improvement", "goals", "reviewer_comments", "employee_comments", "submitted_at",
         "acknowledged_at", "completed_at"}),
     Create("attendance", {"id", "created_at", "updated_at", "tenant_id", "user_id", "date", "check_in",
         "check_out", "status", "leave_type", "worked_hours", "notes", "approved_by", "approved_at"}) >>

AddNewEntities1767800000000_up3 ==
  << Create("task_templates", {"id", "created_at", "updated_at", "tenant_id", "name", "description",
         "task_type_id", "default_status", "default_commission", "estimated_hours", "default_due_days",
         "isActive", "checklist", "sort_order"}),
     Create("time_entries", {"id", "created_at", "updated_at", "tenant_id", "task_id", "user_id",
         "start_time", "end_time", "duration_minutes", "notes", "status", "billable"}),
     Uses("tasks", {"id"}),
     Create("transaction_categories", {"id", "created_at", "updated_at", "tenant_id", "name", "description",
         "applicableType", "isActive", "parentId"}),
     Create("recurring_transactions", {"id", "created_at", "updated_at", "tenant_id", "name", "type",
         "amount", "currency", "category", "department", "description", "frequency", "interval",
         "start_date", "end_date", "next_run_date", "last_run_date", "run_count", "max_occurrences",
         "status", "notify_before_days"}) >>

AddNewEntities1767800000000_down ==
  << DropTableIfPresent("recurring_transactions"), Uses("transaction_categories", {}),
     DropTableIfPresent("transaction_categories"), Uses("time_entries", {}),
     DropTableIfPresent("time_entries"), DropTableIfPresent("task_templates"), Uses("attendance", {}),
     DropTableIfPresent("attendance"), Uses("performance_reviews", {}),
     DropTableIfPresent("performance_reviews"), Uses("webhook_deliveries", {}),
     DropTableIfPresent("webhook_deliveries"), Uses("consents", {}), DropTableIfPresent("consents"),
     Uses("privacy_requests", {}), DropTableIfPresent("privacy_requests") >>

AddNewEntities1767800000000 ==
  Migration("AddNewEntities1767800000000", <<1767800, 0>>,
    AddNewEntities1767800000000_up1
      \o AddNewEntities1767800000000_up2
      \o AddNewEntities1767800000000_up3,
    AddNewEntities1767800000000_down)

AddBillingTables1767800000001_up ==
  << CreateIfAbsent("billing_customers", {"id", "created_at", "updated_at", "tenant_id",
         "stripe_customer_id", "email", "name", "default_payment_method_id", "address", "tax_exempt",
         "invoice_prefix", "metadata"}),
     Uses("billing_customers", {"tenant_id"}), Uses("tenants", {"id"}),
     CreateIfAbsent("subscriptions", {"id", "created_at", "updated_at", "tenant_id",
         "stripe_subscription_id", "stripe_customer_id", "stripe_price_id", "status", "billing_interval",
         "current_period_start", "current_period_end", "cancel_at_period_end", "canceled_at", "trial_start",
         "trial_end", "quantity", "metadata"}),
     Uses("subscriptions", {"tenant_id"}),
     CreateIfAbsent("payment_methods", {"id", "created_at", "updated_at", "tenant_id",
         "stripe_payment_method_id", "type", "brand", "last_four", "exp_month", "exp_year", "is_default",
         "billingDetails"}),
     Uses("payment_methods", {"tenant_id"}),
     CreateIfAbsent("usage_records", {"id", "created_at", "updated_at", "tenant_id", "subscription_id",
         "metric", "quantity", "period_start", "period_end", "reported_at", "stripe_usage_record_id",
         "metadata"}),
     Uses("usage_records", {"metric", "period_start", "tenant_id", "reported_at"}) >>

AddBillingTables1767800000001_down ==
  << DropTableIfPresent("usage_records"), Uses("payment_methods", {}),
     DropTableIfPresent("payment_methods"), Uses("subscriptions", {}), DropTableIfPresent("subscriptions"),
     Uses("billing_customers", {}), DropTableIfPresent("billing_customers") >>

AddBillingTables1767800000001 ==
  Migration("AddBillingTables1767800000001", <<1767800, 1>>,
    AddBillingTables1767800000001_up,
    AddBillingTables1767800000001_down)

AddAuditLogChaining1767800000002 ==
  Migration("AddAuditLogChaining1767800000002", <<1767800, 2>>,
    << AddIfAbsent("audit_logs", {"hash", "previous_hash", "sequence_number"}),
       Uses("audit_logs", {"tenant_id"}) >>,
    << DropIfPresent("audit_logs", {"sequence_number", "previous_hash", "hash"}) >>)

AddSessionTrackingFields1767800000003 ==
  Migration("AddSessionTrackingFields1767800000003", <<1767800, 3>>,
    << AddIfAbsent("refresh_tokens", {"device_name", "location", "last_ip_address", "ip_changed"}),
       Uses("refresh_tokens", {"last_used_at", "user_id"}) >>,
    << DropIfPresent("refresh_tokens", {"ip_changed", "last_ip_address", "location", "device_name"}) >>)

AddMissingIndexes1767800000004 ==
  Migration("AddMissingIndexes1767800000004", <<1767800, 4>>,
    << Uses("bookings", {"event_date", "tenant_id", "client_id"}),
       Uses("tasks", {"assigned_user_id", "tenant_id", "status"}),
       Uses("transactions", {"booking_id", "tenant_id", "category"}),
       Uses("employee_wallets", {"payable_balance", "tenant_id"}),
       Uses("profiles", {"hire_date", "tenant_id"}), Uses("clients", {"email", "tenant_id", "phone"}),
       Uses("service_packages", {"is_active", "tenant_id"}),
       Uses("refresh_tokens", {"expires_at", "is_revoked"}) >>,
    <<>>)

UpdateTransactionCategories1767800000005 ==
  Migration("UpdateTransactionCategories1767800000005", <<1767800, 5>>,
    << Add("transactions", {"category_id"}), Uses("transaction_categories", {"id"}) >>,
    << Uses("transactions", {}), Drop("transactions", {"category_id"}) >>)

PartitionAuditLogs1767900000000 ==
  Migration("PartitionAuditLogs1767900000000", <<1767900, 0>>,
    << RenameTable("audit_logs", "audit_logs_old"), Uses("audit_logs_old", {}),
       Create("audit_logs", {"id", "user_id", "tenant_id", "action", "entity_name", "entity_id",
           "old_values", "new_values", "notes", "ip_address", "user_agent", "method", "path", "status_code",
           "duration_ms", "hash", "previous_hash", "sequence_number", "created_at"}),
       DropTable("audit_logs_old") >>,
    << RenameTable("audit_logs", "audit_logs_partitioned"),
       Create("audit_logs", {"id", "user_id", "tenant_id", "action", "entity_name", "entity_id",
           "old_values", "new_values", "notes", "ip_address", "user_agent", "method", "path", "status_code",
           "duration_ms", "hash", "previous_hash", "sequence_number", "created_at"}),
       DropTable("audit_logs_partitioned") >>)

AddTemplateFieldsToServicePackages1768000000000 ==
  Migration("AddTemplateFieldsToServicePackages1768000000000", <<1768000, 0>>,
    << Add("service_packages", {"is_template", "template_category"}) >>,
    << Drop("service_packages", {"template_category", "is_template"}) >>)

AddMissingBookingColumns1768000000001 ==
  Migration("AddMissingBookingColumns1768000000001", <<1768000, 1>>,
    << AddIfAbsent("bookings", {"sub_total", "tax_rate", "tax_amount", "deposit_percentage",
           "deposit_amount", "amount_paid", "payment_status", "refund_amount", "cancellation_reason",
           "cancelled_at", "deleted_at"}) >>,
    << IfTable("bookings", DropIfPresent("bookings", {"sub_total", "tax_rate", "tax_amount",
           "deposit_percentage", "deposit_amount", "amount_paid", "payment_status", "refund_amount",
           "cancellation_reason", "cancelled_at", "deleted_at"})) >>)

AddMissingTaskColumns1768000000002 ==
  Migration("AddMissingTaskColumns1768000000002", <<1768000, 2>>,
    << AddIfAbsent("tasks", {"parent_id"}) >>,
    << IfTable("tasks", DropIfPresent("tasks", {"parent_id"})) >>)

UpdateUserEmailUniqueIndex1768500000000 ==
  Migration("UpdateUserEmailUniqueIndex1768500000000", <<1768500, 0>>,
    << Uses("users", {"email", "tenant_id"}) >>,
    << Uses("users", {"email"}) >>)

DefaultPayoutStatusPending1769000000000 ==
  Migration("DefaultPayoutStatusPending1769000000000", <<1769000, 0>>,
    << Uses("payouts", {"status"}) >>,
    << Uses("payouts", {"status"}) >>)

AddPayoutIdempotencyKey1769900000000 ==
  Migration("AddPayoutIdempotencyKey1769900000000", <<1769900, 0>>,
    << Add("payouts", {"idempotency_key"}), Uses("payouts", {"tenant_id"}) >>,
    << Drop("payouts", {"idempotency_key"}) >>)

ExpandPlatformSessionTokenColumns1769908893000 ==
  Migration("ExpandPlatformSessionTokenColumns1769908893000", <<1769908, 893000>>,
    << Uses("platform_sessions", {"session_token", "refresh_token"}) >>,
    << Uses("platform_sessions", {"refresh_token", "session_token"}) >>)

AddPasswordResetTokens1770000000000 ==
  Migration("AddPasswordResetTokens1770000000000", <<1770000, 0>>,
    << CreateIfAbsent("password_reset_tokens", {"id", "email", "token_hash", "expires_at", "used",
           "created_at"}),
       Uses("password_reset_tokens", {"email", "token_hash"}) >>,
    << DropTable("password_reset_tokens") >>)

CreateOutboxEvents1770100000000 ==
  Migration("CreateOutboxEvents1770100000000", <<1770100, 0>>,
    << CreateIfAbsent("outbox_events", {"id", "aggregateId", "type", "payload", "status", "error",
           "createdAt", "updatedAt"}) >>,
    << DropTable("outbox_events") >>)

GlobalUniqueUserEmail1770200000000 ==
  Migration("GlobalUniqueUserEmail1770200000000", <<1770200, 0>>,
    << Uses("users", {"email"}) >>,
    << Uses("users", {"email", "tenant_id"}) >>)

AllowNullPlatformSessionToken1770400000000 ==
  Migration("AllowNullPlatformSessionToken1770400000000", <<1770400, 0>>,
    << Uses("platform_sessions", {"session_token"}) >>,
    << Uses("platform_sessions", {"session_token"}) >>)

CreateNotificationsTable1770450000000 ==
  Migration("CreateNotificationsTable1770450000000", <<1770450, 0>>,
    << Create("notifications", {"id", "tenant_id", "user_id", "notification_type", "title", "message",
           "metadata", "read", "read_at", "action_url", "created_at", "updated_at"}) >>,
    << DropTable("notifications") >>)

AddClientPortalFields1770500000000_up ==
  << AddIfAbsent("bookings", {"start_time"}), AddIfAbsent("clients", {"notification_preferences"}),
     IfTable("notifications", AddIfAbsent("notifications", {"client_id"})),
     IfTable("notifications", Uses("notifications", {"client_id", "read"})),
     AddIfAbsent("tenants", {"working_hours", "default_booking_duration_hours",
         "max_concurrent_bookings_per_slot", "time_slot_duration_minutes", "minimum_notice_period_hours",
         "max_advance_booking_days", "notification_emails"}),
     Uses("bookings", {"tenant_id", "package_id", "event_date", "start_time", "status"}) >>

AddClientPortalFields1770500000000_down ==
  << Drop("tenants", {"notification_emails", "max_advance_booking_days", "minimum_notice_period_hours",
         "time_slot_duration_minutes", "max_concurrent_bookings_per_slot", "default_booking_duration_hours",
         "working_hours"}),
     Drop("notifications", {"client_id"}), Drop("clients", {"notification_preferences"}),
     Drop("bookings", {"start_time"}) >>

AddClientPortalFields1770500000000 ==
  Migration("AddClientPortalFields1770500000000", <<1770500, 0>>,
    AddClientPortalFields1770500000000_up,
    AddClientPortalFields1770500000000_down)

CreateReviewsTable1770600000000_up ==
  << Create("reviews", {"id", "tenant_id", "client_id", "booking_id", "package_id", "rating", "comment",
         "status", "created_at", "updated_at"}) >>

CreateReviewsTable1770600000000_down ==
  << DropTable("reviews") >>

CreateReviewsTable1770600000000 ==
  Migration("CreateReviewsTable1770600000000", <<1770600, 0>>,
    CreateReviewsTable1770600000000_up,
    CreateReviewsTable1770600000000_down)

HardenPlatformSessionsAndSyncInvoiceSchema1770700000000_up1 ==
  << IfTable("platform_sessions", AddIfAbsent("platform_sessions", {"session_token_hash",
         "refresh_token_hash"})),
     IfTable("invoices", AddIfAbsent("invoices", {"client_id", "tax_rate", "amount_paid", "balance_due",
         "paid_date", "sent_at", "pdf_url"})),
     IfTable("invoices", Uses("invoices", {"booking_id", "total_amount", "tenant_id"})) >>

HardenPlatformSessionsAndSyncInvoiceSchema1770700000000_up2 ==
  << IfTable("invoices", Uses("bookings", {"client_id"})) >>

HardenPlatformSessionsAndSyncInvoiceSchema1770700000000_down ==
  << IfTable("invoices", DropIfPresent("invoices", {"client_id", "tax_rate", "amount_paid", "balance_due",
         "paid_date", "sent_at", "pdf_url"})),
     IfTable("platform_sessions", DropIfPresent("platform_sessions", {"refresh_token_hash",
         "session_token_hash"})) >>

HardenPlatformSessionsAndSyncInvoiceSchema1770700000000 ==
  Migration("HardenPlatformSessionsAndSyncInvoiceSchema1770700000000", <<1770700, 0>>,
    HardenPlatformSessionsAndSyncInvoiceSchema1770700000000_up1
      \o HardenPlatformSessionsAndSyncInvoiceSchema1770700000000_up2,
    HardenPlatformSessionsAndSyncInvoiceSchema1770700000000_down)

AddBillingWebhookEventIdempotency1770700000001 ==
  Migration("AddBillingWebhookEventIdempotency1770700000001", <<1770700, 1>>,
    << CreateIfAbsent("billing_webhook_events", {"id", "provider", "event_id", "created_at"}),
       Uses("billing_webhook_events", {"provider", "event_id"}) >>,
    << DropTableIfPresent("billing_webhook_events") >>)

HardenImpersonationSessionTokenStorage1770700000002 ==
  Migration("HardenImpersonationSessionTokenStorage1770700000002", <<1770700, 2>>,
    << IfTable("impersonation_sessions", AddIfAbsent("impersonation_sessions", {"session_token_hash"})),
       IfTable("impersonation_sessions", Uses("impersonation_sessions", {"session_token"})),
       IfColumns("impersonation_sessions", {"session_token"}, Drop("impersonation_sessions",
           {"session_token"})) >>,
    << IfTable("impersonation_sessions", AddIfAbsent("impersonation_sessions", {"session_token"})),
       IfTable("impersonation_sessions", DropIfPresent("impersonation_sessions", {"session_token_hash"})) >>)

PreventConcurrentActiveImpersonationSessions1770700000003 ==
  Migration("PreventConcurrentActiveImpersonationSessions1770700000003", <<1770700, 3>>,
    << IfTable("impersonation_sessions", Uses("impersonation_sessions", {"is_active", "platform_user_id",
           "target_user_id", "tenant_id", "started_at", "ended_at", "ended_by", "end_reason"})) >>,
    <<>>)

EnforceImpersonationTokenHashNotNull1770700000004 ==
  Migration("EnforceImpersonationTokenHashNotNull1770700000004", <<1770700, 4>>,
    << IfTable("impersonation_sessions", Uses("impersonation_sessions", {"session_token_hash"})) >>,
    << IfTable("impersonation_sessions", Uses("impersonation_sessions", {"session_token_hash"})) >>)

AddCompositeTenantFKsCoreRelations1770800000000 ==
  Migration("AddCompositeTenantFKsCoreRelations1770800000000", <<1770800, 0>>,
    << Uses("clients", {"id", "tenant_id"}), Uses("bookings", {"id", "tenant_id", "client_id"}),
       Uses("tasks", {"id", "tenant_id"}), Uses("webhooks", {"id", "tenant_id"}),
       Uses("invoices", {"booking_id", "tenant_id"}), Uses("time_entries", {"task_id", "tenant_id"}),
       Uses("webhook_deliveries", {"webhook_id", "tenant_id"}) >>,
    << Uses("clients", {"id"}), Uses("bookings", {"id", "client_id"}), Uses("tasks", {"id"}),
       Uses("webhooks", {"id"}), Uses("invoices", {"booking_id"}), Uses("time_entries", {"task_id"}),
       Uses("webhook_deliveries", {"webhook_id"}) >>)

AddTimeEntryGpsCoordinates1770900000000 ==
  Migration("AddTimeEntryGpsCoordinates1770900000000", <<1770900, 0>>,
    << AddIfAbsent("time_entries", {"latitude", "longitude"}) >>,
    << IfTable("time_entries", DropIfPresent("time_entries", {"latitude", "longitude"})) >>)

AddPackageBookingWindowFields1771000000000 ==
  Migration("AddPackageBookingWindowFields1771000000000", <<1771000, 0>>,
    << AddIfAbsent("service_packages", {"duration_minutes", "required_staff_count",
           "revenue_account_code"}),
       AddIfAbsent("bookings", {"duration_minutes"}) >>,
    << IfTable("bookings", DropIfPresent("bookings", {"duration_minutes"})),
       IfTable("service_packages", DropIfPresent("service_packages", {"duration_minutes",
           "required_staff_count", "revenue_account_code"})) >>)

CreateTaskTypeEligibility1771100000000_up ==
  << CreateIfAbsent("task_type_eligibilities", {"id", "tenant_id", "created_at", "updated_at", "user_id",
         "task_type_id"}),
     Uses("task_type_eligibilities", {"tenant_id", "user_id", "task_type_id"}), Uses("users", {"id"}),
     Uses("task_types", {"id"}) >>

CreateTaskTypeEligibility1771100000000_down ==
  << DropTableIfPresent("task_type_eligibilities") >>

CreateTaskTypeEligibility1771100000000 ==
  Migration("CreateTaskTypeEligibility1771100000000", <<1771100, 0>>,
    CreateTaskTypeEligibility1771100000000_up,
    CreateTaskTypeEligibility1771100000000_down)

CreateTaskAssignees1771200000000_up ==
  << CreateIfAbsent("task_assignees", {"id", "tenant_id", "created_at", "updated_at", "task_id", "user_id",
         "role", "commission_snapshot"}),
     Uses("task_assignees", {"tenant_id", "task_id", "user_id"}), Uses("tasks", {"id", "tenant_id"}),
     Uses("users", {"id", "tenant_id"}) >>

CreateTaskAssignees1771200000000_down ==
  << DropTableIfPresent("task_assignees") >>

CreateTaskAssignees1771200000000 ==
  Migration("CreateTaskAssignees1771200000000", <<1771200, 0>>,
    CreateTaskAssignees1771200000000_up,
    CreateTaskAssignees1771200000000_down)

CreateVendorsAndPurchaseInvoices1771300000000 ==
  Migration("CreateVendorsAndPurchaseInvoices1771300000000", <<1771300, 0>>,
    << Create("vendors", {"id", "created_at", "updated_at", "tenant_id", "name", "email", "phone",
           "notes"}),
       Create("purchase_invoices", {"id", "created_at", "updated_at", "tenant_id", "vendor_id",
           "invoice_number", "invoice_date", "total_amount", "notes", "transaction_id"}),
       Uses("transactions", {"id", "tenant_id"}) >>,
    << Uses("purchase_invoices", {}), DropTable("purchase_invoices"), DropTable("vendors") >>)

AddCancelledToTaskStatusEnum1771400000000 ==
  Migration("AddCancelledToTaskStatusEnum1771400000000", <<1771400, 0>>,
    <<>>,
    <<>>)

CreateDailyMetricsTable1771500000000 ==
  Migration("CreateDailyMetricsTable1771500000000", <<1771500, 0>>,
    << CreateIfAbsent("daily_metrics", {"id", "tenant_id", "date", "total_revenue", "bookings_count",
           "tasks_completed_count", "active_clients_count", "cancellations_count", "created_at",
           "updated_at"}),
       AddIfAbsent("daily_metrics", {"id", "tenant_id", "date", "total_revenue", "bookings_count",
           "tasks_completed_count", "active_clients_count", "cancellations_count", "created_at",
           "updated_at"}) >>,
    << DropTableIfPresent("daily_metrics") >>)

AlignTenantScopedPreferences1771500000001_up ==
  << IfTable("user_preferences", AddIfAbsent("user_preferences", {"tenant_id"})),
     IfTable("user_preferences", Uses("user_preferences", {"user_id"})),
     CreateIfAbsent("notification_preferences", {"id", "tenant_id", "created_at", "updated_at", "user_id",
         "notification_type", "email_enabled", "in_app_enabled", "frequency"}),
     AddIfAbsent("notification_preferences", {"tenant_id", "created_at", "updated_at", "user_id",
         "notification_type", "email_enabled", "in_app_enabled", "frequency"}),
     Uses("users", {"id", "tenant_id"}) >>

AlignTenantScopedPreferences1771500000001_down ==
  <<>>

AlignTenantScopedPreferences1771500000001 ==
  Migration("AlignTenantScopedPreferences1771500000001", <<1771500, 1>>,
    AlignTenantScopedPreferences1771500000001_up,
    AlignTenantScopedPreferences1771500000001_down)

CreateProcessingTypes1772000000000 ==
  Migration("CreateProcessingTypes1772000000000", <<1772000, 0>>,
    << Create("processing_types", {"id", "tenant_id", "name", "description", "sort_order", "is_active",
           "created_at", "updated_at"}),
       Create("booking_processing_types", {"booking_id", "processing_type_id"}) >>,
    << DropTable("booking_processing_types"), DropTable("processing_types") >>)

\* The migration files of this module, in the order of their file names.
MigrationsSecondFiles ==
  << AddNewEntities1767800000000,
     AddBillingTables1767800000001,
     AddAuditLogChaining1767800000002,
     AddSessionTrackingFields1767800000003,
     AddMissingIndexes1767800000004,
     UpdateTransactionCategories1767800000005,
     PartitionAuditLogs1767900000000,
     AddTemplateFieldsToServicePackages1768000000000,
     AddMissingBookingColumns1768000000001,
     AddMissingTaskColumns1768000000002,
     UpdateUserEmailUniqueIndex1768500000000,
     DefaultPayoutStatusPending1769000000000,
     AddPayoutIdempotencyKey1769900000000,
     ExpandPlatformSessionTokenColumns1769908893000,
     AddPasswordResetTokens1770000000000,
     CreateOutboxEvents1770100000000,
     GlobalUniqueUserEmail1770200000000,
     AllowNullPlatformSessionToken1770400000000,
     CreateNotificationsTable1770450000000,
     AddClientPortalFields1770500000000,
     CreateReviewsTable1770600000000,
     HardenPlatformSessionsAndSyncInvoiceSchema1770700000000,
     AddBillingWebhookEventIdempotency1770700000001,
     HardenImpersonationSessionTokenStorage1770700000002,
     PreventConcurrentActiveImpersonationSessions1770700000003,
     EnforceImpersonationTokenHashNotNull1770700000004,
     AddCompositeTenantFKsCoreRelations1770800000000,
     AddTimeEntryGpsCoordinates1770900000000,
     AddPackageBookingWindowFields1771000000000,
     CreateTaskTypeEligibility1771100000000,
     CreateTaskAssignees1771200000000,
     CreateVendorsAndPurchaseInvoices1771300000000,
     AddCancelledToTaskStatusEnum1771400000000,
     CreateDailyMetricsTable1771500000000,
     AlignTenantScopedPreferences1771500000001,
     CreateProcessingTypes1772000000000 >>

============================================================
