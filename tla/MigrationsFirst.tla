---------------- MODULE MigrationsFirst ----------------
(***************************************************************************)
(* The migrations of src/src/database/migrations from                     *)
(* 1703850000000-InitialSchema                                            *)
(* to 1767700000004-SyncTenantSchema                                      *)
(* as the tables and columns their up and their down create, drop, rename  *)
(* and rely on, statement by statement. Column types, indexes,             *)
(* constraints, enum types and the rows a migration rewrites are left out; *)
(* the tables and columns such a statement names are kept as Uses.         *)
(***************************************************************************)
EXTENDS SchemaOps

InitialSchema1703850000000_up1 ==
  << CreateIfAbsent("tenants", {"id", "name", "slug", "subscriptionPlan", "status", "created_at",
         "updated_at"}),
     CreateIfAbsent("users", {"id", "email", "tenant_id", "password_hash", "role", "is_active",
         "created_at", "updated_at", "deleted_at"}),
     Uses("users", {"email", "tenant_id", "id"}),
     CreateIfAbsent("profiles", {"id", "user_id", "first_name", "last_name", "job_title", "base_salary",
         "hire_date", "bank_account", "phone", "created_at", "updated_at", "deleted_at"}),
     CreateIfAbsent("employee_wallets", {"id", "tenant_id", "user_id", "pending_balance", "payable_balance",
         "created_at", "updated_at"}),
     Uses("employee_wallets", {"tenant_id", "user_id"}),
     CreateIfAbsent("task_types", {"id", "tenant_id", "name", "description", "default_commission_amount",
         "is_active", "created_at", "updated_at"}),
     Uses("task_types", {"tenant_id", "id"}),
     CreateIfAbsent("service_packages", {"id", "tenant_id", "name", "description", "price", "is_active",
         "created_at", "updated_at"}) >>

InitialSchema1703850000000_up2 ==
  << Uses("service_packages", {"tenant_id", "id"}),
     CreateIfAbsent("package_items", {"id", "tenant_id", "package_id", "task_type_id", "quantity",
         "created_at", "updated_at"}),
     Uses("package_items", {"tenant_id", "package_id", "task_type_id"}),
     CreateIfAbsent("bookings", {"id", "tenant_id", "client_name", "client_phone", "client_email",
         "event_date", "status", "total_price", "package_id", "notes", "created_at", "updated_at",
         "deleted_at"}),
     Uses("bookings", {"tenant_id", "package_id", "id"}),
     CreateIfAbsent("tasks", {"id", "tenant_id", "booking_id", "task_type_id", "assigned_user_id", "status",
         "commission_snapshot", "due_date", "completed_at", "notes", "created_at", "updated_at",
         "deleted_at"}),
     Uses("tasks", {"tenant_id", "booking_id", "task_type_id", "assigned_user_id", "id"}),
     CreateIfAbsent("transactions", {"id", "tenant_id", "type", "amount", "category", "reference_id",
         "reference_type", "description", "transaction_date", "created_at", "updated_at"}),
     Uses("transactions", {"tenant_id"}),
     CreateIfAbsent("audit_logs", {"id", "user_id", "action", "entity_name", "entity_id", "old_values",
         "new_values", "notes", "created_at"}),
     CreateIfAbsent("refresh_tokens", {"id", "token_hash", "user_id", "expires_at", "is_revoked",
         "user_agent", "ip_address", "created_at", "last_used_at"}),
     Uses("refresh_tokens", {"token_hash", "user_id"}) >>

InitialSchema1703850000000_up3 ==
  << CreateIfAbsent("attachments", {"id", "name", "url", "mime_type", "size", "booking_id", "task_id",
         "created_at", "updated_at"}),
     Uses("profiles", {"user_id"}), Uses("attachments", {"booking_id", "task_id"}) >>

InitialSchema1703850000000_down ==
  << Uses("attachments", {}), Uses("refresh_tokens", {}), Uses("tasks", {}), Uses("bookings", {}),
     Uses("package_items", {}), Uses("employee_wallets", {}), Uses("profiles", {}),
     DropTableIfPresent("attachments"), DropTableIfPresent("refresh_tokens"),
     DropTableIfPresent("audit_logs"), DropTableIfPresent("transactions"), DropTableIfPresent("tasks"),
     DropTableIfPresent("bookings"), DropTableIfPresent("package_items"),
     DropTableIfPresent("service_packages"), DropTableIfPresent("task_types"),
     DropTableIfPresent("employee_wallets"), DropTableIfPresent("profiles"), DropTableIfPresent("users"),
     DropTableIfPresent("tenants") >>

InitialSchema1703850000000 ==
  Migration("InitialSchema1703850000000", <<1703850, 0>>,
    InitialSchema1703850000000_up1
      \o InitialSchema1703850000000_up2
      \o InitialSchema1703850000000_up3,
    InitialSchema1703850000000_down)

AddPerformanceIndexes1703859449000 ==
  Migration("AddPerformanceIndexes1703859449000", <<1703859, 449000>>,
    << Uses("bookings", {"status", "tenant_id"}),
       Uses("tasks", {"booking_id", "assigned_user_id", "status", "tenant_id"}),
       Uses("refresh_tokens", {"token_hash", "user_id"}),
       Uses("transactions", {"tenant_id", "transaction_date", "reference_id", "reference_type"}),
       Uses("audit_logs", {"created_at", "entity_name"}), Uses("attachments", {"booking_id", "task_id"}) >>,
    <<>>)

AddTenantIdToAuditLogs1703950000000 ==
  Migration("AddTenantIdToAuditLogs1703950000000", <<1703950, 0>>,
    << Add("audit_logs", {"tenant_id"}) >>,
    << Drop("audit_logs", {"tenant_id"}) >>)

AddDashboardIndexes1735858000000 ==
  Migration("AddDashboardIndexes1735858000000", <<1735858, 0>>,
    << Uses("bookings", {"event_date", "tenant_id", "status"}),
       Uses("transactions", {"tenant_id", "transaction_date", "type"}),
       Uses("tasks", {"completed_at", "tenant_id", "status"}) >>,
    <<>>)

AddCriticalIndexesAndConstraints1736389200000 ==
  Migration("AddCriticalIndexesAndConstraints1736389200000", <<1736389, 200000>>,
    << Uses("bookings", {"created_at", "tenant_id"}), Uses("tasks", {"due_date", "status", "tenant_id"}),
       Uses("transactions", {"tenant_id", "transaction_date", "type"}),
       Uses("audit_logs", {"created_at", "tenant_id"}),
       Uses("service_packages", {"is_active", "tenant_id"}), Uses("task_types", {"is_active", "tenant_id"}),
       Uses("invoices", {"booking_id", "tenant_id"}) >>,
    << Uses("invoices", {}) >>)

RenameAccessTokenToHash1736469350000 ==
  Migration("RenameAccessTokenToHash1736469350000", <<1736469, 350000>>,
    << IfColumns("clients", {"accessToken"}, Rename("clients", "accessToken", "accessTokenHash")),
       IfColumns("clients", {"accessTokenHash"}, Uses("clients", {"accessTokenExpiry"})) >>,
    << Rename("clients", "accessTokenHash", "accessToken") >>)

CreatePlatformTables1737241200000_up1 ==
  << Create("platform_users", {"id", "email", "full_name", "password_hash", "role", "status", "mfa_enabled",
         "mfa_secret", "mfa_recovery_codes", "last_login_at", "last_login_ip", "ip_allowlist",
         "trusted_devices", "failed_login_attempts", "locked_until", "must_change_password",
         "password_changed_at", "created_at", "updated_at", "deleted_at"}),
     AddIfAbsent("platform_users", {"mfa_enabled", "mfa_secret", "mfa_recovery_codes", "last_login_at",
         "last_login_ip", "ip_allowlist", "trusted_devices", "failed_login_attempts", "locked_until",
         "must_change_password", "password_changed_at", "deleted_at"}) >>

CreatePlatformTables1737241200000_up2 ==
  << Create("platform_sessions", {"id", "user_id", "session_token", "refresh_token", "ip_address",
         "user_agent", "device_id", "device_name", "mfa_verified", "mfa_verified_at", "created_at",
         "expires_at", "last_activity_at", "is_revoked", "revoked_at", "revoked_by", "revoked_reason"}) >>

CreatePlatformTables1737241200000_up3 ==
  << Create("platform_audit_logs", {"id", "platform_user_id", "action", "target_tenant_id",
         "target_user_id", "target_entity_type", "target_entity_id", "reason", "ip_address", "user_agent",
         "request_id", "changes_before", "changes_after", "success", "error_message", "performed_at",
         "additional_context"}) >>

CreatePlatformTables1737241200000_up4 ==
  << Create("impersonation_sessions", {"id", "platform_user_id", "tenant_id", "target_user_id",
         "target_user_email", "reason", "approval_ticket_id", "session_token", "started_at", "ended_at",
         "ip_address", "user_agent", "actions_performed", "is_active", "ended_by", "end_reason"}) >>

CreatePlatformTables1737241200000_up5 ==
  << Create("tenant_lifecycle_events", {"id", "tenant_id", "event_type", "triggered_by",
         "triggered_by_type", "reason", "previous_state", "new_state", "occurred_at", "metadata"}),
     AddIfAbsent("tenants", {"subscription_tier", "stripe_customer_id", "stripe_subscription_id",
         "billing_email", "subscription_started_at", "subscription_ends_at", "trial_ends_at",
         "suspended_at", "suspended_by", "suspension_reason", "grace_period_ends_at",
         "deletion_scheduled_at", "last_activity_at", "total_users", "total_bookings", "total_revenue",
         "mrr", "risk_score", "health_score", "compliance_flags", "security_policies", "custom_rate_limits",
         "feature_flags", "metadata"}),
     Uses("tenants", {"created_at", "status", "subscriptionPlan"}) >>

CreatePlatformTables1737241200000_down ==
  << DropIfPresent("tenants", {"subscription_tier", "stripe_customer_id", "stripe_subscription_id",
         "billing_email", "subscription_started_at", "subscription_ends_at", "trial_ends_at",
         "suspended_at", "suspended_by", "suspension_reason", "grace_period_ends_at",
         "deletion_scheduled_at", "last_activity_at", "total_users", "total_bookings", "total_revenue",
         "mrr", "risk_score", "health_score", "compliance_flags", "security_policies", "custom_rate_limits",
         "feature_flags", "metadata"}),
     DropTable("tenant_lifecycle_events"), DropTable("impersonation_sessions"),
     DropTable("platform_audit_logs"), DropTable("platform_sessions"), DropTable("platform_users") >>

CreatePlatformTables1737241200000 ==
  Migration("CreatePlatformTables1737241200000", <<1737241, 200000>>,
    CreatePlatformTables1737241200000_up1
      \o CreatePlatformTables1737241200000_up2
      \o CreatePlatformTables1737241200000_up3
      \o CreatePlatformTables1737241200000_up4
      \o CreatePlatformTables1737241200000_up5,
    CreatePlatformTables1737241200000_down)

AddBookingStatusConstraints1738108524000 ==
  Migration("AddBookingStatusConstraints1738108524000", <<1738108, 524000>>,
    << Uses("bookings", {"status", "cancelled_at", "refund_amount", "total_price"}) >>,
    << Uses("bookings", {}) >>)

AddStudioSettingsToTenants1738885200000 ==
  Migration("AddStudioSettingsToTenants1738885200000", <<1738885, 200000>>,
    << Add("tenants", {"timezone", "working_hours", "branding", "description", "address", "phone", "email",
           "website"}) >>,
    << Drop("tenants", {"website", "email", "phone", "address", "description", "branding", "working_hours",
           "timezone"}) >>)

AddSrsGapColumns1740088800000 ==
  Migration("AddSrsGapColumns1740088800000", <<1740088, 800000>>,
    << AddIfAbsent("transactions", {"revenue_account_code"}), AddIfAbsent("bookings", {"location_link"}),
       AddIfAbsent("tasks", {"location_link"}), AddIfAbsent("bookings", {"completion_percentage"}) >>,
    << DropIfPresent("bookings", {"completion_percentage"}), DropIfPresent("tasks", {"location_link"}),
       DropIfPresent("bookings", {"location_link"}),
       DropIfPresent("transactions", {"revenue_account_code"}) >>)

AddDiscountToBookings1744243200000 ==
  Migration("AddDiscountToBookings1744243200000", <<1744243, 200000>>,
    << AddIfAbsent("bookings", {"discount_amount"}) >>,
    << DropIfPresent("bookings", {"discount_amount"}) >>)

AddPhone2ToClients1744243201000 ==
  Migration("AddPhone2ToClients1744243201000", <<1744243, 201000>>,
    << AddIfAbsent("clients", {"phone2"}) >>,
    << DropIfPresent("clients", {"phone2"}) >>)

AddPaymentMethodToTransactions1744243202000 ==
  Migration("AddPaymentMethodToTransactions1744243202000", <<1744243, 202000>>,
    << AddIfAbsent("transactions", {"payment_method"}) >>,
    << DropIfPresent("transactions", {"payment_method"}) >>)

AddPerformanceIndexes1767084233890_up ==
  << Uses("profiles", {"user_id"}), Uses("refresh_tokens", {"token_hash", "user_id"}),
     Uses("attachments", {"booking_id", "task_id"}), DropIfPresent("employee_wallets", {"tenant_id"}),
     Add("employee_wallets", {"tenant_id"}), DropIfPresent("task_types", {"tenant_id"}),
     Add("task_types", {"tenant_id"}), DropIfPresent("package_items", {"tenant_id"}),
     Add("package_items", {"tenant_id"}), DropIfPresent("service_packages", {"tenant_id"}),
     Add("service_packages", {"tenant_id"}), DropIfPresent("bookings", {"tenant_id"}),
     Add("bookings", {"tenant_id"}), DropIfPresent("tasks", {"tenant_id"}), Add("tasks", {"tenant_id"}),
     DropIfPresent("transactions", {"tenant_id"}), Add("transactions", {"tenant_id"}),
     DropIfPresent("users", {"tenant_id"}), Add("users", {"tenant_id"}),
     Uses("bookings", {"status", "package_id"}),
     Uses("tasks", {"status", "booking_id", "task_type_id", "assigned_user_id"}),
     Uses("audit_logs", {"user_id", "entity_id"}), Uses("package_items", {"package_id", "task_type_id"}),
     Uses("employee_wallets", {"user_id"}), Uses("users", {"email"}),
     Uses("transactions", {"reference_id"}) >>

AddPerformanceIndexes1767084233890_down ==
  << Uses("attachments", {"booking_id", "task_id"}), Uses("refresh_tokens", {"token_hash", "user_id"}),
     Uses("profiles", {}), DropIfPresent("employee_wallets", {"tenant_id"}),
     Add("employee_wallets", {"tenant_id"}), DropIfPresent("task_types", {"tenant_id"}),
     Add("task_types", {"tenant_id"}), DropIfPresent("package_items", {"tenant_id"}),
     Add("package_items", {"tenant_id"}), DropIfPresent("service_packages", {"tenant_id"}),
     Add("service_packages", {"tenant_id"}), DropIfPresent("bookings", {"tenant_id"}),
     Add("bookings", {"tenant_id"}), DropIfPresent("tasks", {"tenant_id"}), Add("tasks", {"tenant_id"}),
     DropIfPresent("transactions", {"tenant_id"}), Add("transactions", {"tenant_id"}),
     DropIfPresent("users", {"tenant_id"}), Add("users", {"tenant_id"}),
     Uses("tasks", {"status", "booking_id", "assigned_user_id"}), Uses("bookings", {"status"}),
     Uses("audit_logs", {"created_at", "entity_name"}), Uses("users", {"email"}),
     Uses("transactions", {"transaction_date", "reference_id", "reference_type"}) >>

AddPerformanceIndexes1767084233890 ==
  Migration("AddPerformanceIndexes1767084233890", <<1767084, 233890>>,
    AddPerformanceIndexes1767084233890_up,
    AddPerformanceIndexes1767084233890_down)

AddTenantIdToProfileFinal1767092139714 ==
  Migration("AddTenantIdToProfileFinal1767092139714", <<1767092, 139714>>,
    << Add("profiles", {"tenant_id"}) >>,
    << Drop("profiles", {"tenant_id"}) >>)

AddTenantIdToAttachmentsAndFixWalletUniq1767220000000 ==
  Migration("AddTenantIdToAttachmentsAndFixWalletUniq1767220000000", <<1767220, 0>>,
    << AddIfAbsent("attachments", {"tenant_id"}), Uses("bookings", {"tenant_id"}),
       Uses("tasks", {"tenant_id"}), Uses("employee_wallets", {"tenant_id", "user_id"}) >>,
    << Uses("employee_wallets", {"user_id"}), Drop("attachments", {"tenant_id"}) >>)

RefactorTransactionsAndAddClients1767272597291 ==
  Migration("RefactorTransactionsAndAddClients1767272597291", <<1767272, 597291>>,
    << Create("clients", {"id", "tenant_id", "created_at", "updated_at", "name", "email", "phone",
           "notes"}),
       Create("payouts", {"id", "tenant_id", "created_at", "updated_at", "amount", "payout_date", "status",
           "notes"}),
       Add("bookings", {"client_id"}), Drop("bookings", {"client_name", "client_phone", "client_email"}),
       Add("transactions", {"booking_id", "task_id", "payout_id"}), Uses("bookings", {"id"}),
       Uses("tasks", {"id"}), Drop("transactions", {"reference_id", "reference_type"}),
       Uses("transactions", {"id", "tenant_id"}) >>,
    << Add("transactions", {"reference_type", "reference_id"}),
       Drop("transactions", {"payout_id", "task_id", "booking_id"}),
       Add("bookings", {"client_email", "client_phone", "client_name"}), Drop("bookings", {"client_id"}),
       DropTable("payouts"), DropTable("clients") >>)

GlobalUniqueUserEmail1767273600000 ==
  Migration("GlobalUniqueUserEmail1767273600000", <<1767273, 600000>>,
    << Uses("users", {"email"}) >>,
    << Uses("users", {"email", "tenant_id"}) >>)

EnforceTenantIdUuidNotNull1767300000000_up ==
  << Uses("users", {"tenant_id"}), Uses("profiles", {"tenant_id", "user_id"}),
     Uses("employee_wallets", {"user_id", "tenant_id"}), Uses("tasks", {"assigned_user_id", "tenant_id"}),
     Uses("attachments", {"tenant_id"}) >>

EnforceTenantIdUuidNotNull1767300000000_down ==
  <<>>

EnforceTenantIdUuidNotNull1767300000000 ==
  Migration("EnforceTenantIdUuidNotNull1767300000000", <<1767300, 0>>,
    EnforceTenantIdUuidNotNull1767300000000_up,
    EnforceTenantIdUuidNotNull1767300000000_down)

CompositeKeys1767300000001 ==
  Migration("CompositeKeys1767300000001", <<1767300, 1>>,
    << Uses("users", {"id", "tenant_id"}), Uses("tasks", {"assigned_user_id", "tenant_id"}) >>,
    << Uses("tasks", {}) >>)

CreateWebhookTable1767362400000 ==
  Migration("CreateWebhookTable1767362400000", <<1767362, 400000>>,
    << CreateIfAbsent("webhooks", {"id", "tenant_id", "url", "secret", "events", "is_active", "created_at",
           "updated_at"}),
       AddIfAbsent("webhooks", {"resolved_ips", "ips_resolved_at"}),
       Uses("webhooks", {"tenant_id", "id"}) >>,
    << DropTableIfPresent("webhooks") >>)

PerformanceIndexes1767378712783_up ==
  << Uses("employee_wallets", {"user_id", "tenant_id"}), Uses("profiles", {}), Uses("package_items", {}),
     Uses("bookings", {}), Uses("tasks", {"id"}),
     CreateIfAbsent("clients", {"id", "tenant_id", "created_at", "updated_at", "name", "email", "phone",
         "notes"}),
     Uses("clients", {"tenant_id", "id"}),
     CreateIfAbsent("payouts", {"id", "tenant_id", "created_at", "updated_at", "amount", "payout_date",
         "status", "notes"}),
     Uses("payouts", {"tenant_id", "id"}),
     DropIfPresent("bookings", {"client_name", "client_phone", "client_email"}),
     DropIfPresent("transactions", {"reference_id", "reference_type"}),
     AddIfAbsent("bookings", {"client_id"}),
     AddIfAbsent("transactions", {"booking_id", "task_id", "payout_id"}), Uses("audit_logs", {"tenant_id"}),
     Uses("bookings", {"package_id", "id"}), Uses("users", {"id", "tenant_id", "email"}),
     Uses("transactions", {"transaction_date", "tenant_id", "id"}), Uses("attachments", {"tenant_id"}) >>

PerformanceIndexes1767378712783_down ==
  << Uses("transactions", {}), Uses("bookings", {}), Uses("employee_wallets", {"user_id", "tenant_id"}),
     Uses("users", {"id", "tenant_id", "email"}),
     Drop("transactions", {"payout_id", "task_id", "booking_id"}), Drop("bookings", {"client_id"}),
     Add("transactions", {"reference_type", "reference_id"}),
     Add("bookings", {"client_email", "client_phone", "client_name"}), DropTable("payouts"),
     DropTable("clients"), Uses("attachments", {"tenant_id"}),
     Uses("tasks", {"id", "tenant_id", "task_type_id", "booking_id", "assigned_user_id"}),
     Uses("bookings", {"id", "tenant_id", "package_id"}), Uses("service_packages", {"id", "tenant_id"}),
     Uses("task_types", {"id", "tenant_id"}), Uses("profiles", {"tenant_id", "user_id"}),
     Uses("audit_logs", {"tenant_id"}),
     Uses("package_items", {"task_type_id", "tenant_id", "package_id"}) >>

PerformanceIndexes1767378712783 ==
  Migration("PerformanceIndexes1767378712783", <<1767378, 712783>>,
    PerformanceIndexes1767378712783_up,
    PerformanceIndexes1767378712783_down)

AddCompositeFKConstraints1767400000000 ==
  Migration("AddCompositeFKConstraints1767400000000", <<1767400, 0>>,
    << Uses("users", {"id", "tenant_id"}), Uses("bookings", {"id", "tenant_id", "package_id"}),
       Uses("tasks", {"id", "tenant_id", "booking_id", "task_type_id", "assigned_user_id"}),
       Uses("service_packages", {"id", "tenant_id"}), Uses("task_types", {"id", "tenant_id"}),
       Uses("package_items", {"package_id", "task_type_id", "tenant_id"}),
       Uses("employee_wallets", {"user_id", "tenant_id"}), Uses("profiles", {"user_id", "tenant_id"}) >>,
    << Uses("profiles", {}), Uses("employee_wallets", {}), Uses("package_items", {}), Uses("bookings", {}),
       Uses("tasks", {}) >>)

AddMfaFields1767439784793 ==
  Migration("AddMfaFields1767439784793", <<1767439, 784793>>,
    << Add("users", {"mfa_secret", "is_mfa_enabled", "mfa_recovery_codes"}) >>,
    << Drop("users", {"mfa_recovery_codes", "is_mfa_enabled", "mfa_secret"}) >>)

AddAuditEnhancedFields1767500000000 ==
  Migration("AddAuditEnhancedFields1767500000000", <<1767500, 0>>,
    << Add("audit_logs", {"ip_address", "user_agent", "method", "path", "status_code", "duration_ms"}) >>,
    << Drop("audit_logs", {"ip_address", "user_agent", "method", "path", "status_code", "duration_ms"}) >>)

AddEmailVerification1767510000000 ==
  Migration("AddEmailVerification1767510000000", <<1767510, 0>>,
    << Add("users", {"email_verified"}),
       Create("email_verification_tokens", {"id", "email", "token_hash", "expires_at", "used",
           "created_at"}) >>,
    << DropTable("email_verification_tokens"), Drop("users", {"email_verified"}) >>)

AddClientAuthFields1767600000000 ==
  Migration("AddClientAuthFields1767600000000", <<1767600, 0>>,
    << IfColumns("clients", {"access_token_hash", "accessTokenHash"}, Drop("clients", {"accessTokenHash"})),
       IfTable("clients", AddIfAbsent("clients", {"access_token_hash", "accessTokenExpiry"})),
       IfTable("clients", Uses("clients", {"tenant_id"})) >>,
    << IfTable("clients", DropIfPresent("clients", {"accessToken", "access_token_hash",
           "accessTokenExpiry"})) >>)

AddClientTags1767600000001 ==
  Migration("AddClientTags1767600000001", <<1767600, 1>>,
    << AddIfAbsent("clients", {"tags"}) >>,
    << DropIfPresent("clients", {"tags"}) >>)

AddUserPreferences1735936000000 ==
  Migration("AddUserPreferences1735936000000", <<1735936, 0>>,
    << Create("user_preferences", {"id", "created_at", "updated_at", "user_id", "dashboardConfig"}),
       Uses("users", {"id"}) >>,
    << Uses("user_preferences", {}), DropTable("user_preferences") >>)

CreateInvoicesTable1735940000000 ==
  Migration("CreateInvoicesTable1735940000000", <<1735940, 0>>,
    << Create("invoices", {"id", "created_at", "updated_at", "tenant_id", "invoice_number", "booking_id",
           "status", "issue_date", "due_date", "items", "sub_total", "tax_total", "total_amount",
           "currency", "notes"}),
       Uses("bookings", {"id"}) >>,
    << Uses("invoices", {}), DropTable("invoices") >>)

AddEmailTemplates1735990000000 ==
  Migration("AddEmailTemplates1735990000000", <<1735990, 0>>,
    << Create("email_templates", {"id", "created_at", "updated_at", "tenant_id", "name", "subject",
           "content", "variables", "is_system", "description"}) >>,
    << DropTable("email_templates") >>)

AddPhase3Indexes1767700000000 ==
  Migration("AddPhase3Indexes1767700000000", <<1767700, 0>>,
    << Uses("clients", {"email", "tenant_id", "phone"}), Uses("profiles", {"hire_date", "tenant_id"}),
       Uses("service_packages", {"is_active", "tenant_id"}),
       Uses("refresh_tokens", {"expires_at", "is_revoked"}), Uses("tasks", {"due_date", "tenant_id"}),
       Uses("transactions", {"category", "tenant_id"}), Uses("bookings", {"client_id", "tenant_id"}),
       Uses("employee_wallets", {"payable_balance", "tenant_id"}) >>,
    <<>>)

CreatePayrollRuns1767700000001 ==
  Migration("CreatePayrollRuns1767700000001", <<1767700, 1>>,
    << Create("payroll_runs", {"id", "tenant_id", "created_at", "updated_at", "total_employees",
           "total_payout", "processed_at", "status", "transaction_ids", "notes"}) >>,
    << DropTable("payroll_runs") >>)

SyncProfileSchema1767700000002 ==
  Migration("SyncProfileSchema1767700000002", <<1767700, 2>>,
    << AddIfAbsent("profiles", {"emergency_contact_name", "emergency_contact_phone", "address", "city",
           "country", "deleted_at", "department", "team", "contract_type"}),
       AddIfAbsent("payouts", {"currency", "commission_amount", "metadata"}),
       AddIfAbsent("transactions", {"currency", "exchange_rate", "department"}) >>,
    << DropIfPresent("transactions", {"department", "exchange_rate", "currency"}),
       DropIfPresent("payouts", {"metadata", "commission_amount", "currency"}),
       DropIfPresent("profiles", {"contract_type", "team", "department", "deleted_at", "country", "city",
           "address", "emergency_contact_phone", "emergency_contact_name"}) >>)

AddTenantBaseCurrency1767700000003 ==
  Migration("AddTenantBaseCurrency1767700000003", <<1767700, 3>>,
    << Add("tenants", {"base_currency"}) >>,
    << Drop("tenants", {"base_currency"}) >>)

SyncTenantSchema1767700000004 ==
  Migration("SyncTenantSchema1767700000004", <<1767700, 4>>,
    << Add("tenants", {"default_tax_rate", "cancellation_policy_days", "quotas", "parent_tenant_id"}) >>,
    << Drop("tenants", {"parent_tenant_id", "quotas", "cancellation_policy_days", "default_tax_rate"}) >>)

\* The migration files of this module, in the order of their file names.
MigrationsFirstFiles ==
  << InitialSchema1703850000000,
     AddPerformanceIndexes1703859449000,
     AddTenantIdToAuditLogs1703950000000,
     AddDashboardIndexes1735858000000,
     AddCriticalIndexesAndConstraints1736389200000,
     RenameAccessTokenToHash1736469350000,
     CreatePlatformTables1737241200000,
     AddBookingStatusConstraints1738108524000,
     AddStudioSettingsToTenants1738885200000,
     AddSrsGapColumns1740088800000,
     AddDiscountToBookings1744243200000,
     AddPhone2ToClients1744243201000,
     AddPaymentMethodToTransactions1744243202000,
     AddPerformanceIndexes1767084233890,
     AddTenantIdToProfileFinal1767092139714,
     AddTenantIdToAttachmentsAndFixWalletUniq1767220000000,
     RefactorTransactionsAndAddClients1767272597291,
     GlobalUniqueUserEmail1767273600000,
     EnforceTenantIdUuidNotNull1767300000000,
     CompositeKeys1767300000001,
     CreateWebhookTable1767362400000,
     PerformanceIndexes1767378712783,
     AddCompositeFKConstraints1767400000000,
     AddMfaFields1767439784793,
     AddAuditEnhancedFields1767500000000,
     AddEmailVerification1767510000000,
     AddClientAuthFields1767600000000,
     AddClientTags1767600000001,
     AddUserPreferences1735936000000,
     CreateInvoicesTable1735940000000,
     AddEmailTemplates1735990000000,
     AddPhase3Indexes1767700000000,
     CreatePayrollRuns1767700000001,
     SyncProfileSchema1767700000002,
     AddTenantBaseCurrency1767700000003,
     SyncTenantSchema1767700000004 >>

============================================================
