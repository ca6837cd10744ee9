---------------- MODULE EntitySchema ----------------
(***************************************************************************)
(* The database columns the entities of the backend read and write: one    *)
(* definition per *.entity.ts file that ALL_ENTITIES of data-source.ts     *)
(* lists, with the column names its decorators give. Types, defaults,      *)
(* relations and the domain methods of the classes are left out.           *)
(***************************************************************************)

\* An entity: its table and the names of its columns.
Entity(table, columns) == [table |-> table, columns |-> columns]

\* The columns every entity derived from the base classes has.
BaseEntity == {"id", "created_at", "updated_at"}

BaseTenantEntity == BaseEntity \cup {"tenant_id"}

TenantEntity == Entity("tenants", 
    {"id", "name", "slug", "subscriptionPlan", "base_currency", "status", "default_tax_rate",
      "cancellation_policy_days", "timezone", "working_hours", "branding", "description", "address",
      "phone", "email", "website", "created_at", "updated_at", "parent_tenant_id", "quotas",
      "subscription_tier", "stripe_customer_id", "stripe_subscription_id", "billing_email",
      "subscription_started_at", "subscription_ends_at", "trial_ends_at", "suspended_at",
      "suspended_by", "suspension_reason", "grace_period_ends_at", "deletion_scheduled_at",
      "last_activity_at", "total_users", "total_bookings", "total_revenue", "mrr", "risk_score",
      "health_score", "compliance_flags", "security_policies", "custom_rate_limits", "feature_flags",
      "metadata", "default_booking_duration_hours", "max_concurrent_bookings_per_slot",
      "time_slot_duration_minutes", "minimum_notice_period_hours", "max_advance_booking_days",
      "notification_emails"})

UserEntity == Entity("users", 
    {"id", "email", "tenant_id", "password_hash", "mfa_secret", "is_mfa_enabled",
      "mfa_recovery_codes", "role", "is_active", "email_verified", "created_at", "updated_at",
      "deleted_at"})

ProfileEntity == Entity("profiles", BaseTenantEntity \cup
    {"user_id", "first_name", "last_name", "job_title", "base_salary", "hire_date", "bank_account",
      "phone", "emergency_contact_name", "emergency_contact_phone", "address", "city", "country",
      "department", "team", "contract_type", "deleted_at"})

PayrollRunEntity == Entity("payroll_runs", BaseTenantEntity \cup
    {"total_employees", "total_payout", "processed_at", "status", "transaction_ids", "notes"})

ServicePackageEntity == Entity("service_packages", BaseTenantEntity \cup
    {"name", "description", "price", "duration_minutes", "required_staff_count",
      "revenue_account_code", "is_active", "is_template", "template_category", "skip_staff_check"})

BookingEntity == Entity("bookings", BaseTenantEntity \cup
    {"client_id", "event_date", "start_time", "duration_minutes", "status", "total_price",
      "sub_total", "discount_amount", "tax_rate", "tax_amount", "package_id", "deposit_percentage",
      "deposit_amount", "amount_paid", "payment_status", "notes", "cancelled_at", "refund_amount",
      "cancellation_reason", "location_link", "completion_percentage", "deleted_at"})

ClientEntity == Entity("clients", BaseTenantEntity \cup
    {"name", "email", "phone", "phone2", "notes", "tags", "notification_preferences",
      "access_token_hash", "accessTokenExpiry"})

ProcessingTypeEntity == Entity("processing_types", BaseTenantEntity \cup
    {"package_id", "name", "description", "sort_order", "is_active", "price",
      "default_commission_amount"})

TaskEntity == Entity("tasks", BaseTenantEntity \cup
    {"booking_id", "processing_type_id", "assigned_user_id", "parent_id", "status",
      "commission_snapshot", "due_date", "completed_at", "notes", "location_link", "deleted_at"})

TaskAssigneeEntity == Entity("task_assignees", BaseTenantEntity \cup
    {"task_id", "user_id", "role", "commission_snapshot"})

TimeEntryEntity == Entity("time_entries", BaseTenantEntity \cup
    {"task_id", "user_id", "start_time", "end_time", "duration_minutes", "notes", "latitude",
      "longitude", "status", "billable"})

OutboxEventEntity == Entity("outbox_events", 
    {"id", "aggregateId", "aggregateType", "type", "payload", "tenantId", "eventVersion",
      "correlationId", "occurredAt", "status", "error", "retryCount", "claimedBy",
      "claimLeaseExpiresAt", "nextAttemptAt", "dispatchedAt", "deadLetteredAt", "createdAt",
      "updatedAt"})

ConsumerInboxEntity == Entity("consumer_inbox", 
    {"id", "consumerName", "eventId", "processedAt"})

TransactionEntity == Entity("transactions", BaseTenantEntity \cup
    {"type", "currency", "exchange_rate", "amount", "category", "category_id", "department",
      "booking_id", "task_id", "revenue_account_code", "payout_id", "purchase_invoice_id",
      "description", "transaction_date", "payment_method", "reference", "idempotency_key",
      "reversal_of_id", "voided_at", "voided_by"})

TransactionCategoryEntity == Entity("transaction_categories", BaseTenantEntity \cup
    {"name", "description", "applicableType", "is_active", "parent_id"})

RecurringTransactionEntity == Entity("recurring_transactions", BaseTenantEntity \cup
    {"name", "type", "amount", "currency", "category", "department", "description", "frequency",
      "interval", "start_date", "end_date", "next_run_date", "last_run_date", "run_count",
      "max_occurrences", "status", "notify_before_days", "failure_count", "last_error",
      "rrule_string"})

PayoutEntity == Entity("payouts", BaseTenantEntity \cup
    {"amount", "commission_amount", "idempotency_key", "metadata", "payout_date", "status",
      "currency", "notes"})

EmployeeWalletEntity == Entity("employee_wallets", BaseTenantEntity \cup
    {"user_id", "pending_balance", "payable_balance"})

AuditLogEntity == Entity("audit_logs", 
    {"id", "user_id", "tenant_id", "action", "entity_name", "entity_id", "old_values",
      "new_values", "notes", "ip_address", "user_agent", "method", "path", "status_code",
      "duration_ms", "hash", "previous_hash", "sequence_number", "created_at"})

RefreshTokenEntity == Entity("refresh_tokens", 
    {"id", "token_hash", "user_id", "expires_at", "is_revoked", "user_agent", "ip_address",
      "created_at", "last_used_at", "device_name", "location", "last_ip_address", "ip_changed"})

InvoiceEntity == Entity("invoices", BaseTenantEntity \cup
    {"invoice_number", "booking_id", "client_id", "status", "issue_date", "due_date", "paid_date",
      "items", "sub_total", "tax_rate", "tax_total", "total_amount", "amount_paid", "balance_due",
      "pdf_url", "currency", "notes", "sent_at"})

PurchaseInvoiceEntity == Entity("purchase_invoices", BaseTenantEntity \cup
    {"vendor_id", "invoice_number", "invoice_date", "total_amount", "notes", "transaction_id"})

VendorEntity == Entity("vendors", BaseTenantEntity \cup
    {"name", "email", "phone", "notes"})

EmailTemplateEntity == Entity("email_templates", BaseTenantEntity \cup
    {"name", "subject", "content", "variables", "is_system", "description"})

NotificationEntity == Entity("notifications", BaseTenantEntity \cup
    {"user_id", "client_id", "notification_type", "title", "message", "metadata", "read",
      "read_at", "action_url"})

NotificationPreferenceEntity == Entity("notification_preferences", BaseTenantEntity \cup
    {"user_id", "notification_type", "email_enabled", "in_app_enabled", "frequency"})

DailyMetricsEntity == Entity("daily_metrics", 
    {"id", "tenant_id", "date", "total_revenue", "bookings_count", "tasks_completed_count",
      "active_clients_count", "cancellations_count", "created_at", "updated_at"})

BaseTokenEntity ==
  {"id", "email", "token_hash", "expires_at", "used", "created_at"}

EmailVerificationTokenEntity == Entity("email_verification_tokens", BaseTokenEntity \cup
    {})

PasswordResetTokenEntity == Entity("password_reset_tokens", BaseTokenEntity \cup
    {})

UserPreferenceEntity == Entity("user_preferences", BaseTenantEntity \cup
    {"user_id", "dashboardConfig"})

DepartmentBudgetEntity == Entity("department_budgets", BaseTenantEntity \cup
    {"department", "budget_amount", "period", "start_date", "end_date", "notes"})

AttendanceEntity == Entity("attendance", BaseTenantEntity \cup
    {"user_id", "date", "check_in", "check_out", "status", "leave_type", "worked_hours", "notes",
      "approved_by", "approved_at"})

PerformanceReviewEntity == Entity("performance_reviews", BaseTenantEntity \cup
    {"user_id", "reviewer_id", "period_type", "period_start", "period_end", "status",
      "overall_rating", "strengths", "areas_for_improvement", "goals", "reviewer_comments",
      "employee_comments", "submitted_at", "acknowledged_at", "completed_at"})

ProcessingTypeEligibilityEntity == Entity("processing_type_eligibilities", BaseTenantEntity \cup
    {"user_id", "processing_type_id"})

TaskTemplateEntity == Entity("task_templates", BaseTenantEntity \cup
    {"name", "description", "processing_type_id", "default_status", "default_commission",
      "estimated_hours", "default_due_days", "isActive", "checklist", "sort_order"})

TenantSubscriptionEntity == Entity("subscriptions", BaseTenantEntity \cup
    {"plan", "status", "start_date", "end_date", "auto_renew"})

TenantLifecycleEventEntity == Entity("tenant_lifecycle_events", 
    {"id", "tenant_id", "event_type", "triggered_by", "triggered_by_type", "reason",
      "previous_state", "new_state", "occurred_at", "metadata"})

ImpersonationSessionEntity == Entity("impersonation_sessions", 
    {"id", "platform_user_id", "tenant_id", "target_user_id", "target_user_email", "reason",
      "approval_ticket_id", "session_token_hash", "started_at", "ended_at", "ip_address",
      "user_agent", "actions_performed", "is_active", "ended_by", "end_reason"})

PlatformAuditLogEntity == Entity("platform_audit_logs", 
    {"id", "platform_user_id", "action", "target_tenant_id", "target_user_id",
      "target_entity_type", "target_entity_id", "reason", "ip_address", "user_agent", "request_id",
      "changes_before", "changes_after", "success", "error_message", "performed_at",
      "additional_context"})

PlatformUserEntity == Entity("platform_users", 
    {"id", "email", "full_name", "password_hash", "role", "status", "mfa_enabled", "mfa_secret",
      "mfa_recovery_codes", "last_login_at", "last_login_ip", "ip_allowlist", "trusted_devices",
      "failed_login_attempts", "locked_until", "must_change_password", "password_changed_at",
      "created_at", "updated_at", "deleted_at"})

PlatformRefreshTokenEntity == Entity("platform_refresh_tokens", 
    {"id", "token_hash", "user_id", "expires_at", "is_revoked", "user_agent", "ip_address",
      "created_at", "last_used_at", "device_name"})

PrivacyRequestEntity == Entity("privacy_requests", BaseTenantEntity \cup
    {"user_id", "type", "status", "requested_at", "processed_at", "completed_at", "expires_at",
      "download_url", "file_path", "error_message", "processed_by", "metadata"})

\* The join table of Booking.processingTypes.
BookingProcessingTypes == Entity("booking_processing_types", {"booking_id", "processing_type_id"})

\* The entities the data source is built from.
ALL_ENTITIES ==
  {TenantEntity, UserEntity, ProfileEntity, PayrollRunEntity, ServicePackageEntity, BookingEntity,
   ClientEntity, ProcessingTypeEntity, TaskEntity, TaskAssigneeEntity, TimeEntryEntity,
   OutboxEventEntity, ConsumerInboxEntity, TransactionEntity, TransactionCategoryEntity,
   RecurringTransactionEntity, PayoutEntity, EmployeeWalletEntity, AuditLogEntity,
   RefreshTokenEntity, InvoiceEntity, PurchaseInvoiceEntity, VendorEntity, EmailTemplateEntity,
   NotificationEntity, NotificationPreferenceEntity, DailyMetricsEntity,
   EmailVerificationTokenEntity, PasswordResetTokenEntity, UserPreferenceEntity,
   DepartmentBudgetEntity, AttendanceEntity, PerformanceReviewEntity,
   ProcessingTypeEligibilityEntity, TaskTemplateEntity, TenantSubscriptionEntity,
   TenantLifecycleEventEntity, ImpersonationSessionEntity, PlatformAuditLogEntity,
   PlatformUserEntity, PlatformRefreshTokenEntity, PrivacyRequestEntity, BookingProcessingTypes}

============================================================
