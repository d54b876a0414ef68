--------------------------- MODULE ContractStructs ---------------------------
(***************************************************************************)
(* The same messages as the structs of contracts-rs: plain fields, which   *)
(* must be there and are always written; options, which are left out when  *)
(* they are None; and bare options, which are written as null.  Every      *)
(* struct denies unknown fields.                                           *)
(***************************************************************************)
EXTENDS TLC

Struct(plain, option, bare) == [plain |-> plain, option |-> option, bare |-> bare]

AccountSnapshotStructs ==
    [AccountSnapshot |-> Struct({"schema_version", "account", "channel", "computed_at", "consistency",
          "components"}, {"consistency_reason", "account_version", "span_ms", "summary"}, {}),
     AccountComponents |-> Struct({"balances", "positions", "open_orders", "position_mode"}, {"recent_fills",
          "order_history", "margin"}, {}),
     Component |-> Struct({"observed_at", "fetched_from", "fetched_to", "completeness", "source"}, {"error",
          "data"}, {}),
     PositionModeData |-> Struct({"mode"}, {}, {}),
     BalanceRow |-> Struct({"asset", "wallet", "wallet_balance", "available"}, {"unrealized_pnl"}, {}),
     PositionRow |-> Struct({"symbol", "product", "position_side", "qty", "entry_price"}, {"mark_price",
          "unrealized_pnl", "leverage", "margin_type", "isolated_margin", "liquidation_price", "notional",
          "exchange_update_time"}, {}),
     OrderRow |-> Struct({"exchange_order_id", "symbol", "product", "side", "position_side", "order_type",
          "status", "orig_qty", "executed_qty", "reduce_only", "origin"}, {"client_order_id", "avg_price",
          "price", "stop_price", "close_position", "time_in_force", "working_type", "exchange_update_time",
          "exchange_create_time"}, {})]

FillRowStructs ==
    [FillRow |-> Struct({"trade_id", "exchange_order_id", "symbol", "product", "side", "qty", "price",
          "trade_time"}, {"client_order_id", "position_side", "quote_qty", "commission", "commission_asset",
          "realized_pnl", "is_maker"}, {}),
     MarginInfo |-> Struct({}, {"margin_ratio", "maintenance_margin", "margin_balance", "available_balance"},
          {}),
     AccountSummary |-> Struct({"quote_asset", "wallet_balance", "available_balance", "unrealized_pnl",
          "open_position_count", "open_order_count"}, {"margin_balance", "today_realized_pnl"}, {})]

ErrorInfoStructs ==
    [ErrorInfo |-> Struct({"kind", "message", "retryable"}, {"exchange_code", "http_status"}, {}),
     GateRejection |-> Struct({"gate", "message"}, {"value", "limit"}, {})]

IntentStructs ==
    [Intent |-> Struct({"schema_version", "intent_id", "account", "principal", "surface", "params", "status",
          "gate_rejections", "ttl_seconds", "created_at", "updated_at"}, {"session_id", "run_id", "origin",
          "idempotency_key", "status_reason", "current_plan_id", "authorization_id", "expires_at",
          "terminal_at"}, {}),
     StopRef |-> Struct({"price", "trigger"}, {}, {}),
     TakeProfitSpec |-> Struct({"price", "pct"}, {"trigger"}, {})]

OrderRefStructs ==
    [OrderRef |-> Struct({}, {"exchange_order_id", "client_order_id"}, {}),
     OpenParams |-> Struct({"product", "symbol", "side", "size", "entry", "stop", "evidence_refs"},
          {"position_side", "take_profits", "leverage", "margin_type", "thesis", "invalidation"}, {}),
     CloseParams |-> Struct({"product", "symbol", "pct", "order"}, {"position_side", "reason", "evidence_refs"},
          {}),
     CancelOrderParams |-> Struct({"product", "symbol", "order_ref"}, {"reason"}, {}),
     ProtectParams |-> Struct({"product", "symbol", "replace"}, {"position_side", "stop", "take_profits",
          "reason"}, {}),
     TransferParams |-> Struct({"asset", "amount", "from_account", "from_wallet", "to_account", "to_wallet"},
          {"reason"}, {})]

ExecutableOrderPlanStructs ==
    [ExecutableOrderPlan |-> Struct({"schema_version", "plan_id", "intent_id", "version", "plan_hash",
          "account", "channel", "economic", "basis", "authorization_ttl_seconds", "created_at", "expires_at"},
          {}, {}),
     ProtectionLeg |-> Struct({"order_type", "trigger_price", "working_type", "close_position"}, {"price",
          "qty"}, {}),
     Protection |-> Struct({"take_profits"}, {"stop"}, {}),
     OrderEconomics |-> Struct({"product", "symbol", "side", "position_side", "position_mode", "order_type",
          "qty", "reduce_only", "close_position", "protection", "max_naked_seconds"}, {"price", "time_in_force",
          "leverage", "margin_type", "trigger_price", "working_type"}, {}),
     ProtectEconomics |-> Struct({"product", "symbol", "position_side", "legs", "replace_order_ids"}, {}, {})]

CancelEconomicsStructs ==
    [CancelEconomics |-> Struct({"product", "symbol"}, {"exchange_order_id", "client_order_id"}, {}),
     TransferEconomics |-> Struct({"asset", "amount", "from_account", "from_wallet", "to_account", "to_wallet"},
          {}, {}),
     SymbolFilters |-> Struct({"tick_size", "step_size", "min_qty", "min_notional", "observed_at"}, {"max_qty",
          "price_precision", "qty_precision"}, {}),
     SizingBasis |-> Struct({"method", "raw_qty", "rounding"}, {"equity", "risk_pct", "stop_distance",
          "reference_price", "position_qty_before"}, {}),
     MarketRef |-> Struct({"observed_at"}, {"mark_price", "last_price"}, {}),
     PlanBasis |-> Struct({"notes"}, {"filters", "sizing", "account_version", "market_ref",
          "position_mode_observed", "policy_version"}, {})]

AuthorizationStructs ==
    [Authorization |-> Struct({"schema_version", "authorization_id", "intent_id", "plan_id", "plan_hash", "by",
          "status", "granted_at", "expires_at"}, {"principal", "surface", "actor_ref", "status_reason",
          "confirm_echo", "consumed_at", "consumed_by_attempt_id"}, {}),
     ExecutionAttempt |-> Struct({"schema_version", "attempt_id", "intent_id", "plan_id", "plan_hash",
          "attempt_no", "leg", "leg_index", "account", "channel", "client_order_id", "order_fingerprint",
          "writer_instance_id", "lease_epoch", "fencing_token", "stage", "result", "created_at", "deadline_at"},
          {"submitted_at", "result_at", "exchange_order_id", "exchange_ref", "error", "tool_name",
          "tools_hash"}, {})]

ExchangeOrderObservationStructs ==
    [ExchangeOrderObservation |-> Struct({"schema_version", "observation_id", "account", "channel", "source",
          "product", "symbol", "exchange_order_id", "status", "side", "position_side", "order_type", "orig_qty",
          "executed_qty", "reduce_only", "origin", "observed_at"}, {"client_order_id", "avg_price", "price",
          "stop_price", "cum_quote", "close_position", "time_in_force", "working_type", "attempt_id",
          "exchange_update_time", "exchange_create_time", "raw_hash"}, {}),
     Fill |-> Struct({"schema_version", "fill_id", "account", "channel", "source", "product", "symbol",
          "exchange_order_id", "trade_id", "side", "qty", "price", "trade_time", "observed_at"},
          {"client_order_id", "attempt_id", "position_side", "quote_qty", "commission", "commission_asset",
          "realized_pnl", "is_maker"}, {})]

PositionEffectStructs ==
    [PositionEffect |-> Struct({"schema_version", "effect_id", "intent_id", "plan_id", "kind", "account",
          "status", "filled_qty", "remaining_qty", "remaining_canceled", "protection_required",
          "protection_confirmed", "protection_order_ids", "evaluated_at"}, {"symbol", "target_qty",
          "avg_fill_price", "first_fill_at", "protection_confirmed_at", "naked_seconds",
          "compensation_close_attempt_id", "position_qty_after", "exchange_ref", "failure_reason"}, {}),
     ExecPolicy |-> Struct({"schema_version", "version", "updated_at", "mode", "authority", "emergency_stop",
          "live_capped_enabled", "symbol_allowlist", "product_allowlist", "caps", "main_account", "canary"}, {},
          {}),
     Caps |-> Struct({"max_leverage", "risk_pct_per_trade", "max_order_notional", "max_position_notional",
          "max_daily_opens", "daily_loss_stop_pct", "symbol_cooldown_seconds", "max_naked_seconds",
          "account_truth_max_age_ms", "market_max_age_ms", "authorization_ttl_market_seconds",
          "authorization_ttl_limit_seconds", "max_price_deviation_bps", "ntp_drift_block_ms",
          "ntp_drift_halt_ms"}, {}, {}),
     MainAccountPolicy |-> Struct({"manual_trading_enabled", "transfers_enabled", "withdraw_enabled"}, {}, {}),
     CanaryPolicy |-> Struct({"enabled"}, {"max_loss_quote", "max_notional_quote", "max_leverage",
          "funded_balance_quote"}, {})]

ExecEventStruct ==
    [ExecEvent |-> Struct({"schema_version", "seq", "event", "at", "payload"}, {"account", "intent_id",
          "plan_id", "attempt_id", "symbol"}, {})]

RpcRequestStructs ==
    [RpcRequest |-> Struct({"jsonrpc", "id", "method", "params"}, {}, {}),
     RpcSuccess |-> Struct({"jsonrpc", "id", "result"}, {}, {}),
     RpcErrorData |-> Struct({"kind", "retryable"}, {"details"}, {}),
     RpcError |-> Struct({"code", "message", "data"}, {}, {}),
     RpcFailure |-> Struct({"jsonrpc", "error"}, {}, {"id"}),
     RpcNotification |-> Struct({"jsonrpc", "method", "params"}, {}, {})]

ChannelHealthStructs ==
    [ChannelHealth |-> Struct({"state"}, {"detail", "last_ok_at"}, {}),
     Channels |-> Struct({"main", "sub"}, {}, {}),
     HealthResult |-> Struct({"ok", "version", "writer_instance_id", "lease_epoch", "started_at", "now",
          "db_ok", "mode", "halted", "open_intents", "unknown_attempts", "channels"}, {}, {}),
     IntentProposeParams |-> Struct({"account", "principal", "surface", "params"}, {"session_id", "run_id",
          "origin", "idempotency_key", "ttl_seconds"}, {}),
     IntentProposeResult |-> Struct({"intent", "gate_rejections"}, {"plan"}, {}),
     IntentGetParams |-> Struct({"intent_id"}, {}, {}),
     IntentBundle |-> Struct({"intent", "attempts", "orders", "fills"}, {"plan", "authorization", "effect"},
          {}),
     IntentListParams |-> Struct({}, {"status", "account", "kind", "since", "limit"}, {}),
     IntentListResult |-> Struct({"intents"}, {}, {}),
     IntentAuthorizeParams |-> Struct({"intent_id", "plan_hash", "principal", "surface", "confirm_echo"},
          {"actor_ref"}, {}),
     IntentAuthorizeResult |-> Struct({"intent", "authorization"}, {}, {})]

IntentRejectParamsStructs ==
    [IntentRejectParams |-> Struct({"intent_id", "reason", "principal", "surface"}, {}, {}),
     IntentRejectResult |-> Struct({"intent"}, {}, {}),
     AccountSnapshotParams |-> Struct({"account"}, {"max_age_ms", "force_refresh"}, {}),
     AccountSnapshotResult |-> Struct({"snapshot"}, {}, {}),
     OauthStatus |-> Struct({"state", "has_refresh"}, {"expires_at", "scopes", "client_id", "obtained_at"}, {}),
     MainKeyPermissions |-> Struct({}, {"reading", "spot_margin_trading", "futures", "universal_transfer",
          "withdrawals", "ip_restricted"}, {}),
     MainChannelStatus |-> Struct({"configured", "user_stream", "rest_gate"}, {"key_fingerprint", "permissions",
          "time_offset_ms", "last_verified_at"}, {})]

SubChannelStatusStructs ==
    [SubChannelStatus |-> Struct({"configured", "oauth", "mcp_session", "drift"}, {"tools_hash",
          "tools_pinned_hash", "tools_count", "subaccount_ref"}, {}),
     WriterInfo |-> Struct({"instance_id", "lease_epoch", "since"}, {}, {}),
     ExchangeStatusResult |-> Struct({"main", "sub", "writer"}, {}, {}),
     PolicyGetResult |-> Struct({"policy"}, {}, {}),
     PolicyConfirm |-> Struct({"mode", "authority"}, {}, {}),
     PolicySetParams |-> Struct({"policy", "confirm", "principal", "surface"}, {}, {}),
     PolicySetResult |-> Struct({"policy"}, {}, {}),
     EmergencyStopParams |-> Struct({"mode", "reason", "principal", "surface"}, {}, {}),
     EmergencyStopResult |-> Struct({"policy"}, {}, {}),
     EventsSubscribeParams |-> Struct({}, {"since_seq"}, {}),
     EventsSubscribeResult |-> Struct({"ok", "current_seq"}, {}, {}),
     OauthStartParams |-> Struct({}, {"scopes", "open_browser"}, {}),
     OauthStartResult |-> Struct({"authorize_url", "state", "expires_at"}, {}, {})]

OauthStatusResultStructs ==
    [OauthStatusResult |-> Struct({"oauth"}, {}, {}),
     OauthRevokeParams |-> Struct({"principal", "surface"}, {}, {}),
     OauthRevokeResult |-> Struct({"ok"}, {}, {}),
     SealedSecret |-> Struct({"alg", "ephemeral_public_key", "iv", "ciphertext"}, {}, {}),
     CredentialsPublicKeyResult |-> Struct({"alg", "public_key", "expires_at"}, {}, {}),
     CredentialsSetParams |-> Struct({"kind", "sealed", "principal", "surface"}, {}, {}),
     CredentialsSetResult |-> Struct({"ok"}, {"key_fingerprint", "permissions"}, {}),
     MainKeyStatus |-> Struct({"present"}, {"key_fingerprint", "permissions", "last_verified_at"}, {}),
     CredentialsStatusResult |-> Struct({"main_api_key", "oauth"}, {}, {})]

SizeSpec ==
    [SizeByHint |-> Struct({"hint"}, {}, {}), SizeByQty |-> Struct({"qty"}, {}, {}),
     SizeByNotional |-> Struct({"notional"}, {}, {})]

EntrySpec ==
    [MarketEntry |-> Struct({}, {"max_slippage_bps"}, {}),
     LimitEntry |-> Struct({"price"}, {"time_in_force", "post_only"}, {})]

EmptyStruct == [Empty |-> Struct({}, {}, {})]

structs ==
    AccountSnapshotStructs @@ FillRowStructs @@ ErrorInfoStructs @@ IntentStructs @@ OrderRefStructs @@
    ExecutableOrderPlanStructs @@ CancelEconomicsStructs @@ AuthorizationStructs @@
    ExchangeOrderObservationStructs @@ PositionEffectStructs @@ ExecEventStruct @@ RpcRequestStructs @@
    ChannelHealthStructs @@ IntentRejectParamsStructs @@ SubChannelStatusStructs @@
    OauthStatusResultStructs @@ EmptyStruct @@ SizeSpec @@ EntrySpec

TradeEnums ==
    [AccountRef |-> {"main", "sub"},
     Channel |-> {"rest", "mcp"},
     ObservationSource |-> {"rest", "ws", "mcp", "cache"},
     Product |-> {"usdm_perp", "spot"},
     Side |-> {"buy", "sell"},
     PositionSide |-> {"both", "long", "short"},
     PositionMode |-> {"one_way", "hedge"},
     MarginType |-> {"isolated", "cross"},
     OrderType |-> {"market", "limit", "stop_market", "stop_limit", "take_profit_market", "take_profit_limit",
          "trailing_stop_market"},
     TimeInForce |-> {"gtc", "ioc", "fok", "gtx"},
     WorkingType |-> {"mark_price", "contract_price"},
     Wallet |-> {"spot", "usdm_futures"},
     Principal |-> {"user", "model", "cron", "scheduler", "mcp_client"},
     Surface |-> {"rpc", "model", "mcp", "internal"},
     IntentKind |-> {"open", "close", "cancel_order", "protect", "transfer"}]

StatusEnums ==
    [IntentStatus |-> {"proposed", "rejected", "awaiting_approval", "authorized", "recorded", "dispatching",
          "execution_unknown", "executing", "completed", "canceled", "expired"},
     AuthorizationStatus |-> {"active", "consumed", "expired", "invalidated", "revoked"},
     AttemptStage |-> {"before_submit", "submitted", "result_persisted"},
     AttemptResult |-> {"pending", "acked", "rejected", "unknown", "not_received"},
     ExchangeOrderStatus |-> {"new", "partially_filled", "filled", "canceled", "expired", "rejected"},
     EffectStatus |-> {"pending", "satisfied", "failed"},
     Leg |-> {"entry", "stop", "take_profit", "cancel", "close", "transfer"},
     OrderOrigin |-> {"local", "foreign", "unknown"},
     Completeness |-> {"complete", "partial", "missing"},
     Consistency |-> {"consistent", "inconsistent", "unavailable"},
     PolicyMode |-> {"run", "stop_opening", "flatten_only", "halt_all"},
     Authority |-> {"observe", "draft", "paper", "live_capped"},
     ErrorKind |-> {"invalid_params", "not_found", "forbidden", "halted", "stale", "unavailable", "conflict",
          "expired", "invalid_transition", "gate_rejected", "exchange_rejected", "unauthorized", "rate_limited",
          "transport_ambiguous", "internal"}]

Method ==
    {"exec.health", "exec.intent.propose", "exec.intent.get", "exec.intent.list",
     "exec.intent.authorize", "exec.intent.reject", "exec.account.snapshot",
     "exec.exchange.status", "exec.policy.get", "exec.policy.set", "exec.emergency_stop",
     "exec.events.subscribe", "exec.oauth.start", "exec.oauth.status", "exec.oauth.revoke",
     "exec.credentials.public_key", "exec.credentials.set", "exec.credentials.status"}

EventName ==
    {"intent.created", "intent.rejected", "intent.awaiting_approval", "intent.authorized",
     "intent.recorded", "intent.dispatching", "intent.executing", "intent.execution_unknown",
     "intent.completed", "intent.canceled", "intent.expired", "plan.materialized",
     "authorization.granted", "authorization.consumed", "authorization.invalidated",
     "authorization.expired", "authorization.revoked", "attempt.submitting",
     "attempt.submitted", "attempt.resolved", "order.observed", "fill.observed",
     "effect.evaluated", "protection.confirmed", "protection.missing",
     "protection.compensated", "account.updated", "account.stale", "account.inconsistent",
     "foreign_activity.detected", "exchange.auth.expiring", "exchange.auth.expired",
     "exchange.auth.revoked", "exchange.auth.refreshed", "exchange.tools.drift",
     "exchange.channel.degraded", "exchange.channel.recovered", "policy.changed",
     "halt.changed", "writer.fenced", "corruption.detected", "health"}

\* Enumerations beside the struct that uses them.
MemberEnums ==
    [AuthorizedBy |-> {"user", "policy"},
     SizeHint |-> {"full", "half", "quarter"},
     ProtectionOrderType |-> {"stop_market", "stop_limit", "take_profit_market", "take_profit_limit"},
     SizingMethod |-> {"risk_pct_by_stop_distance", "explicit_qty", "explicit_notional", "pct_of_position"},
     Rounding |-> {"down"},
     ChannelState |-> {"ok", "degraded", "down", "unconfigured"},
     OauthState |-> {"missing", "fresh", "expiring", "expired", "revoked"},
     UserStreamState |-> {"connected", "stale", "disconnected", "unconfigured"},
     RestGateState |-> {"ready", "wait", "banned", "unconfigured"},
     McpSessionState |-> {"active", "none", "lost"},
     EmergencyMode |-> {"stop_opening", "flatten_only", "halt_all"},
     CredentialKind |-> {"main_api_key"}]

RustEnums == TradeEnums @@ StatusEnums @@ MemberEnums @@ [Method |-> Method, EventName |-> EventName]

\* The tag serde adds to the fields of a variant of an internally tagged enum.
IntentParams ==
    [OpenParams |-> "open", CloseParams |-> "close", CancelOrderParams |-> "cancel_order",
     ProtectParams |-> "protect", TransferParams |-> "transfer"]

PlanEconomics ==
    [OrderEconomics |-> "order", ProtectEconomics |-> "protect", CancelEconomics |-> "cancel",
     TransferEconomics |-> "transfer"]

RustTags ==
    IntentParams @@ PlanEconomics @@
    [SizeByHint |-> "hint", SizeByQty |-> "qty", SizeByNotional |-> "notional", MarketEntry |-> "market",
     LimitEntry |-> "limit", RpcNotification |-> "exec.event"]
=============================================================================
