---------------------------- MODULE ContractTypes ----------------------------
(***************************************************************************)
(* The TypeScript types the gateway is compiled against: what its code can *)
(* put into a message and what it reads from one.  A member with a         *)
(* question mark is optional; the types of the members are left out, as in *)
(* ContractSchemas, and so are those of the console's capacity view.        *)
(***************************************************************************)
EXTENDS ContractSchemas

\* What the six components of an account have in common.
Component == Object({"observed_at", "fetched_from", "fetched_to", "completeness", "source"}, {"error", "data"})

AccountTypes ==
    [AccountComponents |-> Object({"balances", "positions", "open_orders", "position_mode"}, {"recent_fills",
          "order_history", "margin"}),
     AccountSnapshot |-> Object({"schema_version", "account", "channel", "computed_at", "consistency",
          "components"}, {"consistency_reason", "account_version", "span_ms", "summary"}),
     BalancesComponent |-> Component,
     ErrorInfo |-> Object({"kind", "message", "retryable"}, {"exchange_code", "http_status"}),
     BalanceRow |-> Object({"asset", "wallet", "wallet_balance", "available"}, {"unrealized_pnl"}),
     PositionsComponent |-> Component,
     PositionRow |-> Object({"symbol", "product", "position_side", "qty", "entry_price"}, {"mark_price",
          "unrealized_pnl", "leverage", "margin_type", "isolated_margin", "liquidation_price", "notional",
          "exchange_update_time"}),
     OrdersComponent |-> Component,
     OrderRow |-> Object({"exchange_order_id", "symbol", "product", "side", "position_side", "order_type",
          "status", "orig_qty", "executed_qty", "reduce_only", "origin"}, {"client_order_id", "avg_price",
          "price", "stop_price", "close_position", "time_in_force", "working_type", "exchange_update_time",
          "exchange_create_time"}),
     PositionModeData |-> Object({"mode"}, {}),
     PositionModeComponent |-> Component]

FillTypes ==
    [FillsComponent |-> Component,
     FillRow |-> Object({"trade_id", "exchange_order_id", "symbol", "product", "side", "qty", "price",
          "trade_time"}, {"client_order_id", "position_side", "quote_qty", "commission", "commission_asset",
          "realized_pnl", "is_maker"}),
     MarginComponent |-> Component,
     MarginInfo |-> Object({}, {"margin_ratio", "maintenance_margin", "margin_balance", "available_balance"}),
     AccountSummary |-> Object({"quote_asset", "wallet_balance", "available_balance", "unrealized_pnl",
          "open_position_count", "open_order_count"}, {"margin_balance", "today_realized_pnl"})]

AttemptTypes ==
    [ExecutionAttempt |-> Object({"schema_version", "attempt_id", "intent_id", "plan_id", "plan_hash",
          "attempt_no", "leg", "leg_index", "account", "channel", "client_order_id", "order_fingerprint",
          "writer_instance_id", "lease_epoch", "fencing_token", "stage", "result", "created_at",
          "deadline_at"}, {"submitted_at", "result_at", "exchange_order_id", "exchange_ref", "error",
          "tool_name", "tools_hash"}),
     Authorization |-> Object({"schema_version", "authorization_id", "intent_id", "plan_id", "plan_hash",
          "by", "status", "granted_at", "expires_at"}, {"principal", "surface", "actor_ref", "status_reason",
          "confirm_echo", "consumed_at", "consumed_by_attempt_id"}),
     GateRejection |-> Object({"gate", "message"}, {"value", "limit"})]

ObservationTypes ==
    [ExecEvent |-> Object({"schema_version", "seq", "event", "at", "payload"}, {"account", "intent_id",
          "plan_id", "attempt_id", "symbol"}),
     ExchangeOrderObservation |-> Object({"schema_version", "observation_id", "account", "channel", "source",
          "product", "symbol", "exchange_order_id", "status", "side", "position_side", "order_type",
          "orig_qty", "executed_qty", "reduce_only", "origin", "observed_at"}, {"client_order_id",
          "avg_price", "price", "stop_price", "cum_quote", "close_position", "time_in_force", "working_type",
          "attempt_id", "exchange_update_time", "exchange_create_time", "raw_hash"}),
     Fill |-> Object({"schema_version", "fill_id", "account", "channel", "source", "product", "symbol",
          "exchange_order_id", "trade_id", "side", "qty", "price", "trade_time", "observed_at"},
          {"client_order_id", "attempt_id", "position_side", "quote_qty", "commission", "commission_asset",
          "realized_pnl", "is_maker"})]

IntentTypes ==
    [Intent |-> Object({"schema_version", "intent_id", "account", "principal", "surface", "params", "status",
          "gate_rejections", "ttl_seconds", "created_at", "updated_at"}, {"session_id", "run_id", "origin",
          "idempotency_key", "status_reason", "current_plan_id", "authorization_id", "expires_at",
          "terminal_at"}),
     OpenParams |-> Object({"kind", "product", "symbol", "side", "size", "entry", "stop", "evidence_refs"},
          {"position_side", "take_profits", "leverage", "margin_type", "thesis", "invalidation"}),
     StopRef |-> Object({"price", "trigger"}, {}),
     TakeProfitSpec |-> Object({"price", "pct"}, {"trigger"}),
     CloseParams |-> Object({"kind", "product", "symbol", "pct", "order"}, {"position_side", "reason",
          "evidence_refs"}),
     CancelOrderParams |-> Object({"kind", "product", "symbol", "order_ref"}, {"reason"}),
     OrderRef |-> Object({}, {"exchange_order_id", "client_order_id"}),
     ProtectParams |-> Object({"kind", "product", "symbol", "replace"}, {"position_side", "stop",
          "take_profits", "reason"}),
     TransferParams |-> Object({"kind", "asset", "amount", "from_account", "from_wallet", "to_account",
          "to_wallet"}, {"reason"})]

PlanTypes ==
    [ExecutableOrderPlan |-> Object({"schema_version", "plan_id", "intent_id", "version", "plan_hash",
          "account", "channel", "economic", "basis", "authorization_ttl_seconds", "created_at", "expires_at"},
          {}),
     OrderEconomics |-> Object({"kind", "product", "symbol", "side", "position_side", "position_mode",
          "order_type", "qty", "reduce_only", "close_position", "protection", "max_naked_seconds"}, {"price",
          "time_in_force", "leverage", "margin_type", "trigger_price", "working_type"}),
     Protection |-> Object({"take_profits"}, {"stop"}),
     ProtectionLeg |-> Object({"order_type", "trigger_price", "working_type", "close_position"}, {"price",
          "qty"}),
     ProtectEconomics |-> Object({"kind", "product", "symbol", "position_side", "legs", "replace_order_ids"},
          {}),
     CancelEconomics |-> Object({"kind", "product", "symbol"}, {"exchange_order_id", "client_order_id"}),
     TransferEconomics |-> Object({"kind", "asset", "amount", "from_account", "from_wallet", "to_account",
          "to_wallet"}, {}),
     PlanBasis |-> Object({"notes"}, {"filters", "sizing", "account_version", "market_ref",
          "position_mode_observed", "policy_version"}),
     SymbolFilters |-> Object({"tick_size", "step_size", "min_qty", "min_notional", "observed_at"},
          {"max_qty", "price_precision", "qty_precision"}),
     SizingBasis |-> Object({"method", "raw_qty", "rounding"}, {"equity", "risk_pct", "stop_distance",
          "reference_price", "position_qty_before"}),
     MarketRef |-> Object({"observed_at"}, {"mark_price", "last_price"})]

PolicyTypes ==
    [ExecPolicy |-> Object({"schema_version", "version", "updated_at", "mode", "authority", "emergency_stop",
          "live_capped_enabled", "symbol_allowlist", "product_allowlist", "caps", "main_account", "canary"},
          {}),
     Caps |-> Object({"max_leverage", "risk_pct_per_trade", "max_order_notional", "max_position_notional",
          "max_daily_opens", "daily_loss_stop_pct", "symbol_cooldown_seconds", "max_naked_seconds",
          "account_truth_max_age_ms", "market_max_age_ms", "authorization_ttl_market_seconds",
          "authorization_ttl_limit_seconds", "max_price_deviation_bps", "ntp_drift_block_ms",
          "ntp_drift_halt_ms"}, {}),
     MainAccountPolicy |-> Object({"manual_trading_enabled", "transfers_enabled", "withdraw_enabled"}, {}),
     CanaryPolicy |-> Object({"enabled"}, {"max_loss_quote", "max_notional_quote", "max_leverage",
          "funded_balance_quote"})]

EffectTypes ==
    [PositionEffect |-> Object({"schema_version", "effect_id", "intent_id", "plan_id", "kind", "account",
          "status", "filled_qty", "remaining_qty", "remaining_canceled", "protection_required",
          "protection_confirmed", "protection_order_ids", "evaluated_at"}, {"symbol", "target_qty",
          "avg_fill_price", "first_fill_at", "protection_confirmed_at", "naked_seconds",
          "compensation_close_attempt_id", "position_qty_after", "exchange_ref", "failure_reason"})]

RpcTypes ==
    [RpcRequest |-> Object({"jsonrpc", "id", "method", "params"}, {}),
     RpcSuccess |-> Object({"jsonrpc", "id", "result"}, {}),
     RpcFailure |-> Nullable(Object({"jsonrpc", "id", "error"}, {}), {"id"}),
     RpcError |-> Object({"code", "message", "data"}, {}),
     RpcErrorData |-> Object({"kind", "retryable"}, {"details"}),
     RpcNotification |-> Object({"jsonrpc", "method", "params"}, {}),
     ChannelHealth |-> Object({"state"}, {"detail", "last_ok_at"}),
     HealthParams |-> Object({}, {}),
     Channels |-> Object({"main", "sub"}, {}),
     HealthResult |-> Object({"ok", "version", "writer_instance_id", "lease_epoch", "started_at", "now",
          "db_ok", "mode", "halted", "open_intents", "unknown_attempts", "channels"}, {})]

IntentCallTypes ==
    [IntentProposeParams |-> Object({"account", "principal", "surface", "params"}, {"session_id", "run_id",
          "origin", "idempotency_key", "ttl_seconds"}),
     IntentProposeResult |-> Object({"intent", "gate_rejections"}, {"plan"}),
     IntentGetParams |-> Object({"intent_id"}, {}),
     IntentBundle |-> Object({"intent", "attempts", "orders", "fills"}, {"plan", "authorization", "effect"}),
     IntentListParams |-> Object({}, {"status", "account", "kind", "since", "limit"}),
     IntentListResult |-> Object({"intents"}, {}),
     IntentAuthorizeParams |-> Object({"intent_id", "plan_hash", "principal", "surface", "confirm_echo"},
          {"actor_ref"}),
     IntentAuthorizeResult |-> Object({"intent", "authorization"}, {}),
     IntentRejectParams |-> Object({"intent_id", "reason", "principal", "surface"}, {}),
     IntentRejectResult |-> Object({"intent"}, {}),
     AccountSnapshotParams |-> Object({"account"}, {"max_age_ms", "force_refresh"}),
     AccountSnapshotResult |-> Object({"snapshot"}, {})]

StatusTypes ==
    [OauthStatus |-> Object({"state", "has_refresh"}, {"expires_at", "scopes", "client_id", "obtained_at"}),
     MainKeyPermissions |-> Object({}, {"reading", "spot_margin_trading", "futures", "universal_transfer",
          "withdrawals", "ip_restricted"}),
     MainChannelStatus |-> Object({"configured", "user_stream", "rest_gate"}, {"key_fingerprint",
          "permissions", "time_offset_ms", "last_verified_at"}),
     SubChannelStatus |-> Object({"configured", "oauth", "mcp_session", "drift"}, {"tools_hash",
          "tools_pinned_hash", "tools_count", "subaccount_ref"}),
     ExchangeStatusParams |-> Object({}, {}),
     WriterInfo |-> Object({"instance_id", "lease_epoch", "since"}, {}),
     ExchangeStatusResult |-> Object({"main", "sub", "writer"}, {})]

PolicyCallTypes ==
    [PolicyGetParams |-> Object({}, {}),
     PolicyGetResult |-> Object({"policy"}, {}),
     PolicyConfirm |-> Object({"mode", "authority"}, {}),
     PolicySetParams |-> Object({"policy", "confirm", "principal", "surface"}, {}),
     PolicySetResult |-> Object({"policy"}, {}),
     EmergencyStopParams |-> Object({"mode", "reason", "principal", "surface"}, {}),
     EmergencyStopResult |-> Object({"policy"}, {}),
     EventsSubscribeParams |-> Object({}, {"since_seq"}),
     EventsSubscribeResult |-> Object({"ok", "current_seq"}, {})]

CredentialTypes ==
    [OauthStartParams |-> Object({}, {"scopes", "open_browser"}),
     OauthStartResult |-> Object({"authorize_url", "state", "expires_at"}, {}),
     OauthStatusParams |-> Object({}, {}),
     OauthStatusResult |-> Object({"oauth"}, {}),
     OauthRevokeParams |-> Object({"principal", "surface"}, {}),
     OauthRevokeResult |-> Object({"ok"}, {}),
     SealedSecret |-> Object({"alg", "ephemeral_public_key", "iv", "ciphertext"}, {}),
     CredentialsPublicKeyParams |-> Object({}, {}),
     CredentialsPublicKeyResult |-> Object({"alg", "public_key", "expires_at"}, {}),
     CredentialsSetParams |-> Object({"kind", "sealed", "principal", "surface"}, {}),
     CredentialsSetResult |-> Object({"ok"}, {"key_fingerprint", "permissions"}),
     CredentialsStatusParams |-> Object({}, {}),
     MainKeyStatus |-> Object({"present"}, {"key_fingerprint", "permissions", "last_verified_at"}),
     CredentialsStatusResult |-> Object({"main_api_key", "oauth"}, {})]

\* The alternatives of the unions, and the literal type that tells each from the
\* others.
UnionTypes ==
    [SizeByHint |-> Object({"mode", "hint"}, {}),
     SizeByQty |-> Object({"mode", "qty"}, {}),
     SizeByNotional |-> Object({"mode", "notional"}, {}),
     MarketEntry |-> Object({"type"}, {"max_slippage_bps"}),
     LimitEntry |-> Object({"type", "price"}, {"time_in_force", "post_only"})]

TypeTags ==
    [OpenParams |-> "open", CloseParams |-> "close", CancelOrderParams |-> "cancel_order",
     ProtectParams |-> "protect", TransferParams |-> "transfer",
     OrderEconomics |-> "order", ProtectEconomics |-> "protect", CancelEconomics |-> "cancel",
     TransferEconomics |-> "transfer",
     SizeByHint |-> "hint", SizeByQty |-> "qty", SizeByNotional |-> "notional",
     MarketEntry |-> "market", LimitEntry |-> "limit", RpcNotification |-> "exec.event"]

types ==
    AccountTypes @@ FillTypes @@ AttemptTypes @@ ObservationTypes @@ IntentTypes @@ PlanTypes @@ PolicyTypes
    @@ EffectTypes @@ RpcTypes @@ IntentCallTypes @@ StatusTypes @@ PolicyCallTypes @@ CredentialTypes @@
    UnionTypes

TradeEnumTypes ==
    [AccountRef |-> {"main", "sub"},
     Channel |-> {"rest", "mcp"},
     Consistency |-> {"consistent", "inconsistent", "unavailable"},
     Completeness |-> {"complete", "partial", "missing"},
     ObservationSource |-> {"rest", "ws", "mcp", "cache"},
     ErrorKind |-> {"invalid_params", "not_found", "forbidden", "halted", "stale", "unavailable", "conflict",
          "expired", "invalid_transition", "gate_rejected", "exchange_rejected", "unauthorized",
          "rate_limited", "transport_ambiguous", "internal"},
     Wallet |-> {"spot", "usdm_futures"},
     Product |-> {"usdm_perp", "spot"},
     PositionSide |-> {"both", "long", "short"},
     MarginType |-> {"isolated", "cross"},
     Side |-> {"buy", "sell"},
     OrderType |-> {"market", "limit", "stop_market", "stop_limit", "take_profit_market", "take_profit_limit",
          "trailing_stop_market"},
     ExchangeOrderStatus |-> {"new", "partially_filled", "filled", "canceled", "expired", "rejected"},
     TimeInForce |-> {"gtc", "ioc", "fok", "gtx"},
     WorkingType |-> {"mark_price", "contract_price"},
     OrderOrigin |-> {"local", "foreign", "unknown"},
     PositionMode |-> {"one_way", "hedge"},
     Leg |-> {"entry", "stop", "take_profit", "cancel", "close", "transfer"},
     AttemptStage |-> {"before_submit", "submitted", "result_persisted"},
     AttemptResult |-> {"pending", "acked", "rejected", "unknown", "not_received"},
     Principal |-> {"user", "model", "cron", "scheduler", "mcp_client"},
     Surface |-> {"rpc", "model", "mcp", "internal"},
     AuthorizationStatus |-> {"active", "consumed", "expired", "invalidated", "revoked"},
     IntentKind |-> {"open", "close", "cancel_order", "protect", "transfer"}]

StatusEnumTypes ==
    [IntentStatus |-> {"proposed", "rejected", "awaiting_approval", "authorized", "recorded", "dispatching",
          "execution_unknown", "executing", "completed", "canceled", "expired"},
     EffectStatus |-> {"pending", "satisfied", "failed"},
     PolicyMode |-> {"run", "stop_opening", "flatten_only", "halt_all"},
     Authority |-> {"observe", "draft", "paper", "live_capped"}]

MethodTypes ==
    {"exec.health", "exec.intent.propose", "exec.intent.get", "exec.intent.list", "exec.intent.authorize",
     "exec.intent.reject", "exec.account.snapshot", "exec.exchange.status", "exec.policy.get",
     "exec.policy.set", "exec.emergency_stop", "exec.events.subscribe", "exec.oauth.start",
     "exec.oauth.status", "exec.oauth.revoke", "exec.credentials.public_key", "exec.credentials.set",
     "exec.credentials.status"}

EventNameTypes ==
    {"intent.created", "intent.rejected", "intent.awaiting_approval", "intent.authorized", "intent.recorded",
     "intent.dispatching", "intent.executing", "intent.execution_unknown", "intent.completed",
     "intent.canceled", "intent.expired", "plan.materialized", "authorization.granted",
     "authorization.consumed", "authorization.invalidated", "authorization.expired", "authorization.revoked",
     "attempt.submitting", "attempt.submitted", "attempt.resolved", "order.observed", "fill.observed",
     "effect.evaluated", "protection.confirmed", "protection.missing", "protection.compensated",
     "account.updated", "account.stale", "account.inconsistent", "foreign_activity.detected",
     "exchange.auth.expiring", "exchange.auth.expired", "exchange.auth.revoked", "exchange.auth.refreshed",
     "exchange.tools.drift", "exchange.channel.degraded", "exchange.channel.recovered", "policy.changed",
     "halt.changed", "writer.fenced", "corruption.detected", "health"}

\* Enumerations that are written out at a member of an interface.
MemberEnumTypes ==
    [AuthorizedBy |-> {"user", "policy"},
     SizeHint |-> {"full", "half", "quarter"},
     ProtectionOrderType |-> {"stop_market", "stop_limit", "take_profit_market", "take_profit_limit"},
     SizingMethod |-> {"risk_pct_by_stop_distance", "explicit_qty", "explicit_notional", "pct_of_position"},
     Rounding |-> {"down"},
     ChannelState |-> {"ok", "degraded", "down", "unconfigured"},
     OauthState |-> {"missing", "fresh", "expiring", "expired", "revoked"},
     UserStreamState |-> {"connected", "stale", "disconnected", "unconfigured"},
     RestGateState |-> {"ready", "wait", "banned", "unconfigured"},
     McpSessionState |-> {"active", "none", "lost"},
     EmergencyMode |-> {"stop_opening", "flatten_only", "halt_all"},
     CredentialKind |-> {"main_api_key"}]

TypeEnums ==
    TradeEnumTypes @@ StatusEnumTypes @@ MemberEnumTypes @@
    [Method |-> MethodTypes, EventName |-> EventNameTypes]
=============================================================================
