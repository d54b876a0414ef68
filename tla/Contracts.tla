------------------------------ MODULE Contracts ------------------------------
(***************************************************************************)
(* What the gateway (TypeScript) and execd (Rust) must agree on although   *)
(* each has its own code for it: the shape of every message and its        *)
(* canonical form, the frames of the socket and how a stream of bytes is   *)
(* cut into them, the four status machines, the codes of errors, the       *)
(* fields a confirmation echoes and the ids of orders.                     *)
(***************************************************************************)
EXTENDS ContractTypes, ContractStructs, Integers, Sequences, FiniteSets, SequencesExt

CONSTANTS MaxFrame,     \* bytes a line may have
          MaxBytes,     \* bytes a run sends
          MaxChunk      \* bytes that arrive at once

VARIABLES wire,         \* the message on its way, [at, origin, type, first, message, value]
          lifecycle,    \* a status machine at work, [machine, state, past]
          stream        \* bytes sent and what both decoders made of them

contractVars == <<wire, lifecycle, stream>>

--------------------------------------------------------------------------
(* Messages.                                                               *)

\* The rules over several members that the schema states and the structs do
\* not: the values of execd meet them, because it made them that way.
Rule(t, tag, fields) ==
    /\ t = "OrderRef" => fields # {}
    /\ t = "CancelEconomics" => {"exchange_order_id", "client_order_id"} \cap fields # {}
    /\ t = "Authorization" /\ tag = "user" => {"confirm_echo", "principal", "surface"} \subseteq fields

schemaValid(t, m) ==
    LET o == schemas[t]
    IN  /\ o.required \subseteq m.fields /\ m.fields \subseteq o.required \cup o.optional
        /\ m.nulls \subseteq o.nullable
        /\ t \in DOMAIN SchemaTags => m.tag = SchemaTags[t]
        /\ t = "RpcRequest" => m.tag \in MethodSchema
        /\ Rule(t, m.tag, m.fields \ m.nulls)

\* What the compiler admits for a value of a type.
Typed(t, m) ==
    LET o == types[t]
    IN  /\ o.required \subseteq m.fields /\ m.fields \subseteq o.required \cup o.optional
        /\ m.nulls \subseteq o.nullable
        /\ t \in DOMAIN TypeTags => m.tag = TypeTags[t]
        /\ t = "RpcRequest" => m.tag \in MethodTypes

StructOf(t) ==
    CASE t \in {"BalancesComponent", "PositionsComponent", "OrdersComponent", "PositionModeComponent",
                "FillsComponent", "MarginComponent"} -> structs["Component"]
      [] t \in {"HealthParams", "ExchangeStatusParams", "PolicyGetParams", "OauthStatusParams",
                "CredentialsPublicKeyParams", "CredentialsStatusParams"} -> structs["Empty"]
      [] OTHER -> structs[t]

\* The member that carries the tag belongs to the enum, not to the struct.
TagFields(t) ==
    CASE t \in DOMAIN IntentParams \cup DOMAIN PlanEconomics -> {"kind"}
      [] t \in {"SizeByHint", "SizeByQty", "SizeByNotional"} -> {"mode"}
      [] t \in {"MarketEntry", "LimitEntry"} -> {"type"}
      [] OTHER -> {}

Deserializes(t, m) ==
    LET s == StructOf(t)
        f == m.fields \ TagFields(t)
    IN  /\ TagFields(t) \subseteq m.fields
        /\ t \in DOMAIN RustTags => m.tag = RustTags[t]
        /\ t = "RpcRequest" => m.tag \in Method
        /\ s.plain \subseteq f \ m.nulls /\ f \subseteq s.plain \cup s.option \cup s.bare

\* A value holds its tag and those of its options that are there.
Deserialized(t, m) == [tag |-> m.tag, some |-> (m.fields \ m.nulls) \cap (StructOf(t).option \cup StructOf(t).bare)]

\* A careless edit: an option loses its skip_serializing_if.
SerializedWithNulls(t, v) ==
    LET s == StructOf(t)
    IN  [tag |-> v.tag, fields |-> s.plain \cup s.option \cup s.bare \cup TagFields(t), nulls |-> (s.option \cup s.bare) \ v.some]

Serialized(t, v) ==
    LET s == StructOf(t)
    IN  [tag |-> v.tag, fields |-> s.plain \cup (s.option \cap v.some) \cup s.bare \cup TagFields(t), nulls |-> s.bare \ v.some]

\* canonicalJson and canonical_json drop the members that are null and sort the
\* others: what is left of a message is its set of members.
canonicalJson(m) == <<m.tag, m.fields \ m.nulls>>
canonical_json(t, v) ==
    LET m == Serialized(t, v)
    IN  <<m.tag, m.fields \ m.nulls>>

ConfirmByKind ==
    [OrderEconomics |-> {"symbol", "side", "qty", "order_type", "price", "trigger_price", "leverage", "reduce_only"},
     ProtectEconomics |-> {"symbol", "position_side", "legs"},
     CancelEconomics |-> {"symbol", "exchange_order_id", "client_order_id"},
     TransferEconomics |-> {"asset", "amount", "from_account", "to_account"}]

confirmFields(t, m) == {"plan_hash"} \cup (ConfirmByKind[t] \cap (m.fields \ m.nulls))
confirm_fields(t, v) == {"plan_hash"} \cup (ConfirmByKind[t] \cap (Serialized(t, v).fields \ Serialized(t, v).nulls))
confirm_echo_matches(expected, echo) == expected \subseteq echo /\ echo \subseteq expected

--------------------------------------------------------------------------
(* Frames, told apart by the members they have.                            *)

FrameTypes == {"RpcRequest", "RpcSuccess", "RpcFailure", "RpcNotification"}

isRpcRequest(m) == {"id", "method", "params"} \subseteq m.fields /\ m.tag # "exec.event"
isRpcSuccess(m) == {"id", "result"} \subseteq m.fields /\ {"error", "method"} \cap m.fields = {}
isRpcFailure(m) == {"id", "error"} \subseteq m.fields
isRpcNotification(m) == "id" \notin m.fields /\ {"method", "params"} \subseteq m.fields /\ m.tag = "exec.event"

from_value(m) ==
    CASE {"method", "id"} \subseteq m.fields -> "RpcRequest"
      [] "method" \in m.fields /\ "id" \notin m.fields -> "RpcNotification"
      [] "method" \notin m.fields /\ "result" \in m.fields -> "RpcSuccess"
      [] {"method", "result"} \cap m.fields = {} /\ "error" \in m.fields -> "RpcFailure"
      [] OTHER -> "refused"

FrameIs(t, m) ==
    /\ isRpcRequest(m) <=> t = "RpcRequest"
    /\ isRpcSuccess(m) <=> t = "RpcSuccess"
    /\ isRpcFailure(m) <=> t = "RpcFailure"
    /\ isRpcNotification(m) <=> t = "RpcNotification"
    /\ from_value(m) = t

--------------------------------------------------------------------------
(* A message goes from the gateway to execd and back, or from execd to the *)
(* gateway.                                                                *)

NoMessage == [tag |-> "", fields |-> {}, nulls |-> {}]
NoValue == [tag |-> "", some |-> {}]
NothingSent == [at |-> "idle", origin |-> "", type |-> "", first |-> NoMessage, message |-> NoMessage, value |-> NoValue]

\* The literals of the members that decide: the tag of a union, the method of a
\* request, who authorized.
Literals(t) ==
    CASE t \in DOMAIN TypeTags -> {TypeTags[t]}
      [] t = "RpcRequest" -> MethodTypes
      [] t = "Authorization" -> {"user", "policy"}
      [] OTHER -> {""}

GatewaySends ==
    /\ wire.at = "idle"
    /\ \E t \in DOMAIN types :
          \E tag \in Literals(t), optional \in SUBSET types[t].optional, nulls \in SUBSET types[t].nullable :
             LET m == [tag |-> tag, fields |-> types[t].required \cup optional, nulls |-> nulls]
             IN  /\ Rule(t, tag, m.fields \ nulls)
                 /\ wire' = [NothingSent EXCEPT !.at = "sent", !.origin = "gateway", !.type = t, !.first = m, !.message = m]

ExecdReads ==
    /\ wire.at = "sent"
    /\ wire' = IF Deserializes(wire.type, wire.message)
               THEN [wire EXCEPT !.at = "held", !.value = Deserialized(wire.type, wire.message)]
               ELSE [wire EXCEPT !.at = "refused"]

ExecdMakes ==
    /\ wire.at = "idle"
    /\ \E t \in DOMAIN schemas :
          \E tag \in Literals(t), some \in SUBSET (StructOf(t).option \cup StructOf(t).bare) :
             /\ Rule(t, tag, some)
             /\ wire' = [NothingSent EXCEPT !.at = "held", !.origin = "execd", !.type = t, !.value = [tag |-> tag, some |-> some]]

ExecdWrites ==
    /\ wire.at = "held"
    /\ wire' = [wire EXCEPT !.at = "written", !.message = Serialized(wire.type, wire.value)]

GatewayReads ==
    /\ wire.at = "written"
    /\ wire' = [wire EXCEPT !.at = IF schemaValid(wire.type, wire.message) THEN "accepted" ELSE "refused"]

WireNext == GatewaySends \/ ExecdReads \/ ExecdMakes \/ ExecdWrites \/ GatewayReads

\* Nothing either side sends is refused by the other; the schemas accept what
\* the gateway's types let it build, and what they accept fits its types; a
\* message that went through execd has the canonical form it had, so both
\* compute one plan_hash and one account_version; the confirmation the gateway
\* derives from a plan is the one execd expects; and a frame is taken for what
\* it is on both sides.
MessagesAgree ==
    /\ wire.at # "refused"
    /\ wire.at = "sent" => schemaValid(wire.type, wire.message)
    /\ wire.at = "accepted" => Typed(wire.type, wire.message)
    /\ wire.at = "accepted" =>
          /\ wire.origin = "gateway" => canonicalJson(wire.message) = canonicalJson(wire.first)
          /\ canonicalJson(wire.message) = canonical_json(wire.type, wire.value)
          /\ wire.type \in DOMAIN PlanEconomics =>
                confirm_echo_matches(confirm_fields(wire.type, wire.value), confirmFields(wire.type, wire.message))
    /\ wire.at \in {"sent", "accepted"} /\ wire.type \in FrameTypes => FrameIs(wire.type, wire.message)

--------------------------------------------------------------------------
(* The status machines, as lists of <<from, event, to>>.                   *)

AttemptResultTable ==
    [initial |-> "pending", terminal |-> {"acked", "rejected", "not_received"},
     transitions |-> <<<<"pending", "exchange_acked", "acked">>, <<"pending", "exchange_rejected", "rejected">>,
                       <<"pending", "ambiguous", "unknown">>, <<"pending", "never_submitted", "not_received">>,
                       <<"unknown", "reconciled_found", "acked">>,
                       <<"unknown", "reconciled_rejected", "rejected">>,
                       <<"unknown", "confirmed_not_received", "not_received">>>>]

AuthorizationStatusTable ==
    [initial |-> "active", terminal |-> {"consumed", "expired", "invalidated", "revoked"},
     transitions |-> <<<<"active", "dispatched", "consumed">>, <<"active", "ttl_elapsed", "expired">>,
                       <<"active", "plan_changed", "invalidated">>,
                       <<"active", "regate_rejected", "invalidated">>,
                       <<"active", "account_version_changed", "invalidated">>,
                       <<"active", "user_revoked", "revoked">>, <<"active", "emergency_stop", "revoked">>>>]

ExchangeOrderStatusTable ==
    [initial |-> "new", terminal |-> {"filled", "canceled", "expired", "rejected"},
     transitions |-> <<<<"new", "partial_fill", "partially_filled">>, <<"new", "fill", "filled">>,
                       <<"new", "cancel", "canceled">>, <<"new", "expire", "expired">>,
                       <<"new", "reject", "rejected">>, <<"partially_filled", "fill", "filled">>,
                       <<"partially_filled", "cancel", "canceled">>, <<"partially_filled", "expire", "expired">>>>]

IntentStatusTable ==
    [initial |-> "proposed", terminal |-> {"rejected", "recorded", "completed", "canceled", "expired"},
     transitions |-> <<<<"proposed", "gate_rejected", "rejected">>,
                       <<"proposed", "plan_materialized", "awaiting_approval">>,
                       <<"proposed", "policy_auto_authorized", "authorized">>,
                       <<"proposed", "observe_only", "recorded">>,
                       <<"proposed", "proposal_ttl_elapsed", "expired">>,
                       <<"awaiting_approval", "user_approved", "authorized">>,
                       <<"awaiting_approval", "approval_ttl_elapsed", "expired">>,
                       <<"awaiting_approval", "user_rejected", "rejected">>,
                       <<"awaiting_approval", "regate_rejected", "rejected">>,
                       <<"authorized", "executor_claimed", "dispatching">>,
                       <<"authorized", "regate_rejected", "rejected">>,
                       <<"authorized", "authorization_ttl_elapsed", "expired">>,
                       <<"authorized", "halted_before_dispatch", "canceled">>,
                       <<"dispatching", "exchange_acked", "executing">>,
                       <<"dispatching", "exchange_rejected", "rejected">>,
                       <<"dispatching", "regate_rejected", "rejected">>,
                       <<"dispatching", "submit_ambiguous", "execution_unknown">>,
                       <<"dispatching", "halted_before_submit", "canceled">>,
                       <<"execution_unknown", "reconciled_found", "executing">>,
                       <<"execution_unknown", "confirmed_not_received", "canceled">>,
                       <<"executing", "effect_satisfied", "completed">>,
                       <<"executing", "cancel_confirmed", "canceled">>,
                       <<"executing", "expired_on_exchange", "canceled">>,
                       <<"executing", "compensation_close", "canceled">>>>]

Machines ==
    [attempt_result |-> AttemptResultTable, authorization_status |-> AuthorizationStatusTable,
     exchange_order_status |-> ExchangeOrderStatusTable, intent_status |-> IntentStatusTable]

StatusOf == [attempt_result |-> "AttemptResult", authorization_status |-> "AuthorizationStatus",
             exchange_order_status |-> "ExchangeOrderStatus", intent_status |-> "IntentStatus"]

Edges(k) == ToSet(Machines[k].transitions)
Events(k) == {e[2] : e \in Edges(k)}

\* TypeScript finds the first edge of the table, the map of Rust keeps the last.
nextState(k, s, ev) ==
    LET t == Machines[k].transitions
        f == SelectInSeq(t, LAMBDA e : e[1] = s /\ e[2] = ev)
    IN  IF f = 0 THEN "" ELSE t[f][3]

next_state(k, s, ev) ==
    LET t == Machines[k].transitions
        f == SelectLastInSeq(t, LAMBDA e : e[1] = s /\ e[2] = ev)
    IN  IF f = 0 THEN "" ELSE t[f][3]

canTransition(k, s, to) == \E e \in Edges(k) : e[1] = s /\ e[3] = to

isTerminal(k, s) == s \in Machines[k].terminal

StatusChanges ==
    \E ev \in Events(lifecycle.machine) :
       LET to == next_state(lifecycle.machine, lifecycle.state, ev)
       IN  /\ to # ""
           /\ lifecycle' = [lifecycle EXCEPT !.state = to, !.past = @ \cup {lifecycle.state}]

\* The states both sides know, leave in the same way, and leave unless terminal.
Agreed ==
    [k \in DOMAIN Machines |->
        {s \in SchemaEnums[StatusOf[k]] \cap RustEnums[StatusOf[k]] :
            /\ \A ev \in Events(k) : nextState(k, s, ev) = next_state(k, s, ev)
            /\ isTerminal(k, s) <=> \A to \in SchemaEnums[StatusOf[k]] : ~canTransition(k, s, to)}]

\* Both sides follow a machine the same way; its states are those of the enum;
\* it stops in its terminal states and nowhere else; and a status never comes
\* back, so an observation in the wrong order is not a legal change.
MachinesAgree ==
    /\ lifecycle.state \in Agreed[lifecycle.machine]
    /\ lifecycle.state \notin lifecycle.past

--------------------------------------------------------------------------
(* Bytes: "x" is a digit, "s" a blank, "r" a carriage return and "n" the   *)
(* end of a line.  A line of digits is a number, one with a blank between  *)
(* digits is no JSON.                                                      *)

Bytes == {"x", "s", "r", "n"}

Blank(line) == \A i \in DOMAIN line : line[i] # "x"
Parses(line) == ~ \E i, j, h \in DOMAIN line : i < j /\ j < h /\ line[i] = "x" /\ line[j] # "x" /\ line[h] = "x"
JsonOf(line) == Len(SelectSeq(line, LAMBDA b : b = "x"))
StripCr(line) == IF line # <<>> /\ Last(line) = "r" THEN Front(line) ELSE line

\* The complete lines of some bytes, and what follows the last of them.
Ends(bytes) == SetToSortSeq({i \in DOMAIN bytes : bytes[i] = "n"}, LAMBDA i, j : i < j)
LinesOf(bytes) ==
    LET e == Ends(bytes)
    IN  [i \in DOMAIN e |-> SubSeq(bytes, (IF i = 1 THEN 0 ELSE e[i - 1]) + 1, e[i] - 1)] \o <<>>
RestOf(bytes) ==
    LET e == Ends(bytes)
    IN  SubSeq(bytes, (IF e = <<>> THEN 0 ELSE Last(e)) + 1, Len(bytes))

Frames(lines) == [i \in DOMAIN lines |-> JsonOf(lines[i])] \o <<>>

\* NdjsonDecoder: a line that is too long or no JSON throws, and the frames of
\* this chunk are lost with the connection.
push(d, chunk) ==
    LET b == d.buffer \o chunk
        lines == LinesOf(b)
        full == SelectSeq(lines, LAMBDA l : ~Blank(l))
        bad == \/ \E i \in DOMAIN lines : Len(lines[i]) > MaxFrame \/ ~Parses(lines[i])
               \/ Len(RestOf(b)) > MaxFrame
    IN  IF d.failed THEN d
        ELSE IF bad THEN [d EXCEPT !.failed = TRUE]
        ELSE [d EXCEPT !.buffer = RestOf(b), !.frames = @ \o Frames(full)]

\* FrameDecoder, as the server uses it: push refuses an open line that is too
\* long and ends the connection; next_frame skips a blank line and answers a
\* line that is too long or no JSON with an error before it goes on.
push_and_drain(d, chunk) ==
    LET b == d.buffer \o chunk
        lines == LinesOf(b)
        full == SelectSeq([i \in DOMAIN lines |-> StripCr(lines[i])] \o <<>>, LAMBDA l : ~Blank(l))
        good(l) == Len(l) <= MaxFrame /\ Parses(l)
    IN  IF d.failed THEN d
        ELSE IF Len(RestOf(b)) > MaxFrame THEN [d EXCEPT !.failed = TRUE]
        ELSE [d EXCEPT !.buffer = RestOf(b), !.frames = @ \o Frames(SelectSeq(full, good)),
                       !.errors = @ + Len(SelectSeq(full, LAMBDA l : ~good(l)))]

Decoder == [buffer |-> <<>>, frames |-> <<>>, errors |-> 0, failed |-> FALSE]

ChunkArrives ==
    \E n \in 1..MaxChunk : \E chunk \in [1..n -> Bytes] :
       /\ Len(stream.sent) + n <= MaxBytes
       /\ stream' = [sent |-> stream.sent \o chunk, ts |-> push(stream.ts, chunk), rust |-> push_and_drain(stream.rust, chunk)]

\* However the bytes are cut into chunks: neither decoder fails on lines that
\* fit and are JSON, the frames are the lines in their order, none twice and
\* none left out, and execd answers each line it could not read.
DecodersAgree ==
    LET lines == LinesOf(stream.sent)
        full == SelectSeq(lines, LAMBDA l : ~Blank(l))
        clean == /\ \A i \in DOMAIN lines : Len(lines[i]) <= MaxFrame /\ Parses(lines[i])
                 /\ Len(RestOf(stream.sent)) <= MaxFrame
        frames == Frames(full)
    IN  /\ clean => ~stream.ts.failed /\ ~stream.rust.failed /\ stream.rust.errors = 0
        /\ ~stream.ts.failed => stream.ts.frames = frames
        /\ ~stream.rust.failed => Len(stream.rust.frames) + stream.rust.errors = Len(frames)
        /\ clean => stream.rust.frames = frames
        /\ IsPrefix(stream.ts.frames, frames)

--------------------------------------------------------------------------
(* Tables both sides read, and what each derives from them.                *)

ErrorCodes ==
    [invalid_params |-> -32602, internal |-> -32603, not_found |-> 1001, forbidden |-> 1002, halted |-> 1003,
     stale |-> 1004, unavailable |-> 1005, conflict |-> 1006, expired |-> 1007, invalid_transition |-> 1008,
     gate_rejected |-> 1009, exchange_rejected |-> 1010, unauthorized |-> 1011, rate_limited |-> 1012,
     transport_ambiguous |-> 1013]

kindForCode(c) == {k \in DOMAIN ErrorCodes : ErrorCodes[k] = c}

from_code(c) ==
    CASE kindForCode(c) # {} -> kindForCode(c)
      [] c \in {-32700, -32600, -32601} -> {"invalid_params"}
      [] OTHER -> {}

LegCodes == [entry |-> "e", stop |-> "s", take_profit |-> "t", cancel |-> "c", close |-> "x", transfer |-> "f"]

clientOrderId(intent12, leg, index, attempt) == <<"tg", intent12, <<LegCodes[leg], index>>, attempt>>
parse_local(id) ==
    [intent12 |-> id[2], leg |-> CHOOSE l \in DOMAIN LegCodes : LegCodes[l] = id[3][1], leg_index |-> id[3][2], attempt_no |-> id[4]]

\* Each value of an enumeration that crosses the socket is read on the other
\* side; a code of an error names one kind on both sides; and execd reads from
\* the id of an order the intent, leg and attempt it was made from.
TablesAgree ==
    /\ SchemaEnums = RustEnums /\ TypeEnums = SchemaEnums
    /\ DOMAIN ErrorCodes = SchemaEnums["ErrorKind"]
    /\ \A k \in DOMAIN ErrorCodes : kindForCode(ErrorCodes[k]) = {k} /\ from_code(ErrorCodes[k]) = {k}
    /\ DOMAIN LegCodes = SchemaEnums["Leg"]
    /\ \A l \in DOMAIN LegCodes, i \in 0..1, a \in 1..2 :
          parse_local(clientOrderId("i", l, i, a)) = [intent12 |-> "i", leg |-> l, leg_index |-> i, attempt_no |-> a]

--------------------------------------------------------------------------
ContractsInit ==
    /\ wire = NothingSent
    /\ lifecycle \in {[machine |-> k, state |-> Machines[k].initial, past |-> {}] : k \in DOMAIN Machines}
    /\ stream = [sent |-> <<>>, ts |-> Decoder, rust |-> Decoder]

\* The gateway and execd, which share no code, read each other: messages,
\* status machines, byte streams and tables (contracts of packages/contracts
\* and contracts-rs).
WireAgrees == MessagesAgree /\ MachinesAgree /\ DecodersAgree /\ TablesAgree
=============================================================================
