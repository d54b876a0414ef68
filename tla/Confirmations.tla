--------------------------- MODULE Confirmations ---------------------------
(***************************************************************************)
(* Human confirmation in the gateway: the one-time tokens of confirm.ts,   *)
(* and the operations of runtime.ts they guard - approving an intent and   *)
(* applying a settings proposal made in chat.  The chat agent, the person  *)
(* at the UI, the clock and a restart of the gateway interleave freely.    *)
(* Hashes are modelled as the value they hash (no collisions) and nonces   *)
(* as numbers that are never reused (16 random bytes).                     *)
(***************************************************************************)
EXTENDS Naturals, FiniteSets

CONSTANTS
    Intents,       \* ids of intents
    Proposals,     \* ids of workflow proposals
    Patches,       \* workflow patches the chat agent and the UI may send
    InitWorkflow,  \* the settings at start
    ConfirmTtl,    \* CONFIRM_TTL_MS, in clock ticks
    ProposalTtl,   \* PROPOSAL_TTL_MS, in clock ticks
    MaxNow,        \* bound: the clock stops here
    MaxTokens,     \* bound: confirm tokens issued in one behaviour
    MaxList        \* bound: symbols in a watch list

\* The workflow keys kept, one or two of each class of splitWorkflowPatch.
DirectKeys == {"narrate"}
ProposalKeys == {"watchlist"}
RefusedKeys == {"watchlist_max", "chat_requires_approval"}
WorkflowKeys == DirectKeys \cup ProposalKeys \cup RefusedKeys \cup {"paused"}

\* A watch list is represented by its length; the bound watchlist_max is at least 1.
Workflow == [watchlist : 1..MaxList, watchlist_max : 1..MaxList,
             paused : BOOLEAN, chat_requires_approval : BOOLEAN, narrate : BOOLEAN]

ASSUME BoundsAssumption ==
    /\ ConfirmTtl \in Nat \ {0} /\ ProposalTtl \in Nat \ {0}
    /\ MaxNow \in Nat /\ MaxTokens \in Nat /\ MaxList \in Nat \ {0}
ASSUME WorkflowAssumption == InitWorkflow \in Workflow /\ InitWorkflow.watchlist <= InitWorkflow.watchlist_max
ASSUME PatchesAssumption == \A p \in Patches :
    /\ DOMAIN p \subseteq WorkflowKeys
    /\ "watchlist" \in DOMAIN p => p["watchlist"] \in 0..MaxList
    /\ "watchlist_max" \in DOMAIN p => p["watchlist_max"] \in 1..MaxList
    /\ \A k \in DOMAIN p \cap {"paused", "chat_requires_approval", "narrate"} : p[k] \in BOOLEAN

VARIABLES
    now,         \* Date.now()
    tokens,      \* ConfirmationStore.tokens
    minted,      \* number of tokens issued so far; the last nonce
    intents,     \* intent id -> status
    threadOpen,  \* intent id -> is its thread open
    proposals,   \* proposal id -> WorkflowProposal
    workflow,    \* this.workflow (persisted)
    halted,      \* this.halted (persisted)
    shown,       \* history: every token issued, with what its dialogue showed
    used,        \* history: how often each nonce was consumed successfully
    ledger,      \* history: every approval and application that took effect
    touched      \* history: the keys a person changed, directly or by confirming

vars == <<now, tokens, minted, intents, threadOpen, proposals, workflow, halted, shown, used, ledger, touched>>

NoNonce == 0
Lesser(a, b) == IF a < b THEN a ELSE b
Field(p, k, default) == IF k \in DOMAIN p THEN p[k] ELSE default

-----------------------------------------------------------------------------
\* applyWorkflowPatch on the kept keys.  A list is cut to the current maximum,
\* an empty one is an error and leaves the field; a lower maximum cuts the list.
PatchErrors(p) == "watchlist" \in DOMAIN p /\ p["watchlist"] = 0

applyWorkflowPatch(w, p) ==
    LET list == IF "watchlist" \in DOMAIN p /\ p["watchlist"] # 0
                THEN Lesser(p["watchlist"], w.watchlist_max) ELSE w.watchlist
        max  == Field(p, "watchlist_max", w.watchlist_max)
    IN  [watchlist |-> Lesser(list, max),
         watchlist_max |-> max,
         paused |-> Field(p, "paused", w.paused),
         chat_requires_approval |-> Field(p, "chat_requires_approval", w.chat_requires_approval),
         narrate |-> Field(p, "narrate", w.narrate)]

Restricted(f, ks) == [k \in ks |-> f[k]]

\* Mutant: an unlisted key is applied directly instead of refused.
DirectUnlessProposal(p) ==
    {k \in DOMAIN p : k \notin ProposalKeys /\ (k = "paused" => p[k])}

\* splitWorkflowPatch: which keys of a chat patch take effect at once, and which
\* only become a proposal.  Pausing is direct, unpausing is not; the rest is refused.
DirectPart(p) == {k \in DOMAIN p : k \in DirectKeys \/ (k = "paused" /\ p[k])}
ProposalPart(p) == {k \in DOMAIN p : k \in ProposalKeys \/ (k = "paused" /\ ~p[k])}

\* Keys whose values a patch can change: shrinking the maximum also cuts the list.
Affects(p) == DOMAIN p \cup (IF "watchlist_max" \in DOMAIN p THEN {"watchlist"} ELSE {})

-----------------------------------------------------------------------------
\* ConfirmationStore.  sweep() drops what has expired.
sweep(ts) == {t \in ts : t.expires > now}

\* issue(): a fresh nonce bound to the target and to the fingerprint of its content.
issue(kind, target, fp) ==
    /\ minted < MaxTokens
    /\ LET t == [nonce |-> minted + 1, kind |-> kind, target |-> target,
                 fingerprint |-> fp, expires |-> now + ConfirmTtl]
       IN  /\ tokens' = sweep(tokens) \cup {t}
           /\ shown' = shown \cup {t}
    /\ minted' = minted + 1
    /\ UNCHANGED used

\* Mutant: the content behind the token is not compared.
consumeTargetOnly(n, kind, target, fp) ==
    LET hit == {t \in tokens : t.nonce = n /\ t.expires > now /\ t.kind = kind /\ t.target = target}
    IN  [ok |-> hit # {}, left |-> IF n = NoNonce THEN tokens ELSE sweep(tokens) \ hit]

\* consume(): the nonce is live and was issued for this very content.  A match is
\* deleted, a mismatch keeps the token, what has expired is swept; without a nonce
\* nothing happens at all.
consume(n, kind, target, fp) ==
    LET hit == {t \in tokens : /\ t.nonce = n /\ t.expires > now
                               /\ t.kind = kind /\ t.target = target /\ t.fingerprint = fp}
    IN  [ok |-> hit # {}, left |-> IF n = NoNonce THEN tokens ELSE sweep(tokens) \ hit]

\* The history of successful consumptions.
Record(n, c) == used' = IF c.ok THEN [used EXCEPT ![n] = @ + 1] ELSE used

intentFingerprint(i) == <<i, intents[i]>>
\* The fingerprint of a proposal covers the current values of the keys it patches.
proposalFingerprint(p) == <<p, proposals[p].patch, Restricted(workflow, DOMAIN proposals[p].patch)>>

Accepted(by, n, kind, target, fp, result) ==
    [by |-> by, nonce |-> n, kind |-> kind, target |-> target, fingerprint |-> fp, at |-> now, result |-> result]

-----------------------------------------------------------------------------
NoProposal == [status |-> "none", patch |-> <<>>, after |-> <<>>, expires |-> 0]

Init ==
    /\ now = 0 /\ tokens = {} /\ minted = 0
    /\ intents = [i \in Intents |-> "none"]
    /\ threadOpen = [i \in Intents |-> FALSE]
    /\ proposals = [p \in Proposals |-> NoProposal]
    /\ workflow = InitWorkflow /\ halted = FALSE
    /\ used = [n \in 1..MaxTokens |-> 0]
    /\ shown = {} /\ ledger = {} /\ touched = {}

tokenVars == <<tokens, minted, shown, used>>
envVars == <<now, threadOpen, halted>>

Tick == now < MaxNow /\ now' = now + 1
        /\ UNCHANGED <<tokenVars, threadOpen, halted, intents, proposals, workflow, ledger, touched>>

\* halt() and resume(): the flag the approval path reads (what halting does is in TradeLoop).
ToggleHalt == halted' = ~halted
              /\ UNCHANGED <<tokenVars, now, threadOpen, intents, proposals, workflow, ledger, touched>>

\* A new intent waits for approval on an open thread (newIntent).
NewIntent(i) ==
    /\ intents[i] = "none"
    /\ intents' = [intents EXCEPT ![i] = "pending_approval"]
    /\ threadOpen' = [threadOpen EXCEPT ![i] = TRUE]
    /\ UNCHANGED <<tokenVars, now, halted, proposals, workflow, ledger, touched>>

\* The thread ends under a waiting intent (halt() does not resolve its intents).
ThreadEnds(i) ==
    /\ threadOpen[i]
    /\ threadOpen' = [threadOpen EXCEPT ![i] = FALSE]
    /\ UNCHANGED <<tokenVars, now, halted, intents, proposals, workflow, ledger, touched>>

issueIntentConfirmation(i) ==
    /\ intents[i] = "pending_approval"
    /\ issue("intent", i, intentFingerprint(i))
    /\ UNCHANGED <<envVars, intents, proposals, workflow, ledger, touched>>

\* What approveIntent still requires once the person or the switch has agreed.
MayExecute(i) == threadOpen[i] /\ ~halted /\ ~workflow.paused

Approve(i, by, n) ==
    /\ intents' = [intents EXCEPT ![i] = "approved"]
    /\ ledger' = ledger \cup {Accepted(by, n, "intent", i, intentFingerprint(i), "approved")}

\* approveIntent from the UI: the token is consumed first, so a closed thread, a
\* halt or a pause found afterwards burns it.
approveIntent(i, n) ==
    LET c == consume(n, "intent", i, intentFingerprint(i))
    IN  /\ intents[i] = "pending_approval"
        /\ tokens' = c.left /\ Record(n, c)
        /\ \/ c.ok /\ MayExecute(i) /\ Approve(i, "human", n)
           \/ ~(c.ok /\ MayExecute(i)) /\ UNCHANGED <<intents, ledger>>
        /\ UNCHANGED <<envVars, minted, shown, proposals, workflow, touched>>

\* approveIntent from chat (by: 'agent'): no token, allowed by the switch only.
approveIntentByAgent(i) ==
    /\ intents[i] = "pending_approval"
    /\ ~workflow.chat_requires_approval /\ MayExecute(i)
    /\ Approve(i, "agent", NoNonce)
    /\ UNCHANGED <<tokenVars, envVars, proposals, workflow, touched>>

\* rejectIntent, from the UI or from chat; it also cancels the thread.
rejectIntent(i) ==
    /\ intents[i] = "pending_approval"
    /\ intents' = [intents EXCEPT ![i] = "rejected"]
    /\ threadOpen' = [threadOpen EXCEPT ![i] = FALSE]
    /\ UNCHANGED <<tokenVars, now, halted, proposals, workflow, ledger, touched>>

\* POST /api/workflow, pause and resume: the person's own edit.
setWorkflow(p) ==
    /\ workflow' = applyWorkflowPatch(workflow, p)
    /\ touched' = touched \cup Affects(p)
    /\ UNCHANGED <<tokenVars, envVars, intents, proposals, ledger>>

\* proposeWorkflow: the proposal previews its result on today's settings.
NewProposal(w, part) ==
    [status |-> IF PatchErrors(part) THEN "rejected" ELSE "pending",
     patch |-> part, after |-> Restricted(applyWorkflowPatch(w, part), DOMAIN part),
     expires |-> now + ProposalTtl]

\* The chat tool set_workflow: the direct part takes effect, the rest is proposed.
chatSetWorkflow(p, patch) ==
    LET direct == applyWorkflowPatch(workflow, Restricted(patch, DirectPart(patch)))
    IN  /\ DirectPart(patch) \cup ProposalPart(patch) # {}
        /\ workflow' = direct
        /\ \/ ProposalPart(patch) = {} /\ proposals' = proposals
           \/ /\ ProposalPart(patch) # {} /\ proposals[p].status = "none"
              /\ proposals' = [proposals EXCEPT ![p] = NewProposal(direct, Restricted(patch, ProposalPart(patch)))]
        /\ UNCHANGED <<tokenVars, envVars, intents, ledger, touched>>

Usable(p) == proposals[p].status = "pending" /\ proposals[p].expires > now

issueProposalConfirmation(p) ==
    /\ Usable(p)
    /\ issue("workflow_proposal", p, proposalFingerprint(p))
    /\ UNCHANGED <<envVars, intents, proposals, workflow, ledger, touched>>

applyWorkflowProposal(p, n) ==
    LET fp == proposalFingerprint(p)
        c == consume(n, "workflow_proposal", p, fp)
        next == applyWorkflowPatch(workflow, proposals[p].patch)
    IN  /\ Usable(p)
        /\ tokens' = c.left /\ Record(n, c)
        /\ \/ /\ c.ok
              /\ workflow' = next
              /\ proposals' = [proposals EXCEPT ![p].status = "applied"]
              /\ touched' = touched \cup Affects(proposals[p].patch)
              /\ ledger' = ledger \cup {Accepted("human", n, "workflow_proposal", p, fp,
                                                 Restricted(next, DOMAIN proposals[p].patch))}
           \/ ~c.ok /\ UNCHANGED <<workflow, proposals, touched, ledger>>
        /\ UNCHANGED <<envVars, minted, shown, intents>>

\* Mutant: a proposal is rejected whatever its status.
rejectAnyProposal(p) ==
    /\ proposals[p].status # "none"
    /\ proposals' = [proposals EXCEPT ![p].status = "rejected"]
    /\ UNCHANGED <<tokenVars, envVars, intents, workflow, ledger, touched>>

rejectWorkflowProposal(p) ==
    /\ proposals[p].status = "pending"
    /\ proposals' = [proposals EXCEPT ![p].status = "rejected"]
    /\ UNCHANGED <<tokenVars, envVars, intents, workflow, ledger, touched>>

\* workflowProposals() marks what has expired.
workflowProposals ==
    /\ \E p \in Proposals : proposals[p].status = "pending" /\ proposals[p].expires <= now
    /\ proposals' = [p \in Proposals |->
          IF proposals[p].status = "pending" /\ proposals[p].expires <= now
          THEN [proposals[p] EXCEPT !.status = "expired"] ELSE proposals[p]]
    /\ UNCHANGED <<tokenVars, envVars, intents, workflow, ledger, touched>>

\* The gateway restarts: tokens and proposals live in memory only.
Restart ==
    /\ tokens' = {}
    /\ proposals' = [p \in Proposals |->
          IF proposals[p].status = "none" THEN NoProposal ELSE [proposals[p] EXCEPT !.status = "lost"]]
    /\ UNCHANGED <<envVars, minted, shown, used, intents, workflow, ledger, touched>>

Next ==
    \/ Tick \/ ToggleHalt \/ workflowProposals \/ Restart
    \/ \E i \in Intents :
          \/ NewIntent(i) \/ ThreadEnds(i) \/ rejectIntent(i)
          \/ issueIntentConfirmation(i) \/ approveIntentByAgent(i)
          \/ \E n \in 0..MaxTokens : approveIntent(i, n)
    \/ \E q \in Patches : setWorkflow(q)
    \/ \E p \in Proposals :
          \/ issueProposalConfirmation(p) \/ rejectWorkflowProposal(p)
          \/ \E q \in Patches : chatSetWorkflow(p, q)
          \/ \E n \in 0..MaxTokens : applyWorkflowProposal(p, n)

Spec == Init /\ [][Next]_vars

-----------------------------------------------------------------------------
IntentStatuses == {"none", "pending_approval", "approved", "rejected"}
ProposalStatuses == {"none", "pending", "applied", "rejected", "expired", "lost"}

\* Every variable has its type; an edit never leaves an empty watch list
\* (applyWorkflowPatch refuses it).
TypeOK ==
    /\ now \in 0..MaxNow /\ minted \in 0..MaxTokens
    /\ workflow \in Workflow /\ halted \in BOOLEAN
    /\ intents \in [Intents -> IntentStatuses]
    /\ threadOpen \in [Intents -> BOOLEAN]
    /\ DOMAIN proposals = Proposals
    /\ \A p \in Proposals : proposals[p].status \in ProposalStatuses

\* A settings edit never leaves more symbols on the watch list than the maximum,
\* in whichever order lists and maxima are edited (applyWorkflowPatch).
ListWithinMaximum == workflow.watchlist <= workflow.watchlist_max

\* A one-time token is good for one attempt: presenting it again never succeeds,
\* also when the attempt it confirmed was refused later (closed thread, halt, pause).
OneTimeTokens == \A n \in 1..MaxTokens : used[n] <= 1

\* Everything a person's token let through is what the dialogue of that token
\* showed - same target, same content, same current settings - and in time.
ConfirmedAsShown ==
    \A a \in ledger : a.by = "human" =>
        \E s \in shown : /\ s.nonce = a.nonce /\ s.kind = a.kind /\ s.target = a.target
                         /\ s.fingerprint = a.fingerprint /\ a.at < s.expires

\* Chat alone cannot widen what the agent may do: the watch list, its maximum and
\* the approval switch differ from their initial values, and trading is unpaused,
\* only after a person changed or confirmed that key.
ChatCannotWiden ==
    /\ \A k \in {"watchlist", "watchlist_max", "chat_requires_approval"} :
          workflow[k] # InitWorkflow[k] => k \in touched
    /\ InitWorkflow.paused /\ ~workflow.paused => "paused" \in touched

\* With the approval switch on at start, the agent approves an intent by itself
\* only after a person has turned the switch.
SelfApprovalOnlyIfAllowed ==
    InitWorkflow.chat_requires_approval /\ (\E a \in ledger : a.by = "agent")
        => "chat_requires_approval" \in touched

\* A decided intent or proposal stays decided; only a restart forgets a proposal.
DecisionsAreFinal ==
    [][/\ \A i \in Intents : intents[i] \in {"approved", "rejected"} => intents'[i] = intents[i]
       /\ \A p \in Proposals : proposals[p].status \in {"applied", "rejected", "expired"}
             => proposals'[p].status \in {proposals[p].status, "lost"}]_vars

\* A token is good for one use and for exactly what its holder was shown,
\* whatever was presented twice, late or after the settings changed (confirm.ts:37).
TokensSound == TypeOK /\ OneTimeTokens /\ ConfirmedAsShown

\* No series of chat patches, proposals and approvals gives the agent more than a
\* person gave it (runtime.ts:2223), or the list more than its maximum.
ChatWithinRights == ChatCannotWiden /\ SelfApprovalOnlyIfAllowed /\ ListWithinMaximum
=============================================================================
