------------------------ MODULE ConfirmationsProofs ------------------------
(***************************************************************************)
(* The confirmations for any intents, proposals, patches and bounds.       *)
(* CInv is the inductive invariant: TokenInv ties every live token to the  *)
(* dialogue that showed it and to its unused nonce, ProposalInv says that  *)
(* what waits to be applied is a patch the settings accept, and            *)
(* ChatWithinRights and ConfirmedAsShown are kept with them.               *)
(***************************************************************************)
EXTENDS Confirmations, TLAPS

USE BoundsAssumption, WorkflowAssumption, PatchesAssumption

\* What PatchesAssumption says of a patch; the parts of a patch have it too.
GoodPatch(p) ==
    /\ DOMAIN p \subseteq WorkflowKeys
    /\ "watchlist" \in DOMAIN p => p["watchlist"] \in 0..MaxList
    /\ "watchlist_max" \in DOMAIN p => p["watchlist_max"] \in 1..MaxList
    /\ \A k \in DOMAIN p \cap {"paused", "chat_requires_approval", "narrate"} : p[k] \in BOOLEAN

\* A proposal is a record of these four fields.
IsProposal(q) == q = [status |-> q.status, patch |-> q.patch, after |-> q.after, expires |-> q.expires]

\* What waits to be applied is a patch the settings accept.
ProposalInv ==
    /\ proposals = [p \in Proposals |-> proposals[p]]
    /\ \A p \in Proposals : /\ IsProposal(proposals[p])
                            /\ proposals[p].status = "pending" => GoodPatch(proposals[p].patch)

\* A live token was shown, nonces are never issued twice, and a nonce that was
\* consumed names no live token.
TokenInv ==
    /\ tokens \subseteq shown
    /\ \A s \in shown : s.nonce \in 1..minted
    /\ \A s, t \in shown : s.nonce = t.nonce => s = t
    /\ used \in [1..MaxTokens -> 0..1]
    /\ \A n \in 1..MaxTokens : used[n] = 1 => n <= minted /\ \A t \in tokens : t.nonce # n

CInv == TypeOK /\ ProposalInv /\ TokenInv /\ ConfirmedAsShown /\ ChatWithinRights

-----------------------------------------------------------------------------
\* An edit of well-formed settings by a well-formed patch is well formed, and
\* keeps the list within the maximum, whatever the two were.
LEMMA PatchType ==
  ASSUME NEW w \in Workflow, NEW p, GoodPatch(p)
  PROVE  /\ applyWorkflowPatch(w, p) \in Workflow
         /\ applyWorkflowPatch(w, p).watchlist <= applyWorkflowPatch(w, p).watchlist_max
  <1> DEFINE list == IF "watchlist" \in DOMAIN p /\ p["watchlist"] # 0
                     THEN Lesser(p["watchlist"], w.watchlist_max) ELSE w.watchlist
             max == Field(p, "watchlist_max", w.watchlist_max)
  <1>1. list \in 1..MaxList /\ max \in 1..MaxList
    BY DEF GoodPatch, Workflow, Lesser, Field
  <1>2. /\ Field(p, "paused", w.paused) \in BOOLEAN
        /\ Field(p, "chat_requires_approval", w.chat_requires_approval) \in BOOLEAN
        /\ Field(p, "narrate", w.narrate) \in BOOLEAN
    BY Zenon DEF GoodPatch, Workflow, Field
  <1>3. Lesser(list, max) \in 1..MaxList /\ Lesser(list, max) <= max
    BY <1>1 DEF Lesser
  <1> HIDE DEF list, max
  <1>4. applyWorkflowPatch(w, p) =
          [watchlist |-> Lesser(list, max), watchlist_max |-> max,
           paused |-> Field(p, "paused", w.paused),
           chat_requires_approval |-> Field(p, "chat_requires_approval", w.chat_requires_approval),
           narrate |-> Field(p, "narrate", w.narrate)]
    BY DEF applyWorkflowPatch, list, max
  <1> QED
    BY <1>1, <1>2, <1>3, <1>4 DEF Workflow

\* A part of a well-formed patch is one.
LEMMA PartIsGood ==
  ASSUME NEW p, GoodPatch(p), NEW ks, ks \subseteq DOMAIN p
  PROVE  GoodPatch(Restricted(p, ks))
  BY DEF GoodPatch, Restricted

\* An edit changes only the keys it is said to affect, and unpauses only by
\* naming the key.
LEMMA PatchTouches ==
  ASSUME NEW w \in Workflow, NEW p, GoodPatch(p), w.watchlist <= w.watchlist_max
  PROVE  LET v == applyWorkflowPatch(w, p) IN
         /\ v.watchlist # w.watchlist => "watchlist" \in Affects(p)
         /\ v.watchlist_max # w.watchlist_max => "watchlist_max" \in Affects(p)
         /\ v.chat_requires_approval # w.chat_requires_approval => "chat_requires_approval" \in Affects(p)
         /\ v.paused # w.paused => "paused" \in Affects(p)
  <1>1. Lesser(w.watchlist, w.watchlist_max) = w.watchlist
    BY DEF Lesser, Workflow
  <1> QED
    BY <1>1 DEF applyWorkflowPatch, Field, Affects

\* What chat changes at once: the narration, or a pause.
LEMMA DirectIsHarmless ==
  ASSUME NEW w \in Workflow, NEW p, GoodPatch(p), w.watchlist <= w.watchlist_max
  PROVE  LET v == applyWorkflowPatch(w, Restricted(p, DirectPart(p))) IN
         /\ v \in Workflow
         /\ v.watchlist = w.watchlist /\ v.watchlist_max = w.watchlist_max
         /\ v.chat_requires_approval = w.chat_requires_approval
         /\ w.paused => v.paused
  <1> DEFINE d == Restricted(p, DirectPart(p))
  <1>1. GoodPatch(d)
    BY PartIsGood DEF DirectPart
  <1>2. DOMAIN d \subseteq {"narrate", "paused"} /\ ("paused" \in DOMAIN d => d["paused"])
    BY DEF Restricted, DirectPart, DirectKeys
  <1>3. Lesser(w.watchlist, w.watchlist_max) = w.watchlist
    BY DEF Lesser, Workflow
  <1> HIDE DEF d
  <1>4. applyWorkflowPatch(w, d) \in Workflow
    BY <1>1, PatchType
  <1> QED
    BY <1>2, <1>3, <1>4 DEF applyWorkflowPatch, Field, d

\* ChatCannotWiden, key by key.
LEMMA WidenKeys ==
  ChatCannotWiden <=>
    /\ workflow.watchlist # InitWorkflow.watchlist => "watchlist" \in touched
    /\ workflow.watchlist_max # InitWorkflow.watchlist_max => "watchlist_max" \in touched
    /\ workflow.chat_requires_approval # InitWorkflow.chat_requires_approval => "chat_requires_approval" \in touched
    /\ InitWorkflow.paused /\ ~workflow.paused => "paused" \in touched
  BY DEF ChatCannotWiden
-----------------------------------------------------------------------------
\* The actions in groups: what none of a group's actions changes, its part of
\* the invariant keeps.

\* Tokens leave the store by expiry or with a restart, and nothing is consumed.
LEMMA TokensFewer ==
  ASSUME TokenInv, tokens' \subseteq tokens, UNCHANGED <<minted, shown, used>>
  PROVE  TokenInv'
  BY DEF TokenInv

\* issue(): a fresh nonce.
LEMMA IssueKeeps ==
  ASSUME TypeOK, TokenInv, NEW kind, NEW target, NEW fp, issue(kind, target, fp)
  PROVE  /\ TokenInv' /\ minted' \in 0..MaxTokens /\ shown \subseteq shown'
  <1> DEFINE t == [nonce |-> minted + 1, kind |-> kind, target |-> target,
                   fingerprint |-> fp, expires |-> now + ConfirmTtl]
  <1>1. /\ tokens' = sweep(tokens) \cup {t} /\ shown' = shown \cup {t}
        /\ minted' = minted + 1 /\ minted < MaxTokens /\ used' = used
    BY DEF issue
  <1>2. t.nonce = minted + 1
    OBVIOUS
  <1>3. sweep(tokens) \subseteq tokens
    BY DEF sweep
  <1>4. minted \in Nat /\ minted' \in 0..MaxTokens
    BY <1>1 DEF TypeOK
  <1> HIDE DEF t
  <1>5. tokens' \subseteq shown' /\ \A s \in shown' : s.nonce \in 1..minted'
    BY <1>1, <1>2, <1>3, <1>4 DEF TokenInv
  <1>6. \A s, u \in shown' : s.nonce = u.nonce => s = u
    BY <1>1, <1>2, <1>4 DEF TokenInv
  <1>7. \A n \in 1..MaxTokens : used'[n] = 1 => n <= minted' /\ \A u \in tokens' : u.nonce # n
    BY <1>1, <1>2, <1>3, <1>4 DEF TokenInv
  <1> QED
    BY <1>1, <1>4, <1>5, <1>6, <1>7 DEF TokenInv

\* consume(): a token that is let through was shown for this very content, is in
\* time, and its nonce is spent; the nonces of the tokens left are not.
LEMMA ConsumeKeeps ==
  ASSUME TypeOK, TokenInv, NEW n \in 0..MaxTokens, NEW kind, NEW target, NEW fp,
         tokens' = consume(n, kind, target, fp).left,
         Record(n, consume(n, kind, target, fp)), UNCHANGED <<minted, shown>>
  PROVE  /\ TokenInv'
         /\ consume(n, kind, target, fp).ok =>
               \E s \in shown : /\ s.nonce = n /\ s.kind = kind /\ s.target = target
                                /\ s.fingerprint = fp /\ now < s.expires
  <1> DEFINE hit == {t \in tokens : /\ t.nonce = n /\ t.expires > now
                               /\ t.kind = kind /\ t.target = target /\ t.fingerprint = fp}
             c == consume(n, kind, target, fp)
  <1>1. c.ok = (hit # {}) /\ c.left = IF n = NoNonce THEN tokens ELSE sweep(tokens) \ hit
    BY DEF consume
  <1>2. tokens' \subseteq tokens /\ used' = IF c.ok THEN [used EXCEPT ![n] = @ + 1] ELSE used
    BY <1>1 DEF Record, sweep
  <1>3. CASE ~c.ok
    BY <1>2, <1>3, TokensFewer
  <1>4. CASE c.ok
    <2>1. PICK t \in hit : TRUE
      BY <1>1, <1>4
    <2>2. t \in tokens /\ t \in shown /\ t.nonce = n /\ n \in 1..minted
      BY <2>1 DEF TokenInv
    <2>3. minted \in 0..MaxTokens /\ n \in 1..MaxTokens /\ n # NoNonce
      BY <2>2 DEF TypeOK, NoNonce
    <2>4. used[n] = 0
      BY <2>2, <2>3 DEF TokenInv
    <2>5. tokens' = sweep(tokens) \ hit
      BY <1>1, <2>3
    <2>6. \A u \in tokens' : u.nonce # n
      <3> SUFFICES ASSUME NEW u \in tokens', u.nonce = n PROVE FALSE
        OBVIOUS
      <3>1. u \in tokens /\ u \notin hit
        BY <2>5, <1>2
      <3>2. u = t
        BY <3>1, <2>2 DEF TokenInv
      <3> QED
        BY <3>1, <3>2, <2>1
    <2>7. used' = [used EXCEPT ![n] = 1]
      BY <1>2, <1>4, <2>4, <2>3 DEF TokenInv
    <2>8. TokenInv'
      BY <1>2, <2>2, <2>3, <2>6, <2>7 DEF TokenInv
    <2>9. t.kind = kind /\ t.target = target /\ t.fingerprint = fp /\ t.expires > now
      BY <2>1
    <2>10. now < t.expires
      BY <2>9
    <2> QED
      BY <2>2, <2>8, <2>9, <2>10
  <1> QED
    BY <1>3, <1>4

\* What a person was shown stays shown: entries confirmed so far stay confirmed.
LEMMA LedgerKeeps ==
  ASSUME ConfirmedAsShown, shown \subseteq shown', ledger' = ledger
  PROVE  ConfirmedAsShown'
  BY DEF ConfirmedAsShown

\* One more entry, that a dialogue showed or that no person made.
LEMMA LedgerGrows ==
  ASSUME ConfirmedAsShown, shown' = shown, NEW a, ledger' = ledger \cup {a},
         a.by = "human" =>
           \E s \in shown : /\ s.nonce = a.nonce /\ s.kind = a.kind /\ s.target = a.target
                            /\ s.fingerprint = a.fingerprint /\ a.at < s.expires
  PROVE  ConfirmedAsShown'
  BY DEF ConfirmedAsShown

\* Steps that leave the settings alone, and approve nothing by themselves.
LEMMA RightsKept ==
  ASSUME ChatWithinRights, UNCHANGED <<workflow, touched>>,
         \A a \in ledger' : a \in ledger \/ a.by = "human"
  PROVE  ChatWithinRights'
  BY DEF ChatWithinRights, ChatCannotWiden, SelfApprovalOnlyIfAllowed, ListWithinMaximum

\* An edit of a person's, or one a person confirmed: what it affects is touched.
LEMMA RightsOfAPerson ==
  ASSUME TypeOK, ChatWithinRights, NEW p, GoodPatch(p), workflow' = applyWorkflowPatch(workflow, p),
         touched' = touched \cup Affects(p), \A a \in ledger' : a \in ledger \/ a.by = "human"
  PROVE  ChatWithinRights' /\ workflow' \in Workflow
  <1>1. workflow \in Workflow /\ workflow.watchlist <= workflow.watchlist_max
    BY DEF TypeOK, ChatWithinRights, ListWithinMaximum
  <1>2. workflow' \in Workflow /\ ListWithinMaximum'
    BY <1>1, PatchType DEF ListWithinMaximum
  <1>3. /\ workflow'.watchlist # workflow.watchlist => "watchlist" \in Affects(p)
        /\ workflow'.watchlist_max # workflow.watchlist_max => "watchlist_max" \in Affects(p)
        /\ workflow'.chat_requires_approval # workflow.chat_requires_approval => "chat_requires_approval" \in Affects(p)
        /\ workflow'.paused # workflow.paused => "paused" \in Affects(p)
    BY <1>1, PatchTouches
  <1>4. workflow.paused \in BOOLEAN /\ workflow'.paused \in BOOLEAN
    BY <1>1, <1>2 DEF Workflow
  <1>5. ChatCannotWiden'
    BY <1>3, <1>4 DEF ChatWithinRights, ChatCannotWiden
  <1>6. SelfApprovalOnlyIfAllowed'
    BY DEF ChatWithinRights, SelfApprovalOnlyIfAllowed
  <1> QED
    BY <1>2, <1>5, <1>6 DEF ChatWithinRights

-----------------------------------------------------------------------------
\* The environment and the life of intents: no token, proposal or setting moves.
LEMMA IntentSteps ==
  ASSUME CInv, UNCHANGED <<tokenVars, proposals, workflow, touched, ledger>>,
         now' \in 0..MaxNow, halted' \in BOOLEAN,
         intents' \in [Intents -> IntentStatuses], threadOpen' \in [Intents -> BOOLEAN]
  PROVE  CInv'
  <1>1. TypeOK' /\ ProposalInv'
    BY DEF CInv, TypeOK, ProposalInv, tokenVars
  <1>2. TokenInv' /\ ConfirmedAsShown'
    BY DEF CInv, TokenInv, ConfirmedAsShown, tokenVars
  <1>3. ChatWithinRights'
    BY RightsKept DEF CInv
  <1> QED
    BY <1>1, <1>2, <1>3 DEF CInv

\* approveIntent with a token.
LEMMA ApproveKeeps ==
  ASSUME CInv, NEW i \in Intents, NEW n \in 0..MaxTokens, approveIntent(i, n)
  PROVE  CInv'
  <1> DEFINE fp == intentFingerprint(i)
             c == consume(n, "intent", i, fp)
  <1>0. /\ tokens' = c.left /\ Record(n, c)
        /\ UNCHANGED <<envVars, minted, shown, proposals, workflow, touched>>
        /\ \/ c.ok /\ Approve(i, "human", n)
           \/ UNCHANGED <<intents, ledger>>
    BY DEF approveIntent
  <1>1. TokenInv' /\ (c.ok => \E s \in shown : /\ s.nonce = n /\ s.kind = "intent" /\ s.target = i
                                /\ s.fingerprint = fp /\ now < s.expires)
    BY <1>0, ConsumeKeeps DEF CInv
  <1>2. TypeOK' /\ ProposalInv'
    <2>1. intents' \in [Intents -> IntentStatuses]
      BY <1>0 DEF CInv, TypeOK, Approve, IntentStatuses
    <2> QED
      BY <1>0, <2>1 DEF CInv, TypeOK, ProposalInv, envVars
  <1>3. ConfirmedAsShown' /\ ChatWithinRights'
    <2>1. CASE UNCHANGED <<intents, ledger>>
      BY <1>0, <2>1, LedgerKeeps, RightsKept DEF CInv
    <2>2. CASE c.ok /\ Approve(i, "human", n)
      <3> DEFINE a == Accepted("human", n, "intent", i, fp, "approved")
      <3>1. ledger' = ledger \cup {a}
        BY <2>2 DEF Approve
      <3>2. a.by = "human" /\ a.nonce = n /\ a.kind = "intent" /\ a.target = i /\ a.fingerprint = fp /\ a.at = now
        BY DEF Accepted
      <3> HIDE DEF a
      <3>3. ConfirmedAsShown'
        BY <1>0, <1>1, <2>2, <3>1, <3>2, LedgerGrows DEF CInv
      <3> QED
        BY <1>0, <3>1, <3>2, <3>3, RightsKept DEF CInv
    <2> QED
      BY <1>0, <2>1, <2>2
  <1> QED
    BY <1>1, <1>2, <1>3 DEF CInv

\* approveIntent from chat: the switch is off, so a person has touched it unless
\* it was off from the start.
LEMMA AgentKeeps ==
  ASSUME CInv, NEW i \in Intents, approveIntentByAgent(i)
  PROVE  CInv'
  <1> DEFINE a == Accepted("agent", NoNonce, "intent", i, intentFingerprint(i), "approved")
  <1>0. /\ ledger' = ledger \cup {a} /\ intents' = [intents EXCEPT ![i] = "approved"]
        /\ UNCHANGED <<tokenVars, envVars, proposals, workflow, touched>>
        /\ ~workflow.chat_requires_approval
    BY DEF approveIntentByAgent, Approve
  <1>1. a.by = "agent"
    BY DEF Accepted
  <1> HIDE DEF a
  <1>2. TypeOK' /\ ProposalInv'
    BY <1>0 DEF CInv, TypeOK, ProposalInv, tokenVars, envVars, IntentStatuses
  <1>3. TokenInv'
    BY <1>0 DEF CInv, TokenInv, tokenVars
  <1>4. ConfirmedAsShown'
    BY <1>0, <1>1, LedgerGrows DEF CInv, tokenVars
  <1>5. ChatWithinRights'
    <2>1. InitWorkflow.chat_requires_approval => workflow.chat_requires_approval # InitWorkflow.chat_requires_approval
      BY <1>0
    <2>2. SelfApprovalOnlyIfAllowed'
      BY <1>0, <2>1 DEF CInv, ChatWithinRights, ChatCannotWiden, SelfApprovalOnlyIfAllowed
    <2> QED
      BY <1>0, <2>2 DEF CInv, ChatWithinRights, ChatCannotWiden, ListWithinMaximum
  <1> QED
    BY <1>2, <1>3, <1>4, <1>5 DEF CInv

\* issueIntentConfirmation and issueProposalConfirmation.
LEMMA IssueStep ==
  ASSUME CInv, NEW kind, NEW target, NEW fp, issue(kind, target, fp),
         UNCHANGED <<envVars, intents, proposals, workflow, ledger, touched>>
  PROVE  CInv'
  <1>1. TokenInv' /\ minted' \in 0..MaxTokens /\ shown \subseteq shown'
    BY IssueKeeps DEF CInv
  <1>2. TypeOK' /\ ProposalInv'
    BY <1>1 DEF CInv, TypeOK, ProposalInv, envVars
  <1> QED
    BY <1>1, <1>2, LedgerKeeps, RightsKept DEF CInv

\* The life of proposals between their making and their application: each keeps
\* its patch, only pending ones are open.
LEMMA ProposalSteps ==
  ASSUME CInv, UNCHANGED <<minted, shown, used, envVars, intents, workflow, ledger, touched>>,
         tokens' \subseteq tokens, TypeOK', ProposalInv'
  PROVE  CInv'
  <1>1. TokenInv' /\ ConfirmedAsShown'
    BY TokensFewer, LedgerKeeps DEF CInv
  <1> QED
    BY <1>1, RightsKept DEF CInv

\* A proposal changes its status only.
LEMMA StatusType ==
  ASSUME NEW q, IsProposal(q), NEW s
  PROVE  LET r == [q EXCEPT !.status = s] IN IsProposal(r) /\ r.status = s /\ r.patch = q.patch
  BY DEF IsProposal

\* applyWorkflowProposal.
LEMMA ApplyKeeps ==
  ASSUME CInv, NEW p \in Proposals, NEW n \in 0..MaxTokens, applyWorkflowProposal(p, n)
  PROVE  CInv'
  <1> DEFINE fp == proposalFingerprint(p)
             c == consume(n, "workflow_proposal", p, fp)
             next == applyWorkflowPatch(workflow, proposals[p].patch)
             a == Accepted("human", n, "workflow_proposal", p, fp,
                           Restricted(next, DOMAIN proposals[p].patch))
  <1>0. /\ tokens' = c.left /\ Record(n, c) /\ Usable(p)
        /\ UNCHANGED <<envVars, minted, shown, intents>>
        /\ \/ /\ c.ok /\ workflow' = next
              /\ proposals' = [proposals EXCEPT ![p].status = "applied"]
              /\ touched' = touched \cup Affects(proposals[p].patch)
              /\ ledger' = ledger \cup {a}
           \/ UNCHANGED <<workflow, proposals, touched, ledger>>
    BY DEF applyWorkflowProposal
  <1>1. TokenInv' /\ (c.ok => \E s \in shown : /\ s.nonce = n /\ s.kind = "workflow_proposal" /\ s.target = p
                                /\ s.fingerprint = fp /\ now < s.expires)
    BY <1>0, ConsumeKeeps DEF CInv
  <1>2. a.by = "human" /\ a.nonce = n /\ a.kind = "workflow_proposal" /\ a.target = p /\ a.fingerprint = fp /\ a.at = now
    BY DEF Accepted
  <1>3. GoodPatch(proposals[p].patch) /\ IsProposal(proposals[p])
    BY <1>0 DEF CInv, ProposalInv, Usable
  <1> HIDE DEF c, fp, a
  <1>4. CASE UNCHANGED <<workflow, proposals, touched, ledger>>
    <2>1. TypeOK' /\ ProposalInv'
      BY <1>0, <1>4 DEF CInv, TypeOK, ProposalInv, envVars
    <2> QED
      BY <1>0, <1>1, <1>4, <2>1, LedgerKeeps, RightsKept DEF CInv
  <1>5. CASE /\ c.ok /\ workflow' = next
             /\ proposals' = [proposals EXCEPT ![p].status = "applied"]
             /\ touched' = touched \cup Affects(proposals[p].patch)
             /\ ledger' = ledger \cup {a}
    <2>1. workflow' \in Workflow /\ ChatWithinRights'
      <3>1. \A b \in ledger' : b \in ledger \/ b.by = "human"
        BY <1>2, <1>5
      <3> QED
        BY <1>3, <1>5, <3>1, RightsOfAPerson DEF CInv
    <2>2. ConfirmedAsShown'
      BY <1>0, <1>1, <1>2, <1>5, LedgerGrows DEF CInv
    <2>3. /\ IsProposal(proposals'[p]) /\ proposals'[p].status = "applied"
          /\ \A q \in Proposals \ {p} : proposals'[q] = proposals[q]
          /\ DOMAIN proposals' = Proposals
          /\ proposals' = [q \in Proposals |-> proposals'[q]]
      BY <1>3, <1>5, StatusType DEF CInv, ProposalInv
    <2>4. TypeOK'
      BY <1>0, <2>1, <2>3 DEF CInv, TypeOK, envVars, ProposalStatuses
    <2>5. ProposalInv'
      BY <2>3 DEF CInv, ProposalInv
    <2> QED
      BY <1>1, <2>1, <2>2, <2>4, <2>5 DEF CInv
  <1> QED
    BY <1>0, <1>4, <1>5

\* chatSetWorkflow.
LEMMA ChatKeeps ==
  ASSUME CInv, NEW p \in Proposals, NEW patch \in Patches, chatSetWorkflow(p, patch)
  PROVE  CInv'
  <1> DEFINE part == Restricted(patch, ProposalPart(patch))
             q == NewProposal(workflow', part)
  <1>0. /\ workflow' = applyWorkflowPatch(workflow, Restricted(patch, DirectPart(patch)))
        /\ proposals' = proposals \/ proposals' = [proposals EXCEPT ![p] = q]
        /\ UNCHANGED <<tokenVars, envVars, intents, ledger, touched>>
    BY DEF chatSetWorkflow
  <1>1. GoodPatch(patch)
    BY Zenon DEF GoodPatch
  <1>2. workflow \in Workflow /\ workflow.watchlist <= workflow.watchlist_max
    BY DEF CInv, TypeOK, ChatWithinRights, ListWithinMaximum
  <1>3. /\ workflow' \in Workflow
        /\ workflow'.watchlist = workflow.watchlist /\ workflow'.watchlist_max = workflow.watchlist_max
        /\ workflow'.chat_requires_approval = workflow.chat_requires_approval
        /\ workflow.paused => workflow'.paused
    BY <1>0, <1>1, <1>2, DirectIsHarmless
  <1>4. ChatWithinRights'
    BY <1>0, <1>3 DEF CInv, ChatWithinRights, ChatCannotWiden, SelfApprovalOnlyIfAllowed, ListWithinMaximum
  <1>5. TokenInv' /\ ConfirmedAsShown'
    BY <1>0, LedgerKeeps DEF CInv, TokenInv, tokenVars
  <1>6. GoodPatch(part)
    BY <1>1, PartIsGood DEF ProposalPart
  <1>7. q.status \in ProposalStatuses /\ q.patch = part /\ IsProposal(q)
    BY DEF NewProposal, ProposalStatuses, IsProposal
  <1> HIDE DEF q, part
  <1>8. TypeOK'
    BY <1>0, <1>3, <1>7 DEF CInv, TypeOK, envVars, tokenVars
  <1>9. ProposalInv'
    BY <1>0, <1>6, <1>7 DEF CInv, TypeOK, ProposalInv
  <1> QED
    BY <1>4, <1>5, <1>8, <1>9 DEF CInv

\* rejectWorkflowProposal.
LEMMA RejectKeeps ==
  ASSUME CInv, NEW p \in Proposals, rejectWorkflowProposal(p)
  PROVE  CInv'
  <1>0. /\ proposals' = [proposals EXCEPT ![p].status = "rejected"]
        /\ UNCHANGED <<tokenVars, envVars, intents, workflow, ledger, touched>>
    BY DEF rejectWorkflowProposal
  <1>1. /\ IsProposal(proposals'[p]) /\ proposals'[p].status = "rejected"
        /\ \A q \in Proposals \ {p} : proposals'[q] = proposals[q]
        /\ DOMAIN proposals' = Proposals
        /\ proposals' = [q \in Proposals |-> proposals'[q]]
    BY <1>0, StatusType DEF CInv, ProposalInv
  <1>2. TypeOK'
    BY <1>0, <1>1 DEF CInv, TypeOK, envVars, tokenVars, ProposalStatuses
  <1>3. ProposalInv'
    BY <1>1 DEF CInv, ProposalInv
  <1> QED
    BY <1>0, <1>2, <1>3, ProposalSteps DEF tokenVars

\* workflowProposals and Restart: every proposal at once.
LEMMA SweepKeeps ==
  ASSUME CInv, workflowProposals \/ Restart
  PROVE  CInv'
  <1>0. /\ UNCHANGED <<minted, shown, used, envVars, intents, workflow, ledger, touched>>
        /\ tokens' \subseteq tokens
    BY DEF workflowProposals, Restart, tokenVars
  <1>1. ASSUME NEW p \in Proposals
        PROVE  /\ IsProposal(proposals'[p]) /\ proposals'[p].status \in ProposalStatuses
               /\ proposals'[p].status = "pending" => proposals'[p] = proposals[p]
    <2>1. \/ proposals'[p] = proposals[p] \/ proposals'[p] = NoProposal
          \/ proposals'[p] = [proposals[p] EXCEPT !.status = "expired"]
          \/ proposals'[p] = [proposals[p] EXCEPT !.status = "lost"]
      BY DEF workflowProposals, Restart
    <2>2. IsProposal(proposals[p]) /\ proposals[p].status \in ProposalStatuses
      BY DEF CInv, ProposalInv, TypeOK
    <2>3. IsProposal(NoProposal) /\ NoProposal.status = "none"
      BY DEF NoProposal, IsProposal
    <2>4. CASE proposals'[p] = [proposals[p] EXCEPT !.status = "expired"]
      BY <2>2, <2>4, StatusType DEF ProposalStatuses
    <2>5. CASE proposals'[p] = [proposals[p] EXCEPT !.status = "lost"]
      BY <2>2, <2>5, StatusType DEF ProposalStatuses
    <2> QED
      BY <2>1, <2>2, <2>3, <2>4, <2>5 DEF ProposalStatuses
  <1>2. DOMAIN proposals' = Proposals /\ proposals' = [p \in Proposals |-> proposals'[p]]
    BY DEF workflowProposals, Restart
  <1>3. TypeOK'
    BY <1>0, <1>1, <1>2 DEF CInv, TypeOK, envVars
  <1>4. ProposalInv'
    BY <1>1, <1>2 DEF CInv, ProposalInv
  <1> QED
    BY <1>0, <1>3, <1>4, ProposalSteps

\* setWorkflow.
LEMMA SetKeeps ==
  ASSUME CInv, NEW p \in Patches, setWorkflow(p)
  PROVE  CInv'
  <1>1. GoodPatch(p)
    BY Zenon DEF GoodPatch
  <1>2. workflow' \in Workflow /\ ChatWithinRights'
    BY <1>1, RightsOfAPerson DEF CInv, setWorkflow
  <1>3. TypeOK' /\ ProposalInv'
    BY <1>2 DEF CInv, TypeOK, ProposalInv, setWorkflow, envVars, tokenVars
  <1> QED
    BY <1>2, <1>3, LedgerKeeps DEF CInv, TokenInv, setWorkflow, tokenVars

-----------------------------------------------------------------------------
LEMMA InitCInv == Init => CInv
  <1> SUFFICES ASSUME Init PROVE CInv
    OBVIOUS
  <1>1. TypeOK
    <2>1. NoProposal.status \in ProposalStatuses
      BY DEF NoProposal, ProposalStatuses
    <2>2. halted \in BOOLEAN /\ threadOpen \in [Intents -> BOOLEAN]
      BY DEF Init
    <2>3. now \in 0..MaxNow /\ minted \in 0..MaxTokens
      BY DEF Init
    <2> QED
      BY <2>1, <2>2, <2>3 DEF Init, TypeOK, IntentStatuses
  <1>2. ProposalInv
    BY DEF Init, ProposalInv, NoProposal, IsProposal
  <1>3. TokenInv /\ ConfirmedAsShown
    BY DEF Init, TokenInv, ConfirmedAsShown
  <1>4. ChatWithinRights
    BY DEF Init, ChatWithinRights, ChatCannotWiden, SelfApprovalOnlyIfAllowed, ListWithinMaximum
  <1> QED
    BY <1>1, <1>2, <1>3, <1>4 DEF CInv

LEMMA NextCInv == CInv /\ [Next]_vars => CInv'
  <1> SUFFICES ASSUME CInv, [Next]_vars PROVE CInv'
    OBVIOUS
  <1>1. CASE UNCHANGED vars
    BY <1>1 DEF vars, CInv, TypeOK, ProposalInv, TokenInv, ConfirmedAsShown, ChatWithinRights,
                ChatCannotWiden, SelfApprovalOnlyIfAllowed, ListWithinMaximum
  <1>2. CASE Tick \/ ToggleHalt
    <2>1. now' \in 0..MaxNow /\ halted' \in BOOLEAN
      <3>1. now' \in 0..MaxNow
        BY <1>2 DEF CInv, TypeOK, Tick, ToggleHalt
      <3>2. halted' \in BOOLEAN
        BY <1>2, Zenon DEF CInv, TypeOK, Tick, ToggleHalt
      <3> QED
        BY <3>1, <3>2
    <2> QED
      BY <1>2, <2>1, IntentSteps DEF CInv, TypeOK, Tick, ToggleHalt, tokenVars
  <1>3. CASE workflowProposals \/ Restart
    BY <1>3, SweepKeeps
  <1>4. ASSUME NEW i \in Intents, NewIntent(i) \/ ThreadEnds(i) \/ rejectIntent(i)
        PROVE  CInv'
    BY <1>4, IntentSteps DEF CInv, TypeOK, NewIntent, ThreadEnds, rejectIntent, tokenVars, IntentStatuses
  <1>5. ASSUME NEW i \in Intents, issueIntentConfirmation(i)
        PROVE  CInv'
    BY <1>5, IssueStep DEF issueIntentConfirmation
  <1>6. ASSUME NEW p \in Proposals, issueProposalConfirmation(p)
        PROVE  CInv'
    BY <1>6, IssueStep DEF issueProposalConfirmation
  <1> QED
    BY <1>1, <1>2, <1>3, <1>4, <1>5, <1>6, ApproveKeeps, AgentKeeps, ApplyKeeps, ChatKeeps,
       RejectKeeps, SetKeeps DEF Next

\* A decision is taken once: an intent only while it waits for approval, a
\* proposal only while it is pending.
LEMMA NextFinal ==
  ASSUME CInv, [Next]_vars
  PROVE  /\ \A i \in Intents : intents[i] \in {"approved", "rejected"} => intents'[i] = intents[i]
         /\ \A p \in Proposals : proposals[p].status \in {"applied", "rejected", "expired"}
               => proposals'[p].status \in {proposals[p].status, "lost"}
  <1>1. ASSUME NEW i \in Intents, intents[i] \in {"approved", "rejected"}
        PROVE  intents'[i] = intents[i]
    BY <1>1 DEF CInv, TypeOK, Next, vars, Tick, ToggleHalt, workflowProposals, Restart, NewIntent, ThreadEnds,
                rejectIntent, issueIntentConfirmation, approveIntentByAgent, approveIntent, Approve, setWorkflow,
                issueProposalConfirmation, rejectWorkflowProposal, chatSetWorkflow, applyWorkflowProposal
  <1>2. ASSUME NEW p \in Proposals, proposals[p].status \in {"applied", "rejected", "expired"}
        PROVE  proposals'[p].status \in {proposals[p].status, "lost"}
    <2>0. IsProposal(proposals[p]) /\ DOMAIN proposals = Proposals
      BY DEF CInv, ProposalInv, TypeOK
    <2>1. CASE workflowProposals
      BY <1>2, <2>1 DEF workflowProposals
    <2>2. CASE Restart
      BY <1>2, <2>0, <2>2, StatusType DEF Restart
    <2>3. ASSUME NEW q \in Proposals, NEW patch \in Patches, chatSetWorkflow(q, patch)
          PROVE  proposals'[p] = proposals[p]
      BY <1>2, <2>0, <2>3 DEF chatSetWorkflow
    <2>4. ASSUME NEW q \in Proposals, rejectWorkflowProposal(q)
          PROVE  proposals'[p] = proposals[p]
      BY <1>2, <2>0, <2>4 DEF rejectWorkflowProposal
    <2>5. ASSUME NEW q \in Proposals, NEW n \in 0..MaxTokens, applyWorkflowProposal(q, n)
          PROVE  proposals'[p] = proposals[p]
      BY <1>2, <2>0, <2>5 DEF applyWorkflowProposal, Usable
    <2>6. CASE UNCHANGED proposals
      BY <2>6
    <2> QED
      BY <2>1, <2>2, <2>3, <2>4, <2>5, <2>6 DEF Next, vars, Tick, ToggleHalt, NewIntent, ThreadEnds, rejectIntent,
         issueIntentConfirmation, approveIntentByAgent, approveIntent, setWorkflow, issueProposalConfirmation
  <1> QED
    BY <1>1, <1>2

-----------------------------------------------------------------------------
LEMMA AlwaysCInv == Spec => []CInv
  BY InitCInv, NextCInv, PTL DEF Spec

\* confirm.ts: for any number of intents, proposals and tokens, and any patches,
\* a token is consumed at most once, and what a person's token let through is
\* what the dialogue of that token showed, in time.
THEOREM TokensAreSound == Spec => []TokensSound
  <1>1. CInv => TokensSound
    BY DEF CInv, TokensSound, TokenInv, OneTimeTokens
  <1> QED
    BY <1>1, AlwaysCInv, PTL

\* runtime.ts setWorkflow and approveIntent from chat: no series of patches,
\* proposals and approvals gives the agent more than a person gave it.
THEOREM ChatStaysWithinRights == Spec => []ChatWithinRights
  <1>1. CInv => ChatWithinRights
    BY DEF CInv
  <1> QED
    BY <1>1, AlwaysCInv, PTL

\* approveIntent, rejectIntent, applyWorkflowProposal and rejectWorkflowProposal
\* decide once.
THEOREM DecisionsStayFinal == Spec => DecisionsAreFinal
  <1> DEFINE Final ==
        /\ \A i \in Intents : intents[i] \in {"approved", "rejected"} => intents'[i] = intents[i]
        /\ \A p \in Proposals : proposals[p].status \in {"applied", "rejected", "expired"}
              => proposals'[p].status \in {proposals[p].status, "lost"}
  <1>1. CInv /\ [Next]_vars => [Final]_vars
    BY NextFinal
  <1>2. Spec => [][Final]_vars
    BY <1>1, AlwaysCInv, PTL DEF Spec
  <1> QED
    BY <1>2 DEF DecisionsAreFinal
=============================================================================
