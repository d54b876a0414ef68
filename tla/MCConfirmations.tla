-------------------------- MODULE MCConfirmations --------------------------
EXTENDS Confirmations

\* One patch per interesting class: a short, a long and an empty watch list, the
\* two directions of the maximum and of the switches, and a mixed chat patch.
MCPatches ==
    {[watchlist |-> 2], [watchlist |-> 0], [watchlist_max |-> 1],
     [paused |-> FALSE], [chat_requires_approval |-> FALSE],
     [watchlist |-> 1, paused |-> TRUE, chat_requires_approval |-> FALSE]}

\* Paused and with human approval required: everything the agent could widen is narrow.
Guarded == [watchlist |-> 1, watchlist_max |-> 2, paused |-> TRUE,
            chat_requires_approval |-> TRUE, narrate |-> FALSE]

\* DEFAULT_WORKFLOW: running, chat_requires_approval off.
Default == [watchlist |-> 1, watchlist_max |-> 2, paused |-> FALSE,
            chat_requires_approval |-> FALSE, narrate |-> FALSE]

-----------------------------------------------------------------------------
\* Two statements of the code's comments and documents that the code does not live
\* up to, kept to be tried by hand with InitWorkflow <- Default.

\* docs/ARCHITECTURE.md:86-87: "Anything that moves money creates a pending
\* intent; approval needs a one-time confirm token from the UI."
ApprovalNeedsToken == \A a \in ledger : a.kind = "intent" => a.by = "human"

\* confirm.ts:13 and :90: the token is void when the content changed before it is
\* applied ("the workflow was changed by somebody else first"), and :92, the preview
\* is the result of applying the patch: what is applied is what was previewed.
AppliedAsPreviewed ==
    \A a \in ledger : a.kind = "workflow_proposal" => a.result = proposals[a.target].after
=============================================================================
