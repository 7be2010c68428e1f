----------------------------- MODULE WorkStatus -----------------------------
(***************************************************************************)
(* The status vocabulary of a research work item and the transition table  *)
(* of the signal platform (signal-platform/state-machine.ts), with the     *)
(* pairing between a pending stage and its leased form                     *)
(* (signal-platform/store-adapter.ts).  No state: every other module that  *)
(* moves a work row takes its statuses from here.                          *)
(***************************************************************************)

(* What each status may move to in normal operation.                       *)
NormalTransitions ==
    [ signal_observed   |-> {"triage_pending"},
      triage_pending    |-> {"archived", "deferred", "research_pending"},
      archived          |-> {},
      deferred          |-> {"triage_pending", "research_pending", "expired"},
      research_pending  |-> {"retrieval_leased", "expired"},
      retrieval_leased  |-> {"deep_pending", "synthesis_pending", "research_pending",
                             "retry_wait", "expired", "dead_letter"},
      deep_pending      |-> {"deep_leased", "expired"},
      deep_leased       |-> {"research_ready", "deep_pending", "retry_wait",
                             "expired", "dead_letter"},
      synthesis_pending |-> {"synthesis_leased", "expired"},
      synthesis_leased  |-> {"research_ready", "entity_pending", "complete",
                             "synthesis_pending", "retry_wait", "expired", "dead_letter"},
      research_ready    |-> {"entity_pending", "complete", "dead_letter"},
      entity_pending    |-> {"entity_leased", "expired"},
      entity_leased     |-> {"complete", "entity_pending", "retry_wait",
                             "expired", "dead_letter"},
      complete          |-> {},
      retry_wait        |-> {"research_pending", "deep_pending", "synthesis_pending",
                             "entity_pending", "expired", "dead_letter"},
      expired           |-> {"triage_pending"},
      dead_letter       |-> {"research_pending", "deep_pending", "synthesis_pending",
                             "entity_pending"} ]

Status == DOMAIN NormalTransitions

CanTransition(from, to) == to \in NormalTransitions[from]

PendingStatus == {"research_pending", "deep_pending", "synthesis_pending", "entity_pending"}
LeasedStatus  == {"retrieval_leased", "deep_leased", "synthesis_leased", "entity_leased"}

LeasedStatusFor ==
    [ research_pending  |-> "retrieval_leased",
      deep_pending      |-> "deep_leased",
      synthesis_pending |-> "synthesis_leased",
      entity_pending    |-> "entity_leased" ]

PendingStatusFor ==
    [ retrieval_leased |-> "research_pending",
      deep_leased      |-> "deep_pending",
      synthesis_leased |-> "synthesis_pending",
      entity_leased    |-> "entity_pending" ]
=============================================================================
