------------------------- MODULE InspectionMessages -------------------------
(***************************************************************************)
(* The messages of the run inspection protocol                             *)
(* (core/go/gen/temporaless/v1/inspectionv1/inspection.pb.go), each        *)
(* reduced to what the service and its clients tell apart.  The store and  *)
(* the namespace are those of the one scope that is inspected.  A listed   *)
(* object, a run, a timer or a claim is its name.                          *)
(***************************************************************************)

Null == [null |-> TRUE]

WakeLedgerState ==
  {"AGREES", "CANONICAL_MISSING", "CANONICAL_DIFFERS", "CANONICAL_UNREADABLE"}

(* In the order of precedence. *)
RunPendingReason ==
  <<"TERMINAL", "OVERDUE_WAKE", "RETRYING", "STALE_CLAIM", "EXECUTING",
    "SLEEPING", "POLLING", "WAITING_NO_WAKE">>

-----------------------------------------------------------------------------
(* Requests: the filters, the page size, and the token of the page before. *)

ListWorkflowDirectoryRequest(prefix, status, size) ==
  [method |-> "directory", prefix |-> prefix, status |-> status, page_size |-> size]

ListScheduledWakesRequest(overdue, size) ==
  [method |-> "wakes", overdue_only |-> overdue, page_size |-> size]

ListWorkflowRunsRequest(ascending, size) ==
  [method |-> "runs", ascending |-> ascending, page_size |-> size]

-----------------------------------------------------------------------------
(* Rows: what a listing says about one object. *)

WorkflowRunSummary(run, status) == [key |-> run, status |-> status]

WorkflowDirectoryEntry(name, pointer, run, stale) ==
  [name |-> name, pointer |-> pointer, run |-> run, stale_pointer |-> stale]

ScheduledWake(name, ledger, overdue, status) ==
  [name |-> name, ledger_state |-> ledger, overdue |-> overdue, workflow_status |-> status]

RunPendingState(reason, id) == [reason |-> reason, resource_id |-> id]

-----------------------------------------------------------------------------
(* Responses *)

ListWorkflowDirectoryResponse(rows, scanned, token) ==
  [rows |-> rows, scanned |-> scanned, next_page_token |-> token]

ListScheduledWakesResponse(rows, scanned, invalid, quarantined, token) ==
  [rows |-> rows, scanned |-> scanned, invalid |-> invalid, quarantined |-> quarantined,
   next_page_token |-> token]

ListWorkflowRunsResponse(rows, total, missing, token) ==
  [rows |-> rows, total_listed |-> total, missing |-> missing, next_page_token |-> token]

DescribeRunResponse(pending, inspected, truncated) ==
  [pending |-> pending, claims_inspected |-> inspected, truncated |-> truncated]
=============================================================================
