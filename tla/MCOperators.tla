---------------------------- MODULE MCOperators -----------------------------
(***************************************************************************)
(* What operators do: deleting runs, walking the listings of the           *)
(* inspection service, and describing a run.  Each is checked on its own:  *)
(* part says which of them a behaviour is about, the others rest in their  *)
(* initial state.  The fairness is that of Retention, the only one of them *)
(* with a liveness property.                                               *)
(***************************************************************************)
EXTENDS Retention, Inspection, RunDescription

CONSTANTS r1, r2, s1, s2

VARIABLE part

Object(l, p, r) == [listed |-> l, point |-> p, record |-> r]
Gone == Object("absent", "absent", "absent")

(* Small pages of everything, pages of which some have no row, and a walk    *)
(* with a malformed prefix.                                                  *)
BadPrefix == ListWorkflowDirectoryRequest({1, 2}, "UNSPECIFIED", 2)
MCMalformed == {BadPrefix}
MCWalks ==
  {ListWorkflowDirectoryRequest({1, 2, 3}, "UNSPECIFIED", 1),
   ListWorkflowDirectoryRequest({1, 2, 3}, "COMPLETED", 2),
   ListScheduledWakesRequest(FALSE, 1), ListScheduledWakesRequest(TRUE, 0),
   ListWorkflowRunsRequest(TRUE, 1), ListWorkflowRunsRequest(FALSE, 2), BadPrefix}

(* Two runs in progress, the second of which has a corrupt record, and a     *)
(* stale pointer; a wake, a fired entry and an overdue wake without a        *)
(* canonical timer; two run directories, as many as may be listed.           *)
MCContents ==
  [directory |-> <<Object("IN_PROGRESS", "absent", "IN_PROGRESS"),
                   Object("IN_PROGRESS", "absent", "IN_PROGRESS"),
                   Object("IN_PROGRESS", "absent", "COMPLETED")>>,
   wakes |-> <<Object("SCHEDULED", "SCHEDULED", "IN_PROGRESS"),
               Object("FIRED", "SCHEDULED", "IN_PROGRESS"),
               Object("OVERDUE", "absent", "corrupt")>>,
   runs |-> <<Object("dir", "absent", "COMPLETED"), Gone,
              Object("dir", "absent", "IN_PROGRESS")>>]

MCObjects ==
  [directory |-> {Gone, Object("COMPLETED", "absent", "corrupt"), Object("invalid", "absent", "absent")},
   wakes |-> {Gone, Object("invalid", "absent", "absent"), Object("OVERDUE", "SCHEDULED", "COMPLETED")},
   runs |-> {Gone, Object("dir", "absent", "absent"), Object("dir", "absent", "COMPLETED")}]

MCNames == 1..3
MCChildren == <<2, 1>>
MCLimits ==
  [Concurrency |-> 2, ReadBudget |-> 2, DefaultPageSize |-> 2, MaxPageSize |-> 2,
   MaxListedObjects |-> 3, MaxListedRuns |-> 2]

MCKindOf == <<"SLEEP", "ACTIVITY_RETRY">>
MCFireAt == <<0, 1>>

MCInit ==
  /\ Init /\ InspectionInit /\ DescriptionInit
  /\ part \in {"retention", "inspection", "description"}
  /\ part # "inspection" => walk = BadPrefix

MCNext ==
  /\ \/ part = "retention" /\ Next /\ UNCHANGED <<inspectionVars, descriptionVars>>
     \/ part = "inspection" /\ InspectionNext /\ UNCHANGED <<vars, descriptionVars>>
     \/ part = "description" /\ DescriptionNext /\ UNCHANGED <<vars, inspectionVars>>
  /\ UNCHANGED part

MCVars == <<part, vars, inspectionVars, descriptionVars>>

MCSpec == MCInit /\ [][MCNext]_MCVars /\ Fairness
=============================================================================
