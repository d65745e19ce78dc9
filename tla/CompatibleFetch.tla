---------------------------- MODULE CompatibleFetch ----------------------------
(***************************************************************************)
(* A fetch into the compatible view: HubPlan decides what is published,    *)
(* StandardCache publishes it (HubStore::acquire, acquisition.rs           *)
(* activate_compatible). The transfer in between ends with validated       *)
(* content in the owned cache and is the subject of PartialTransfer.       *)
(***************************************************************************)
EXTENDS StandardCache, Sequences

CONSTANTS
    Character, Name, Separator, Url, TreeUrl, RevisionUrl,
    MaxPages, MaxFiles, MaxRedirects, Requests, PageEntries, Directory, Malformed,
    Asked           \* Asked[o]: what is asked of the hub in opening o

VARIABLES
    stage, request, commit, visited, trail, files, served, outcome,
    asking          \* the requests that may be made

planVars == <<stage, request, commit, visited, trail, files, served, outcome>>
fetchVars == <<vars, planVars, asking>>

Hub == INSTANCE HubPlan WITH File <- Path, Commits <- Commit

ASSUME HubAssumption == Hub!PlanConstants
ASSUME AskedAssumption == Asked \in [Openings -> SUBSET Requests]

PlansNothing == asking = {}

(* A publication is what a plan says: its commit and its paths; it is      *)
(* symbolic if the revision was. Where no request is made the plans are    *)
(* taken as given.                                                         *)
Planned(t) ==
    PlansNothing \/
    (/\ outcome # None /\ outcome.kind = "planned"
     /\ t.commit = outcome.plan.commit /\ t.paths = outcome.plan.paths
     /\ t.symbolic <=> request.revision \notin Commit)

FetchInit ==
    /\ Hub!Init
    /\ \E o \in Openings : InitWith(o) /\ asking = Asked[o]

Plans ==
    /\ Hub!Next /\ (stage = "idle" => request' \in asking)
    /\ UNCHANGED <<vars, asking>>

Publishes ==
    /\ \/ \E p \in Process : \E t \in work[p] : (t.op = "publish" => Planned(t)) /\ Start(p, t)
       \/ \E p \in Process : Proceed(p) \/ Fault(p) \/ Crash(p)
       \/ Outside
    /\ UNCHANGED <<planVars, asking>>

FetchSpec == FetchInit /\ [][Plans \/ Publishes]_fetchVars

(* The fairness of StandardCache; the hub owes no answer.                  *)
FairFetchSpec == FetchSpec /\ Fairness

(* The variables of both parts keep their types, and the planner its       *)
(* bounds, see StandardCache and HubPlan.                                  *)
FetchTypeOK == TypeOK /\ Hub!PlanTypeOK

(* A plan holds exactly what the filter means of a tree that was retrieved *)
(* to its end (hub_protocol.rs retrieve_tree), see HubPlan.                *)
PlanIsExact == Hub!PlanIsExact
==============================================================================
