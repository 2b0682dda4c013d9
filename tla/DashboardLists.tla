---------------------------- MODULE DashboardLists ----------------------------
(***************************************************************************)
(* The lists of jobs and agents of the dashboard's page (public/app.js):   *)
(* filters, searches and pages, and the answers of the server, which may   *)
(* come in another order than they were asked for.  Nothing relates an     *)
(* answer to the tab or the page it was asked for.                         *)
(*                                                                         *)
(* The server cuts a page out of all jobs and then filters it (server.ts   *)
(* 1623-1641): its page number and hasNext do not depend on the filter.    *)
(***************************************************************************)
EXTENDS Naturals, FiniteSets

CONSTANTS
    JobTabs,        \* "All", "Active" and the statuses
    JobPages,       \* pages of all jobs, and of all agents
    MaxLoads        \* bound: loads of each list in flight

ASSUME ListsAssumption ==
    JobPages \in Nat \ {0} /\ MaxLoads \in Nat /\ {"All", "Active"} \subseteq JobTabs

VARIABLES
    jobTab, jobSearched, jobPage, jobHasNext,   \* jobFilter, jobSearch <> "", ...
    jobList,        \* what state.jobs holds: [filter, page], or Nothing
    jobsShown,      \* the tab, the search and the list renderJobList showed last
    jobLoads,       \* loadJobs in flight: [filter, page, from]
    jobsLoading,    \* state.loading.jobs
    agentPage, agentList, agentLoads, agentsLoading,
    badged,         \* whether the badges of the agents that are shown have come
    timeline        \* of a job that is expanded: "closed", "loading", "events" or "error"

jobListVars == <<jobTab, jobSearched, jobPage, jobHasNext, jobList, jobsShown, jobLoads,
                 jobsLoading>>
agentListVars == <<agentPage, agentList, agentLoads, agentsLoading, badged>>
listVars == <<jobListVars, agentListVars, timeline>>

Nothing == [filter |-> "none", page |-> 0]

ListsInit ==
    /\ jobTab = "Active" /\ jobSearched = FALSE /\ jobPage = 1 /\ jobHasNext = FALSE
    /\ jobList = Nothing /\ jobsShown = <<>> /\ jobLoads = {} /\ jobsLoading = FALSE
    /\ agentPage = 1 /\ agentList = 0 /\ agentLoads = {} /\ agentsLoading = FALSE
    /\ badged = FALSE /\ timeline = "closed"

-----------------------------------------------------------------------------
(* Jobs *)

LoadJobs(filter, page) ==
    /\ Cardinality(jobLoads) < MaxLoads
    /\ jobLoads' = jobLoads \cup {[filter |-> filter, page |-> page]} /\ jobsLoading' = TRUE

\* renderJobs, when the page is opened, whatever tab was chosen last.
RenderJobs ==
    /\ LoadJobs("Active", jobPage)
    /\ UNCHANGED <<jobTab, jobSearched, jobPage, jobHasNext, jobList, jobsShown>>

\* poll, refreshCurrentView and the actions on jobs: without a filter.
ReloadJobs ==
    /\ LoadJobs("All", jobPage)
    /\ UNCHANGED <<jobTab, jobSearched, jobPage, jobHasNext, jobList, jobsShown>>

FilterJobs(tab) ==
    /\ jobTab' = tab /\ jobSearched' = FALSE /\ jobPage' = 1 /\ LoadJobs(tab, 1)
    /\ UNCHANGED <<jobHasNext, jobList, jobsShown>>

\* Forward only while the server said that there is more.
ChangeJobPage(next) ==
    /\ next \in {jobPage - 1, jobPage + 1} /\ next >= 1 /\ (next > jobPage => jobHasNext)
    /\ LoadJobs(jobTab, next)
    /\ UNCHANGED <<jobTab, jobSearched, jobPage, jobHasNext, jobList, jobsShown>>

\* renderJobList: what is loaded, filtered by the tab and the search.
RenderJobList(tab, searched, list) == jobsShown' = <<tab, searched, list>>

SearchJobs ==
    /\ \E searched \in BOOLEAN : jobSearched' = searched /\ RenderJobList(jobTab, searched, jobList)
    /\ UNCHANGED <<jobTab, jobPage, jobHasNext, jobList, jobLoads, jobsLoading>>

\* An answer, or an error: loadJobs does not throw, the list is rendered all the same.
JobsAnswered(load) ==
    /\ jobList' = load /\ jobPage' = load.page /\ jobHasNext' = (load.page < JobPages)
    /\ RenderJobList(jobTab, jobSearched, load)
JobsFailed ==
    /\ RenderJobList(jobTab, jobSearched, jobList)
    /\ UNCHANGED <<jobList, jobPage, jobHasNext>>

JobsLoaded(load) ==
    /\ load \in jobLoads /\ jobLoads' = jobLoads \ {load} /\ jobsLoading' = FALSE
    /\ JobsAnswered(load) \/ JobsFailed
    /\ UNCHANGED <<jobTab, jobSearched>>

\* __toggleJob, and its events.
ToggleJob ==
    timeline' = IF timeline = "closed" THEN "loading" ELSE "closed"
TimelineLoaded ==
    /\ timeline # "closed" /\ timeline' \in {"events", "error"}

-----------------------------------------------------------------------------
(* Agents *)

LoadAgents(page) ==
    /\ Cardinality(agentLoads) < MaxLoads
    /\ agentLoads' = agentLoads \cup {page} /\ agentsLoading' = TRUE
    /\ UNCHANGED <<agentPage, agentList, badged>>

ChangeAgentPage(page) == page >= 1 /\ LoadAgents(page)
\* By poll and the agents' page, and by the history, which takes all of them as page 1.
ReloadAgents == LoadAgents(agentPage) \/ LoadAgents(1)

\* Their badges are asked for one by one; those that do not come are none.
AgentsLoaded(page) ==
    /\ page \in agentLoads /\ agentLoads' = agentLoads \ {page} /\ agentsLoading' = FALSE
    /\ \/ agentList' = page /\ agentPage' = page /\ badged' = FALSE
       \/ UNCHANGED <<agentList, agentPage, badged>>
BadgesLoaded ==
    /\ agentList # 0 /\ badged' = TRUE
    /\ UNCHANGED <<agentPage, agentList, agentLoads, agentsLoading>>

ListsNext ==
    \/ /\ \/ RenderJobs \/ ReloadJobs \/ SearchJobs
          \/ \E tab \in JobTabs : FilterJobs(tab)
          \/ \E next \in 1..JobPages : ChangeJobPage(next)
          \/ \E load \in jobLoads : JobsLoaded(load)
       /\ UNCHANGED <<agentListVars, timeline>>
    \/ (ToggleJob \/ TimelineLoaded) /\ UNCHANGED <<jobListVars, agentListVars>>
    \/ /\ \/ ReloadAgents \/ BadgesLoaded
          \/ \E page \in 1..JobPages : ChangeAgentPage(page)
          \/ \E page \in agentLoads : AgentsLoaded(page)
       /\ UNCHANGED <<jobListVars, timeline>>

ListsTypeOK ==
    /\ jobTab \in JobTabs /\ {jobSearched, jobHasNext, jobsLoading} \subseteq BOOLEAN
    /\ jobPage \in 1..JobPages /\ jobList.page \in 0..JobPages
    /\ Cardinality(jobLoads) <= MaxLoads
    /\ {agentsLoading, badged} \subseteq BOOLEAN /\ agentLoads \subseteq 1..JobPages
    /\ agentPage \in 1..JobPages /\ agentList \in 0..JobPages
    /\ timeline \in {"closed", "loading", "events", "error"}

-----------------------------------------------------------------------------
\* A skeleton stays only while an answer is awaited, whatever answers overtake others.
SkeletonsEnd == (jobsLoading => jobLoads # {}) /\ (agentsLoading => agentLoads # {})
=============================================================================
