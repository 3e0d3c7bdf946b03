----------------------------- MODULE JiraNotifier -----------------------------
(***************************************************************************)
(* The Jira plugin (monasca_notification/plugins/jira_notifier.py): the    *)
(* notifications of one alarm become comments on one issue, which is       *)
(* created for the first of them and opened again when it is closed.       *)
(* Users close issues, and another engine process may call the plugin for  *)
(* the same alarm at the same time.                                        *)
(***************************************************************************)
EXTENDS PluginCall

VARIABLES
  issues,      \* issues that a search for the alarm finds
  status,      \* the status of the first of them
  reopenable,  \* the workflow of the project has a transition to open it again
  found,       \* what the search has found: "nothing", "open" or "closed"
  other,       \* the other process: has it searched, and found nothing?
  overlapped,  \* history: one process has searched before the other one created
  interfered   \* history: a user has closed the issue since the call began

jira == <<issues, status, reopenable, found, other, overlapped, interfered>>

JiraInit ==
  /\ issues = 0
  /\ status = "open"
  /\ reopenable \in BOOLEAN
  /\ found = "nothing"
  /\ other = "idle"
  /\ overlapped = FALSE
  /\ interfered = FALSE

-----------------------------------------------------------------------------
(* The users of the tracker and the other process.                         *)

CloseIssue ==
  /\ issues > 0 /\ status = "open"
  /\ status' = "closed"
  /\ interfered' = TRUE
  /\ UNCHANGED <<call, issues, reopenable, found, other, overlapped>>

OtherSearches ==
  /\ other = "idle" /\ issues = 0
  /\ other' = "searched"
  /\ overlapped' = (overlapped \/ In("jira", "create"))
  /\ UNCHANGED <<call, issues, status, reopenable, found, interfered>>

OtherCreates ==
  /\ other = "searched"
  /\ other' = "done"
  /\ issues' = issues + 1
  /\ UNCHANGED <<call, status, reopenable, found, overlapped, interfered>>

-----------------------------------------------------------------------------
(* send_notification.  Every request may fail, and every exception of the  *)
(* workflow makes the notification a failed one.                           *)

CallJira ==
  /\ Call("jira")
  /\ interfered' = FALSE
  /\ UNCHANGED <<issues, status, reopenable, found, other, overlapped>>

\* _build_jira_message, of the default or a custom format, and the project out of
\* the address.  A custom format must have the summary and the description that
\* jira_workflow takes, or it fails like a message that cannot be built.
BuildJiraMessage ==
  /\ BuildMessage("jira", "search")
  /\ UNCHANGED jira

\* Mutant: an issue that is closed counts as none.
SearchOpen ==
  /\ In("jira", "search")
  /\ found' = IF issues = 0 \/ status = "closed" THEN "nothing" ELSE status
  /\ overlapped' = (overlapped \/ (issues = 0 /\ other = "searched"))
  /\ Goto(IF found' = "nothing" THEN "create" ELSE "comment")
  /\ UNCHANGED <<issues, status, reopenable, other, interfered>>

\* jira.JIRA(...), search_issues, and the status of the first issue.
Search ==
  /\ In("jira", "search")
  /\ found' = IF issues = 0 THEN "nothing" ELSE status
  /\ overlapped' = (overlapped \/ (issues = 0 /\ other = "searched"))
  /\ Goto(CASE found' = "nothing" -> "create"
            [] found' = "closed" -> "reopen"
            [] found' = "open" -> "comment")
  /\ UNCHANGED <<issues, status, reopenable, other, interfered>>

CreateIssue ==
  /\ In("jira", "create")
  /\ issues' = issues + 1
  /\ Goto("comment") \/ Refuse("returned")   \* the reply may be lost
  /\ UNCHANGED <<status, reopenable, found, other, overlapped, interfered>>

\* Mutant: the issue stays closed.
LeaveClosed ==
  /\ In("jira", "reopen")
  /\ Goto("comment")
  /\ UNCHANGED jira

\* The first transition whose name has "reopen" in it, if there is one.
ReopenIssue ==
  /\ In("jira", "reopen")
  /\ status' = IF reopenable THEN "open" ELSE status
  /\ Goto("comment") \/ Refuse("returned")
  /\ UNCHANGED <<issues, reopenable, found, other, overlapped, interfered>>

\* A custom format without comments: jira_workflow ends here.
NothingToAdd ==
  /\ at' = "returned"
  /\ result' = "sent"
  /\ UNCHANGED <<plugin, buildable, accepted, lost, excused>>

AddComment ==
  /\ In("jira", "comment")
  /\ Succeed \/ LoseReply("returned") \/ NothingToAdd
  /\ UNCHANGED jira

RequestFails ==
  /\ Running("jira") /\ at # "message"
  /\ Fail(TRUE)
  /\ UNCHANGED jira

JiraNext ==
  \/ CloseIssue \/ OtherSearches \/ OtherCreates
  \/ CallJira \/ BuildJiraMessage
  \/ Search \/ CreateIssue \/ ReopenIssue \/ AddComment \/ RequestFails
=============================================================================
