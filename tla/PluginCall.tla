------------------------------ MODULE PluginCall ------------------------------
(***************************************************************************)
(* One call of send_single_notification (monasca_notification/types/       *)
(* notifiers.py): a process hands a notification to one plugin, and what   *)
(* the plugin returns, or raises, makes it sent or failed.  The plugins    *)
(* are modelled by the modules that extend this one.                       *)
(***************************************************************************)
EXTENDS Naturals

VARIABLES
  plugin,    \* the plugin that was called last
  buildable, \* its message can be built: every field that it reads is there (for
             \* e-mail a metric, for most others the alarmDescription, which
             \* _parse_alarm does not require), and its template renders
  at,        \* the step of its send_notification that comes next, or "returned"
  result,    \* what became of the notification: "none" while the call goes on
  accepted,  \* history: how often a service has accepted it in this call
  lost,      \* history: replies of this call that were lost after that
  excused    \* history: a service was away or has refused it in this call

call == <<plugin, buildable, at, result, accepted, lost, excused>>

CallInit ==
  /\ plugin = "none"
  /\ buildable = TRUE
  /\ at = "returned"
  /\ result = "none"
  /\ accepted = 0
  /\ lost = 0
  /\ excused = FALSE

Running(p) == plugin = p /\ at # "returned"
In(p, step) == plugin = p /\ at = step

\* PagerDuty reads nothing that may be missing.
Call(p) ==
  /\ at = "returned"
  /\ plugin' = p
  /\ buildable' \in IF p = "pagerduty" THEN {TRUE} ELSE BOOLEAN
  /\ at' = "message"
  /\ result' = "none"
  /\ accepted' = 0
  /\ lost' = 0
  /\ excused' = FALSE

\* A step that is no request.
Goto(step) ==
  /\ at' = step
  /\ UNCHANGED <<plugin, buildable, result, accepted, lost, excused>>

\* The plugin returns False, or send_single_notification catches what it raises.
Fail(excuse) ==
  /\ at' = "returned"
  /\ result' = "failed"
  /\ excused' = (excused \/ excuse)
  /\ UNCHANGED <<plugin, buildable, accepted, lost>>

\* The message is built outside the try blocks of the plugin, before any request.
BuildMessage(p, next) ==
  /\ In(p, "message")
  /\ IF buildable THEN Goto(next) ELSE Fail(FALSE)

\* The service has accepted the notification and the plugin returns True.
Succeed ==
  /\ at' = "returned"
  /\ result' = "sent"
  /\ accepted' = accepted + 1
  /\ UNCHANGED <<plugin, buildable, lost, excused>>

\* The service has accepted it, the plugin sees an error, and goes on at step.
LoseReply(step) ==
  /\ at' = step
  /\ result' = IF step = "returned" THEN "failed" ELSE "none"
  /\ accepted' = accepted + 1
  /\ lost' = lost + 1
  /\ excused' = TRUE
  /\ UNCHANGED <<plugin, buildable>>

\* The service is away or has refused it, and the plugin goes on at step.
Refuse(step) ==
  /\ at' = step
  /\ result' = IF step = "returned" THEN "failed" ELSE "none"
  /\ excused' = TRUE
  /\ UNCHANGED <<plugin, buildable, accepted, lost>>
=============================================================================
