-------------------------------- MODULE Plugins --------------------------------
(***************************************************************************)
(* The plugins of one engine process, called one after the other in any    *)
(* order and for ever: e-mail, Slack and Jira, which keep state between    *)
(* the calls, and those that make a single HTTP request (webhook,          *)
(* PagerDuty, HipChat).  The notifications between two calls may be of any *)
(* other type, so that a plugin finds its state as an earlier call has     *)
(* left it, and its service as the world has changed it since.             *)
(***************************************************************************)
EXTENDS EmailNotifier, SlackNotifier, JiraNotifier

vars == <<call, email, slack, jira>>

Init ==
  /\ CallInit
  /\ EmailInit
  /\ SlackInit
  /\ JiraInit

\* requests.post inside its try block: accepted, refused or away, or timed out after
\* it was accepted.
PostOnce(p) == In(p, "post") /\ (Succeed \/ Fail(TRUE) \/ LoseReply("returned"))

\* get_auth_token: Keystone answers, or refuses or is away.  It is called outside the
\* try block of the plugin; send_single_notification catches what it raises.
FetchToken == In("webhook", "token") /\ (Goto("post") \/ Fail(TRUE))

\* A webhook needs a token if CONF.keystone.auth_required.
PostWebhook ==
  \/ Call("webhook")
  \/ \E first \in {"token", "post"} : BuildMessage("webhook", first)
  \/ FetchToken
  \/ PostOnce("webhook")

PostPagerduty ==
  Call("pagerduty") \/ BuildMessage("pagerduty", "post") \/ PostOnce("pagerduty")

PostHipchat ==
  Call("hipchat") \/ BuildMessage("hipchat", "post") \/ PostOnce("hipchat")

Post == PostWebhook \/ PostPagerduty \/ PostHipchat

Next ==
  \/ EmailNext /\ UNCHANGED <<slack, jira>>
  \/ SlackNext /\ UNCHANGED <<email, jira>>
  \/ JiraNext /\ UNCHANGED <<email, slack>>
  \/ Post /\ UNCHANGED <<email, slack, jira>>

Spec == Init /\ [][Next]_vars

-----------------------------------------------------------------------------
(* Properties.                                                             *)

\* Every variable keeps its type.
TypeOK ==
  /\ plugin \in {"none", "email", "slack", "jira", "webhook", "pagerduty", "hipchat"}
  /\ at \in {"returned", "message", "connect", "first", "reconnect", "second",
             "json", "data", "search", "create", "reopen", "comment", "token", "post"}
  /\ result \in {"none", "sent", "failed"}
  /\ accepted \in Nat /\ lost \in Nat /\ excused \in BOOLEAN /\ buildable \in BOOLEAN
  /\ mailServer \in {"up", "down"}
  /\ smtp \in {"none", "open", "dead", "farewell"} /\ goodbye \in BOOLEAN
  /\ accepts \in [Urls -> (SUBSET Formats) \ {{}}]
  /\ cache \in SUBSET Urls /\ Cardinality(cache) <= MaxCacheSize
  /\ url \in Urls
  /\ issues \in Nat /\ overlapped \in BOOLEAN
  /\ status \in {"open", "closed"}
  /\ found \in {"nothing", "open", "closed"}
  /\ other \in {"idle", "searched", "done"}
  /\ reopenable \in BOOLEAN /\ interfered \in BOOLEAN

\* The retries that a plugin makes itself, the second sendmail and the second
\* format, repeat a message only when the reply to the first one was lost.
RepeatsPaidFor == accepted <= 1 + lost

\* A notification is sent if nothing stands against it: a plugin fails only when
\* its service was away or refused it during this very call, or when there is no
\* message to send.  What an earlier call has left, a closed connection or a full
\* cache, is no excuse, but for one: a connection that the server has closed with a
\* 421 costs the e-mail plugin one message, and only the one that finds it.
FailuresExcused ==
  result = "failed" => excused \/ ~buildable \/ (plugin = "email" /\ goodbye)

\* No URL is stuck with the wrong format: what is in the cache takes raw data, though
\* it may have got there after a JSON request that failed for another reason.
CacheIsRight == \A u \in cache : "data" \in accepts[u]

\* One alarm has one issue, however often it was closed, and whatever replies were
\* lost; it has two only if two processes searched before either of them created.
IssuesPaidFor == issues <= 1 + (IF overlapped THEN 1 ELSE 0)

\* The issue of a notification that counts as sent is open, so that somebody looks at
\* it and its comment, if the workflow allows that and nobody has closed it since the
\* call began.
CommentsAreSeen ==
  plugin = "jira" /\ result = "sent" =>
    status = "open" \/ ~reopenable \/ interfered
=============================================================================
