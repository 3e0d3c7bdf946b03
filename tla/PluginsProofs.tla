----------------------------- MODULE PluginsProofs -----------------------------
(***************************************************************************)
(* What Plugins guarantees for any number of Slack URLs, any limit of the  *)
(* cache and any number of calls.  Every invariant is split by the plugin  *)
(* it is about; the steps of the other plugins and services keep it.       *)
(***************************************************************************)
EXTENDS Plugins, FiniteSetTheorems, TLAPS

Steps == {"returned", "message", "connect", "first", "reconnect", "second",
          "json", "data", "search", "create", "reopen", "comment", "token", "post"}

Names == {"email", "slack", "jira", "webhook", "pagerduty", "hipchat"}

CallTypes ==
  /\ plugin \in Names \cup {"none"}
  /\ at \in Steps
  /\ result \in {"none", "sent", "failed"}
  /\ accepted \in Nat /\ lost \in Nat /\ excused \in BOOLEAN /\ buildable \in BOOLEAN

EmailTypes ==
  /\ mailServer \in {"up", "down"}
  /\ smtp \in {"none", "open", "dead", "farewell"} /\ goodbye \in BOOLEAN

SlackTypes ==
  /\ accepts \in [Urls -> (SUBSET Formats) \ {{}}]
  /\ cache \in SUBSET Urls /\ Cardinality(cache) <= MaxCacheSize
  /\ IsFiniteSet(cache)
  /\ url \in Urls

JiraTypes ==
  /\ issues \in Nat /\ overlapped \in BOOLEAN
  /\ status \in {"open", "closed"}
  /\ found \in {"nothing", "open", "closed"}
  /\ other \in {"idle", "searched", "done"}
  /\ reopenable \in BOOLEAN /\ interfered \in BOOLEAN

Types == CallTypes /\ EmailTypes /\ SlackTypes /\ JiraTypes

\* While a call goes on, the service has accepted nothing but what it has lost the
\* reply to.
Paid == RepeatsPaidFor /\ (at # "returned" => accepted <= lost)

\* The second sendmail meets a closed connection only for a reason, and the first one
\* a 421 only if the call has found it.
ConnectionExcused ==
  /\ In("email", "second") /\ smtp \in {"dead", "farewell"} => excused
  /\ Running("email") /\ smtp = "farewell" => goodbye \/ excused

\* The raw data is posted last only if it will do, or for a reason.
DataExcused == In("slack", "data") => excused \/ "data" \in accepts[url]

SlackInv == CacheIsRight /\ DataExcused

\* An issue is created by one that has found none, and the other one, if it has
\* found none either, overlaps with it.
CreatesPaidFor ==
  In("jira", "create") =>
    /\ issues <= 1
    /\ issues = 1 => other = "done" /\ overlapped
    /\ other = "searched" => overlapped
    /\ status = "open" \/ interfered

OtherPaidFor ==
  other = "searched" =>
    issues <= 1 /\ (issues = 1 => overlapped /\ ~In("jira", "create"))

WillBeSeen ==
  In("jira", "comment") => status = "open" \/ ~reopenable \/ interfered

JiraInv ==
  /\ issues = 0 => status = "open"
  /\ CreatesPaidFor /\ OtherPaidFor /\ IssuesPaidFor
  /\ WillBeSeen /\ CommentsAreSeen

-----------------------------------------------------------------------------
(* The types.                                                              *)

LEMMA TypesSuffice == Types => TypeOK
  BY DEF Types, CallTypes, EmailTypes, SlackTypes, JiraTypes, TypeOK, Steps, Names

\* Whatever comes of a step of a call, the call keeps its types.
LEMMA OutcomeTypes ==
  ASSUME CallTypes, NEW step \in Steps, NEW excuse \in BOOLEAN,
         \/ Goto(step) \/ Fail(excuse) \/ Succeed \/ LoseReply(step) \/ Refuse(step)
         \/ \E p \in Names : BuildMessage(p, step)
         \/ Call("email") \/ Call("slack") \/ Call("jira")
         \/ Call("webhook") \/ Call("pagerduty") \/ Call("hipchat")
         \/ UNCHANGED call
  PROVE  CallTypes'
<1> USE DEF CallTypes
<1>1. CASE Goto(step) \/ UNCHANGED call
  BY <1>1 DEF Goto, call
<1>2. CASE Fail(excuse)
  <2>1. (excused \/ excuse) \in BOOLEAN
    OBVIOUS
  <2> QED
    BY <1>2, <2>1 DEF Fail, Steps
<1>3. CASE Succeed
  BY <1>3 DEF Succeed, Steps
<1>4. CASE LoseReply(step)
  BY <1>4 DEF LoseReply
<1>5. CASE Refuse(step)
  BY <1>5 DEF Refuse
<1>6. ASSUME NEW p \in Names, Call(p) PROVE CallTypes'
  <2>1. /\ plugin' = p /\ at' = "message" /\ result' = "none"
        /\ accepted' = 0 /\ lost' = 0 /\ excused' = FALSE
    BY <1>6 DEF Call
  <2>2. buildable' \in BOOLEAN
    BY <1>6 DEF Call
  <2> QED
    BY <2>1, <2>2 DEF Names, Steps
<1>7. CASE \E p \in Names : BuildMessage(p, step)
  BY <1>7 DEF BuildMessage, Goto, Fail, Steps
<1> QED
  BY <1>1, <1>2, <1>3, <1>4, <1>5, <1>6, <1>7 DEF Names

LEMMA SeverTypes ==
  ASSUME CallTypes, EmailTypes, Sever
  PROVE  CallTypes' /\ smtp' \in {"none", "open", "dead", "farewell"} /\ goodbye' \in BOOLEAN
<1>1. (excused \/ Running("email")) \in BOOLEAN
  OBVIOUS
<1> QED
  BY <1>1 DEF CallTypes, EmailTypes, Sever

LEMMA EmailTypesStep == CallTypes /\ EmailTypes /\ EmailNext => CallTypes' /\ EmailTypes'
<1> SUFFICES ASSUME CallTypes, EmailTypes, EmailNext PROVE CallTypes' /\ EmailTypes'
  OBVIOUS
<1>1. CASE MailServerStops \/ MailServerDisconnects
  BY <1>1, SeverTypes DEF MailServerStops, MailServerDisconnects, EmailTypes
<1>2. CASE MailServerStarts
  BY <1>2 DEF MailServerStarts, EmailTypes, CallTypes, call
<1>3. CASE CallEmail
  <2>1. CallTypes'
    BY <1>3, OutcomeTypes DEF CallEmail, Steps
  <2>2. (smtp = "farewell") \in BOOLEAN
    OBVIOUS
  <2> QED
    BY <1>3, <2>1, <2>2 DEF CallEmail, EmailTypes
<1>4. CASE CreateMsg
  <2>1. CallTypes'
    BY <1>4, OutcomeTypes DEF CreateMsg, Steps, Names
  <2> QED
    BY <1>4, <2>1 DEF CreateMsg, EmailTypes, email
<1>5. CASE ConnectOnce
  <2>1. CallTypes'
    BY <1>5, OutcomeTypes DEF ConnectOnce, Steps
  <2> QED
    BY <1>5, <2>1 DEF ConnectOnce, SmtpConnect, EmailTypes
<1>6. CASE Reconnect
  <2>1. CallTypes'
    BY <1>6, OutcomeTypes DEF Reconnect, Steps
  <2> QED
    BY <1>6, <2>1 DEF Reconnect, SmtpConnect, EmailTypes
<1>7. ASSUME NEW try \in Steps, NEW next \in Steps, Sendmail(try, next)
      PROVE  CallTypes' /\ EmailTypes'
  <2>1. CallTypes'
    BY <1>7, OutcomeTypes DEF Sendmail
  <2> QED
    BY <1>7, <2>1 DEF Sendmail, EmailTypes
<1> QED
  BY <1>1, <1>2, <1>3, <1>4, <1>5, <1>6, <1>7 DEF EmailNext, Steps

LEMMA RememberTypes ==
  ASSUME SlackTypes, NEW format \in Formats, Remember(format) \/ UNCHANGED cache
  PROVE  cache' \in SUBSET Urls /\ IsFiniteSet(cache') /\ Cardinality(cache') <= MaxCacheSize
<1>1. CASE cache' = cache
  BY <1>1 DEF SlackTypes
<1>2. CASE cache' = cache \cup {url} /\ Cardinality(cache) < MaxCacheSize
  <2>1. /\ IsFiniteSet(cache')
        /\ Cardinality(cache') = IF url \in cache THEN Cardinality(cache)
                                 ELSE Cardinality(cache) + 1
    BY <1>2, FS_AddElement DEF SlackTypes
  <2>2. Cardinality(cache) \in Nat
    BY FS_CardinalityType DEF SlackTypes
  <2> QED
    BY <1>2, <2>1, <2>2, SlackAssumption DEF SlackAssumption, SlackTypes
<1> QED
  BY <1>1, <1>2 DEF Remember

LEMMA SlackTypesStep == CallTypes /\ SlackTypes /\ SlackNext => CallTypes' /\ SlackTypes'
<1> SUFFICES ASSUME CallTypes, SlackTypes, SlackNext PROVE CallTypes' /\ SlackTypes'
  OBVIOUS
<1>1. ASSUME NEW u \in Urls, CallSlack(u) PROVE CallTypes' /\ SlackTypes'
  <2>1. CallTypes'
    BY <1>1, OutcomeTypes DEF CallSlack, Steps
  <2> QED
    BY <1>1, <2>1 DEF CallSlack, SlackTypes
<1>3. CASE BuildSlackMessage
  <2>1. CallTypes'
    BY <1>3, OutcomeTypes DEF BuildSlackMessage, Steps, Names
  <2> QED
    BY <1>3, <2>1 DEF BuildSlackMessage, SlackTypes, slack
<1>2. ASSUME NEW format \in Formats, PostSlack(format) PROVE CallTypes' /\ SlackTypes'
  <2>1. Following(format) \in Steps /\ "data" \in Steps
    BY DEF Following, Steps
  <2>2. CallTypes'
    BY <1>2, <2>1, OutcomeTypes DEF PostSlack
  <2>3. Remember(format) \/ UNCHANGED cache
    BY <1>2 DEF PostSlack
  <2> QED
    BY <1>2, <2>2, <2>3, RememberTypes DEF PostSlack, SlackTypes
<1> QED
  BY <1>1, <1>2, <1>3 DEF SlackNext

LEMMA JiraTypesStep == CallTypes /\ JiraTypes /\ JiraNext => CallTypes' /\ JiraTypes'
<1> SUFFICES ASSUME CallTypes, JiraTypes, JiraNext PROVE CallTypes' /\ JiraTypes'
  OBVIOUS
<1>1. CASE CloseIssue \/ OtherSearches \/ OtherCreates
  <2>1. CallTypes'
    BY <1>1 DEF CloseIssue, OtherSearches, OtherCreates, CallTypes, call
  <2>2. CASE CloseIssue
    BY <2>1, <2>2 DEF CloseIssue, JiraTypes
  <2>4. CASE OtherCreates
    BY <2>1, <2>4 DEF OtherCreates, JiraTypes
  <2>3. CASE OtherSearches
    <3>1. (overlapped \/ In("jira", "create")) \in BOOLEAN
      OBVIOUS
    <3>2. overlapped' \in BOOLEAN
      BY <2>3, <3>1 DEF OtherSearches
    <3> QED
      BY <2>1, <2>3, <3>2 DEF OtherSearches, JiraTypes
  <2> QED
    BY <1>1, <2>2, <2>3, <2>4
<1>2. CASE CallJira
  <2>1. CallTypes'
    BY <1>2, OutcomeTypes DEF CallJira, Steps
  <2> QED
    BY <1>2, <2>1 DEF CallJira, JiraTypes
<1>7. CASE BuildJiraMessage
  <2>1. CallTypes'
    BY <1>7, OutcomeTypes DEF BuildJiraMessage, Steps, Names
  <2> QED
    BY <1>7, <2>1 DEF BuildJiraMessage, JiraTypes, jira
<1>3. CASE Search
  <2>1. found' \in {"nothing", "open", "closed"}
    BY <1>3 DEF Search, JiraTypes
  <2>2. CallTypes'
    BY <1>3, <2>1, OutcomeTypes DEF Search, Steps
  <2>3. (overlapped \/ (issues = 0 /\ other = "searched")) \in BOOLEAN
    OBVIOUS
  <2> QED
    BY <1>3, <2>1, <2>2, <2>3 DEF Search, JiraTypes
<1>4. CASE CreateIssue
  <2>1. CallTypes'
    BY <1>4, OutcomeTypes DEF CreateIssue, Steps
  <2> QED
    BY <1>4, <2>1 DEF CreateIssue, JiraTypes
<1>5. CASE ReopenIssue
  <2>1. CallTypes'
    BY <1>5, OutcomeTypes DEF ReopenIssue, Steps
  <2> QED
    BY <1>5, <2>1 DEF ReopenIssue, JiraTypes
<1>6. CASE AddComment \/ RequestFails
  <2>1. CallTypes'
    <3>1. CASE NothingToAdd
      BY <3>1 DEF NothingToAdd, CallTypes, Steps
    <3>2. CASE Succeed \/ LoseReply("returned") \/ RequestFails
      BY <3>2, OutcomeTypes DEF RequestFails, Steps
    <3> QED
      BY <1>6, <3>1, <3>2 DEF AddComment
  <2> QED
    BY <1>6, <2>1 DEF AddComment, RequestFails, JiraTypes, jira
<1> QED
  BY <1>1, <1>2, <1>3, <1>4, <1>5, <1>6, <1>7 DEF JiraNext

LEMMA PostTypesStep == CallTypes /\ Post => CallTypes'
<1> SUFFICES ASSUME CallTypes, Post PROVE CallTypes'
  OBVIOUS
<1>1. CASE PostWebhook
  BY <1>1, OutcomeTypes DEF PostWebhook, FetchToken, PostOnce, Steps, Names
<1>2. CASE PostPagerduty \/ PostHipchat
  BY <1>2, OutcomeTypes DEF PostPagerduty, PostHipchat, PostOnce, Steps, Names
<1> QED
  BY <1>1, <1>2 DEF Post

LEMMA TypesStep == Types /\ [Next]_vars => Types'
<1> SUFFICES ASSUME Types, [Next]_vars PROVE Types'
  OBVIOUS
<1>1. UNCHANGED call => CallTypes'
  BY DEF Types, CallTypes, call
<1>2. UNCHANGED email => EmailTypes'
  BY DEF Types, EmailTypes, email
<1>3. UNCHANGED slack => SlackTypes'
  BY DEF Types, SlackTypes, slack
<1>4. UNCHANGED jira => JiraTypes'
  BY DEF Types, JiraTypes, jira
<1> QED
  BY <1>1, <1>2, <1>3, <1>4, EmailTypesStep, SlackTypesStep, JiraTypesStep, PostTypesStep
     DEF Next, Types, vars

LEMMA InitTypes == Init => Types
<1> SUFFICES ASSUME Init PROVE Types
  OBVIOUS
<1>1. CallTypes
  BY DEF Init, CallInit, CallTypes, Steps, Names
<1>2. IsFiniteSet(cache) /\ Cardinality(cache) = 0
  BY FS_EmptySet DEF Init, SlackInit
<1>3. SlackTypes
  BY <1>2, SlackAssumption DEF SlackAssumption, Init, SlackInit, SlackTypes
<1>4. EmailTypes /\ JiraTypes
  BY DEF Init, EmailInit, EmailTypes, JiraInit, JiraTypes
<1> QED
  BY <1>1, <1>3, <1>4 DEF Types

\* The cache of the Slack plugin never holds more than MAX_CACHE_SIZE URLs.
THEOREM TypeCorrect == Spec => []TypeOK
  BY TypesSuffice, InitTypes, TypesStep, PTL DEF Spec

-----------------------------------------------------------------------------
(* The safety invariants, step by step.                                    *)

\* The steps of a call, whatever the plugin: only one of them accepts without
\* losing the reply, and that is the last one.
LEMMA OutcomePaid ==
  ASSUME CallTypes, Paid, NEW step, NEW excuse,
         \/ at # "returned" /\ (Goto(step) \/ Succeed \/ LoseReply(step) \/ Refuse(step))
         \/ Fail(excuse)
         \/ \E p : Call(p) \/ BuildMessage(p, step)
         \/ UNCHANGED <<at, accepted, lost>>
  PROVE  Paid'
<1> USE DEF CallTypes, Paid, RepeatsPaidFor
<1>1. CASE (Goto(step) /\ at # "returned") \/ UNCHANGED <<at, accepted, lost>>
  BY <1>1 DEF Goto
<1>2. CASE Fail(excuse)
  BY <1>2 DEF Fail
<1>3. CASE Succeed /\ at # "returned"
  BY <1>3 DEF Succeed
<1>4. CASE LoseReply(step) /\ at # "returned"
  BY <1>4 DEF LoseReply
<1>5. CASE Refuse(step) /\ at # "returned"
  BY <1>5 DEF Refuse
<1>6. ASSUME NEW p, Call(p) PROVE Paid'
  BY <1>6 DEF Call
<1>7. ASSUME NEW p, BuildMessage(p, step) PROVE Paid'
  BY <1>7 DEF BuildMessage, In, Goto, Fail
<1> QED
  BY <1>1, <1>2, <1>3, <1>4, <1>5, <1>6, <1>7

\* What happens to the services outside a call repeats nothing.
LEMMA PaidStep == Types /\ Paid /\ [Next]_vars => Paid'
<1> SUFFICES ASSUME CallTypes, Paid, [Next]_vars PROVE Paid'
  BY DEF Types
<1>1. CASE EmailNext
  <2>1. CASE MailServerStops \/ MailServerDisconnects
    BY <2>1, OutcomePaid DEF MailServerStops, MailServerDisconnects, Sever
  <2>2. CASE MailServerStarts
    BY <2>2, OutcomePaid DEF MailServerStarts, call
  <2>3. CASE CallEmail
    BY <2>3, OutcomePaid DEF CallEmail
  <2>4. CASE CreateMsg
    BY <2>4, OutcomePaid DEF CreateMsg
  <2>5. CASE ConnectOnce
    BY <2>5, OutcomePaid DEF ConnectOnce, In
  <2>6. CASE Reconnect
    BY <2>6, OutcomePaid DEF Reconnect, In
  <2>7. ASSUME NEW try, NEW next, try # "returned", Sendmail(try, next) PROVE Paid'
    BY <2>7, OutcomePaid DEF Sendmail, In
  <2> QED
    BY <1>1, <2>1, <2>2, <2>3, <2>4, <2>5, <2>6, <2>7 DEF EmailNext
<1>2. CASE SlackNext
  <2>1. ASSUME NEW u, CallSlack(u) PROVE Paid'
    BY <2>1, OutcomePaid DEF CallSlack
  <2>2. ASSUME NEW format \in Formats, PostSlack(format) PROVE Paid'
    BY <2>2, OutcomePaid DEF PostSlack, In, Formats
  <2>3. CASE BuildSlackMessage
    BY <2>3, OutcomePaid DEF BuildSlackMessage
  <2> QED
    BY <1>2, <2>1, <2>2, <2>3 DEF SlackNext
<1>3. CASE JiraNext
  <2>1. CASE CloseIssue \/ OtherSearches \/ OtherCreates
    BY <2>1, OutcomePaid DEF CloseIssue, OtherSearches, OtherCreates, call
  <2>2. CASE CallJira \/ BuildJiraMessage
    BY <2>2, OutcomePaid DEF CallJira, BuildJiraMessage
  <2>3. CASE Search
    BY <2>3, OutcomePaid DEF Search, In
  <2>4. CASE CreateIssue
    BY <2>4, OutcomePaid DEF CreateIssue, In
  <2>5. CASE ReopenIssue
    BY <2>5, OutcomePaid DEF ReopenIssue, In
  <2>6. CASE AddComment \/ RequestFails
    BY <2>6, OutcomePaid DEF AddComment, NothingToAdd, RequestFails, Paid, RepeatsPaidFor, In
  <2> QED
    BY <1>3, <2>1, <2>2, <2>3, <2>4, <2>5, <2>6 DEF JiraNext
<1>4. CASE Post
  <2>1. CASE PostWebhook
    BY <2>1, OutcomePaid DEF PostWebhook, FetchToken, PostOnce, In
  <2>2. CASE PostPagerduty \/ PostHipchat
    BY <2>2, OutcomePaid DEF PostPagerduty, PostHipchat, PostOnce, In
  <2> QED
    BY <1>4, <2>1, <2>2 DEF Post
<1>5. CASE UNCHANGED vars
  BY <1>5, OutcomePaid DEF vars, call
<1> QED
  BY <1>1, <1>2, <1>3, <1>4, <1>5 DEF Next

\* No plugin repeats a message unless the reply to the first one was lost.
THEOREM NoNeedlessRepeats == Spec => []RepeatsPaidFor
<1>1. Init => Paid
  BY DEF Init, CallInit, Paid, RepeatsPaidFor
<1>2. Paid => RepeatsPaidFor
  BY DEF Paid
<1> QED
  BY <1>1, <1>2, InitTypes, TypesStep, PaidStep, PTL DEF Spec

-----------------------------------------------------------------------------
(* Failures.                                                               *)

\* A step belongs to one plugin; the services only take excuses along.
LEMMA Whose ==
  /\ EmailNext => \/ plugin' = "email"
                  \/ UNCHANGED <<plugin, at, result>> /\ (excused => excused')
  /\ SlackNext => plugin' = "slack"
  /\ JiraNext => plugin' = "jira" \/ UNCHANGED call
  /\ Post => plugin' \in {"webhook", "pagerduty", "hipchat"}
<1> USE DEF Call, BuildMessage, In, Running, Goto, Fail, Succeed, LoseReply, Refuse, call
<1>1. EmailNext => \/ plugin' = "email"
                   \/ UNCHANGED <<plugin, at, result>> /\ (excused => excused')
  <2>1. CASE MailServerStops \/ MailServerStarts \/ MailServerDisconnects
    BY <2>1 DEF MailServerStops, MailServerStarts, MailServerDisconnects, Sever
  <2>2. CASE CallEmail
    BY <2>2 DEF CallEmail
  <2>3. CASE CreateMsg \/ ConnectOnce \/ Reconnect
    BY <2>3 DEF CreateMsg, ConnectOnce, Reconnect
  <2>4. CASE Sendmail("first", "reconnect") \/ Sendmail("second", "returned")
    BY <2>4 DEF Sendmail
  <2> QED
    BY <2>1, <2>2, <2>3, <2>4 DEF EmailNext
<1>2. SlackNext => plugin' = "slack"
  BY DEF SlackNext, CallSlack, BuildSlackMessage, PostSlack
<1>3. JiraNext => plugin' = "jira" \/ UNCHANGED call
  BY DEF JiraNext, CloseIssue, OtherSearches, OtherCreates, CallJira, BuildJiraMessage, Search,
         CreateIssue, ReopenIssue, AddComment, NothingToAdd, RequestFails
<1>4. Post => plugin' \in {"webhook", "pagerduty", "hipchat"}
  BY DEF Post, PostWebhook, FetchToken, PostPagerduty, PostHipchat, PostOnce
<1> QED
  BY <1>1, <1>2, <1>3, <1>4

\* A connection is closed before the second sendmail if the server could not be
\* reached for it, or has closed it since.
LEMMA ConnectionStep == ConnectionExcused /\ [Next]_vars => ConnectionExcused'
<1> SUFFICES ASSUME ConnectionExcused, [Next]_vars PROVE ConnectionExcused'
  OBVIOUS
<1> USE DEF ConnectionExcused, In, Running
<1>1. CASE EmailNext
  <2>1. CASE MailServerStops \/ MailServerDisconnects
    BY <2>1 DEF MailServerStops, MailServerDisconnects, Sever
  <2>2. CASE MailServerStarts
    BY <2>2 DEF MailServerStarts, call
  <2>3. CASE CallEmail
    BY <2>3 DEF CallEmail, Call
  <2>4. CASE CreateMsg
    BY <2>4 DEF CreateMsg, BuildMessage, Goto, Fail, email
  <2>5. CASE ConnectOnce
    BY <2>5 DEF ConnectOnce, SmtpConnect, Goto, Fail
  <2>6. CASE Reconnect
    BY <2>6 DEF Reconnect, SmtpConnect, Goto, Refuse
  <2>7. CASE Sendmail("first", "reconnect") \/ Sendmail("second", "returned")
    BY <2>7 DEF Sendmail, Goto, Fail, Succeed, LoseReply
  <2> QED
    BY <1>1, <2>1, <2>2, <2>3, <2>4, <2>5, <2>6, <2>7 DEF EmailNext
<1>2. CASE (SlackNext \/ JiraNext \/ Post) /\ UNCHANGED email
  BY <1>2, Whose DEF email, call
<1>3. CASE UNCHANGED vars
  BY <1>3 DEF vars, email, call
<1> QED
  BY <1>1, <1>2, <1>3 DEF Next

\* A service understands one of the two formats: if not JSON, then raw data.
LEMMA SlackStep == Types /\ SlackInv /\ [Next]_vars => SlackInv'
<1> SUFFICES ASSUME SlackTypes, SlackInv, [Next]_vars PROVE SlackInv'
  BY DEF Types
<1> USE DEF SlackInv, CacheIsRight, DataExcused, In
<1>1. CASE SlackNext
  <2>1. ASSUME NEW u \in Urls, CallSlack(u) PROVE SlackInv'
    BY <2>1 DEF CallSlack, Call
  <2>2. ASSUME NEW format \in Formats, PostSlack(format) PROVE SlackInv'
    <3>1. CacheIsRight'
      BY <2>2 DEF PostSlack, Remember
    <3>2. CASE format = "data"
      BY <2>2, <3>1, <3>2 DEF PostSlack, Following, Succeed, LoseReply, Refuse, Fail
    <3>3. CASE format = "json"
      <4>1. "json" \in accepts[url] \/ "data" \in accepts[url]
        <5>1. accepts[url] \in SUBSET Formats /\ accepts[url] # {}
          BY DEF SlackTypes
        <5> QED
          BY <5>1 DEF Formats
      <4> QED
        BY <2>2, <3>1, <3>3, <4>1 DEF PostSlack, Following, Succeed, LoseReply, Refuse, Goto
    <3> QED
      BY <3>2, <3>3 DEF Formats
  <2>3. CASE BuildSlackMessage
    BY <2>3 DEF BuildSlackMessage, BuildMessage, Goto, Fail, slack
  <2> QED
    BY <1>1, <2>1, <2>2, <2>3 DEF SlackNext
<1>2. CASE (EmailNext \/ JiraNext \/ Post) /\ UNCHANGED slack
  BY <1>2, Whose DEF slack, call
<1>3. CASE UNCHANGED vars
  BY <1>3 DEF vars, slack, call
<1> QED
  BY <1>1, <1>2, <1>3 DEF Next

\* What a failure needs, whatever the plugin.
LEMMA OutcomeExcused ==
  ASSUME FailuresExcused, NEW step,
         \/ Goto(step) \/ Fail(TRUE) \/ Succeed \/ LoseReply(step) \/ Refuse(step)
         \/ Fail(FALSE) /\ (excused \/ (plugin = "email" /\ goodbye))
         \/ \E p : Call(p) \/ BuildMessage(p, step)
         \/ UNCHANGED <<plugin, result, buildable>> /\ (excused => excused'),
         goodbye' = goodbye \/ \E p : Call(p)
  PROVE  FailuresExcused'
<1> USE DEF FailuresExcused
<1>5. ASSUME NEW p, Call(p) PROVE FailuresExcused'
  BY <1>5 DEF Call
<1> SUFFICES ASSUME goodbye' = goodbye PROVE FailuresExcused'
  BY <1>5
<1>1. CASE Goto(step) \/ Fail(TRUE) \/ Succeed
  BY <1>1 DEF Goto, Fail, Succeed
<1>2. CASE LoseReply(step) \/ Refuse(step)
  BY <1>2 DEF LoseReply, Refuse
<1>3. CASE Fail(FALSE) /\ (excused \/ (plugin = "email" /\ goodbye))
  BY <1>3 DEF Fail
<1>4. CASE UNCHANGED <<plugin, result, buildable>> /\ (excused => excused')
  BY <1>4
<1>6. ASSUME NEW p, BuildMessage(p, step) PROVE FailuresExcused'
  BY <1>6 DEF BuildMessage, Goto, Fail
<1> QED
  BY <1>1, <1>2, <1>3, <1>4, <1>5, <1>6

LEMMA FailuresStep ==
  FailuresExcused /\ ConnectionExcused /\ DataExcused /\ [Next]_vars => FailuresExcused'
<1> SUFFICES ASSUME FailuresExcused, ConnectionExcused, DataExcused, [Next]_vars
             PROVE  FailuresExcused'
  OBVIOUS
<1>1. CASE EmailNext
  <2>1. CASE MailServerStops \/ MailServerDisconnects
    BY <2>1, OutcomeExcused DEF MailServerStops, MailServerDisconnects, Sever
  <2>2. CASE MailServerStarts
    BY <2>2, OutcomeExcused DEF MailServerStarts, call
  <2>3. CASE CallEmail
    BY <2>3, OutcomeExcused DEF CallEmail
  <2>4. CASE CreateMsg
    BY <2>4, OutcomeExcused DEF CreateMsg, email
  <2>5. CASE ConnectOnce
    BY <2>5, OutcomeExcused DEF ConnectOnce
  <2>6. CASE Reconnect
    BY <2>6, OutcomeExcused DEF Reconnect
  <2>7. CASE Sendmail("first", "reconnect")
    BY <2>7, OutcomeExcused DEF Sendmail, ConnectionExcused, In, Running
  <2>8. CASE Sendmail("second", "returned")
    BY <2>8, OutcomeExcused DEF Sendmail, ConnectionExcused, In, Running
  <2> QED
    BY <1>1, <2>1, <2>2, <2>3, <2>4, <2>5, <2>6, <2>7, <2>8 DEF EmailNext
<1>2. CASE SlackNext /\ goodbye' = goodbye
  <2>1. ASSUME NEW u, CallSlack(u) PROVE FailuresExcused'
    BY <2>1, OutcomeExcused DEF CallSlack
  <2>2. ASSUME NEW format \in Formats, PostSlack(format) PROVE FailuresExcused'
    BY <1>2, <2>2, OutcomeExcused DEF PostSlack, DataExcused, Formats
  <2>3. CASE BuildSlackMessage
    BY <1>2, <2>3, OutcomeExcused DEF BuildSlackMessage
  <2> QED
    BY <1>2, <2>1, <2>2, <2>3 DEF SlackNext
<1>3. CASE JiraNext /\ goodbye' = goodbye
  <2>1. CASE CallJira \/ BuildJiraMessage
    BY <1>3, <2>1, OutcomeExcused DEF CallJira, BuildJiraMessage
  <2>2. CASE CloseIssue \/ OtherSearches \/ OtherCreates
    <3>1. UNCHANGED call
      BY <2>2 DEF CloseIssue, OtherSearches, OtherCreates
    <3> QED
      BY <1>3, <3>1 DEF FailuresExcused, call
  <2>3. CASE Search \/ CreateIssue \/ ReopenIssue \/ RequestFails
    BY <1>3, <2>3, OutcomeExcused DEF Search, CreateIssue, ReopenIssue, RequestFails
  <2>4. CASE AddComment
    <3>1. CASE NothingToAdd
      BY <3>1 DEF NothingToAdd, FailuresExcused
    <3>2. CASE Succeed \/ LoseReply("returned")
      BY <1>3, <3>2, OutcomeExcused
    <3> QED
      BY <2>4, <3>1, <3>2 DEF AddComment
  <2> QED
    BY <1>3, <2>1, <2>2, <2>3, <2>4 DEF JiraNext
<1>4. CASE Post /\ goodbye' = goodbye
  <2>1. CASE PostWebhook
    BY <1>4, <2>1, OutcomeExcused DEF PostWebhook, FetchToken, PostOnce
  <2>2. CASE PostPagerduty \/ PostHipchat
    BY <1>4, <2>2, OutcomeExcused DEF PostPagerduty, PostHipchat, PostOnce
  <2> QED
    BY <1>4, <2>1, <2>2 DEF Post
<1>5. CASE UNCHANGED vars
  BY <1>5, OutcomeExcused DEF vars, call, email
<1> QED
  BY <1>1, <1>2, <1>3, <1>4, <1>5 DEF Next, email

LEMMA InitExcuses == Init => ConnectionExcused /\ SlackInv /\ FailuresExcused
  BY DEF Init, CallInit, SlackInit, ConnectionExcused, SlackInv, CacheIsRight, DataExcused,
         FailuresExcused, In, Running

\* What an earlier call has left, a closed connection or a full cache, never makes a
\* plugin fail, but for the 421 of a mail server that is still to be read: only a
\* service does, in this call, or a message that cannot be built.
THEOREM NoNeedlessFailures == Spec => []FailuresExcused
<1>1. SlackInv => DataExcused
  BY DEF SlackInv
<1> QED
  BY <1>1, InitExcuses, InitTypes, TypesStep, ConnectionStep, SlackStep, FailuresStep,
     PTL DEF Spec

\* No URL is in the cache whose service does not take raw data.
THEOREM CacheStaysRight == Spec => []CacheIsRight
<1>1. SlackInv => CacheIsRight
  BY DEF SlackInv
<1> QED
  BY <1>1, InitExcuses, InitTypes, TypesStep, SlackStep, PTL DEF Spec

-----------------------------------------------------------------------------
(* The issues of an alarm.                                                 *)

LEMMA JiraStep == Types /\ JiraInv /\ JiraNext => JiraInv'
<1> SUFFICES ASSUME JiraTypes, JiraInv, JiraNext PROVE JiraInv'
  BY DEF Types
<1> USE DEF JiraTypes, JiraInv, CreatesPaidFor, OtherPaidFor, IssuesPaidFor, WillBeSeen,
            CommentsAreSeen, In
<1>1. CASE CloseIssue
  BY <1>1 DEF CloseIssue, call
<1>2. CASE OtherSearches
  <2>1. /\ issues = 0 /\ other' = "searched"
        /\ overlapped => overlapped'
        /\ plugin = "jira" /\ at = "create" => overlapped'
        /\ UNCHANGED <<plugin, at, result, issues, status, reopenable, interfered>>
    BY <1>2 DEF OtherSearches, call
  <2> QED
    BY <2>1
\* A second issue: this process must be about to create the first one, or have done so.
<1>3. CASE OtherCreates
  BY <1>3 DEF OtherCreates, call
<1>4. CASE CallJira
  BY <1>4 DEF CallJira, Call
<1>10. CASE BuildJiraMessage
  BY <1>10 DEF BuildJiraMessage, BuildMessage, Goto, Fail, jira
<1>5. CASE Search
  <2>1. CASE issues = 0
    <3>1. /\ plugin' = "jira" /\ at' = "create" /\ result' = result
          /\ other = "searched" => overlapped'
          /\ overlapped => overlapped'
          /\ UNCHANGED <<issues, status, reopenable, other, interfered>>
      BY <1>5, <2>1 DEF Search, Goto
    <3>2. result' = "sent" => status = "open"
      BY <2>1
    <3> QED
      BY <2>1, <3>1, <3>2
  <2>2. CASE issues # 0
    <3>1. at' = IF status = "closed" THEN "reopen" ELSE "comment"
      BY <1>5, <2>2 DEF Search, Goto
    <3> QED
      BY <1>5, <2>2, <3>1 DEF Search, Goto
  <2> QED
    BY <2>1, <2>2
<1>6. CASE CreateIssue
  BY <1>6 DEF CreateIssue, Goto, Refuse
<1>7. CASE ReopenIssue
  BY <1>7 DEF ReopenIssue, Goto, Refuse
<1>8. CASE AddComment
  BY <1>8 DEF AddComment, Succeed, LoseReply, NothingToAdd, jira
<1>9. CASE RequestFails
  BY <1>9 DEF RequestFails, Running, Fail, jira
<1> QED
  BY <1>1, <1>2, <1>3, <1>4, <1>5, <1>6, <1>7, <1>8, <1>9, <1>10 DEF JiraNext

\* The other plugins have nothing to do with the tracker.
LEMMA JiraKept == JiraInv /\ UNCHANGED jira /\ plugin' # "jira" => JiraInv'
  BY DEF JiraInv, CreatesPaidFor, OtherPaidFor, IssuesPaidFor, WillBeSeen, CommentsAreSeen,
         In, jira

LEMMA JiraUntouched ==
  JiraInv /\ UNCHANGED <<jira, plugin, at, result>> => JiraInv'
  BY DEF JiraInv, CreatesPaidFor, OtherPaidFor, IssuesPaidFor, WillBeSeen, CommentsAreSeen,
         In, jira

LEMMA TrackerStep == Types /\ JiraInv /\ [Next]_vars => JiraInv'
<1> SUFFICES ASSUME Types, JiraInv, [Next]_vars PROVE JiraInv'
  OBVIOUS
<1>1. CASE JiraNext
  BY <1>1, JiraStep
<1>2. CASE EmailNext /\ UNCHANGED jira
  BY <1>2, Whose, JiraKept, JiraUntouched
<1>3. CASE (SlackNext \/ Post) /\ UNCHANGED jira
  BY <1>3, Whose, JiraKept
<1>4. CASE UNCHANGED vars
  BY <1>4, JiraUntouched DEF vars, call
<1> QED
  BY <1>1, <1>2, <1>3, <1>4 DEF Next

LEMMA InitTracker == Init => JiraInv
  BY DEF Init, CallInit, JiraInit, JiraInv, CreatesPaidFor, OtherPaidFor, IssuesPaidFor,
         WillBeSeen, CommentsAreSeen, In

\* However often an issue was closed and whatever replies were lost, an alarm has
\* one issue, or two if two engines searched before either of them created.
THEOREM OneIssuePerAlarm == Spec => []IssuesPaidFor
<1>1. JiraInv => IssuesPaidFor
  BY DEF JiraInv
<1> QED
  BY <1>1, InitTracker, InitTypes, TypesStep, TrackerStep, PTL DEF Spec

\* The issue of a notification that was sent is open, unless the workflow or a user
\* prevents it.
THEOREM CommentsOnOpenIssues == Spec => []CommentsAreSeen
<1>1. JiraInv => CommentsAreSeen
  BY DEF JiraInv
<1> QED
  BY <1>1, InitTracker, InitTypes, TypesStep, TrackerStep, PTL DEF Spec
=============================================================================
