----------------------------- MODULE SlackNotifier -----------------------------
(***************************************************************************)
(* The Slack plugin (monasca_notification/plugins/slack_notifier.py).  It  *)
(* posts a message as JSON and, if that fails, as raw data.  A URL that    *)
(* took raw data is remembered, up to a limit, and gets no JSON any more.  *)
(***************************************************************************)
EXTENDS PluginCall, FiniteSets

CONSTANTS
  Urls,         \* the addresses of Slack methods, without their parameters
  MaxCacheSize  \* MAX_CACHE_SIZE

ASSUME SlackAssumption == MaxCacheSize \in Nat

Formats == {"json", "data"}

VARIABLES
  accepts,  \* accepts[u]: the formats that the service behind u understands
  cache,    \* _raw_data_url_caches
  url       \* the address of the notification

slack == <<accepts, cache, url>>

SlackInit ==
  /\ accepts \in [Urls -> (SUBSET Formats) \ {{}}]
  /\ cache = {}
  /\ url \in Urls

CallSlack(u) ==
  /\ Call("slack")
  /\ url' = u
  /\ UNCHANGED <<accepts, cache>>

\* _build_slack_message, and the first of the formats.
BuildSlackMessage ==
  /\ BuildMessage("slack", IF url \in cache THEN "data" ELSE "json")
  /\ UNCHANGED slack

\* Mutants: there is no limit; whatever has worked is remembered.
RememberAll(format) == cache' = IF format = "data" THEN cache \cup {url} ELSE cache

RememberAny(format) ==
  cache' = IF Cardinality(cache) < MaxCacheSize THEN cache \cup {url} ELSE cache

\* The URL took raw data.
Remember(format) ==
  cache' = IF format = "data" /\ Cardinality(cache) < MaxCacheSize
             THEN cache \cup {url} ELSE cache

\* What follows a format that did not work.
Following(format) == IF format = "json" THEN "data" ELSE "returned"

\* Mutant: the second format is posted whatever became of the first one.
PostBoth(format) ==
  /\ In("slack", format)
  /\ format \in accepts[url]
  /\ \/ format = "data" /\ Succeed
     \/ /\ format = "json"
        /\ accepted' = accepted + 1
        /\ at' = "data"
        /\ UNCHANGED <<plugin, buildable, result, lost, excused>>
  /\ UNCHANGED slack

\* _send_message and _check_response: the service accepts the message or does not,
\* is away, or has accepted it when the request times out.
PostSlack(format) ==
  /\ In("slack", format)
  /\ \/ format \in accepts[url] /\ Succeed /\ Remember(format)
     \/ format \in accepts[url] /\ LoseReply(Following(format)) /\ UNCHANGED cache
     \/ format \in accepts[url] /\ Refuse(Following(format)) /\ UNCHANGED cache
     \/ /\ format \notin accepts[url]
        /\ IF format = "json" THEN Goto("data") ELSE Fail(FALSE)
        /\ UNCHANGED cache
  /\ UNCHANGED <<accepts, url>>

SlackNext ==
  \/ \E u \in Urls : CallSlack(u)
  \/ BuildSlackMessage
  \/ \E format \in Formats : PostSlack(format)
=============================================================================
