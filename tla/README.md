# A verification project for monasca-notification

monasca-notification reads alarms from Kafka and notifies people.  It keeps no
state of its own: what it knows is in Kafka offsets, Kafka topics and the
database, and what it does is decided by the order in which it reads, sends,
publishes and commits.  That order is what these TLA+ modules are about, under
crashes, rebalances of the consumer group, database failures and signals.

Paths below are relative to `src/monasca_notification/`, unless they say `src/`.

## 1. Inventory

| component | code | state | operations | hard because |
|---|---|---|---|---|
| notification engine (several processes) | `notification_engine.py`, `processors/alarm_processor.py`, `notification.py` | consumer position, committed offset, the alarm at hand, what of it was sent | receive, `to_notification`, `_add_periodic_notifications`, `send`, publish twice, commit | death at any step, partitions that move, partial publication |
| retry engine | `retry_engine.py`, `common/utils.py` | the same for the retry topic; `retry_count` travels in the message | rebuild from the database, sleep, send, republish or give up, commit | stale lookup across the sleep, duplicates that multiply |
| periodic engine, one per period | `periodic_engine.py`, `common/utils.py` | the same for the topic of the period | rebuild, `_keep_sending`, sleep, send, republish, commit | a message that must go round for ever, then end |
| plugin registration | `processors/notification_processor.py`, `common/repositories/*` | table `notification_method_type` | fetch, insert, fetch, bounded loop | many processes, no transaction |
| daemon | `main.py` | `processors`, `exiting`, signal handlers | start, `clean_exit` | a handler that interrupts itself |
| sending | `types/notifiers.py`, `processors/notification_processor.py` | dict of plugins | `send_notifications` | an exception of a plugin is a failure |
| repositories | `common/repositories/*`, `get_db_repo` | one lazily opened connection (`OrmRepo` has a pool, but no engine can construct it) | five queries | dead connections, what an error is turned into |
| e-mail plugin | `plugins/email_notifier.py` | an SMTP connection | connect, sendmail, reconnect and sendmail again | a connection closed between two messages, or after acceptance |
| Slack plugin | `plugins/slack_notifier.py` | cache of raw data URLs | two formats | cache limit |
| Jira plugin | `plugins/jira_notifier.py` | the issue tracker | search, create, reopen, comment | several engines, partial failure |
| HipChat, PagerDuty, webhook plugins | `plugins/*` | none | one HTTP request | a reply that is lost |
| configuration, statistics, logging | `conf/*`, `config.py`, `common/utils.py` | options | none | nothing |

How they interact.  The notification engine publishes on the topics that the
retry engine and the periodic engines read; those publish on the topics that they
read themselves.  All of them send through the same plugins and look up
`notification_method`, which the monasca API edits at any time; alarms change
state through monasca-thresh.  The daemon is the parent of all engine processes
and does nothing but start them and end them together.

What makes each component correct:

- *notification engine*: nothing is lost; what is sent twice is paid for by a
  failure; alarms of a partition are handled in order; every alarm is committed in
  the end.
- *retry engine*: nobody is given up before the limit or tried beyond it, deleted
  methods are not used for long, the topic drains.
- *periodic engine*: a stream is neither lost nor multiplied without a failure,
  goes on for as long as the state lasts, ends after it.
- *registration*: whichever driver is configured, who starts to work has its types in the
  table, and races do not change that.
- *daemon*: one signal ends everything, once, with the status of what caused it.
- *repositories*: a lookup gets over a connection that was closed before; whatever
  the server did, the engine gets answers again.
- *plugins*: what one call leaves behind (a connection, a cache, an issue) never
  makes a later one fail or repeat.
- *the notification and retry engines together*: nothing is forgotten between them, nobody is
  told or tried more often than the failures explain, states arrive in order unless one was
  refused, and in the end everybody is told or given up.

`PROJECT.json` lists every hazard of the code with its line and the properties
that would catch it.

## 2. Modules

| module | models | role |
|---|---|---|
| `AlarmDelivery` | the promise of "Fault Tolerance" in `src/README.rst:58-82` | abstract specification |
| `NotificationEngine` | `NotificationEngine.run` of all engines, the consumer group, the TTL | component, implements `AlarmDelivery` |
| `TopicPartition` | one Kafka partition: queue from the committed offset on, position, owner | used by the next two |
| `RetryEngine` | `RetryEngine.run`, `construct_notification_object` | component |
| `PeriodicEngine` | `PeriodicEngine.run`, `_keep_sending`, `construct_notification_object` | component |
| `Pipeline` | the notification engines and the retry engines over the topics between them, and what the recipients see | composition |
| `PluginRegistration` | `NotificationProcessor.__init__`: `load_plugins`, `get_db_repo`, `insert_configured_plugins` and the insert of the repositories | component |
| `Supervisor` | `main`, `clean_exit`, `start_process` | component |
| `Repository` | `get_db_repo`, the connection of the repositories, and the callers that try twice | component |
| `PluginCall` | one call of `send_single_notification`: its result and what services did | extended by the next three |
| `EmailNotifier`, `SlackNotifier`, `JiraNotifier` | `send_notification` of the three plugins that keep state | components |
| `Plugins` | a process that calls these and the plugins of one request in any order | composition |
| `PipelineProofs` | | theorems about `NotificationEngine` alone and about `Pipeline` |
| `RetryEngineProofs`, `PeriodicEngineProofs`, `PluginRegistrationProofs`, `SupervisorProofs`, `RepositoryProofs`, `PluginsProofs` | | theorems about the module of that name |
| `TopicPartitionProofs` | | lemmas about the steps on a partition, used by the proofs of `RetryEngine`, `PeriodicEngine` and `Pipeline` |
| `MCNotificationEngine`, `MCPipeline`, `MCPluginRegistration` | | small instances for TLC |

The definitions marked as mutants change one definition the way a plausible bug
would; no specification uses them.  With the mutant in its place the property
named in `PROJECT.json` fails.

### 2.1 State and actions against the code

**NotificationEngine.**  `phase[e]` is the line of `run` that engine `e` is about
to execute; `current`, `todo`, `sent`, `failed` are its local variables
`alarm`, the rest of `notifications`, `sent`, `failed`.  A notification is a pair
of an alarm and a method.

| action | code |
|---|---|
| `Receive` | the `for` over the consumer, line 57 |
| `ToNotification` | `to_notification`: parse, `_alarm_is_valid`, `_build_notification`; the `KeyError` of `Notification.__init__` for an alarm that is not `Constructible`, since it has no metrics |
| `AddPeriodic` | `_add_periodic_notifications`, lines 47-53 |
| `Send` | one turn of `send_notifications`; any exception of a plugin is a failure |
| `PublishSent`, `PublishFailed` | lines 64-67, with `Published` for a call that raises after a part of the messages |
| `Commit` | line 69 |
| `Crash`, `Restart` | death of a process, and the process supervisor |
| `AssignFree`, `Rebalance` | the consumer group |
| `Expire` | time passes the TTL |

A read of the database that fails once is repeated by the code and leaves no trace;
one that fails twice leaves `run` and is a `Crash`.  A producer that raises leaves
`run` too.  An engine that has lost its partition is not told: it goes on with its
alarm, publishes, and its commit has no effect on a partition it does not own.

**TopicPartition, RetryEngine, PeriodicEngine.**  The queue holds the messages from
the committed offset on, so that a commit drops the messages up to the position
and a takeover sets the position back to 0.  A message is the notification it
carries and, for the retry topic, `retry_count`.  `row` is the row of
`notification_method`, `alarm` the row of the alarm.  `Construct` has the four
outcomes of `construct_notification_object`: the stored method; none, since it was
deleted; the copy in the message, when the database fails twice; none, when
anything else is raised.  The sleep is the time between `Construct` (or
`KeepSending`) and `Send`: rows and alarms change in it.  A row of type "plugin" may become
"noPlugin" and back, since the API changes types, and only `"deleted"` is for ever; a
message is rebuilt with either.  `FirstFailure` and `Start` stand for the notification
engine; after a failure they may do again what they did, as its replay does.  `Send` includes the
comparison of `retry_count`, of local variables only; `Republish` increments and
publishes.

**Pipeline.**  It extends `NotificationEngine` and instantiates `RetryEngine`, both
unchanged.  `Enqueue` puts the messages that `PublishFailed` writes, all or a part of
them, on the queue that the retry engines read; the two share `notificationTopic` and the
number of failures.  `FirstFailure` is not used, the notification engines are there
themselves.  Rows of `notification_method` are fixed here.  `told`, `refused` and `stale`
record what a recipient sees: how often, whether it was refused before, and whether it
came after the notification of a later alarm.

**PluginRegistration.**  `Load` is `load_plugins`: of the enabled types any subset ends up
in `configured`, since a class that cannot be imported or constructed is left out.  `remaining`, `attempt`, `limit` are the local variables
`remaining_plugin_types`, `attempt`, `max_retry`; `raised` says whether the `try`
block of this turn has raised.  `GetDbRepo` calls the class of the repository with the
configuration; `OrmRepo.__init__` takes no argument (`TakesConfig`), so that the process
fails there, and nothing of `OrmRepo` beyond its constructor is modelled.  `InsertAll` is MySQL's single statement, undone by a
duplicate that is ignored, which the history `overtaken` remembers; `InsertTypeError` is `PostgresqlRepo`,
which passes a string where psycopg2 takes a sequence of values.  `Check` is the
fetch after the insert and the branches behind it, `FetchFails` an error of that
fetch inside and outside the `try`.

**Supervisor.**  `frames` are the activations of `clean_exit`, since its handler
runs between two steps of whatever the main thread does, itself included.
`pending` are signals whose Python handler has not run yet.  `Enter` and
`SetExiting` are separate: a signal may arrive between the test of `exiting` and
the assignment.  Signals without a handler act by default: SIGCHLD is lost,
SIGTERM kills the parent, SIGINT raises `KeyboardInterrupt`.

**Repository.**  A process begins, at first and after each `Restart`, with `GetDbRepo`, which is
where it ends with the orm driver.  `connection` is `self._mysql` or `self._pgsql`; a closed one
looks open until it is used.  `phase` is the first or the second
try of the caller: `to_notification`, `grab_stored_notification_method` or
`_keep_sending`.  `LoseConnection` is the `except` clause of the repository: MySQL forgets
the connection (`DropConnection`), PostgreSQL keeps it.  `RaiseTypeError` is
`PostgresqlRepo` again, with the id of a method or an alarm as the parameters.

**PluginCall and the plugins.**  `at` is the step of `send_notification` that
comes next, `result` what the call has returned.  `accepted`, `lost` and `excused` are
history of the call.  Every request may be accepted, refused, or accepted with its reply
lost.  `buildable` says whether the message can be built from this notification, which happens
outside the `try` blocks of the plugins (`BuildMessage`).  `smtp` is `self._smtp`, at first `"none"`, where `"dead"` is a connection closed by the server and not
yet found out, and `"farewell"` one on which the server has left a 421 before it closed it.  smtplib
takes the 421 for the answer to MAIL FROM and raises `SMTPSenderRefused`, which is not
`SMTPServerDisconnected`: `Sendmail` fails without a reconnect, and leaves a connection that is
found dead the next time.  (It may also meet the closed connection first, hence the other
disjunct.)  `goodbye` is history: this call has found a farewell.  `Reconnect` replaces the connection or, if it cannot, keeps it.  `cache` is
`_raw_data_url_caches`.  `issues` and `status` are the tracker's: the plugin has no
state, and its three or four requests interleave with users who close issues and with
another engine for the same alarm.  `NothingToAdd` is a custom format without comments.  The composition lets a plugin find the state of its
last call after anything else was sent.

## 3. Runs

| run | instance | shows |
|---|---|---|
| `group` | 2 engines (symmetric), 2 partitions of 1 alarm of every kind, 3 methods (both / sent only / periodic without plugin), 2 failures | types, `NoLoss`, `ExpiresWhole`, `AttemptsPaidFor`, refinement of `AlarmDelivery` (`DeliveryPromise`) |
| `pipeline` | 2 notification engines and 1 retry engine, 1 partition of 2 alarms, 1 method, `max_attempts` 2, 1 failure | `NothingForgotten`, `ToldPaidFor`, `TriesPaidFor`, `StaleIsExplained`, `DeliveredInOrder`, `AtMostOneInFlight`; under fairness `EverybodyIsTold` |
| `incomplete_alarm` | 1 engine, alarms without metrics | **violation**: such an alarm blocks its partition for ever |
| `retries` | 2 engines, 1 notification, 3 attempts, 2 failures | types, `NotDroppedEarly`, `AttemptsPaidFor`, `LateSendsPaidFor`, `RetriesEnd` |
| `unreadable_retry` | 1 engine, 1 failure | **violation**: an unexpected error discards a notification |
| `periodic` | 2 engines, 1 notification, 2 entries of the state, 1 failure | types, `StreamKept`, `StreamsPaidFor`, `LateSendsPaidFor`, `KeepsSending`, `FallsSilent` |
| `registration` | 3 processes with types {3}, {1}, {2}, any of them loaded, any initial table, three drivers, 1 database error each | types, `ReadyIsRegistered`, `RegistrationEnds` |
| `signals` | 2 children, 2 signals from outside | types, `StatusTellsCause`, `ExitIsCarriedOut`, `NoOrphans`, `SignalsEndDaemon` |
| `early_death` | 2 children, no signal | **violation**: a child that dies before the handlers are installed is not noticed |
| `database` | 3 drivers, 3 kinds of engine, 3 failures of the server | types, `SecondTryReconnects`, `AnswersAgain` |
| `plugins` | 2 URLs of every kind, a cache of 1, one alarm and one other engine for Jira | types, `RepeatsPaidFor`, `FailuresExcused`, `CacheIsRight`, `IssuesPaidFor`, `CommentsAreSeen` |
| `orm_driver` | 3 processes, the orm driver, no database error | **violation**: every engine dies in its constructor |

**Bounds.**  Two engines are needed for a takeover and for a zombie that still
works; with two failures the second one can hit the engine that took over, or the
first one again after its restart.  Two alarms of a partition (`pipeline`) are needed to tell the order of
alarms, a position that has run ahead by more than one of them, and a retry that comes after a
later notification;
two partitions (`group`) to let an engine own
two, lose one and commit the other.  Three methods are the three ways a
notification can go.  A "disabled" alarm takes the path of a "malformed" one, and `group`
leaves it out.  One retry engine is enough in `pipeline`, where its death and restart
meet the notification engines; what two of them do to each other is in `retries`.  Three attempts give one message that is neither the first
nor the last of its chain.  Two entries of the state allow the return of an alarm
before its old stream has ended.  Three processes whose types overlap in three
ways make each lose a race to another.  Two signals besides those of the children
interrupt a handler that interrupts a handler.  Three failures of the database
server hit both tries of a lookup and the next one.  Two URLs and a cache of one are
a full cache.  The plugins need no other bound: their histories are those of one call,
and a second engine is enough for two issues.  `CHECK_DEADLOCK FALSE` is said
where the system stops by nature: all bounded alarms are committed and all bounded
failures used up, or the daemon has exited.

Every bound is a constant: `NumAlarms`, `MaxFaults`, `MaxTransitions`,
`MaxErrors`, `MaxSignals`.

**Fairness.**  `WF(EngineStep(e))`: a process that is running executes its next
statement.  That assumes that every sleep and every request ends.  `src/README.rst:80` says that
timeouts are implemented for all notification types, and five plugins pass one to the requests
that carry the message; the Jira plugin declares the option (`plugins/jira_notifier.py:229`) and
does not use it: `jira.JIRA(...)` gets none (line 176).  Nor does the session with which the webhook
plugin gets a token (`common/utils.py:151`).  There `EverybodyIsTold`, `RetriesEnd`,
`KeepsSending` and `FallsSilent` rest on a service that answers in the end, whatever it answers.
`WF(Restart(e))`: the
process supervisor that `src/README.rst:70-72` assumes.  `WF(AssignFree)`: the consumer
group assigns a partition nobody owns.  `WF(Start(n))`: alarm messages are read in
the end, which is the first part of `EverybodyIsTold` in `Pipeline`.  `PipelineFairness`
is the fairness of both its components.  `WF(Step(p))`: a starting
process goes on; no fairness makes the database work, a failure is bounded.
`WF(EngineStep)` and `WF(ServerStarts)` of `Repository`: the engine goes on and is
started again, and a database server that stopped is repaired.
`WF(Parent)`: the parent goes on and handles a signal that is pending; children are
under no fairness: they may hang, which is why `clean_exit` kills them.  Nothing has to crash, to be
rebalanced, to expire or to be sent successfully.

**What "paid for" means.**  The code promises at-least-once delivery and has no
memory of what it sent, so a duplicate after a failure is by design
(`src/README.rst:64-66`).  The properties `...PaidFor` make that exact: the
number of repeats is bounded by the number of failures, so no repeat comes from
an interleaving alone.

## 4. Findings

1. *Poison alarm* (`incomplete_alarm`).  `_parse_alarm` does not require `metrics`
   (`processors/alarm_processor.py:43-56`), `Notification.__init__` reads it
   (`notification.py:74`).  The `KeyError` is caught nowhere, the daemon restarts, and
   the same alarm is read again.
2. *Dropped retry* (`unreadable_retry`).  `common/utils.py:66-68` answers any
   exception but `DatabaseException` with `None`, which means "method deleted" to
   its callers.  `src/README.rst:48-50` knows two ends of a retry only: sent, or limit hit.
   The repository has a cause of its own: `PostgresqlRepo.get_notification` passes the bare id
   to `execute` (`pgsql_repo.py:93`), which is a `TypeError` in psycopg2, so that with PostgreSQL
   no notification is retried and none is repeated.
3. *Unnoticed death* (`early_death`).  `main.py:119-126`.
4. *A driver that cannot be used* (`orm_driver`).  `get_db_repo` passes the configuration to the
   class of the repository (`common/utils.py:36`), and `OrmRepo.__init__` takes none
   (`orm_repo.py:28`): with `repo_driver = orm`, which `conf/database.py:49-50` offers, every
   engine dies of a `TypeError` at every start.  The tests construct it without an argument
   (`src/tests/test_orm_repo.py:27`).

Not findings, but boundaries of properties that hold:

- with `max_attempts = 0` a notification is tried once: the comparison comes after the
  attempt (`Tries` in `AttemptsPaidFor`);
- a retried notification may arrive after the one for a newer state of its alarm, since nothing
  compares them (`StaleIsExplained`: only a refusal or a failure brings it about);
- a method whose period is changed falls silent until the alarm changes its state again
  (`FallsSilent`, `periodic_engine.py:69`);
- an alarm that is read again after a failure and has expired by then is dropped, with a part of
  its notifications sent (`ExpiresWhole` says that nothing else drops a part of one);
- with MySQL an engine that meets both a database error and a lost race may start without
  its types (`ReadyIsRegistered` says so; neither of the two is enough);
- a connection that the mail server has closed with a 421 costs one message: it counts as refused,
  and is left to the retry engine.  The log line "SMTP server disconnected. Will reconnect and
  retry message." (`email_notifier.py:115-116`) speaks of `SMTPServerDisconnected` only
  (`FailuresExcused` says that it is one message, and that nothing else costs one);
- mail for a notification without metrics always fails: `email_notifier.py:178` takes the first
  metric, though the docstring above it (lines 168-169) knows notifications without any
  (`~buildable` in `FailuresExcused`, as is a missing `alarmDescription`);
- two engines that search for the issue of an alarm at the same time create two, and a user may
  close one while the plugin comments on it (`overlapped` and `interfered` in `IssuesPaidFor` and
  `CommentsAreSeen`);
- with PostgreSQL no type can be added at all (`pgsql_repo.py:83`, `InsertTypeError`), a
  connection that has died is never replaced (`SecondTryReconnects` is about `MysqlRepo`), although the callers
  log "Attempting reconnect" (`alarm_processor.py:130`, `utils.py:75`, `periodic_engine.py:59`), and
  the retry and periodic engines never get an answer (`Served` in `AnswersAgain`).  That `TypeError` is
  how psycopg2 treats a string of more than one character for one placeholder, not
  something this repository shows: none of its tests uses `PostgresqlRepo`;
- SIGINT or SIGTERM before the call of `signal.signal` that handles it can leave children
  behind (`NoOrphans` says that nothing else does);
- `main.py:44` and `main.py:62` speak of active work that is finished before the exit, but
  no engine handles SIGTERM: it dies between any two steps.  `NoLoss` holds nevertheless,
  since such a death is a `Crash` of the engine: what remains is the
  notification that is sent twice.

## 5. Proofs

TLAPS proves, for every value of the constants that satisfies the named
assumptions, which are typing and finiteness (`ConstantsAssumption`, `RetryAssumption`,
`PeriodicAssumption`, `PipelineAssumption`: finitely many engines and, in `Pipeline`, methods,
bounds that are numbers, and markers that are not engines, alarms or messages; `RegistrationAssumption`: finitely many types;
`SupervisorAssumption`: at least one child; `RepositoryAssumption` and `SlackAssumption`: the
bounds are numbers):

| theorem | says |
|---|---|
| `PipelineProofs!TypeCorrect` | `Spec => []TypeOK`, of `NotificationEngine` alone, as the next six |
| `...!NothingLost` | `Spec => []NoLoss` |
| `...!OneInFlight` | `Spec => []AtMostOneInFlight` |
| `...!InOrder` | `Spec => []DeliveredInOrder` |
| `...!KeepsPromise` | `Spec => DeliveryPromise`, the refinement |
| `...!RepeatsPaidFor` | `Spec => []AttemptsPaidFor` |
| `...!ExpiresForAll` | `Spec => []ExpiresWhole` |
| `...!PipelineInOrder` | `PipelineSpec => []DeliveredInOrder` |
| `...!PipelineOneInFlight` | `PipelineSpec => []AtMostOneInFlight` |
| `...!PipelineKeepsPromise` | `PipelineSpec => DeliveryPromise`, the refinement |
| `...!NobodyForgotten` | `PipelineSpec => []NothingForgotten` |
| `...!StaleOnesWereRefused` | `PipelineSpec => []StaleIsExplained` |
| `...!ToldIsPaidFor` | `PipelineSpec => []ToldPaidFor` |
| `...!TriesArePaidFor` | `PipelineSpec => []TriesPaidFor` |
| `RetryEngineProofs!TypeCorrect` | `Spec => []TypeOK` |
| `...!NeverDroppedEarly` | `Spec => []NotDroppedEarly` |
| `...!AttemptsArePaidFor` | `Spec => []AttemptsPaidFor` |
| `...!LateSendsArePaidFor` | `Spec => []LateSendsPaidFor` |
| `PeriodicEngineProofs!TypeCorrect` | `Spec => []TypeOK` |
| `...!StreamIsKept` | `Spec => []StreamKept` |
| `...!StreamsArePaidFor` | `Spec => []StreamsPaidFor` |
| `...!LateSendsArePaidFor` | `Spec => []LateSendsPaidFor` |
| `PluginRegistrationProofs!TypeCorrect` | `Spec => []TypeOK` |
| `...!ReadyEnginesAreRegistered` | `Spec => []ReadyIsRegistered` |
| `SupervisorProofs!TypeCorrect` | `Spec => []TypeOK` |
| `...!ExitCarriedOut` | `Spec => []ExitIsCarriedOut` |
| `...!StatusNamesCause` | `Spec => []StatusTellsCause` |
| `...!NobodyLeftBehind` | `Spec => []NoOrphans` |
| `RepositoryProofs!TypeCorrect` | `Spec => []TypeOK` |
| `...!TwoTriesAreEnough` | `Spec => []SecondTryReconnects` |
| `PluginsProofs!TypeCorrect` | `Spec => []TypeOK` |
| `...!NoNeedlessRepeats` | `Spec => []RepeatsPaidFor` |
| `...!NoNeedlessFailures` | `Spec => []FailuresExcused` |
| `...!CacheStaysRight` | `Spec => []CacheIsRight` |
| `...!OneIssuePerAlarm` | `Spec => []IssuesPaidFor` |
| `...!CommentsOnOpenIssues` | `Spec => []CommentsAreSeen` |

*NotificationEngine.*  `NoLoss` is not inductive: that a commit is safe depends on
what the engine has published since it read the alarm, and that in turn on the
position of the owner.  The invariant `IInv` adds `Progress(e)`, which says for each phase which
methods of the current alarm are already recorded and which are held in
`todo`, `sent` and `failed`; `NeverAhead`, that an engine never works on an alarm beyond the committed
offset; and `AtMostOneInFlight`, which ties the position of the owner to the alarm it
works on.  From these a commit moves past at most one alarm, and that alarm is
closed; a zombie's commit changes nothing.  The refinement follows from the same
invariant: `Commit` maps to `Advance` of the partition (or, when nothing was read
since, to a stutter), every other action to `Settle`.

`AttemptsPaidFor` needs a counting argument, `Budget(n)`: the attempts so far, plus the engines
that still hold `n` among what they are to send, plus one if its alarm is yet to be
read by the owner, are at most one more than the failures.  A crash or a rebalance makes
the alarm readable again, and pays for it.

`ExpiresWhole` asks nothing after a failure, so that its invariant `Expiring` need only speak of
runs without one.  In these `Alone` holds: who works on an alarm owns its partition, and the alarm is
the first one that is not committed and the last one that was read.  So nobody has heard of an alarm
that is neither committed nor at work (`NotYet`), nor of one that has just been read, which is when
the TTL is tested; one that is ready to be committed has gone out to all or to none (`Handled`).
Expiration itself changes none of these.

*TopicPartition.*  Both engines below republish before they commit, and what a failure
costs is a count.  It is made a cardinality: every message that is left to read, and
every message an engine holds, has a set of tickets, and `Tickets` is their disjoint union.
Lemma `TicketsChange` says what the union loses and gains when the set of one place
changes; `PublishAhead`, `ReceiveAhead`, `RewindAhead` and `CommitAhead` apply it to the
steps on a partition.

*RetryEngine.*  `NotDroppedEarly` is about a commit, which drops all the owner has read.
`OneRead` says that this is one message and the one it works on; `CountsTrue`, that the
`retry_count` of a message is not above the attempts that were made; `MayCommit`, that
an owner which is about to commit has finished with its notification or has put it back.
For `AttemptsPaidFor` the tickets of a message are the attempts it is good for, from its
count to the limit (`Share`, `InHand`); `Paid(n)` says that the attempts so far and all
tickets together are at most `Bound(n)`, a full run of attempts for the first publication and
each failure.  An attempt moves a ticket into the past, a failure rereads one message at most,
because of `OneRead`.  `LateSendsPaidFor` counts `Losers`, the engines that still work on a
message of a partition they have lost: there are never more than failures
(`LosersPaidFor`), and only they and the owner can be in the sleep when the method goes.

*PeriodicEngine.*  `StreamKept` goes the same way: `StillDue`, that an unbroken stream has its
alarm in the state and its method of this period, and `MayCommit`, that what the owner
commits is over or already at the end of the queue.  In `Streams(n)` every message and every
engine that has yet to publish again is one ticket; `CopiesAreStreams` turns the tickets back
into the messages on the topic.  `Late(n)` counts `MayBeLate(n)`: once the alarm has left the
state these are the engines in the sleep and those that were led astray by a rebalance.

*Supervisor.*  The stack of activations is the difficulty: `StackChange` says what a step can
do to any activation, not only to the top.  `StatusTellsCause` needs `Flagged`,
that children are terminated and activations at work only under the flag, and `Echo`, that
without a crash every SIGCHLD finds the flag set and its activation never leaves the
first line.  `NoOrphans` needs `SafeExit`, that whoever is at `sys.exit` has killed every child
that was left, and nobody is started after that.

*PluginRegistration.*  The loop is bounded by the number of types missing at
first.  The invariant `RInv` contains `Knows(p)`, that a process that is about to insert
or to check knows of no type that is missing and not in `remaining`, and that after an insert
which neither raised nor met a duplicate nothing of `remaining` is missing, and `Enough(p)`,
that for a process which the database did not fail `Cardinality(remaining) + attempt
<= limit`; lemma `OneTypeLess` says that after an insert, won or lost, one type less is missing.

*Repository.*  `SecondTryReconnects`, which is about `MysqlRepo`, needs `FreshConnection`: in a second try that nothing has
disturbed the connection is not the one that failed the first, because the repository has
dropped it, and `ServerIsThere`, that the server is up while nothing disturbs a lookup.

*Plugins.*  Each property has an invariant of the steps inside one call: `Paid` (before the
return nothing is accepted but what was lost), `ConnectionExcused` (a closed connection at
the second `sendmail` has a reason, and a 421 at the first was there when the call began), `DataExcused` (raw data is tried last only where it
will do, or after a JSON request that failed for a reason), `CreatesPaidFor` and
`OtherPaidFor` (who is about to create an issue has found none, and overlaps with the other one if
that has found none either), `WillBeSeen`.  Lemma `Whose` says that a step belongs to one
plugin, so that the others keep their invariants.

*Pipeline.*  The proofs about the retry engines are not repeated but instantiated: `RP` is
`RetryEngineProofs` with the substitution of `R`.  Its lemmas are stated of `AnyStep`, which is a
step of the retry engines or `Outside(s)`, any step that leaves them alone and appends first
failures `s` to their topic.  The action `FirstFailure` of `RetryEngine` is one case of it
(`FirstFailureOutside`), and a publish call of a notification engine, whatever part of its
list comes through, is another (`PublishesOutside`).  So each step of the pipeline keeps `Joint`, the
invariants of both components side by side, and four of the theorems follow from it:

- `DeliveredInOrder`, `AtMostOneInFlight` and `DeliveryPromise`: a retry engine records more as sent and touches
  nothing else of the notification engines (`RetryStepKeeps`);
- `NothingForgotten`: `NoLoss` gives the notification over to the retry topic, and
  `NotDroppedEarly` keeps it there.  The gap between the two is closed by `Unplugged`: what the
  retry engines drop as invalid has no plugin, and is wanted by nobody.

`StaleIsExplained` needs a history: `Witnessed` says that what is in a list of failed
notifications, on the retry topic or recorded as told was tried and refused, or tried, before;
and `Alone`, as in `ExpiresWhole`.  A first send is then never stale (`SendNotStale`), and a retry is of a refused
one.

`ToldPaidFor` and `TriesPaidFor` follow a notification through its three stations: its alarm
can still be read, or an engine has it to send (`Reading`); an engine has it among the failed ones
(`Enqueueing`); messages of it are on the retry topic or in the hands of a retry engine (`Load`,
with one ticket for a message, or one for each try that is left to it).  `AlarmBalance` and
`RetryBalance` say what a step moves between the stations: a send uses up the first and may
bring the second, a publish call turns the second into the third at best, and only a failure
brings anything back, as much as one alarm or one message is good for.  The budgets add up the
past and the stations; `RepeatsPaidFor` has the same argument for the first station alone.

*Only model-checked*: the liveness properties (`EverybodyIsTold`, `RetriesEnd`, `KeepsSending`,
`FallsSilent`, `RegistrationEnds`, `SignalsEndDaemon`, `AnswersAgain`), since fairness and `ENABLED`
are out of TLAPS' reach.  Every safety invariant and the refinement that a passing run checks is a
theorem.  Induction over data and `RECURSIVE` operators are out of reach as well; the modules
use neither.

## 6. Not modelled, and the plan

Not modelled:

- configuration (`config.py`, `conf/*`): options of oslo.config, read once before the
  engines start; what the engines read of them are the CONSTANTS.  `conf/types.py` parses their
  text at the start of the program and has no state;
- statistics and logging: nothing reads them back;
- the SQL and the wording of messages: they decide no branch, except where a field is missing
  (`buildable`, `Constructible`) or a parameter is passed in the wrong shape (`BareParameter`);
- Kafka, the database server, the SMTP and HTTP services: not in the repository.  The
  consumer group is modelled as the engines use it, the rest is a choice of outcomes.

The methods of `OrmRepo` beyond its constructor are not modelled, since no engine gets that far.

The index of the Jira search is taken to be up to date, and a custom format of the issue
(`custom_formatter`) to have the alarm id in its summary, where the search looks for it; the
default format has.  The contents of alarms and
notifications are reduced to what
decides a branch.  Time is reduced to order: the TTL is an `Expire` that
may happen at any moment, a sleep is an interval in which anything may.

Done, in the order of importance: notification engine with its promise, retry engine,
periodic engine, registration, daemon, repositories and plugins, each with its proofs; the
notification and retry engines together, with theirs.  To come:

1. the safety parts of the liveness arguments as theorems: what each of them counts down
   (the tries that are left in `RetriesEnd` and `EverybodyIsTold`, the children that are left in
   `SignalsEndDaemon`), and that without a failure no step makes it larger;
2. the periodic engines in the composition.  They share no topic with the retry engines, and
   a periodic send that fails is not retried, so that `Start` of `PeriodicEngine` stands for
   the one thing that connects them to the notification engine.
