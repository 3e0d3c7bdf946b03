-------------------------- MODULE PluginRegistration --------------------------
(***************************************************************************)
(* NotificationProcessor.__init__ (monasca_notification/processors/        *)
(* notification_processor.py): every engine that starts loads its plugins, *)
(* constructs the repository, and adds the types of its plugins to the     *)
(* table notification_method_type, if they are not there                   *)
(* (insert_configured_plugins).  All the engines of all daemons do this at *)
(* the same time, on one table with a unique name column and with no       *)
(* transaction around reading and inserting.                               *)
(***************************************************************************)
EXTENDS Naturals, FiniteSets

CONSTANTS
  Processes,   \* the engine processes that start
  Types,       \* names of notification types
  Enabled,     \* Enabled[p]: the types of the plugins of p, CONF.notification_types
  Drivers,     \* the values that CONF.database.repo_driver may have
  MaxErrors    \* bound: database errors of one behaviour

\* The short labels of _REPO_DRIVERS_MAP, "pgsql" for postgresql.
RepoDrivers == {"mysql", "pgsql", "orm"}

ASSUME RegistrationAssumption ==
  /\ IsFiniteSet(Types)
  /\ Enabled \in [Processes -> SUBSET Types]
  /\ Drivers \subseteq RepoDrivers
  /\ MaxErrors \in Nat

Phases == {"load", "repository", "start", "insert", "check", "ready", "failed"}

VARIABLES
  driver,     \* the repository: MysqlRepo inserts all rows in one statement and
              \* ignores a duplicate, PostgresqlRepo cannot insert, OrmRepo cannot
              \* be constructed
  configured, \* configured[p]: configured_notifiers, the types p has a plugin for
  persisted,  \* the names in notification_method_type
  phase,      \* phase[p]: where p is in __init__
  remaining,  \* remaining[p]: remaining_plugin_types
  attempt,    \* attempt[p], limit[p]: the loop variable and max_retry
  limit,
  raised,     \* raised[p]: the insert ended with a DatabaseException
  overtaken,  \* history: overtaken[p]: an insert of p was undone by a duplicate
  errors      \* history: errors[p]: database errors that p has met since it started

setup == <<driver, configured>>
loop == <<remaining, attempt, limit, raised>>
vars == <<setup, persisted, phase, loop, overtaken, errors>>

Init ==
  /\ driver \in Drivers
  /\ configured = [p \in Processes |-> {}]
  /\ persisted \in SUBSET Types
  /\ phase = [p \in Processes |-> "load"]
  /\ remaining = [p \in Processes |-> {}]
  /\ attempt = [p \in Processes |-> 0]
  /\ limit = [p \in Processes |-> 0]
  /\ raised = [p \in Processes |-> FALSE]
  /\ overtaken = [p \in Processes |-> FALSE]
  /\ errors = [p \in Processes |-> 0]

-----------------------------------------------------------------------------
Goto(p, place) == phase' = [phase EXCEPT ![p] = place]

\* The database or the connection to it fails.
DatabaseError(p) ==
  /\ errors[p] < MaxErrors
  /\ errors' = [errors EXCEPT ![p] = @ + 1]

\* load_plugins and config: a class that cannot be imported or constructed is left
\* out, and p goes on without it.
Load(p) ==
  /\ phase[p] = "load"
  /\ \E loaded \in SUBSET Enabled[p] : configured' = [configured EXCEPT ![p] = loaded]
  /\ Goto(p, "repository")
  /\ UNCHANGED <<driver, persisted, loop, overtaken, errors>>

\* repo_driver(CONF): MysqlRepo and PostgresqlRepo take the configuration.
\* OrmRepo.__init__ takes no argument, so that the call is a TypeError.
TakesConfig == driver # "orm"

\* get_db_repo; nothing catches what it raises.  Only the notification engine calls it
\* for its AlarmProcessor first, and dies there.
GetDbRepo(p) ==
  /\ phase[p] = "repository"
  /\ Goto(p, IF TakesConfig THEN "start" ELSE "failed")
  /\ UNCHANGED <<setup, persisted, loop, overtaken, errors>>

\* _remaining_plugin_types, with enabled_notifications
Missing(p) == configured[p] \ persisted

\* The first fetch; without a type to add there is nothing to do.
Start(p) ==
  /\ phase[p] = "start"
  /\ remaining' = [remaining EXCEPT ![p] = Missing(p)]
  /\ limit' = [limit EXCEPT ![p] = Cardinality(Missing(p))]
  /\ attempt' = [attempt EXCEPT ![p] = 0]
  /\ Goto(p, IF Missing(p) = {} THEN "ready" ELSE "insert")
  /\ UNCHANGED <<setup, persisted, raised, overtaken, errors>>

InsertEnds(p, withException) ==
  /\ raised' = [raised EXCEPT ![p] = withException]
  /\ Goto(p, "check")

\* None of the rows that p inserts is there yet.
NoDuplicate(p) == remaining[p] \cap persisted = {}

\* MysqlRepo: one INSERT of all rows.  DUP_ENTRY undoes it and is ignored.
InsertAll(p) ==
  /\ driver = "mysql"
  /\ phase[p] = "insert"
  /\ \/ /\ NoDuplicate(p)
        /\ persisted' = persisted \cup remaining[p]
        /\ UNCHANGED overtaken
     \/ /\ ~NoDuplicate(p)
        /\ overtaken' = [overtaken EXCEPT ![p] = TRUE]
        /\ UNCHANGED persisted
  /\ InsertEnds(p, FALSE)
  /\ UNCHANGED <<setup, remaining, attempt, limit, errors>>

\* PostgresqlRepo passes each name itself where psycopg2 takes a sequence of values:
\* a TypeError, which the loop does not catch.
InsertTypeError(p) ==
  /\ driver = "pgsql"
  /\ phase[p] = "insert"
  /\ Goto(p, "failed")
  /\ UNCHANGED <<setup, persisted, loop, overtaken, errors>>

\* The insert fails for another reason than a duplicate, before the rows are written
\* or, with the reply lost, after that.
InsertFails(p) ==
  /\ phase[p] = "insert"
  /\ DatabaseError(p)
  /\ InsertEnds(p, TRUE)
  /\ \/ UNCHANGED persisted
     \/ driver = "mysql" /\ NoDuplicate(p) /\ persisted' = persisted \cup remaining[p]
  /\ UNCHANGED <<setup, remaining, attempt, limit, overtaken>>

\* Mutant: no attempt is the last one.
NoLastAttempt(p) == FALSE

\* i + 1 == max_retry
LastAttempt(p) == attempt[p] + 1 = limit[p]

\* Mutant: the insert is repeated as it was, until it does all there was to do.
RepeatInsert(p) ==
  /\ phase[p] = "check"
  /\ Goto(p, "insert")
  /\ UNCHANGED <<setup, persisted, loop, overtaken, errors>>

\* Mutant: an insert that has not raised has added everything.
TrustInsert(p) ==
  /\ phase[p] = "check"
  /\ remaining' = [remaining EXCEPT ![p] = Missing(p)]
  /\ \/ /\ Missing(p) = {} \/ ~raised[p]
        /\ Goto(p, "ready")
        /\ UNCHANGED attempt
     \/ /\ Missing(p) # {} /\ LastAttempt(p) /\ raised[p]
        /\ Goto(p, "failed")
        /\ UNCHANGED attempt
     \/ /\ Missing(p) # {} /\ ~LastAttempt(p) /\ raised[p]
        /\ Goto(p, "insert")
        /\ attempt' = [attempt EXCEPT ![p] = @ + 1]
  /\ UNCHANGED <<setup, persisted, limit, raised, overtaken, errors>>

\* The fetch after an insert, and what the loop makes of it.  The loop may end
\* without a return or a raise; the constructor goes on then.
Check(p) ==
  /\ phase[p] = "check"
  /\ remaining' = [remaining EXCEPT ![p] = Missing(p)]
  /\ \/ /\ Missing(p) = {} \/ (LastAttempt(p) /\ ~raised[p])
        /\ Goto(p, "ready")
        /\ UNCHANGED attempt
     \/ /\ Missing(p) # {} /\ LastAttempt(p) /\ raised[p]
        /\ Goto(p, "failed")
        /\ UNCHANGED attempt
     \/ /\ Missing(p) # {} /\ ~LastAttempt(p)
        /\ Goto(p, "insert")
        /\ attempt' = [attempt EXCEPT ![p] = @ + 1]
  /\ UNCHANGED <<setup, persisted, limit, raised, overtaken, errors>>

\* A fetch that fails is not caught, in the handler of the insert neither.  After
\* an insert that did not raise it is: by the same handler, which fetches again.
FetchFails(p) ==
  /\ phase[p] \in {"start", "check"}
  /\ DatabaseError(p)
  /\ IF phase[p] = "check" /\ ~raised[p]
       THEN InsertEnds(p, TRUE)
       ELSE Goto(p, "failed") /\ UNCHANGED raised
  /\ UNCHANGED <<setup, persisted, remaining, attempt, limit, overtaken>>

-----------------------------------------------------------------------------
Step(p) ==
  \/ Load(p) \/ GetDbRepo(p) \/ Start(p) \/ InsertAll(p) \/ InsertTypeError(p) \/ Check(p)

Next == \E p \in Processes : Step(p) \/ InsertFails(p) \/ FetchFails(p)

Spec == Init /\ [][Next]_vars

\* A process goes on; the database does not have to fail.
FairSpec == Spec /\ \A p \in Processes : WF_vars(Step(p))

-----------------------------------------------------------------------------
(* Properties.                                                             *)

\* Every variable keeps its type; the loop runs at most max_retry times.
TypeOK ==
  /\ driver \in Drivers
  /\ configured \in [Processes -> SUBSET Types]
  /\ persisted \in SUBSET Types
  /\ phase \in [Processes -> Phases]
  /\ remaining \in [Processes -> SUBSET Types]
  /\ attempt \in [Processes -> Nat]
  /\ limit \in [Processes -> Nat]
  /\ raised \in [Processes -> BOOLEAN]
  /\ overtaken \in [Processes -> BOOLEAN]
  /\ errors \in [Processes -> Nat]
  /\ \A p \in Processes : phase[p] \in {"insert", "check"} => attempt[p] < limit[p]

\* An engine that starts to work has all its types in the table, however many others
\* race with it for the same types: each lost race leaves at least one type less to add,
\* so as many attempts as there were types to add are enough, and no lost race is taken
\* for a success.  An engine without its types has met both a database error and a
\* duplicate; neither of them alone is enough.
ReadyIsRegistered ==
  \A p \in Processes :
    phase[p] = "ready" /\ (errors[p] = 0 \/ ~overtaken[p]) => Missing(p) = {}

\* What the help of repo_driver says, "Accepts either short labels": whichever of them
\* is configured, an engine whose database works gets through its constructor.
WorkingDatabaseSuffices ==
  \A p \in Processes : phase[p] = "failed" => errors[p] > 0

\* Every process gets out of the loop.
RegistrationEnds == \A p \in Processes : <>(phase[p] \in {"ready", "failed"})
=============================================================================
