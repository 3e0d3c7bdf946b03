------------------------------ MODULE Repository ------------------------------
(***************************************************************************)
(* The repository of an engine process, its connection to the database     *)
(* (monasca_notification/common/repositories) and the callers of the       *)
(* repository that try twice: to_notification, the rebuilding of a         *)
(* notification and _keep_sending.  The database server may stop, start    *)
(* and close connections at any time.                                      *)
(***************************************************************************)
EXTENDS Naturals

CONSTANT MaxFaults   \* bound: how often the server stops or closes a connection

ASSUME RepositoryAssumption == MaxFaults \in Nat

\* The short labels of _REPO_DRIVERS_MAP, "pgsql" for postgresql.
Drivers == {"mysql", "pgsql", "orm"}

\* The lookups of an engine: the methods of an alarm, the method of a notification
\* that is sent again, the state of an alarm.
Lookups == [notification |-> {"actions"}, retry |-> {"method"},
            periodic |-> {"method", "state"}]

VARIABLES
  driver,      \* CONF.database.repo_driver
  engine,      \* the kind of engine that the process runs
  server,      \* the database server: "up" or "down"
  connection,  \* the repository's connection: "none", "open" or "dead"
  phase,       \* "start", "idle", in the "first" or "second" try, or "down"
  lookup,      \* what is looked up
  result,      \* "none", "pending", "answered", "failed" (DatabaseException twice) or
               \* "error"
  disturbed,   \* history: the server was not there all the time since it began
  faults

vars == <<driver, engine, server, connection, phase, lookup, result, disturbed, faults>>

Init ==
  /\ driver \in Drivers
  /\ engine \in DOMAIN Lookups
  /\ server = "up"
  /\ connection = "none"
  /\ phase = "start"
  /\ lookup \in Lookups[engine]
  /\ result = "none"
  /\ disturbed = FALSE
  /\ faults = 0

-----------------------------------------------------------------------------
(* The server.                                                             *)

Sever ==
  /\ faults < MaxFaults
  /\ faults' = faults + 1
  /\ connection' = IF connection = "open" THEN "dead" ELSE connection
  /\ disturbed' = TRUE
  /\ UNCHANGED <<driver, engine, phase, lookup, result>>

ServerStops ==
  /\ server = "up"
  /\ server' = "down"
  /\ Sever

ServerDisconnects ==
  /\ connection = "open"
  /\ Sever
  /\ UNCHANGED server

ServerStarts ==
  /\ server = "down"
  /\ server' = "up"
  /\ UNCHANGED <<driver, engine, connection, phase, lookup, result, disturbed, faults>>

-----------------------------------------------------------------------------
(* The constructor of the engine.                                          *)

\* repo_driver(CONF): MysqlRepo and PostgresqlRepo take the configuration.
\* OrmRepo.__init__ takes no argument, so that the call is a TypeError.
TakesConfig == driver # "orm"

\* get_db_repo, called by every engine before it looks at a message; nothing catches
\* what it raises.
GetDbRepo ==
  /\ phase = "start"
  /\ phase' = IF TakesConfig THEN "idle" ELSE "down"
  /\ UNCHANGED <<driver, engine, server, connection, lookup, result, disturbed, faults>>

-----------------------------------------------------------------------------
(* A lookup.                                                               *)

Trying == phase \in {"first", "second"}

\* The periodic engine looks up the state after the method, of a notification that
\* it has got or could rebuild from the message.
MayFollow(l) ==
  l = "state" => lookup = "method" /\ result \in {"answered", "failed"}

Begin(l) ==
  /\ phase = "idle"
  /\ l \in Lookups[engine] /\ MayFollow(l)
  /\ lookup' = l
  /\ phase' = "first"
  /\ result' = "pending"
  /\ disturbed' = (server = "down")
  /\ UNCHANGED <<driver, engine, server, connection, faults>>

\* Mutant: the answer of the first try is taken for the final one.
RaiseForGood ==
  /\ phase' = IF phase = "first" THEN "second"
              ELSE IF lookup = "method" THEN "idle" ELSE "down"
  /\ result' = "failed"

\* A DatabaseException: the caller tries once more.  The second one leaves run,
\* except that a notification is rebuilt from its message then.
Raise ==
  IF phase = "first" THEN phase' = "second" /\ UNCHANGED result
  ELSE /\ phase' = IF lookup = "method" THEN "idle" ELSE "down"
       /\ result' = "failed"

\* if self._mysql is None: self._connect_to_mysql(), and so with PostgreSQL.
Connect ==
  /\ Trying
  /\ connection = "none"
  /\ \/ server = "up" /\ connection' = "open" /\ UNCHANGED <<phase, result>>
     \/ server = "down" /\ Raise /\ UNCHANGED connection
  /\ UNCHANGED <<driver, engine, server, lookup, disturbed, faults>>

\* PostgresqlRepo passes the id itself where psycopg2 takes a sequence of values.
BareParameter == driver = "pgsql" /\ lookup \in {"method", "state"}

Answer ==
  /\ Trying
  /\ connection = "open" /\ ~BareParameter
  /\ phase' = "idle"
  /\ result' = "answered"
  /\ UNCHANGED <<driver, engine, server, connection, lookup, disturbed, faults>>

\* Mutant: no repository drops its connection.
DropNothing == UNCHANGED connection

\* MysqlRepo forgets a connection that has failed.  PostgresqlRepo does not.
DropConnection == connection' = IF driver = "pgsql" THEN connection ELSE "none"

\* The cursor or the query finds the connection closed.
LoseConnection ==
  /\ Trying
  /\ connection = "dead"
  /\ DropConnection
  /\ Raise
  /\ UNCHANGED <<driver, engine, server, lookup, disturbed, faults>>

\* TypeError, before anything is sent: None for a notification, which is dropped,
\* and the end of run for an alarm state.
RaiseTypeError ==
  /\ Trying
  /\ connection # "none" /\ BareParameter
  /\ phase' = IF lookup = "method" THEN "idle" ELSE "down"
  /\ result' = "error"
  /\ UNCHANGED <<driver, engine, server, connection, lookup, disturbed, faults>>

\* The daemon is started again, with a repository of its own.
Restart ==
  /\ phase = "down"
  /\ phase' = "start"
  /\ connection' = "none"
  /\ UNCHANGED <<driver, engine, server, lookup, result, disturbed, faults>>

-----------------------------------------------------------------------------
EngineStep ==
  \/ GetDbRepo
  \/ \E l \in Lookups[engine] : Begin(l)
  \/ Connect \/ Answer \/ LoseConnection \/ RaiseTypeError \/ Restart

Next == EngineStep \/ ServerStops \/ ServerDisconnects \/ ServerStarts

Spec == Init /\ [][Next]_vars

\* The engine goes on and is started again; a server that stopped is repaired.
FairSpec == Spec /\ WF_vars(EngineStep) /\ WF_vars(ServerStarts)

-----------------------------------------------------------------------------
(* Properties.                                                             *)

\* Every variable keeps its type; a lookup is pending exactly while it is tried.
TypeOK ==
  /\ driver \in Drivers
  /\ engine \in DOMAIN Lookups
  /\ server \in {"up", "down"}
  /\ connection \in {"none", "open", "dead"}
  /\ phase \in {"start", "idle", "first", "second", "down"}
  /\ lookup \in Lookups[engine]
  /\ result \in {"none", "pending", "answered", "failed", "error"}
  /\ disturbed \in BOOLEAN
  /\ faults \in 0 .. MaxFaults
  /\ Trying <=> result = "pending"

\* "Database Error.  Attempting reconnect": with MysqlRepo the second try gets over a
\* connection that was closed before the lookup began.  PostgresqlRepo keeps the dead
\* connection and fails a lookup that nothing disturbs.
SecondTryReconnects == driver = "mysql" /\ result = "failed" => disturbed

\* The engines that a repository serves.  The retry and the periodic engine get no
\* answer from PostgresqlRepo (BareParameter), and no engine gets past the
\* constructor of OrmRepo.
Served == driver = "mysql" \/ (driver = "pgsql" /\ engine = "notification")

\* Whatever the server did, an engine that is served gets answers again.  With
\* PostgreSQL it does so by dying of the dead connection.
AnswersAgain == Served => []<>(result = "answered")
=============================================================================
