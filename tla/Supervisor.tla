------------------------------ MODULE Supervisor ------------------------------
(***************************************************************************)
(* The parent process of the daemon (monasca_notification/main.py).  It    *)
(* starts one child for every engine, installs clean_exit as the handler   *)
(* of SIGCHLD, SIGINT and SIGTERM, and sleeps.  The first signal ends the  *)
(* daemon: clean_exit terminates the children, kills those that are left,  *)
(* and exits.  A signal may interrupt main and clean_exit at any step, and *)
(* the children that clean_exit terminates send signals themselves.        *)
(***************************************************************************)
EXTENDS Naturals, Sequences, SequencesExt

CONSTANTS
  N,           \* the number of processors: engines of the daemon
  MaxSignals   \* bound: signals from outside

ASSUME SupervisorAssumption == N \in Nat \ {0} /\ MaxSignals \in Nat

Children == 1 .. N
Signals == {"CHLD", "INT", "TERM"}

VARIABLES
  main,      \* where main is, while no handler runs
  started,   \* how many of the processors main has started
  handlers,  \* signals that have clean_exit as their handler
  pending,   \* signals that have arrived and wait for their handler
  frames,    \* the activations of clean_exit, the innermost one last
  exiting,   \* the global flag
  child,     \* child[i]: "unborn", "up", "term" (told to terminate) or "dead"
  crashed,   \* history: children that ended of themselves
  status,    \* the exit status, or the signal that it comes from
  signals    \* history: signals sent from outside

vars == <<main, started, handlers, pending, frames, exiting, child, crashed,
          status, signals>>

Frame(signum) == [signum |-> signum, at |-> "enter", left |-> Children]

Init ==
  /\ main = "starting"
  /\ started = 0
  /\ handlers = {}
  /\ pending = {}
  /\ frames = <<>>
  /\ exiting = FALSE
  /\ child = [i \in Children |-> "unborn"]
  /\ crashed = {}
  /\ status = "none"
  /\ signals = 0

Alive(i) == child[i] \in {"up", "term"}
Gone == main \in {"exited", "killed"}

-----------------------------------------------------------------------------
(* main.                                                                   *)

\* process.start()
StartProcess ==
  /\ main = "starting" /\ frames = <<>>
  /\ started' = started + 1
  /\ child' = [child EXCEPT ![started + 1] = "up"]
  /\ main' = IF started + 1 = N THEN "registering" ELSE "starting"
  /\ UNCHANGED <<handlers, pending, frames, exiting, crashed, status, signals>>

\* process.start() raises: clean_exit(signal.SIGKILL)
StartFails ==
  /\ main = "starting" /\ frames = <<>>
  /\ main' = "running"
  /\ frames' = <<Frame("KILL")>>
  /\ UNCHANGED <<started, handlers, pending, exiting, child, crashed, status,
                 signals>>

\* signal.signal(..., clean_exit), three times.
Register(signum) ==
  /\ main = "registering" /\ frames = <<>>
  /\ \/ signum = "CHLD" /\ handlers = {}
     \/ signum = "INT" /\ handlers = {"CHLD"}
     \/ signum = "TERM" /\ handlers = {"CHLD", "INT"}
  /\ handlers' = handlers \cup {signum}
  /\ main' = IF handlers' = Signals THEN "running" ELSE "registering"
  /\ UNCHANGED <<started, pending, frames, exiting, child, crashed, status, signals>>

\* The interpreter ends when the children have, multiprocessing joins them.
Join ==
  /\ main = "joining" /\ frames = <<>>
  /\ \A i \in Children : ~Alive(i)
  /\ main' = "exited"
  /\ UNCHANGED <<started, handlers, pending, frames, exiting, child, crashed,
                 status, signals>>

-----------------------------------------------------------------------------
(* Signals.  What the default action does is not in the repository.        *)

\* Mutant: SIGCHLD waits for its handler to be installed.
TellParentLater == pending' = pending \cup {"CHLD"}

\* SIGCHLD is ignored unless it has a handler.
TellParent == pending' = IF "CHLD" \in handlers THEN pending \cup {"CHLD"} ELSE pending

\* Without a handler SIGTERM kills the parent, and SIGINT raises KeyboardInterrupt,
\* which neither main nor clean_exit catches: the interpreter goes on to join the
\* children, or gives that up when the exception reaches it there.
Signal(signum) ==
  /\ signals < MaxSignals /\ ~Gone
  /\ signals' = signals + 1
  /\ \/ /\ signum \in handlers
        /\ pending' = pending \cup {signum}
        /\ UNCHANGED <<main, frames, status>>
     \/ /\ signum \notin handlers
        /\ main' = IF signum = "TERM" \/ main = "joining" THEN "killed" ELSE "joining"
        /\ frames' = <<>>
        /\ status' = signum
        /\ UNCHANGED pending
  /\ UNCHANGED <<started, handlers, exiting, child, crashed>>

\* The handler of a pending signal starts between two steps of what it interrupts.
Interrupt(signum) ==
  /\ ~Gone
  /\ signum \in pending
  /\ pending' = pending \ {signum}
  /\ frames' = Append(frames, Frame(signum))
  /\ UNCHANGED <<main, started, handlers, exiting, child, crashed, status, signals>>

-----------------------------------------------------------------------------
(* clean_exit.                                                             *)

Top == Last(frames)
At(place) == ~Gone /\ frames # <<>> /\ Top.at = place
Goto(place) == frames' = [frames EXCEPT ![Len(frames)].at = place]

\* Mutant: the flag is not looked at.
EnterAgain ==
  /\ At("enter")
  /\ Goto("set")
  /\ UNCHANGED <<main, started, handlers, pending, exiting, child, crashed,
                 status, signals>>

\* if exiting: return
Enter ==
  /\ At("enter")
  /\ IF exiting THEN frames' = Front(frames) ELSE Goto("set")
  /\ UNCHANGED <<main, started, handlers, pending, exiting, child, crashed,
                 status, signals>>

SetExiting ==
  /\ At("set")
  /\ exiting' = TRUE
  /\ Goto("terminate")
  /\ UNCHANGED <<main, started, handlers, pending, child, crashed, status, signals>>

\* One turn of the loop over processors; the last one is followed by the sleep.
Terminate(i) ==
  /\ At("terminate")
  /\ i \in Top.left
  /\ child' = [child EXCEPT ![i] = IF Alive(i) THEN "term" ELSE @]
  /\ frames' = [frames EXCEPT ![Len(frames)] =
       [Top EXCEPT !.left = @ \ {i}, !.at = IF Top.left = {i} THEN "kill" ELSE "terminate"]]
  /\ UNCHANGED <<main, started, handlers, pending, exiting, crashed, status, signals>>

\* Mutant: who does not end by SIGTERM is left alone.
SpareRest ==
  /\ At("kill")
  /\ Goto("exit")
  /\ UNCHANGED <<main, started, handlers, pending, exiting, child, crashed,
                 status, signals>>

\* The loop over multiprocessing.active_children().
KillRest ==
  /\ At("kill")
  /\ child' = [i \in Children |-> IF Alive(i) THEN "dead" ELSE child[i]]
  /\ IF \E i \in Children : Alive(i) THEN TellParent ELSE UNCHANGED pending
  /\ Goto("exit")
  /\ UNCHANGED <<main, started, handlers, exiting, crashed, status, signals>>

\* Mutant: clean_exit returns.
ReturnFromExit ==
  /\ At("exit")
  /\ frames' = Front(frames)
  /\ UNCHANGED <<main, started, handlers, pending, exiting, child, crashed,
                 status, signals>>

\* sys.exit: SystemExit leaves every activation of clean_exit, and main.
SysExit ==
  /\ At("exit")
  /\ status' = IF Top.signum = "TERM" THEN "0" ELSE Top.signum
  /\ frames' = <<>>
  /\ main' = "joining"
  /\ UNCHANGED <<started, handlers, pending, exiting, child, crashed, signals>>

-----------------------------------------------------------------------------
(* The children: start_process.  They have no handlers of their own.       *)

\* An exception leaves the constructor or run.
Crash(i) ==
  /\ child[i] = "up"
  /\ child' = [child EXCEPT ![i] = "dead"]
  /\ crashed' = crashed \cup {i}
  /\ TellParent
  /\ UNCHANGED <<main, started, handlers, frames, exiting, status, signals>>

\* SIGTERM ends a child wherever it is.
TerminateChild(i) ==
  /\ child[i] = "term"
  /\ child' = [child EXCEPT ![i] = "dead"]
  /\ TellParent
  /\ UNCHANGED <<main, started, handlers, frames, exiting, crashed, status, signals>>

-----------------------------------------------------------------------------
CleanExit ==
  Enter \/ SetExiting \/ (\E i \in Children : Terminate(i)) \/ KillRest \/ SysExit

Parent ==
  \/ StartProcess \/ Join \/ CleanExit
  \/ \E signum \in Signals : Register(signum) \/ Interrupt(signum)

Next ==
  \/ Parent \/ StartFails
  \/ \E signum \in {"INT", "TERM"} : Signal(signum)
  \/ \E i \in Children : Crash(i) \/ TerminateChild(i)

Spec == Init /\ [][Next]_vars

\* The parent goes on; a signal that is pending is handled.
FairSpec == Spec /\ WF_vars(Parent)

-----------------------------------------------------------------------------
(* Properties.                                                             *)

\* Every variable keeps its type.
TypeOK ==
  /\ main \in {"starting", "registering", "running", "joining", "exited", "killed"}
  /\ started \in 0 .. N
  /\ handlers \in SUBSET Signals
  /\ pending \in SUBSET handlers
  /\ frames \in Seq([signum : Signals \cup {"KILL"},
                     at : {"enter", "set", "terminate", "kill", "exit"},
                     left : SUBSET Children])
  /\ exiting \in BOOLEAN
  /\ child \in [Children -> {"unborn", "up", "term", "dead"}]
  /\ crashed \in SUBSET Children
  /\ status \in Signals \cup {"KILL", "none", "0"}
  /\ signals \in Nat

\* The exit status names what ended the daemon: only a child that died of itself
\* makes it SIGCHLD.  The children that clean_exit terminates send the same signal,
\* "the global exiting avoids this running multiple times" (main.py:51).
StatusTellsCause == status = "CHLD" => crashed # {}

\* clean_exit returns to what it interrupted only when another activation of it, or
\* the end of the interpreter, is going on: the daemon is never left running with
\* the flag set and nobody at work on the exit.
ExitIsCarriedOut ==
  exiting => \/ main \in {"joining", "exited", "killed"}
             \/ \E k \in 1 .. Len(frames) : frames[k].at \in {"terminate", "kill", "exit"}

\* The daemon never leaves an engine behind: a child that is alive when the exit
\* status is set means that a signal came before its handler was installed, the
\* price of "The signal handlers must be added after the processes start"
\* (main.py:122).
NoOrphans ==
  status # "none" /\ (\E i \in Children : Alive(i)) =>
    status \in {"INT", "TERM"} \ handlers

\* Once the three handlers are installed a signal ends the daemon, and with it every
\* child, whatever other signals arrive before, between and after the steps of
\* clean_exit.
SignalsEndDaemon ==
  handlers = Signals /\ pending # {} ~> main = "exited" /\ \A i \in Children : ~Alive(i)

\* README.rst: "The general process when a major error is encountered is to exit the
\* daemon": a child that ends of itself takes the daemon with it.
ChildDeathEndsDaemon == crashed # {} ~> Gone
=============================================================================
