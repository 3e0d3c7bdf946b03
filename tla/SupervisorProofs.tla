--------------------------- MODULE SupervisorProofs ---------------------------
(***************************************************************************)
(* What Supervisor guarantees for any number of children and of signals:   *)
(* the daemon that has begun to exit goes on with it, however its          *)
(* activations of clean_exit nest, and its exit status names the cause.    *)
(***************************************************************************)
EXTENDS Supervisor, SequenceTheorems, TLAPS

Places == {"enter", "set", "terminate", "kill", "exit"}
Frames == [signum : Signals \cup {"KILL"}, at : Places, left : SUBSET Children]

-----------------------------------------------------------------------------
(* The stack of activations.                                               *)

\* An activation that starts is the last one; the others go on waiting.
LEMMA Pushed ==
  ASSUME frames \in Seq(Frames), NEW f \in Frames, frames' = Append(frames, f)
  PROVE  /\ frames' \in Seq(Frames) /\ Len(frames) \in Nat /\ Len(frames') = Len(frames) + 1
         /\ frames'[Len(frames) + 1] = f
         /\ \A k \in 1 .. Len(frames) : frames'[k] = frames[k]
  BY AppendProperties, LenProperties

\* Only the last activation returns.
LEMMA Popped ==
  ASSUME frames \in Seq(Frames), frames # <<>>, frames' = Front(frames)
  PROVE  /\ frames' \in Seq(Frames) /\ Len(frames) \in Nat \ {0}
         /\ Len(frames') = Len(frames) - 1
         /\ \A k \in 1 .. Len(frames') : frames'[k] = frames[k]
<1>1. Len(frames) \in Nat \ {0} /\ \A k \in 1 .. Len(frames) : frames[k] \in Frames
  BY LenProperties, ElementOfSeq, EmptySeq
<1>2. frames' = SubSeq(frames, 1, Len(frames) - 1)
  BY DEF Front
<1>3. /\ 1 \in Int /\ Len(frames) - 1 \in Int
      /\ \A k \in 1 .. Len(frames) - 1 : frames[k] \in Frames
  BY <1>1
<1>4. /\ frames' \in Seq(Frames)
      /\ Len(frames') = IF 1 <= Len(frames) - 1 THEN Len(frames) - 1 - 1 + 1 ELSE 0
      /\ \A k \in 1 .. Len(frames) - 1 - 1 + 1 : frames'[k] = frames[1 + k - 1]
  BY <1>2, <1>3, SubSeqProperties
<1>5. Len(frames') = Len(frames) - 1
  <2>1. \A n \in Nat \ {0} : (IF 1 <= n - 1 THEN n - 1 - 1 + 1 ELSE 0) = n - 1
    OBVIOUS
  <2> QED
    BY <1>1, <1>4, <2>1
<1>6. ASSUME NEW k \in 1 .. Len(frames) - 1 PROVE frames'[k] = frames[k]
  <2>1. k \in 1 .. Len(frames) - 1 - 1 + 1 /\ 1 + k - 1 = k
    BY <1>1
  <2>2. frames'[k] = frames[1 + k - 1]
    BY <1>4, <2>1
  <2> QED
    BY <2>1, <2>2
<1> QED
  BY <1>1, <1>4, <1>5, <1>6

\* Only the last activation makes a step.
LEMMA Stepped ==
  ASSUME frames \in Seq(Frames), frames # <<>>, NEW f \in Frames,
         frames' = [frames EXCEPT ![Len(frames)] = f]
  PROVE  /\ frames' \in Seq(Frames) /\ Len(frames) \in Nat \ {0} /\ Len(frames') = Len(frames)
         /\ frames'[Len(frames)] = f
         /\ \A k \in 1 .. Len(frames) - 1 : frames'[k] = frames[k]
<1>1. Len(frames) \in Nat \ {0} /\ Len(frames) \in 1 .. Len(frames)
  BY LenProperties, EmptySeq
<1> QED
  BY <1>1, ExceptSeq

\* The last activation goes on at place.
LEMMA GoesOn ==
  ASSUME frames \in Seq(Frames), frames # <<>>, NEW place \in Places, Goto(place)
  PROVE  /\ frames' \in Seq(Frames) /\ Len(frames) \in Nat \ {0} /\ Len(frames') = Len(frames)
         /\ frames[Len(frames)] \in Frames /\ frames'[Len(frames)] \in Frames
         /\ frames'[Len(frames)].at = place
         /\ frames'[Len(frames)].signum = frames[Len(frames)].signum
         /\ \A k \in 1 .. Len(frames) - 1 : frames'[k] = frames[k]
<1> DEFINE f == [frames[Len(frames)] EXCEPT !.at = place]
<1>1. frames[Len(frames)] \in Frames
  BY LenProperties, ElementOfSeq, EmptySeq
<1>2. f \in Frames /\ f.at = place /\ f.signum = frames[Len(frames)].signum
  BY <1>1 DEF Frames
<1>3. frames' = [frames EXCEPT ![Len(frames)] = f]
  BY DEF Goto
<1> HIDE DEF f
<1> QED
  BY <1>1, <1>2, <1>3, Stepped

-----------------------------------------------------------------------------
(* Type correctness.                                                       *)

\* main has processors left to start.
MoreToStart == main = "starting" => started < N

DataType ==
  /\ main \in {"starting", "registering", "running", "joining", "exited", "killed"}
  /\ started \in 0 .. N
  /\ handlers \in SUBSET Signals
  /\ pending \in SUBSET handlers
  /\ child \in [Children -> {"unborn", "up", "term", "dead"}]
  /\ crashed \in SUBSET Children
  /\ status \in Signals \cup {"KILL", "none", "0"}
  /\ signals \in Nat
  /\ MoreToStart

FlagType == exiting \in BOOLEAN

StackType == frames \in Seq(Frames)

TInv == TypeOK /\ MoreToStart

LEMMA Parts == TInv <=> DataType /\ FlagType /\ StackType
  BY DEF TInv, TypeOK, DataType, FlagType, StackType, Frames, Places

LEMMA FrameType == \A signum \in Signals \cup {"KILL"} :
                      Frame(signum) \in Frames /\ Frame(signum).at = "enter"
                      /\ Frame(signum).signum = signum
  BY DEF Frame, Frames, Places

LEMMA TopType ==
  ASSUME StackType, frames # <<>>
  PROVE  Top \in Frames /\ Top = frames[Len(frames)] /\ Len(frames) \in Nat \ {0}
  BY LenProperties, ElementOfSeq, EmptySeq DEF StackType, Top, Last

\* One turn of the loop over the processors.
LEMMA Turned ==
  ASSUME StackType, NEW i \in Children, Terminate(i)
  PROVE  /\ StackType' /\ Len(frames) \in Nat \ {0} /\ Len(frames') = Len(frames)
         /\ frames'[Len(frames)].at \in {"terminate", "kill"}
         /\ frames'[Len(frames)].signum = frames[Len(frames)].signum
         /\ \A k \in 1 .. Len(frames) - 1 : frames'[k] = frames[k]
<1> DEFINE f == [Top EXCEPT
                   !.left = @ \ {i}, !.at = IF Top.left = {i} THEN "kill" ELSE "terminate"]
<1>1. frames # <<>> /\ Top \in Frames /\ Top = frames[Len(frames)]
  BY TopType DEF Terminate, At
<1>2. /\ f \in Frames /\ f.at \in {"terminate", "kill"} /\ f.signum = frames[Len(frames)].signum
  BY <1>1 DEF Frames, Places
<1>3. frames' = [frames EXCEPT ![Len(frames)] = f]
  BY DEF Terminate
<1> HIDE DEF f
<1> QED
  BY <1>1, <1>2, <1>3, Stepped DEF StackType

LEMMA StackStep == TInv /\ [Next]_vars => StackType'
<1> SUFFICES ASSUME DataType, StackType, [Next]_vars PROVE StackType'
  BY Parts
<1>1. CASE UNCHANGED frames
  BY <1>1 DEF StackType
<1>2. CASE frames' = <<>>
  BY <1>2, EmptySeq DEF StackType
<1>3. CASE StartFails
  <2>1. Frame("KILL") \in Frames
    BY FrameType
  <2> QED
    BY <1>3, <2>1 DEF StartFails, StackType
<1>4. ASSUME NEW signum \in Signals, Interrupt(signum) PROVE StackType'
  <2>1. Frame(signum) \in Frames
    BY FrameType
  <2> QED
    BY <1>4, <2>1, Pushed DEF Interrupt, StackType
<1>5. CASE Enter
  <2>1. frames # <<>> /\ (frames' = Front(frames) \/ Goto("set"))
    BY <1>5 DEF Enter, At
  <2> QED
    BY <2>1, Popped, GoesOn DEF StackType, Places
<1>6. CASE SetExiting
  BY <1>6, GoesOn DEF SetExiting, At, StackType, Places
<1>7. ASSUME NEW i \in Children, Terminate(i) PROVE StackType'
  BY <1>7, Turned
<1>8. CASE KillRest
  BY <1>8, GoesOn DEF KillRest, At, StackType, Places
<1>9. CASE SysExit
  BY <1>2, <1>9 DEF SysExit
<1>10. ASSUME NEW signum \in Signals, Signal(signum) PROVE StackType'
  BY <1>1, <1>2, <1>10 DEF Signal
<1> QED
  BY <1>1, <1>3, <1>4, <1>5, <1>6, <1>7, <1>8, <1>9, <1>10
     DEF Next, Parent, CleanExit, StartProcess, Join, Register, Crash, TerminateChild, vars, Signals

LEMMA FlagStep == FlagType /\ [Next]_vars => FlagType'
  BY DEF FlagType, Next, Parent, CleanExit, StartProcess, StartFails, Register, Join, Signal,
         Interrupt, Enter, SetExiting, Terminate, KillRest, SysExit, Crash, TerminateChild, vars

LEMMA DataStep == TInv /\ [Next]_vars => DataType'
<1> SUFFICES ASSUME DataType, StackType, [Next]_vars PROVE DataType'
  BY Parts
<1> USE SupervisorAssumption DEF SupervisorAssumption
<1>2. CASE StartProcess
  BY <1>2 DEF StartProcess, DataType, MoreToStart, Children
<1>3. CASE StartFails \/ Join \/ Enter \/ SetExiting
  BY <1>3 DEF StartFails, Join, Enter, SetExiting, DataType, MoreToStart
<1>4. ASSUME NEW signum \in Signals, Register(signum) \/ Interrupt(signum) PROVE DataType'
  BY <1>4 DEF Register, Interrupt, DataType, MoreToStart
<1>5. ASSUME NEW signum \in {"INT", "TERM"}, Signal(signum) PROVE DataType'
  <2>1. /\ signals' \in Nat /\ UNCHANGED <<started, handlers, child, crashed>>
        /\ pending' = pending \/ (signum \in handlers /\ pending' = pending \cup {signum})
        /\ status' \in {status, signum} /\ main' \in {main, "killed", "joining"}
    BY <1>5 DEF Signal, DataType
  <2> QED
    BY <2>1 DEF DataType, MoreToStart, Signals
<1>6. ASSUME NEW i \in Children, Terminate(i) \/ Crash(i) \/ TerminateChild(i) PROVE DataType'
  BY <1>6 DEF Terminate, Crash, TerminateChild, TellParent, DataType, MoreToStart
<1>7. CASE KillRest
  BY <1>7 DEF KillRest, TellParent, Alive, DataType, MoreToStart
<1>8. CASE SysExit
  BY <1>8, TopType DEF SysExit, At, Frames, DataType, MoreToStart
<1>9. CASE UNCHANGED vars
  BY <1>9 DEF vars, DataType, MoreToStart
<1> QED
  BY <1>2, <1>3, <1>4, <1>5, <1>6, <1>7, <1>8, <1>9 DEF Next, Parent, CleanExit

LEMMA TypeInit == Init => TInv
<1> SUFFICES ASSUME Init PROVE DataType /\ FlagType /\ StackType
  BY Parts
<1>1. DataType
  BY SupervisorAssumption DEF SupervisorAssumption, Init, DataType, MoreToStart
<1>2. FlagType /\ StackType
  BY EmptySeq DEF Init, FlagType, StackType
<1> QED
  BY <1>1, <1>2

LEMMA TypeStep == TInv /\ [Next]_vars => TInv'
<1> SUFFICES ASSUME TInv, [Next]_vars PROVE TInv'
  OBVIOUS
<1>1. DataType' /\ FlagType' /\ StackType'
  BY Parts, DataStep, FlagStep, StackStep
<1> QED
  BY <1>1 DEF TInv, TypeOK, DataType, FlagType, StackType, Frames, Places

\* The parent keeps its types: no signal is pending that has no handler, and no more
\* processes are started than there are processors.
THEOREM TypeCorrect == Spec => []TypeOK
<1>1. TInv => TypeOK
  BY DEF TInv
<1> QED
  BY <1>1, TypeInit, TypeStep, PTL DEF Spec

-----------------------------------------------------------------------------
(* The exit is carried out.  An activation returns only when the flag is   *)
(* set, and whoever has set the flag is not the one that returns.          *)

AtWork(k) == frames[k].at \in {"terminate", "kill", "exit"}

LEMMA CarriedOutStep == TInv /\ ExitIsCarriedOut /\ [Next]_vars => ExitIsCarriedOut'
<1> SUFFICES ASSUME TInv, ExitIsCarriedOut, [Next]_vars, exiting',
                    main' \notin {"joining", "exited", "killed"}
             PROVE  \E k \in 1 .. Len(frames') : AtWork(k)'
  BY DEF ExitIsCarriedOut, AtWork
<1>0. DataType /\ FlagType /\ StackType
  BY Parts
<1>1. CASE SetExiting
  <2>1. /\ Len(frames') \in 1 .. Len(frames') /\ frames'[Len(frames')].at = "terminate"
    BY <1>0, <1>1, GoesOn DEF SetExiting, At, StackType, Places
  <2> QED
    BY <2>1 DEF AtWork
<1>2. CASE exiting /\ main \notin {"joining", "exited", "killed"}
  <2>0. PICK k \in 1 .. Len(frames) : AtWork(k)
    BY <1>2 DEF ExitIsCarriedOut, AtWork
  <2>1. frames # <<>> /\ Len(frames) \in Nat \ {0} /\ k \in Nat
    BY <1>0, LenProperties, EmptySeq DEF StackType
  <2>2. CASE UNCHANGED frames
    BY <2>0, <2>2 DEF AtWork
  <2>3. ASSUME NEW signum \in Signals, Interrupt(signum) PROVE \E j \in 1 .. Len(frames') : AtWork(j)'
    <3>1. Len(frames') = Len(frames) + 1 /\ frames'[k] = frames[k]
      BY <1>0, <2>0, <2>3, FrameType, Pushed DEF Interrupt, StackType
    <3> QED
      BY <2>0, <2>1, <3>1 DEF AtWork
  <2>4. CASE Enter
    <3>1. frames' = Front(frames) /\ frames[Len(frames)].at = "enter"
      BY <1>2, <2>4 DEF Enter, At, Top, Last
    <3>2. Len(frames') = Len(frames) - 1 /\ \A j \in 1 .. Len(frames') : frames'[j] = frames[j]
      BY <1>0, <2>1, <3>1, Popped DEF StackType
    <3>3. k \in 1 .. Len(frames') /\ frames'[k] = frames[k]
      BY <2>0, <2>1, <3>1, <3>2 DEF AtWork
    <3> QED
      BY <2>0, <3>3 DEF AtWork
  <2>5. ASSUME NEW i \in Children, Terminate(i) PROVE \E j \in 1 .. Len(frames') : AtWork(j)'
    <3>1. Len(frames) \in 1 .. Len(frames') /\ frames'[Len(frames)].at \in {"terminate", "kill"}
      BY <1>0, <2>5, Turned
    <3> QED
      BY <3>1 DEF AtWork
  <2>6. CASE KillRest
    <3>1. Len(frames) \in 1 .. Len(frames') /\ frames'[Len(frames)].at = "exit"
      BY <1>0, <2>1, <2>6, GoesOn DEF KillRest, StackType, Places
    <3> QED
      BY <3>1 DEF AtWork
  <2>7. CASE SysExit
    BY <2>7 DEF SysExit
  <2>8. ASSUME NEW signum \in {"INT", "TERM"}, Signal(signum)
        PROVE  UNCHANGED frames
    BY <2>8 DEF Signal
  <2> QED
    BY <1>1, <2>1, <2>2, <2>3, <2>4, <2>5, <2>6, <2>7, <2>8
       DEF Next, Parent, CleanExit, StartProcess, StartFails, Register, Join, Crash,
           TerminateChild, vars
<1>3. CASE ~exiting /\ ~SetExiting
  BY <1>3 DEF Next, Parent, CleanExit, StartProcess, StartFails, Register, Join, Signal,
         Interrupt, Enter, Terminate, KillRest, SysExit, Crash, TerminateChild, vars
<1>4. CASE main \in {"joining", "exited", "killed"}
  BY <1>4 DEF Next, Parent, CleanExit, StartProcess, StartFails, Register, Join, Signal,
         Interrupt, Enter, SetExiting, Terminate, KillRest, SysExit, Crash, TerminateChild, vars,
         Gone
<1> QED
  BY <1>0, <1>1, <1>2, <1>3, <1>4 DEF FlagType

\* However many signals arrive, and wherever they interrupt clean_exit, a daemon that
\* has begun to exit goes on with it.
THEOREM ExitCarriedOut == Spec => []ExitIsCarriedOut
<1>1. Init => ExitIsCarriedOut
  BY DEF Init, ExitIsCarriedOut
<1> QED
  BY <1>1, TypeInit, TypeStep, CarriedOutStep, PTL DEF Spec

-----------------------------------------------------------------------------
(* The cause.  SIGCHLD may come from a child that clean_exit has ended, so *)
(* what matters is that the flag is set before any child is told to end,   *)
(* and that no activation for such a signal gets beyond the flag.          *)

\* Children are told to end, and activations are at work, only under the flag.
Flagged ==
  /\ \A i \in Children : child[i] = "term" => exiting
  /\ \A k \in 1 .. Len(frames) : AtWork(k) => exiting

\* No child has ended of itself, and SIGCHLD comes from clean_exit.
Echo ==
  /\ "CHLD" \in pending => exiting
  /\ \A k \in 1 .. Len(frames) : frames[k].signum = "CHLD" => exiting /\ frames[k].at = "enter"
  /\ status # "CHLD"

CInv == TInv /\ Flagged /\ (crashed # {} \/ Echo)

\* What a step can do to the stack, as far as SIGCHLD is concerned.
LEMMA StackChange ==
  ASSUME TInv, [Next]_vars, NEW k \in 1 .. Len(frames')
  PROVE  \/ k \in 1 .. Len(frames) /\ frames'[k] = frames[k]
         \/ /\ frames'[k].at = "enter"
            /\ frames'[k].signum \in pending \cup {"KILL"}
         \/ /\ k \in 1 .. Len(frames) /\ k = Len(frames)
            /\ frames'[k].signum = frames[k].signum
            /\ \/ frames[k].at = "enter" /\ ~exiting /\ frames'[k].at = "set"
               \/ frames[k].at = "set" /\ exiting' /\ frames'[k].at = "terminate"
               \/ AtWork(k) /\ (frames'[k].at = "exit" => KillRest)
<1>0. DataType /\ FlagType /\ StackType
  BY Parts
<1>1. CASE UNCHANGED frames
  BY <1>1
<1>2. CASE frames' = <<>>
  BY <1>2, EmptySeq
<1>3. CASE StartFails
  <2>1. frames' = <<Frame("KILL")>> /\ Len(frames') = 1
    BY <1>3 DEF StartFails
  <2> QED
    BY <2>1, FrameType
<1>4. ASSUME NEW signum \in Signals, Interrupt(signum)
      PROVE  \/ k \in 1 .. Len(frames) /\ frames'[k] = frames[k]
             \/ frames'[k].at = "enter" /\ frames'[k].signum \in pending \cup {"KILL"}
  <2>1. /\ Frame(signum) \in Frames /\ Frame(signum).at = "enter" /\ Frame(signum).signum = signum
        /\ signum \in pending /\ frames' = Append(frames, Frame(signum))
    BY <1>4, FrameType DEF Interrupt
  <2>2. /\ Len(frames) \in Nat /\ Len(frames') = Len(frames) + 1
        /\ frames'[Len(frames) + 1] = Frame(signum)
        /\ \A j \in 1 .. Len(frames) : frames'[j] = frames[j]
    BY <1>0, <2>1, Pushed DEF StackType
  <2>3. k \in 1 .. Len(frames) \/ k = Len(frames) + 1
    BY <2>2
  <2> QED
    BY <2>1, <2>2, <2>3
<1>5. ASSUME frames # <<>>, NEW place \in Places, Goto(place)
      PROVE  \/ k \in 1 .. Len(frames) /\ frames'[k] = frames[k]
             \/ /\ k = Len(frames) /\ k \in 1 .. Len(frames) /\ frames[k] = Top
                /\ frames'[k].at = place /\ frames'[k].signum = frames[k].signum
  <2>1. /\ Len(frames) \in Nat \ {0} /\ Len(frames') = Len(frames)
        /\ frames'[Len(frames)].at = place
        /\ frames'[Len(frames)].signum = frames[Len(frames)].signum
        /\ \A j \in 1 .. Len(frames) - 1 : frames'[j] = frames[j]
        /\ Top = frames[Len(frames)]
    BY <1>0, <1>5, GoesOn, TopType DEF StackType
  <2>2. k \in 1 .. Len(frames) - 1 \/ (k = Len(frames) /\ k \in 1 .. Len(frames))
    BY <2>1
  <2>3. k \in 1 .. Len(frames) - 1 => k \in 1 .. Len(frames)
    BY <2>1
  <2> QED
    BY <2>1, <2>2, <2>3
<1>6. CASE Enter
  <2>1. frames # <<>> /\ Top.at = "enter"
    BY <1>6 DEF Enter, At
  <2>2. CASE exiting
    <3>1. /\ Len(frames) \in Nat \ {0} /\ Len(frames') = Len(frames) - 1
          /\ \A j \in 1 .. Len(frames') : frames'[j] = frames[j]
      BY <1>0, <1>6, <2>1, <2>2, Popped DEF Enter, StackType
    <3>2. k \in 1 .. Len(frames)
      BY <3>1
    <3> QED
      BY <3>1, <3>2
  <2>3. CASE ~exiting
    BY <1>5, <1>6, <2>1, <2>3 DEF Enter, Places
  <2> QED
    BY <2>2, <2>3
<1>7. CASE SetExiting
  <2>1. frames # <<>> /\ Top.at = "set" /\ exiting' /\ Goto("terminate")
    BY <1>7 DEF SetExiting, At
  <2> QED
    BY <1>5, <2>1 DEF Places
<1>8. ASSUME NEW i \in Children, Terminate(i)
      PROVE  \/ k \in 1 .. Len(frames) /\ frames'[k] = frames[k]
             \/ /\ k = Len(frames) /\ k \in 1 .. Len(frames)
                /\ frames'[k].signum = frames[k].signum /\ AtWork(k) /\ frames'[k].at # "exit"
  <2>1. /\ Len(frames) \in Nat \ {0} /\ Len(frames') = Len(frames)
        /\ frames'[Len(frames)].at # "exit"
        /\ frames'[Len(frames)].signum = frames[Len(frames)].signum
        /\ \A j \in 1 .. Len(frames) - 1 : frames'[j] = frames[j]
        /\ frames[Len(frames)].at = "terminate"
    BY <1>0, <1>8, Turned, TopType DEF Terminate, At
  <2>2. k \in 1 .. Len(frames) - 1 \/ (k = Len(frames) /\ k \in 1 .. Len(frames))
    BY <2>1
  <2>3. k \in 1 .. Len(frames) - 1 => k \in 1 .. Len(frames)
    BY <2>1
  <2> QED
    BY <2>1, <2>2, <2>3 DEF AtWork
<1>9. CASE KillRest
  <2>1. frames # <<>> /\ Top.at = "kill" /\ Goto("exit")
    BY <1>9 DEF KillRest, At
  <2> QED
    BY <1>5, <1>9, <2>1 DEF Places, AtWork
<1>10. CASE SysExit
  BY <1>2, <1>10 DEF SysExit
<1>11. ASSUME NEW signum \in Signals, Signal(signum)
       PROVE  frames' = <<>> \/ UNCHANGED frames
  BY <1>11 DEF Signal
<1> QED
  BY <1>1, <1>2, <1>3, <1>4, <1>6, <1>7, <1>8, <1>9, <1>10, <1>11
     DEF Next, Parent, CleanExit, StartProcess, Join, Register, Crash, TerminateChild, vars, Signals

LEMMA FlagStays == [Next]_vars /\ exiting => exiting'
  BY DEF Next, Parent, CleanExit, StartProcess, StartFails, Register, Join, Signal, Interrupt,
         Enter, SetExiting, Terminate, KillRest, SysExit, Crash, TerminateChild, vars

LEMMA FlaggedStep == TInv /\ Flagged /\ [Next]_vars => Flagged'
<1> SUFFICES ASSUME TInv, Flagged, [Next]_vars PROVE Flagged'
  OBVIOUS
<1>0. DataType /\ FlagType /\ StackType
  BY Parts
<1>1. ASSUME NEW k \in 1 .. Len(frames'), AtWork(k)' PROVE exiting'
  <2>1. \/ k \in 1 .. Len(frames) /\ frames'[k] = frames[k]
        \/ frames'[k].at \in {"enter", "set"}
        \/ exiting'
        \/ k \in 1 .. Len(frames) /\ AtWork(k)
    BY StackChange
  <2> QED
    BY <1>1, <2>1, FlagStays DEF Flagged, AtWork
<1>2. ASSUME NEW i \in Children, child'[i] = "term" PROVE exiting'
  <2>1. CASE child[i] = "term"
    BY <2>1, FlagStays DEF Flagged
  <2>2. CASE child[i] # "term"
    <3>1. \E j \in Children : Terminate(j)
      BY <1>0, <1>2, <2>2 DEF Next, Parent, CleanExit, StartProcess, StartFails, Register, Join,
           Signal, Interrupt, Enter, SetExiting, KillRest, SysExit, Crash, TerminateChild, vars,
           Alive, DataType
    <3>2. frames # <<>> /\ Top.at = "terminate"
      BY <3>1 DEF Terminate, At
    <3>3. Len(frames) \in 1 .. Len(frames) /\ AtWork(Len(frames))
      BY <1>0, <3>2, TopType DEF AtWork
    <3> QED
      BY <3>3, FlagStays DEF Flagged
  <2> QED
    BY <2>1, <2>2
<1> QED
  BY <1>1, <1>2 DEF Flagged

LEMMA CauseStep == CInv /\ [Next]_vars => crashed' # {} \/ Echo'
<1> SUFFICES ASSUME CInv, [Next]_vars, crashed' = {} PROVE Echo'
  OBVIOUS
<1>0. TInv /\ DataType /\ FlagType /\ StackType /\ Flagged
  BY Parts DEF CInv
<1>1. crashed = {} /\ \A i \in Children : ~Crash(i)
  BY <1>0 DEF Next, Parent, CleanExit, StartProcess, StartFails, Register, Join, Signal,
         Interrupt, Enter, SetExiting, Terminate, KillRest, SysExit, Crash, TerminateChild, vars
<1>2. Echo
  BY <1>1 DEF CInv
<1>3. ASSUME "CHLD" \in pending' PROVE exiting'
  <2>1. CASE "CHLD" \in pending
    BY <1>2, <2>1, FlagStays DEF Echo
  <2>2. ASSUME NEW i \in Children, TerminateChild(i) PROVE exiting
    BY <1>0, <2>2 DEF TerminateChild, Flagged
  <2>3. CASE KillRest
    <3>1. frames # <<>> /\ Top.at = "kill"
      BY <2>3 DEF KillRest, At
    <3>2. Len(frames) \in 1 .. Len(frames) /\ AtWork(Len(frames))
      BY <1>0, <3>1, TopType DEF AtWork
    <3> QED
      BY <1>0, <3>2, FlagStays DEF Flagged
  <2>4. CASE "CHLD" \notin pending /\ ~KillRest /\ \A i \in Children : ~TerminateChild(i)
    <3>1. ASSUME NEW signum \in {"INT", "TERM"}, Signal(signum) PROVE "CHLD" \notin pending'
      BY <2>4, <3>1 DEF Signal
    <3>2. pending' \subseteq pending \/ \E signum \in {"INT", "TERM"} : Signal(signum)
      BY <1>1, <2>4
         DEF Next, Parent, CleanExit, StartProcess, StartFails, Register, Join, Interrupt, Enter,
             SetExiting, Terminate, SysExit, vars
    <3> QED
      BY <1>3, <2>4, <3>1, <3>2
  <2> QED
    BY <2>1, <2>2, <2>3, <2>4, FlagStays
<1>4. ASSUME NEW k \in 1 .. Len(frames'), frames'[k].signum = "CHLD"
      PROVE  exiting' /\ frames'[k].at = "enter"
  <2>1. \/ k \in 1 .. Len(frames) /\ frames'[k] = frames[k]
        \/ frames'[k].at = "enter" /\ frames'[k].signum \in pending
        \/ /\ k \in 1 .. Len(frames) /\ frames'[k].signum = frames[k].signum
           /\ frames[k].at = "enter" => ~exiting
    <3>1. AtWork(k) => frames[k].at # "enter"
      BY DEF AtWork
    <3> QED
      BY <1>0, <1>4, <3>1, StackChange
  <2>2. exiting => exiting'
    BY FlagStays
  <2> QED
    BY <1>2, <1>4, <2>1, <2>2 DEF Echo
<1>5. status' # "CHLD"
  <2>1. CASE SysExit
    <3>1. frames # <<>> /\ Top.at = "exit" /\ status' = IF Top.signum = "TERM" THEN "0" ELSE Top.signum
      BY <2>1 DEF SysExit, At
    <3>2. Len(frames) \in 1 .. Len(frames) /\ Top = frames[Len(frames)]
      BY <1>0, <3>1, TopType
    <3>3. Top.signum # "CHLD"
      BY <1>2, <3>1, <3>2 DEF Echo
    <3> QED
      BY <3>1, <3>3
  <2>2. CASE ~SysExit
    BY <1>2, <2>2
       DEF Echo, Next, Parent, CleanExit, StartProcess, StartFails, Register, Join, Signal,
           Interrupt, Enter, SetExiting, Terminate, KillRest, Crash, TerminateChild, vars
  <2> QED
    BY <2>1, <2>2
<1> QED
  BY <1>3, <1>4, <1>5 DEF Echo

\* The daemon blames a child only when one has ended of itself, for any number of
\* children and any nesting of signals.
THEOREM StatusNamesCause == Spec => []StatusTellsCause
<1>1. Init => CInv
  <2> SUFFICES ASSUME Init PROVE CInv
    OBVIOUS
  <2>1. TInv /\ frames = <<>> /\ Len(frames) = 0
    BY TypeInit, EmptySeq DEF Init
  <2> QED
    BY <2>1 DEF Init, CInv, Flagged, Echo, AtWork
<1>2. CInv /\ [Next]_vars => CInv'
  BY TypeStep, FlaggedStep, CauseStep DEF CInv
<1>3. CInv => StatusTellsCause
  BY DEF CInv, Echo, StatusTellsCause
<1> QED
  BY <1>1, <1>2, <1>3, PTL DEF Spec

-----------------------------------------------------------------------------
(* Nobody is left behind.  Whoever is at sys.exit has killed all children  *)
(* that were left, and no other is started after that.                     *)

\* The exit status is set when main ends.
Ended == status # "none" => main \in {"joining", "exited", "killed"}

AllDead == \A i \in Children : ~Alive(i)
SafeExit == \A k \in 1 .. Len(frames) : frames[k].at = "exit" => AllDead

OInv == TInv /\ Ended /\ SafeExit /\ NoOrphans

LEMMA NobodyNew ==
  ASSUME TInv, [Next]_vars
  PROVE  (AllDead => AllDead') \/ StartProcess
<1> SUFFICES ASSUME AllDead, ~StartProcess, NEW i \in Children PROVE ~Alive(i)'
  BY DEF AllDead
<1>1. /\ DataType /\ child[i] \notin {"up", "term"}
  BY Parts DEF AllDead, Alive
<1>2. ASSUME NEW j \in Children, Terminate(j) \/ Crash(j) \/ TerminateChild(j) PROVE ~Alive(i)'
  BY <1>1, <1>2 DEF Terminate, Crash, TerminateChild, Alive, DataType
<1>3. CASE KillRest
  BY <1>3 DEF KillRest, Alive
<1>4. CASE UNCHANGED child
  BY <1>1, <1>4 DEF Alive
<1> QED
  BY <1>2, <1>3, <1>4
     DEF Next, Parent, CleanExit, StartFails, Register, Join, Signal, Interrupt, Enter,
         SetExiting, SysExit, vars

LEMMA EndedStep == Ended /\ [Next]_vars => Ended'
  BY DEF Ended, Next, Parent, CleanExit, StartProcess, StartFails, Register, Join, Signal,
         Interrupt, Enter, SetExiting, Terminate, KillRest, SysExit, Crash, TerminateChild, vars,
         Gone

LEMMA SafeExitStep == TInv /\ SafeExit /\ [Next]_vars => SafeExit'
<1> SUFFICES ASSUME TInv, SafeExit, [Next]_vars,
                    NEW k \in 1 .. Len(frames'), frames'[k].at = "exit"
             PROVE  AllDead'
  BY DEF SafeExit
<1>1. (k \in 1 .. Len(frames) /\ frames'[k] = frames[k]) \/ KillRest
  BY StackChange
<1>2. CASE KillRest
  BY <1>2 DEF KillRest, AllDead, Alive
<1>3. CASE k \in 1 .. Len(frames) /\ frames'[k] = frames[k]
  <2>1. AllDead
    BY <1>3 DEF SafeExit
  <2>2. ~StartProcess
    BY <1>3, EmptySeq DEF StartProcess
  <2> QED
    BY <2>1, <2>2, NobodyNew
<1> QED
  BY <1>1, <1>2, <1>3

LEMMA OrphansStep == TInv /\ Ended /\ SafeExit /\ NoOrphans /\ [Next]_vars => NoOrphans'
<1> SUFFICES ASSUME TInv, Ended, SafeExit, NoOrphans, [Next]_vars, status' # "none", ~AllDead'
             PROVE  status' \in {"INT", "TERM"} \ handlers'
  BY DEF NoOrphans, AllDead
<1>0. StackType
  BY Parts
<1>1. CASE SysExit
  <2>1. frames # <<>> /\ Top.at = "exit" /\ ~StartProcess
    BY <1>1 DEF SysExit, At, StartProcess
  <2>2. Len(frames) \in 1 .. Len(frames) /\ Top = frames[Len(frames)]
    BY <1>0, <2>1, TopType
  <2>3. AllDead
    BY <2>1, <2>2 DEF SafeExit
  <2> QED
    BY <2>1, <2>3, NobodyNew
<1>2. ASSUME NEW signum \in {"INT", "TERM"}, Signal(signum), status' # status
      PROVE  status' \in {"INT", "TERM"} \ handlers'
  BY <1>2 DEF Signal
<1>3. CASE status' = status
  <2>1. main \in {"joining", "exited", "killed"}
    BY <1>3 DEF Ended
  <2>2. ~StartProcess /\ UNCHANGED handlers
    BY <2>1 DEF Next, Parent, CleanExit, StartProcess, StartFails, Register, Join, Signal,
         Interrupt, Enter, SetExiting, Terminate, KillRest, SysExit, Crash, TerminateChild, vars
  <2>3. ~AllDead
    BY <2>2, NobodyNew
  <2> QED
    BY <1>3, <2>2, <2>3 DEF NoOrphans, AllDead
<1> QED
  BY <1>1, <1>2, <1>3
     DEF Next, Parent, CleanExit, StartProcess, StartFails, Register, Join, Interrupt, Enter,
         SetExiting, Terminate, KillRest, Crash, TerminateChild, vars

\* An engine outlives the exit of the daemon only when a signal came before its
\* handler was installed, for any number of engines and any nesting of signals.
THEOREM NobodyLeftBehind == Spec => []NoOrphans
<1>1. Init => OInv
  <2> SUFFICES ASSUME Init PROVE OInv
    OBVIOUS
  <2>1. TInv /\ Len(frames) = 0
    BY TypeInit, EmptySeq DEF Init
  <2> QED
    BY <2>1 DEF Init, OInv, Ended, SafeExit, NoOrphans
<1>2. OInv /\ [Next]_vars => OInv'
  BY TypeStep, EndedStep, SafeExitStep, OrphansStep DEF OInv
<1>3. OInv => NoOrphans
  BY DEF OInv
<1> QED
  BY <1>1, <1>2, <1>3, PTL DEF Spec
=============================================================================
