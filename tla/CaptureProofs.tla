---------------------------- MODULE CaptureProofs ---------------------------
(***************************************************************************)
(* Theorems of CaptureRun, for any number of signals and any length of the *)
(* loop.  The argument: a trap is a call of stop_capture from between two  *)
(* commands, so the script is always at its Main command; a call that      *)
(* returns was not interrupted, and leaves no capture that has a command   *)
(* line; and what has none is a fork, which is gone when the program ends. *)
(***************************************************************************)
EXTENDS CaptureRun, TLAPS

\* Between two commands the script goes to the next one, or runs a trap and
\* will come back to it.
LEMMA GoOnControl ==
  ASSUME NEW next \in Commands, Control, pc \notin StopCapture, GoOn(next)
  PROVE  Control' /\ Main' = next /\ interrupted' = FALSE /\ pc' \in {next, "pkillPid"}
<1>1. stack = <<>> /\ next \notin StopCapture
  BY DEF Control, WellNested, Commands, StopCapture, BeforeProgram, AfterProgram
<1>2. CASE pending = {}
  BY <1>1, <1>2 DEF GoOn, Control, ControlType, WellNested, Main, Frames
<1>3. CASE pending # {}
  <2>1. pc' = "pkillPid" /\ stack' = Append(stack, next) /\ interrupted' = FALSE
        /\ pending' \in SUBSET {"INT", "TERM"}
    BY <1>3 DEF GoOn, Control, ControlType
  <2>2. stack' = <<next>>
    BY <2>1, <1>1
  <2>3. stack' \in Seq(Frames) /\ Len(stack') = 1 /\ stack'[1] = next /\ stack' # <<>>
    BY <2>2 DEF Frames
  <2>4. ControlType'
    BY <2>1, <2>3 DEF ControlType, StopCapture
  <2>5. WellNested'
    BY <1>1, <2>1, <2>3 DEF WellNested, StopCapture
  <2>6. QED
    BY <2>1, <2>3, <2>4, <2>5 DEF Control, Main
<1>4. QED BY <1>2, <1>3

\* Between its two pkills a call of stop_capture goes on, or runs a trap.
LEMMA FallBackControl ==
  ASSUME Control, pc = "pkillPid", GoOn("pkillName")
  PROVE  Control' /\ Main' = Main /\ interrupted' = FALSE /\ pc' \in StopCapture
<1>1. stack # <<>> /\ stack \in Seq(Frames) /\ Len(stack) \in Nat \ {0}
  BY DEF Control, ControlType, WellNested, StopCapture
<1>2. CASE pending = {}
  BY <1>1, <1>2 DEF GoOn, Control, ControlType, WellNested, Main, StopCapture
<1>3. CASE pending # {}
  <2>1. pc' = "pkillPid" /\ stack' = Append(stack, "pkillName")
        /\ interrupted' = FALSE /\ pending' \in SUBSET {"INT", "TERM"}
    BY <1>3 DEF GoOn, Control, ControlType
  <2>2. /\ stack' \in Seq(Frames) /\ Len(stack') = Len(stack) + 1
        /\ stack'[1] = stack[1] /\ stack' # <<>>
        /\ \A i \in 2..Len(stack') : stack'[i] = "pkillName"
    BY <2>1, <1>1 DEF Control, WellNested, Frames
  <2>3. QED
    BY <1>1, <2>1, <2>2 DEF Control, ControlType, WellNested, Main, StopCapture
<1>4. QED BY <1>2, <1>3

\* A call of stop_capture returns to the main command or to an outer call, or
\* another trap runs in its place.
LEMMA ReturnControl ==
  ASSUME Control, pc \in StopCapture, Return
  PROVE  /\ Control' /\ Main' = Main /\ interrupted' = FALSE
         /\ pending = {} \/ pc' \in StopCapture
         /\ pc' \in StopCapture \/ pc' = Main
<1>1. stack # <<>> /\ stack \in Seq(Frames) /\ Len(stack) \in Nat \ {0}
  BY DEF Control, ControlType, WellNested
<1>2. CASE pending # {}
  BY <1>1, <1>2 DEF Return, Control, ControlType, WellNested, Main, StopCapture
<1>3. CASE pending = {} /\ Len(stack) = 1
  <2>1. pc' = stack[1] /\ stack' = <<>> /\ interrupted' = FALSE /\ pending' = pending
    BY <1>1, <1>3 DEF Return, Caller
  <2>2. stack[1] \in Commands
    BY <1>1 DEF Control, WellNested, Frames
  <2>3. stack[1] \notin StopCapture
    BY <2>2 DEF Commands, StopCapture, BeforeProgram, AfterProgram
  <2>4. stack' \in Seq(Frames) /\ Len(stack') = 0
    BY <2>1
  <2>5. ControlType'
    BY <2>1, <2>2, <2>4 DEF Control, ControlType
  <2>6. WellNested'
    BY <2>1, <2>3, <2>4 DEF WellNested
  <2>7. QED
    BY <1>1, <1>3, <2>1, <2>5, <2>6 DEF Control, Main
<1>4. CASE pending = {} /\ Len(stack) > 1
  <2>1. /\ pc' = stack[Len(stack)] /\ interrupted' = FALSE /\ pending' = pending
        /\ stack' = SubSeq(stack, 1, Len(stack) - 1)
    BY <1>1, <1>4 DEF Return, Caller
  <2>2. pc' = "pkillName"
    BY <1>1, <1>4, <2>1 DEF Control, WellNested
  <2>3. /\ stack' \in Seq(Frames) /\ Len(stack') = Len(stack) - 1
        /\ \A i \in 1..Len(stack') : stack'[i] = stack[i]
    BY <1>1, <1>4, <2>1
  <2>4. stack' # <<>> /\ stack'[1] = stack[1]
    BY <1>1, <1>4, <2>3
  <2>5. \A i \in 2..Len(stack') : stack'[i] = "pkillName"
    BY <1>1, <1>4, <2>3 DEF Control, WellNested
  <2>6. QED
    BY <1>1, <1>4, <2>1, <2>2, <2>3, <2>4, <2>5
       DEF Control, ControlType, WellNested, Main, StopCapture
<1>5. \A n \in Nat \ {0} : n = 1 \/ n > 1
  OBVIOUS
<1>6. QED BY <1>1, <1>2, <1>3, <1>4, <1>5

-----------------------------------------------------------------------------
LEMMA MainOutside ==
  ASSUME Control, pc \notin StopCapture
  PROVE  Main = pc
  BY DEF Control, WellNested, Main

LEMMA StopInit == Init => StopInv
<1> SUFFICES ASSUME Init PROVE StopInv
  OBVIOUS
<1>1. ControlType
  <2>1. pc \in Commands /\ stack \in Seq(Frames) /\ pending \in SUBSET {"INT", "TERM"}
    BY DEF Init, Commands, BeforeProgram
  <2>2. interrupted \in BOOLEAN
    BY Zenon DEF Init
  <2>3. QED BY <2>1, <2>2 DEF ControlType
<1>2. stack = <<>> /\ Len(stack) = 0 /\ Main = "begin"
  BY DEF Init, Main
<1>3. WellNested
  BY <1>2 DEF Init, WellNested, StopCapture
<1>4. DataType
  <2>1. polls \in 0..Polls /\ signals \in 0..MaxSignals
    BY CaptureAssumption DEF Init
  <2>2. /\ pidFile \in BOOLEAN /\ file \in BOOLEAN
        /\ early \in BOOLEAN /\ failed \in BOOLEAN
    BY Zenon DEF Init
  <2>3. QED BY <2>1, <2>2 DEF Init, DataType
<1>5. StoppedInv
  BY <1>2 DEF Init, StoppedInv
<1>6. QED
  BY <1>1, <1>3, <1>4, <1>5 DEF StopInv, Control

\* A command of the script, other than the pkills, that leaves the capture as
\* it is and goes on to a command with no more to promise than its own.
LEMMA PlainStep ==
  ASSUME StopInv, NEW next \in Commands, pc \notin StopCapture, GoOn(next),
         UNCHANGED <<cap, pidFile>>, DataType',
         next \notin {"begin", "start"},
         next \in AfterProgram => cap # "forked",
         next \in {"chown", "rm", "report", "done", "flush"} => cap \notin Alive,
         next \in {"report", "done"} => ~pidFile
  PROVE  StopInv'
<1>1. Control' /\ Main' = next /\ interrupted' = FALSE /\ pc' \in {next, "pkillPid"}
  BY GoOnControl DEF StopInv
<1>2. next \in BeforeProgram \cup {"program"} \cup AfterProgram
  BY DEF Commands
<1>3. next \notin {"refused", "killed"}
  BY <1>2 DEF BeforeProgram, AfterProgram
<1>4. StoppedInv'
  BY <1>1, <1>2, <1>3 DEF StoppedInv
<1>5. QED BY <1>1, <1>4 DEF StopInv

-----------------------------------------------------------------------------
\* Steps that touch the control of the script only by GoOn, or not at all.
LEMMA DataUnchanged ==
  ASSUME DataType, UNCHANGED <<polls, captureVars, signals, early>>
  PROVE  DataType' /\ cap' = cap /\ pidFile' = pidFile
  BY DEF DataType, captureVars

LEMMA ControlUnchanged ==
  ASSUME Control, UNCHANGED <<pc, stack, pending, interrupted>>
  PROVE  Control' /\ Main' = Main
  BY DEF Control, ControlType, WellNested, Main

\* A command of the script after which only the capture's state can differ.
LEMMA CaptureStep ==
  ASSUME StopInv, UNCHANGED <<pc, stack, pending, interrupted>>, DataType',
         cap # "none", cap' # "forked",
         cap \notin Alive => cap' \notin Alive,
         cap \notin Alive => pidFile' = pidFile,
         cap' # "none"
  PROVE  StopInv'
<1>1. Control' /\ Main' = Main
  BY ControlUnchanged DEF StopInv
<1>2. StoppedInv'
  BY <1>1 DEF StopInv, StoppedInv
<1>3. QED BY <1>1, <1>2 DEF StopInv

LEMMA Strings ==
  /\ "start" \in Commands /\ "wait" \in Commands /\ "settle" \in Commands
  /\ "announce" \in Commands /\ "program" \in Commands /\ "ended" \in Commands
  /\ "chown" \in Commands /\ "rm" \in Commands /\ "report" \in Commands
  /\ "done" \in Commands
  BY DEF Commands, BeforeProgram, AfterProgram

-----------------------------------------------------------------------------
LEMMA RefuseInv == StopInv /\ Refuse => StopInv'
<1> SUFFICES ASSUME StopInv, Refuse PROVE StopInv'
  OBVIOUS
<1>1. Control /\ pc = "begin" /\ pc' = "refused" /\ stack' = stack
      /\ pending' = pending /\ interrupted' = interrupted
  BY DEF StopInv, Refuse
<1>2. stack = <<>> /\ Main = "begin" /\ Main' = "refused"
  BY <1>1 DEF Control, WellNested, Main, StopCapture
<1>3. Control'
  BY <1>1, <1>2 DEF Control, ControlType, WellNested, StopCapture, Ended
<1>4. DataType' /\ cap' = cap /\ pidFile' = pidFile
  BY DataUnchanged DEF StopInv, Refuse, captureVars
<1>5. StoppedInv'
  BY <1>1, <1>2, <1>4 DEF StopInv, StoppedInv, Alive
<1>6. QED BY <1>3, <1>4, <1>5 DEF StopInv

LEMMA SetTrapInv == StopInv /\ SetTrap => StopInv'
<1> SUFFICES ASSUME StopInv, SetTrap PROVE StopInv'
  OBVIOUS
<1>1. Control /\ pc = "begin" /\ pc \notin StopCapture /\ GoOn("start")
  BY DEF StopInv, SetTrap, StopCapture
<1>2. Main = "begin"
  BY <1>1, MainOutside
<1>3. Control' /\ Main' = "start" /\ interrupted' = FALSE /\ pc' \in {"start", "pkillPid"}
  BY <1>1, GoOnControl, Strings
<1>4. DataType' /\ cap' = cap /\ pidFile' = pidFile
  BY DataUnchanged DEF StopInv, SetTrap
<1>5. StoppedInv'
  BY <1>2, <1>3, <1>4 DEF StopInv, StoppedInv
<1>6. QED BY <1>3, <1>4, <1>5 DEF StopInv

LEMMA StartCaptureInv == StopInv /\ StartCapture => StopInv'
<1> SUFFICES ASSUME StopInv, StartCapture PROVE StopInv'
  OBVIOUS
<1>1. Control /\ pc = "start" /\ pc \notin StopCapture /\ GoOn("wait")
  BY DEF StopInv, StartCapture, StopCapture
<1>2. Control' /\ Main' = "wait" /\ interrupted' = FALSE /\ pc' \in {"wait", "pkillPid"}
  BY <1>1, GoOnControl, Strings
<1>3. DataType'
  BY DEF StopInv, StartCapture, DataType, Alive
<1>4. StoppedInv'
  BY <1>2 DEF StartCapture, StoppedInv, BeforeProgram
<1>5. QED BY <1>2, <1>3, <1>4 DEF StopInv

LEMMA WaitInv == StopInv /\ (WaitForFile \/ Settle \/ Announce) => StopInv'
<1> SUFFICES ASSUME StopInv, WaitForFile \/ Settle \/ Announce PROVE StopInv'
  OBVIOUS
<1>1. pc \notin StopCapture /\ UNCHANGED <<cap, pidFile>>
  BY DEF WaitForFile, Settle, Announce, StopCapture, captureVars
<1>2. PICK next \in {"wait", "settle", "announce", "program"} : GoOn(next)
  BY DEF WaitForFile, Settle, Announce
<1>3. DataType'
  <2>1. failed \in BOOLEAN /\ file \in BOOLEAN
    BY DEF StopInv, DataType
  <2>2. \/ failed' = (failed \/ ~file)
        \/ failed' = failed
    BY DEF WaitForFile, Settle, Announce, captureVars
  <2>3. failed' \in BOOLEAN
    BY <2>1, <2>2, Zenon
  <2>4. QED
    BY CaptureAssumption, <2>3
       DEF WaitForFile, Settle, Announce, captureVars, DataType, StopInv
<1>4. next \in Commands /\ next \notin AfterProgram
  BY DEF Commands, BeforeProgram, AfterProgram
<1>5. QED BY <1>1, <1>2, <1>3, <1>4, PlainStep DEF AfterProgram

LEMMA ProgramInv == StopInv /\ ProgramEnds => StopInv'
<1> SUFFICES ASSUME StopInv, ProgramEnds PROVE StopInv'
  OBVIOUS
<1>1. pc \notin StopCapture /\ GoOn("ended") /\ cap # "forked"
  BY DEF ProgramEnds, StopCapture
<1>2. DataType' /\ cap' = cap /\ pidFile' = pidFile
  BY DataUnchanged DEF StopInv, ProgramEnds
<1>3. QED BY <1>1, <1>2, PlainStep, Strings

LEMMA CallInv == StopInv /\ CallStopCapture => StopInv'
<1> SUFFICES ASSUME StopInv, CallStopCapture PROVE StopInv'
  OBVIOUS
<1>1. Control /\ pc = "ended" /\ pc' = "pkillPid" /\ stack' = Append(stack, "flush")
      /\ interrupted' = FALSE /\ pending' = pending
  BY DEF StopInv, CallStopCapture
<1>2. stack = <<>> /\ Main = "ended"
  BY <1>1 DEF Control, WellNested, Main, StopCapture
<1>3. stack' = <<"flush">>
  BY <1>1, <1>2
<1>4. stack' \in Seq(Frames) /\ Len(stack') = 1 /\ stack'[1] = "flush" /\ stack' # <<>>
  BY <1>3 DEF Frames, Commands, AfterProgram
<1>5. ControlType'
  BY <1>1, <1>4 DEF Control, ControlType, StopCapture
<1>6. WellNested' /\ Main' = "flush"
  BY <1>1, <1>4 DEF WellNested, StopCapture, Main
<1>7. DataType' /\ cap' = cap /\ pidFile' = pidFile
  BY DataUnchanged DEF StopInv, CallStopCapture
<1>8. cap # "forked"
  BY <1>2 DEF StopInv, StoppedInv, BeforeProgram
<1>9. StoppedInv'
  BY <1>1, <1>6, <1>7, <1>8 DEF StoppedInv
<1>10. QED BY <1>5, <1>6, <1>7, <1>9 DEF StopInv, Control

\* A call that returns was not interrupted, so it has found the capture.
LEMMA ReturnedStopped ==
  ASSUME StopInv, pc \in StopCapture, Return, DataType',
         cap' \notin HasName \/ pending # {},
         cap' = "forked" => cap = "forked",
         cap \notin Alive => cap' \notin Alive,
         cap = "none" => cap' = "none",
         pidFile' = pidFile
  PROVE  StopInv'
<1>1. Control /\ Control' /\ Main' = Main /\ interrupted' = FALSE
  BY ReturnControl DEF StopInv
<1>2. pending = {} \/ pc' \in StopCapture
  BY ReturnControl DEF StopInv
<1>3. pc' \in StopCapture \/ pc' = Main
  BY ReturnControl DEF StopInv
<1>4. pc' = "flush" => cap' \notin Alive
  <2>1. SUFFICES ASSUME pc' = "flush" PROVE cap' \notin Alive
    OBVIOUS
  <2>2. Main = "flush" /\ pending = {}
    BY <1>2, <1>3, <2>1 DEF StopCapture
  <2>3. cap # "forked"
    BY <2>2 DEF StopInv, StoppedInv, BeforeProgram
  <2>4. QED BY <2>2, <2>3 DEF HasName
<1>5. StoppedInv'
  BY <1>1, <1>4 DEF StopInv, StoppedInv
<1>6. QED BY <1>1, <1>5 DEF StopInv

LEMMA PkillByPidInv == StopInv /\ PkillByPid => StopInv'
<1> SUFFICES ASSUME StopInv, PkillByPid PROVE StopInv'
  OBVIOUS
<1>1. pc = "pkillPid" /\ pc \in StopCapture /\ Control
  BY DEF PkillByPid, StopCapture, StopInv
<1>2. CASE HasPid /\ cap' = Signalled /\ Return
  <2>1. cap' \in {"stopping", "dead"} /\ cap # "none" /\ pidFile' = pidFile
    BY <1>2 DEF Signalled, HasPid, PkillByPid
  <2>2. DataType'
    BY <2>1 DEF StopInv, DataType, PkillByPid
  <2>3. cap' \notin Alive /\ cap' # "forked" /\ cap' \notin HasName
    BY <2>1 DEF Alive, HasName
  <2>4. QED BY <1>1, <1>2, <2>1, <2>2, <2>3, ReturnedStopped
<1>3. CASE cap' = cap /\ GoOn("pkillName")
  <2>1. Control' /\ Main' = Main /\ interrupted' = FALSE /\ pc' \in StopCapture
    BY <1>1, <1>3, FallBackControl
  <2>2. DataType' /\ pidFile' = pidFile
    BY <1>3 DEF StopInv, DataType, PkillByPid
  <2>3. pc' # "flush"
    BY <2>1 DEF StopCapture
  <2>4. StoppedInv'
    BY <1>3, <2>1, <2>2, <2>3 DEF StopInv, StoppedInv
  <2>5. QED BY <2>1, <2>2, <2>4 DEF StopInv
<1>4. QED BY <1>2, <1>3 DEF PkillByPid

LEMMA PkillByNameInv == StopInv /\ PkillByName => StopInv'
<1> SUFFICES ASSUME StopInv, PkillByName PROVE StopInv'
  OBVIOUS
<1>1. pc \in StopCapture /\ Return /\ pidFile' = pidFile
  BY DEF PkillByName, StopCapture
<1>2. interrupted => pending # {}
  BY DEF StopInv, StoppedInv
<1>3. \/ cap' = (IF cap \in HasName THEN Signalled ELSE cap)
      \/ interrupted /\ cap' = cap
  BY DEF PkillByName
<1>4. Signalled \in {"stopping", "dead"}
  BY DEF Signalled
<1>5. cap' \in {cap, "stopping", "dead"} /\ (cap' \notin HasName \/ pending # {})
  BY <1>2, <1>3, <1>4 DEF HasName, Alive
<1>6. cap = "none" => cap' = "none"
  BY <1>3 DEF HasName, Alive
<1>7. DataType'
  BY <1>5 DEF StopInv, DataType, PkillByName
<1>8. (cap' = "forked" => cap = "forked") /\ (cap \notin Alive => cap' \notin Alive)
  BY <1>5 DEF Alive
<1>9. QED BY <1>1, <1>5, <1>6, <1>7, <1>8, ReturnedStopped

LEMMA EndingInv ==
  StopInv /\ (Flush \/ Chown \/ RemovePidFile \/ Report) => StopInv'
<1> SUFFICES ASSUME StopInv, Flush \/ Chown \/ RemovePidFile \/ Report
             PROVE  StopInv'
  OBVIOUS
<1>1. pc \notin StopCapture /\ cap' = cap
  BY DEF Flush, Chown, RemovePidFile, Report, StopCapture, captureVars
<1>2. Main = pc /\ cap \notin Alive /\ cap # "forked"
  BY <1>1, MainOutside
     DEF StopInv, StoppedInv, Flush, Chown, RemovePidFile, Report, Alive
<1>3. DataType'
  BY DEF Flush, Chown, RemovePidFile, Report, captureVars, DataType, StopInv
<1>4. PICK next \in {"chown", "rm", "report", "done"} :
        /\ GoOn(next)
        /\ pidFile' \in {pidFile, FALSE}
        /\ next \in {"report", "done"} => pidFile' = FALSE
  <2>1. CASE Flush
    BY <2>1 DEF Flush, captureVars
  <2>2. CASE Chown
    BY <2>2 DEF Chown, captureVars
  <2>3. CASE RemovePidFile
    BY <2>3 DEF RemovePidFile
  <2>4. CASE Report
    <3>1. ~pidFile
      BY <1>2, <2>4 DEF Report, StopInv, StoppedInv
    <3>2. pidFile' = FALSE
      BY <2>4, <3>1, Zenon DEF Report, captureVars, StopInv, DataType
    <3>3. QED BY <2>4, <3>2 DEF Report
  <2>5. QED BY <2>1, <2>2, <2>3, <2>4
<1>5. Control' /\ Main' = next /\ interrupted' = FALSE
  BY <1>1, <1>4, GoOnControl, Strings DEF StopInv
<1>6. StoppedInv'
  BY <1>1, <1>2, <1>4, <1>5 DEF StoppedInv
<1>7. QED BY <1>3, <1>5, <1>6 DEF StopInv

-----------------------------------------------------------------------------
LEMMA SignalInv == StopInv /\ (CtrlC \/ Terminate) => StopInv'
<1> SUFFICES ASSUME StopInv, CtrlC \/ Terminate PROVE StopInv'
  OBVIOUS
<1>1. PICK s \in {"INT", "TERM"} : Receive(s)
  BY DEF CtrlC, Terminate
<1>2. /\ stack' = stack /\ pidFile' = pidFile /\ pc \notin Ended
      /\ interrupted' = interrupted \/ interrupted' = (pc # "begin")
      /\ cap' = cap \/ (cap \in HasName /\ cap' \in {"stopping", "dead"})
  BY <1>1 DEF CtrlC, Terminate, Receive, Signalled
<1>3. DataType'
  <2>1. signals' \in 0..MaxSignals /\ early' \in BOOLEAN
    BY <1>1, CaptureAssumption DEF Receive, StopInv, DataType
  <2>2. QED BY <1>1, <1>2, <2>1 DEF Receive, StopInv, DataType
<1>4. interrupted' \in BOOLEAN
  BY <1>2, Zenon DEF StopInv, Control, ControlType
<1>5. CASE pc = "begin"
  <2>1. pc' = "killed" /\ pending' = pending
    BY <1>1, <1>5 DEF Receive
  <2>2. stack = <<>> /\ Main = "begin" /\ Main' = "killed"
    BY <1>2, <1>5, <2>1 DEF StopInv, Control, WellNested, Main, StopCapture
  <2>3. cap = "none" /\ ~pidFile /\ cap' = "none"
    BY <1>2, <2>2 DEF StopInv, StoppedInv, HasName, Alive
  <2>4. Control'
    BY <1>2, <1>4, <2>1, <2>2
       DEF StopInv, Control, ControlType, WellNested, StopCapture, Ended
  <2>5. interrupted' => pending' # {}
    BY <1>2, <1>5, <2>1, Zenon DEF StopInv, StoppedInv
  <2>6. StoppedInv'
    BY <1>2, <2>1, <2>2, <2>3, <2>5 DEF StoppedInv
  <2>7. QED BY <1>3, <2>4, <2>6 DEF StopInv
<1>6. CASE pc # "begin"
  <2>1. pc' = pc /\ pending' = pending \cup {s}
    BY <1>1, <1>6 DEF Receive
  <2>2. Control' /\ Main' = Main
    BY <1>2, <1>4, <2>1 DEF StopInv, Control, ControlType, WellNested, Main
  <2>3. pending' # {}
    BY <2>1
  <2>4. cap' = "forked" => cap = "forked"
    BY <1>2
  <2>5. cap \notin Alive => cap' = cap
    BY <1>2 DEF HasName
  <2>6. cap = "none" => cap' = "none"
    BY <2>5 DEF Alive
  <2>7. cap' \in Alive => cap \in Alive
    BY <2>5
  <2>8. StoppedInv'
    BY <1>2, <2>1, <2>2, <2>3, <2>4, <2>6, <2>7 DEF StopInv, StoppedInv
  <2>9. QED BY <1>3, <2>2, <2>8 DEF StopInv
<1>7. QED BY <1>5, <1>6

LEMMA CaptureProcessInv == StopInv /\ Capture => StopInv'
<1> SUFFICES ASSUME StopInv, Capture PROVE StopInv'
  OBVIOUS
<1>1. UNCHANGED <<pc, stack, pending, interrupted>> /\ polls' = polls
  BY DEF Capture, CaptureRuns, SudoStarts, ShellStarts, TcpdumpStarts, CaptureOpens,
         CaptureFails, Flushed, scriptVars
<1>2. /\ cap # "none" /\ cap' # "none" /\ cap' # "forked"
      /\ cap \notin Alive => cap' \notin Alive
      /\ cap \notin Alive => pidFile' = pidFile
  BY DEF Capture, CaptureRuns, SudoStarts, ShellStarts, TcpdumpStarts, CaptureOpens,
         CaptureFails, Flushed, Alive, HasName
<1>3. DataType'
  BY CaptureAssumption, <1>1
     DEF Capture, CaptureRuns, SudoStarts, ShellStarts, TcpdumpStarts, CaptureOpens,
         CaptureFails, Flushed, Alive, StopInv, DataType
<1>4. QED BY <1>1, <1>2, <1>3, CaptureStep

LEMMA StutterInv == StopInv /\ UNCHANGED vars => StopInv'
  BY DEF StopInv, Control, ControlType, WellNested, DataType, StoppedInv, Main,
         vars, scriptVars, captureVars

LEMMA StopStep == StopInv /\ [Next]_vars => StopInv'
  BY RefuseInv, SetTrapInv, StartCaptureInv, WaitInv, ProgramInv, CallInv,
     PkillByPidInv, PkillByNameInv, EndingInv, SignalInv, CaptureProcessInv,
     StutterInv
     DEF Next, Script, ProgramDies, Stops

-----------------------------------------------------------------------------
(* While the capture must run *)

\* After a signal that came too early there is little left to promise.
LEMMA EarlyRunning ==
  ASSUME early', Main' \in {"begin", "start"} => ~file'
  PROVE  RunningInv'
  BY DEF RunningInv

\* Without a trap that is due the script just goes on.
LEMMA GoOnPlain ==
  ASSUME NEW next \in Commands, Control, pc \notin StopCapture, GoOn(next),
         pending = {}
  PROVE  pc' = next /\ stack = <<>> /\ stack' = <<>> /\ pending' = {}
  BY DEF GoOn, Control, WellNested

LEMMA InitRunning == Init => RunningInv
  BY DEF Init, RunningInv, Main

\* Commands after which the capture need not run any more.
LEMMA AfterRunning ==
  StopInv /\ (Refuse \/ ProgramEnds \/ CallStopCapture
               \/ Flush \/ Chown \/ RemovePidFile \/ Report) => RunningInv'
<1> SUFFICES ASSUME StopInv, Refuse \/ ProgramEnds \/ CallStopCapture
                             \/ Flush \/ Chown \/ RemovePidFile \/ Report
             PROVE  Main' \notin BeforeProgram \cup {"program"}
  BY DEF RunningInv, BeforeProgram
<1>1. CASE Refuse
  <2>1. stack' = <<>> /\ pc' = "refused"
    BY <1>1 DEF Refuse, StopInv, Control, WellNested, StopCapture
  <2>2. QED BY <2>1 DEF Main, BeforeProgram
<1>2. CASE CallStopCapture
  <2>1. stack = <<>>
    BY <1>2 DEF CallStopCapture, StopInv, Control, WellNested, StopCapture
  <2>2. stack' = <<"flush">>
    BY <1>2, <2>1 DEF CallStopCapture
  <2>3. Main' = "flush"
    BY <2>2 DEF Main
  <2>4. QED BY <2>3 DEF BeforeProgram
<1>3. CASE ProgramEnds \/ Flush \/ Chown \/ RemovePidFile \/ Report
  <2>1. PICK next \in {"ended", "chown", "rm", "report", "done"} : GoOn(next)
    BY <1>3 DEF ProgramEnds, Flush, Chown, RemovePidFile, Report
  <2>2. pc \notin StopCapture
    BY <1>3 DEF ProgramEnds, Flush, Chown, RemovePidFile, Report, StopCapture
  <2>3. Main' = next
    BY <2>1, <2>2, GoOnControl, Strings DEF StopInv
  <2>4. QED BY <2>3 DEF BeforeProgram
<1>4. QED BY <1>1, <1>2, <1>3

\* Commands before the program: the capture is found when its file is there.
LEMMA BeforeRunning ==
  CaptureInv /\ (SetTrap \/ StartCapture \/ WaitForFile \/ Settle \/ Announce)
    => RunningInv'
<1> SUFFICES ASSUME CaptureInv, SetTrap \/ StartCapture \/ WaitForFile \/ Settle
                                \/ Announce
             PROVE  RunningInv'
  OBVIOUS
<1>1. /\ pc \in BeforeProgram /\ pc \notin StopCapture
      /\ early' = early /\ file' = file
  BY DEF SetTrap, StartCapture, WaitForFile, Settle, Announce, StopCapture,
         BeforeProgram, captureVars
<1>2. PICK next \in {"start", "wait", "settle", "announce", "program"} :
        /\ GoOn(next)
        /\ next = "start" => pc = "begin"
        /\ next = "wait" => pc = "start" \/ cap' = cap
        /\ next = "settle" => cap' = cap /\ (failed' = (failed \/ ~file))
        /\ next # "settle" => failed' = failed
        /\ next = "announce" => cap' = cap /\ pc = "settle"
        /\ next = "program" => cap' = cap /\ pc = "announce"
  <2>1. CASE SetTrap
    BY <2>1 DEF SetTrap, captureVars
  <2>2. CASE StartCapture
    BY <2>2 DEF StartCapture
  <2>3. CASE WaitForFile
    <3>1. CASE GoOn("settle") /\ failed' = (failed \/ ~file)
      BY <2>3, <3>1 DEF WaitForFile
    <3>2. CASE GoOn("wait") /\ failed' = failed
      BY <2>3, <3>2 DEF WaitForFile
    <3>3. QED BY <2>3, <3>1, <3>2 DEF WaitForFile
  <2>4. CASE Settle
    BY <2>4 DEF Settle, captureVars
  <2>5. CASE Announce
    BY <2>5 DEF Announce, captureVars
  <2>6. QED BY <2>1, <2>2, <2>3, <2>4, <2>5
<1>3. Main = pc /\ Main' = next /\ next \in Commands
  BY <1>1, <1>2, MainOutside, GoOnControl, Strings DEF CaptureInv, StopInv
<1>4. next = "start" => ~file'
  BY <1>1, <1>2, <1>3 DEF CaptureInv, RunningInv
<1>5. CASE early
  BY <1>1, <1>3, <1>4, <1>5, EarlyRunning
<1>6. CASE ~early
  <2>1. pending = {}
    BY <1>1, <1>3, <1>6 DEF CaptureInv, RunningInv
  <2>2. pc' = next /\ stack' = <<>> /\ pending' = {}
    BY <1>1, <1>2, <1>3, <2>1, GoOnPlain DEF CaptureInv, StopInv
  <2>3. ~failed /\ (file \/ pc \in {"settle", "announce"}) => cap = "capturing"
    BY <1>1, <1>3, <1>6 DEF CaptureInv, RunningInv
  <2>4. pc \in {"begin", "start"} => ~file
    BY <1>3 DEF CaptureInv, RunningInv
  <2>5. (~failed' => ~failed) /\ (next = "settle" /\ ~failed' => file)
    <3>1. CASE next = "settle"
      <4>1. failed' = (failed \/ ~file)
        BY <1>2, <3>1
      <4>2. QED BY <4>1, Zenon
    <3>2. CASE next # "settle"
      <4>1. failed' = failed
        BY <1>2, <3>2
      <4>2. QED BY <3>2, <4>1, Zenon
    <3>3. QED BY <3>1, <3>2
  <2>6. ~failed' /\ (file' \/ next \in {"settle", "announce", "program"})
          => cap' = "capturing"
    BY <1>1, <1>2, <1>4, <2>3, <2>4, <2>5
  <2>7. QED BY <1>3, <1>4, <2>2, <2>6 DEF RunningInv
<1>7. QED BY <1>5, <1>6

\* A call of stop_capture is never made before the program's end, unless a
\* signal came too early.
LEMMA PkillRunning == CaptureInv /\ (PkillByPid \/ PkillByName) => RunningInv'
<1> SUFFICES ASSUME CaptureInv, PkillByPid \/ PkillByName PROVE RunningInv'
  OBVIOUS
<1>1. pc \in StopCapture /\ early' = early /\ file' = file
  BY DEF PkillByPid, PkillByName, StopCapture
<1>2. Main' = Main
  <2>1. CASE Return
    BY <1>1, <2>1, ReturnControl DEF CaptureInv, StopInv
  <2>2. CASE pc = "pkillPid" /\ GoOn("pkillName")
    BY <2>2, FallBackControl DEF CaptureInv, StopInv
  <2>3. QED BY <2>1, <2>2 DEF PkillByPid, PkillByName
<1>3. stack # <<>>
  BY <1>1 DEF CaptureInv, StopInv, Control, WellNested
<1>4. QED BY <1>1, <1>2, <1>3 DEF CaptureInv, RunningInv

\* A signal comes too early, or while the program runs, or too late to matter.
LEMMA SignalRunning == CaptureInv /\ (CtrlC \/ Terminate) => RunningInv'
<1> SUFFICES ASSUME CaptureInv, CtrlC \/ Terminate PROVE RunningInv'
  OBVIOUS
<1>1. PICK s \in {"INT", "TERM"} : Receive(s)
  BY DEF CtrlC, Terminate
<1>2. stack' = stack /\ file' = file /\ failed' = failed
  BY <1>1 DEF Receive
<1>3. CASE pc \in BeforeProgram
  <2>1. early'
    BY <1>1, <1>3 DEF Receive
  <2>2. Main = pc /\ Main' \in {pc, "killed"}
    BY <1>1, <1>2, <1>3 DEF Receive, Main, CaptureInv, StopInv, Control, WellNested,
         StopCapture, BeforeProgram
  <2>3. Main' \in {"begin", "start"} => ~file'
    BY <1>2, <2>2 DEF CaptureInv, RunningInv
  <2>4. QED BY <2>1, <2>3, EarlyRunning
<1>4. CASE pc \notin BeforeProgram
  <2>1. pc' = pc /\ (early' => early) /\ Main' = Main
    BY <1>1, <1>2, <1>4 DEF Receive, Main, BeforeProgram
  <2>2. ~early' => ~early
    BY <1>1 DEF Receive
  <2>3. ~early => Main \notin BeforeProgram
    BY <1>4 DEF CaptureInv, RunningInv, Main
  <2>4. CASE CtrlC
    <3>1. interrupted' = TRUE
      BY <1>4, <2>4 DEF CtrlC, BeforeProgram
    <3>2. QED BY <1>2, <2>1, <2>2, <2>3, <3>1 DEF CaptureInv, RunningInv
  <2>5. CASE Terminate
    <3>1. interrupted' = interrupted /\ cap' = cap
      BY <2>5 DEF Terminate
    <3>2. QED BY <1>2, <2>1, <2>2, <2>3, <3>1 DEF CaptureInv, RunningInv
  <2>6. QED BY <2>4, <2>5
<1>5. QED BY <1>3, <1>4

\* A capture that has its file captures until it fails.
LEMMA CaptureRunning == CaptureInv /\ Capture => RunningInv'
<1> SUFFICES ASSUME CaptureInv, Capture PROVE RunningInv'
  OBVIOUS
<1>1. UNCHANGED <<pc, stack, pending, interrupted>> /\ early' = early
  BY DEF Capture, CaptureRuns, SudoStarts, ShellStarts, TcpdumpStarts, CaptureOpens,
         CaptureFails, Flushed, scriptVars
<1>2. Main' = Main
  BY <1>1 DEF Main
<1>3. /\ cap # "none"
      /\ cap = "capturing" => failed' = TRUE
      /\ failed' = failed \/ failed' = TRUE
      /\ file' = file \/ cap' = "capturing"
  <2>1. CASE CaptureFails
    BY <2>1 DEF CaptureFails, HasName, Alive
  <2>2. CASE CaptureRuns
    BY <2>2 DEF CaptureRuns, SudoStarts, ShellStarts, TcpdumpStarts, CaptureOpens,
         Flushed
  <2>3. QED BY <2>1, <2>2 DEF Capture
<1>4. Main \notin {"begin", "start"}
  BY <1>3 DEF CaptureInv, StopInv, StoppedInv
<1>5. QED BY <1>1, <1>2, <1>3, <1>4 DEF CaptureInv, RunningInv

LEMMA StutterRunning == CaptureInv /\ UNCHANGED vars => RunningInv'
  BY DEF CaptureInv, RunningInv, Main, vars, scriptVars, captureVars

LEMMA RunningStep == CaptureInv /\ [Next]_vars => RunningInv'
  BY AfterRunning, BeforeRunning, PkillRunning, SignalRunning, CaptureRunning,
     StutterRunning
     DEF Next, Script, ProgramDies, Stops, CaptureInv

-----------------------------------------------------------------------------
\* The inductive invariant holds: the script is always at one main command,
\* inside which the calls of stop_capture are nested.
THEOREM CaptureInvariance == Spec => []CaptureInv
<1>1. Init => CaptureInv
  BY StopInit, InitRunning DEF CaptureInv
<1>2. CaptureInv /\ [Next]_vars => CaptureInv'
  BY StopStep, RunningStep DEF CaptureInv
<1>3. QED BY <1>1, <1>2, PTL DEF Spec

\* Every variable keeps its type.
THEOREM CaptureTypeCorrect == Spec => []TypeOK
<1>1. CaptureInv => TypeOK
  BY DEF CaptureInv, StopInv, Control, TypeOK
<1>2. QED BY <1>1, CaptureInvariance, PTL

\* However many signals come, wherever they come, and however the capture
\* fails: the script leaves no capture running and no process number behind
\* (run_with_capture.sh:38-41,63-67).
THEOREM LeavesNothing == Spec => []NothingLeft
<1>1. CaptureInv => NothingLeft
  <2> SUFFICES ASSUME CaptureInv, pc \in {"report"} \cup Ended
               PROVE  cap \notin Alive /\ ~pidFile
    BY DEF NothingLeft
  <2>1. pc \notin StopCapture
    BY DEF StopCapture, Ended
  <2>2. Main = pc
    BY <2>1, MainOutside DEF CaptureInv, StopInv
  <2>3. QED BY <2>2 DEF CaptureInv, StopInv, StoppedInv, Ended, Alive
<1>2. QED BY <1>1, CaptureInvariance, PTL

\* All of the program's run is captured, unless a signal came too early or the
\* capture failed or was late: the signals that come while it runs are held
\* back until it has ended (run_with_capture.sh:41,52,58).
THEOREM CapturesTheRun == Spec => []WholeRunCaptured
<1>1. CaptureInv => WholeRunCaptured
  BY MainOutside DEF CaptureInv, StopInv, RunningInv, WholeRunCaptured, StopCapture
<1>2. QED BY <1>1, CaptureInvariance, PTL
=============================================================================
