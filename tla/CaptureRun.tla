----------------------------- MODULE CaptureRun -----------------------------
(***************************************************************************)
(* run_with_capture.sh: runs a program between the start and the stop of a *)
(* tcpdump that belongs to root.                                           *)
(*                                                                         *)
(* Three processes: the script, its background capture (bash, then sudo,   *)
(* then sh, then tcpdump) and the program in the foreground.  The trap of  *)
(* line 41 runs between two commands, never during one, and the script     *)
(* then goes on where it was.  Ctrl+C reaches the foreground command, too, *)
(* which dies of it, and may reach tcpdump: that depends on the version of *)
(* sudo.  TERM reaches the script only.  sudo asks no password.            *)
(***************************************************************************)
EXTENDS Integers, Sequences

CONSTANTS
  Polls,       \* looks at the file before the program is started, 10
  CanFail,     \* whether the capture may fail, at any moment
  MaxSignals   \* bound: Ctrl+C and TERM together

ASSUME CaptureAssumption ==
  Polls \in Nat /\ MaxSignals \in Nat /\ CanFail \in BOOLEAN

VARIABLES
  pc,           \* the script's current command
  stack,        \* where the stop_capture calls in progress return to
  pending,      \* signals whose trap has not run yet
  interrupted,  \* Ctrl+C has reached the current command
  polls,        \* turns of the loop of line 52
  cap,          \* the capture process
  pidFile,      \* $PCAP.pid exists
  file,         \* $PCAP exists
  signals,      \* signals so far
  early,        \* history: one came before the program ran
  failed        \* history: the capture failed, or was not there in 3 s

scriptVars  == <<pc, stack, pending, interrupted, polls>>
captureVars == <<cap, pidFile, file, failed>>
vars        == <<scriptVars, captureVars, signals, early>>

BeforeProgram == {"begin", "start", "wait", "settle", "announce"}
StopCapture   == {"pkillPid", "pkillName"}
AfterProgram  == {"ended", "flush", "chown", "rm", "report", "done"}
Ended         == {"done", "refused", "killed"}

\* The capture has not ended.
Alive == {"forked", "sudo", "sh", "tcpdump", "capturing"}

\* Its command line has tcpdump and $PCAP in it, the script's fork's has not.
HasName == Alive \ {"forked"}

\* It is the process whose number is in $PCAP.pid.
HasPid == pidFile /\ cap \in {"tcpdump", "capturing"}

\* A capture that gets TERM or INT: tcpdump still has to write its buffer.
Signalled == IF cap = "capturing" THEN "stopping" ELSE "dead"

Init ==
  /\ pc = "begin" /\ stack = <<>> /\ pending = {} /\ interrupted = FALSE
  /\ polls = 0 /\ cap = "none" /\ pidFile = FALSE /\ file = FALSE
  /\ signals = 0 /\ early = FALSE /\ failed = FALSE

-----------------------------------------------------------------------------
(* The script *)

\* The current command is over.  A trap that is due runs first.
GoOn(next) ==
  /\ interrupted' = FALSE
  /\ \/ /\ pending = {}
        /\ pc' = next
        /\ UNCHANGED <<stack, pending>>
     \/ \E s \in pending :
          /\ pending' = pending \ {s}
          /\ stack' = Append(stack, next)
          /\ pc' = "pkillPid"

\* No argument, or no such program.
Refuse ==
  /\ pc = "begin"
  /\ pc' = "refused"
  /\ UNCHANGED <<stack, pending, interrupted, polls, captureVars, signals,
                 early>>

SetTrap ==
  /\ pc = "begin"
  /\ GoOn("start")
  /\ UNCHANGED <<polls, captureVars, signals, early>>

StartCapture ==
  /\ pc = "start"
  /\ cap' = "forked"
  /\ GoOn("wait")
  /\ UNCHANGED <<polls, pidFile, file, failed, signals, early>>

\* Mutant: the loop runs once too often.
WaitOneMore ==
  /\ pc = "wait"
  /\ \/ /\ file \/ polls > Polls
        /\ polls' = polls
        /\ GoOn("settle")
     \/ /\ ~file /\ polls <= Polls
        /\ polls' = polls + 1
        /\ GoOn("wait")
  /\ UNCHANGED <<captureVars, signals, early>>

\* Mutant: the loop has no limit.
WaitUntilFile ==
  /\ pc = "wait"
  /\ IF file THEN GoOn("settle") ELSE GoOn("wait")
  /\ UNCHANGED <<polls, captureVars, signals, early>>

\* Mutant: the loop ends when the process number is there.
WaitForPidFile ==
  /\ pc = "wait"
  /\ \/ /\ pidFile \/ polls = Polls
        /\ failed' = (failed \/ ~pidFile)
        /\ GoOn("settle")
        /\ UNCHANGED polls
     \/ /\ ~pidFile /\ polls < Polls
        /\ polls' = polls + 1
        /\ GoOn("wait")
        /\ UNCHANGED failed
  /\ UNCHANGED <<cap, pidFile, file, signals, early>>

WaitForFile ==
  /\ pc = "wait"
  /\ \/ /\ file \/ polls = Polls
        /\ failed' = (failed \/ ~file)
        /\ GoOn("settle")
        /\ UNCHANGED polls
     \/ /\ ~file /\ polls < Polls
        /\ polls' = polls + 1
        /\ GoOn("wait")
        /\ UNCHANGED failed
  /\ UNCHANGED <<cap, pidFile, file, signals, early>>

Settle ==
  /\ pc = "settle"
  /\ GoOn("announce")
  /\ UNCHANGED <<polls, captureVars, signals, early>>

\* "tcpdump runs", said in any case; then the program.
Announce ==
  /\ pc = "announce"
  /\ GoOn("program")
  /\ UNCHANGED <<polls, captureVars, signals, early>>

\* The program ends when it likes.  By then the fork of line 50 has long
\* become sudo.
ProgramEnds ==
  /\ pc = "program"
  /\ cap # "forked"
  /\ GoOn("ended")
  /\ UNCHANGED <<polls, captureVars, signals, early>>

\* Ctrl+C ends it: none of the programs handles the signal.
ProgramDies == interrupted /\ ProgramEnds

CallStopCapture ==
  /\ pc = "ended"
  /\ pc' = "pkillPid"
  /\ stack' = Append(stack, "flush")
  /\ interrupted' = FALSE
  /\ UNCHANGED <<pending, polls, captureVars, signals, early>>

\* The command that stop_capture was called before.
Caller == stack[Len(stack)]

\* stop_capture returns, unless another trap is due.
Return ==
  /\ interrupted' = FALSE
  /\ \/ /\ pending = {}
        /\ pc' = Caller
        /\ stack' = SubSeq(stack, 1, Len(stack) - 1)
        /\ UNCHANGED pending
     \/ \E s \in pending :
          /\ pending' = pending \ {s}
          /\ pc' = "pkillPid"
          /\ UNCHANGED stack

\* pkill -F finds the process, or fails, or is interrupted.
PkillByPid ==
  /\ pc = "pkillPid"
  /\ \/ /\ HasPid
        /\ cap' = Signalled
        /\ Return
     \/ /\ ~HasPid \/ interrupted
        /\ cap' = cap
        /\ GoOn("pkillName")
  /\ UNCHANGED <<polls, pidFile, file, failed, signals, early>>

\* Mutant: there is no second way to find the process.
PkillNothing ==
  /\ pc = "pkillName"
  /\ cap' = cap
  /\ Return
  /\ UNCHANGED <<polls, pidFile, file, failed, signals, early>>

\* pkill -f finds whatever has the command line, or is interrupted.
PkillByName ==
  /\ pc = "pkillName"
  /\ \/ cap' = IF cap \in HasName THEN Signalled ELSE cap
     \/ interrupted /\ cap' = cap
  /\ Return
  /\ UNCHANGED <<polls, pidFile, file, failed, signals, early>>

\* sleep 1
Flush ==
  /\ pc = "flush"
  /\ GoOn("chown")
  /\ UNCHANGED <<polls, captureVars, signals, early>>

Chown ==
  /\ pc = "chown"
  /\ GoOn("rm")
  /\ UNCHANGED <<polls, captureVars, signals, early>>

RemovePidFile ==
  /\ pc = "rm"
  /\ pidFile' = FALSE
  /\ GoOn("report")
  /\ UNCHANGED <<polls, cap, file, failed, signals, early>>

Report ==
  /\ pc = "report"
  /\ GoOn("done")
  /\ UNCHANGED <<polls, captureVars, signals, early>>

\* What the script does without waiting for its program.
Script ==
  \/ Refuse \/ SetTrap \/ StartCapture \/ WaitForFile \/ Settle \/ Announce
  \/ ProgramDies \/ CallStopCapture \/ PkillByPid \/ PkillByName
  \/ Flush \/ Chown \/ RemovePidFile \/ Report

-----------------------------------------------------------------------------
(* Signals *)

\* Before line 41 a signal ends the script.
Receive(s) ==
  /\ pc \notin Ended
  /\ signals < MaxSignals
  /\ signals' = signals + 1
  /\ early' = (early \/ pc \in BeforeProgram)
  /\ IF pc = "begin" THEN pc' = "killed" /\ UNCHANGED pending
                     ELSE pending' = pending \cup {s} /\ UNCHANGED pc
  /\ UNCHANGED <<stack, polls, pidFile, file, failed>>

CtrlC ==
  /\ Receive("INT")
  /\ interrupted' = (pc # "begin")
  /\ cap' \in {cap} \cup IF cap \in HasName THEN {Signalled} ELSE {}

Terminate ==
  /\ Receive("TERM")
  /\ UNCHANGED <<interrupted, cap>>

-----------------------------------------------------------------------------
(* The capture, line 50 *)

SudoStarts ==
  /\ cap = "forked"
  /\ cap' = "sudo"
  /\ UNCHANGED <<scriptVars, pidFile, file, failed, signals, early>>

ShellStarts ==
  /\ cap = "sudo"
  /\ cap' = "sh"
  /\ UNCHANGED <<scriptVars, pidFile, file, failed, signals, early>>

\* echo $$ > pid; exec tcpdump, whether the file could be written or not.
TcpdumpStarts ==
  /\ cap = "sh"
  /\ cap' = "tcpdump"
  /\ pidFile' \in {TRUE, ~CanFail}
  /\ UNCHANGED <<scriptVars, file, failed, signals, early>>

\* tcpdump opens its socket first, then its file.
CaptureOpens ==
  /\ cap = "tcpdump"
  /\ cap' = "capturing" /\ file' = TRUE
  /\ UNCHANGED <<scriptVars, pidFile, failed, signals, early>>

\* No sudo, no such interface, a filter it does not understand, a full disk.
CaptureFails ==
  /\ CanFail
  /\ cap \in HasName
  /\ cap' = "dead" /\ failed' = TRUE
  /\ UNCHANGED <<scriptVars, pidFile, file, signals, early>>

Flushed ==
  /\ cap = "stopping"
  /\ cap' = "dead"
  /\ UNCHANGED <<scriptVars, pidFile, file, failed, signals, early>>

CaptureRuns ==
  SudoStarts \/ ShellStarts \/ TcpdumpStarts \/ CaptureOpens \/ Flushed

Capture == CaptureRuns \/ CaptureFails

-----------------------------------------------------------------------------
Stops == pc \in Ended /\ UNCHANGED vars

Next == Script \/ ProgramEnds \/ CtrlC \/ Terminate \/ Capture \/ Stops

Spec == Init /\ [][Next]_vars

\* The script's own commands end; the program may run for ever, and tcpdump
\* may hang wherever it is, but what is forked is scheduled.
ScriptFairSpec == Spec /\ WF_vars(Script) /\ WF_vars(SudoStarts)

-----------------------------------------------------------------------------
(* Properties *)

Commands == BeforeProgram \cup {"program"} \cup AfterProgram
Frames   == Commands \cup {"pkillName"}

ControlType ==
  /\ pc \in Commands \cup StopCapture \cup Ended
  /\ stack \in Seq(Frames)
  /\ pending \in SUBSET {"INT", "TERM"}
  /\ interrupted \in BOOLEAN

DataType ==
  /\ polls \in 0..Polls
  /\ cap \in {"none", "stopping", "dead"} \cup Alive
  /\ pidFile \in BOOLEAN /\ file \in BOOLEAN
  /\ signals \in 0..MaxSignals
  /\ early \in BOOLEAN /\ failed \in BOOLEAN

\* Every variable has its type.
TypeOK == ControlType /\ DataType

\* Wherever the signals come, and however far the capture had got, no tcpdump
\* of root's and no process number is left when the result is shown, nor by a
\* script that stops before (stop_capture's two ways, run_with_capture.sh:39,
\* and the trap of line 41 that must not end the script).
NothingLeft ==
  pc \in {"report"} \cup Ended => cap \notin Alive /\ ~pidFile

\* Unless a signal came too early, or the capture failed or was not there in
\* 3 s, tcpdump captures for as long as the program runs: it has its socket
\* when its file is there, and TERM is held back until the program has ended
\* (run_with_capture.sh:41,52,58).
WholeRunCaptured ==
  pc = "program" /\ ~early /\ ~failed /\ ~interrupted => cap = "capturing"

\* The script ends, or its program runs and has not been given a Ctrl+C: a
\* tcpdump that hangs or never makes its file does not block it
\* (run_with_capture.sh:52).
OnlyTheProgramIsWaitedFor ==
  <>(pc \in Ended) \/ <>[](pc = "program" /\ ~interrupted)

\* "tcpdump runs", the script says before the program (run_with_capture.sh:54):
\* it does.
AnnouncedIsCapturing ==
  [][pc = "announce" /\ pc' = "program" => cap = "capturing"]_vars

-----------------------------------------------------------------------------
(* The inductive invariant of the proofs *)

\* The call of stop_capture that is under way was made at the first entry of
\* the stack; the others are traps that ran between its two pkills.
WellNested ==
  /\ pc \in StopCapture <=> stack # <<>>
  /\ stack # <<>> => stack[1] # "pkillName"
  /\ \A i \in 2..Len(stack) : stack[i] = "pkillName"

Main == IF stack = <<>> THEN pc ELSE stack[1]

\* Where the capture must be over.
StoppedInv ==
  /\ cap = "forked" => Main \in BeforeProgram \cup {"program"}
  /\ pc = "flush" \/ Main \in {"chown", "rm", "report", "done"} =>
       cap \notin Alive
  /\ Main \in {"report", "done"} => ~pidFile
  /\ Main \in {"begin", "refused", "killed"} => cap = "none" /\ ~pidFile
  /\ Main = "start" => cap = "none"
  /\ interrupted => pending # {}

\* Where it must not be.
RunningInv ==
  /\ Main \in {"begin", "start"} => ~file
  /\ ~early /\ Main \in BeforeProgram =>
       /\ stack = <<>> /\ pending = {}
       /\ ~failed /\ (file \/ pc \in {"settle", "announce"}) => cap = "capturing"
  /\ ~early /\ Main = "program" =>
       /\ stack = <<>>
       /\ ~failed /\ ~interrupted => cap = "capturing"

Control == ControlType /\ WellNested

StopInv == Control /\ DataType /\ StoppedInv

CaptureInv == StopInv /\ RunningInv
=============================================================================
