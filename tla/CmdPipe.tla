------------------------------ MODULE CmdPipe ------------------------------
(***************************************************************************)
(* cmd_pipe_output() of utils.cpp, called again and again: a pipe of       *)
(* limited size, a child that runs the command and writes to it, and the   *)
(* caller, who reads pieces of at most BufLen - 1 characters with fgets,   *)
(* joins them into lines and then waits for the child.                     *)
(***************************************************************************)
EXTENDS Naturals, Sequences, SequencesExt

CONSTANTS
  Chars, NL,  \* characters, and the one that ends a line (no NUL)
  PipeSize,   \* capacity of the pipe
  BufLen,     \* buf_len, the size of the buffer of fgets
  MaxOutput,  \* bound on what a command writes
  MaxFds,     \* limit on the file descriptors of prmon's pipes
  MaxCalls    \* bound on the number of calls

ASSUME PipeAssumption ==
  /\ NL \in Chars /\ Chars # {NL} /\ PipeSize \in Nat \ {0} /\ BufLen \in Nat \ {0, 1}
  /\ MaxOutput \in Nat /\ MaxFds \in Nat /\ MaxCalls \in Nat

VARIABLES
  pc,           \* the caller: "idle", "fork", "read", "wait"
  calls,        \* number of calls begun
  fds,          \* open ends of pipes in prmon
  forkFailures, \* history: number of failed forks
  child,        \* "none", "forked", "running", "failed", "dead"
  status,       \* its status once dead
  todo,         \* what it still has to write
  written,      \* history: all it has written in this call
  pipe,         \* characters in the pipe
  writers,      \* who holds the write end
  buffer,       \* what fgets has read so far
  output,       \* the pieces of an unfinished line
  split_output, \* the lines
  ret           \* what the last call returned

childVars  == <<child, status, todo, written>>
pipeVars   == <<pipe, writers>>
readVars   == <<buffer, output, split_output>>
callVars   == <<calls, fds, forkFailures>>
vars == <<pc, callVars, childVars, pipeVars, readVars, ret>>

SIGKILL == 9
ErrorLine == <<CHOOSE c \in Chars : c # NL, NL>>
Result(code, lines) == [code |-> code, lines |-> lines]

Init ==
  /\ pc = "idle" /\ calls = 0 /\ fds = 0 /\ forkFailures = 0
  /\ child = "none" /\ status = 0 /\ todo = <<>> /\ written = <<>>
  /\ pipe = <<>> /\ writers = {}
  /\ buffer = <<>> /\ output = <<>> /\ split_output = <<>>
  /\ ret = Result(0, <<>>)

---------------------------------------------------------------------------
(* The caller.                                                             *)

OpenPipe ==
  /\ pc = "idle" /\ calls < MaxCalls /\ fds + 2 <= MaxFds
  /\ pc' = "fork" /\ calls' = calls + 1 /\ fds' = fds + 2
  /\ writers' = {"caller"}
  /\ UNCHANGED <<forkFailures, childVars, pipe, readVars, ret>>

PipeFails ==
  /\ pc = "idle" /\ calls < MaxCalls
  /\ calls' = calls + 1 /\ ret' = Result(2, <<>>)
  /\ UNCHANGED <<pc, fds, forkFailures, childVars, pipeVars, readVars>>

\* Mutated form: the caller keeps its own write end open.
ForkKeepsWriteEnd ==
  /\ pc = "fork" /\ pc' = "read"
  /\ child' = "forked" /\ writers' = {"caller", "child"}
  /\ UNCHANGED <<callVars, status, todo, written, pipe, readVars, ret>>

\* The child inherits both ends; the caller closes its write end.
Fork ==
  /\ pc = "fork" /\ pc' = "read" /\ fds' = fds - 1
  /\ child' = "forked" /\ writers' = {"child"}
  /\ UNCHANGED <<calls, forkFailures, status, todo, written, pipe, readVars, ret>>

\* The early return leaves both ends open.
ForkFails ==
  /\ pc = "fork" /\ pc' = "idle"
  /\ forkFailures' = forkFailures + 1 /\ writers' = {}
  /\ ret' = Result(3, <<>>)
  /\ UNCHANGED <<calls, fds, childVars, pipe, readVars>>

EndOfFile == pipe = <<>> /\ writers = {}

\* fgets returns at a newline, with a full buffer or at the end of the file.
fgetsReturns ==
  /\ buffer # <<>>
  /\ Last(buffer) = NL \/ Len(buffer) = BufLen - 1 \/ EndOfFile

FillBuffer ==
  /\ pc = "read" /\ ~fgetsReturns /\ pipe # <<>>
  /\ buffer' = Append(buffer, Head(pipe)) /\ pipe' = Tail(pipe)
  /\ UNCHANGED <<pc, callVars, childVars, writers, output, split_output, ret>>

\* Mutated form: every piece is taken for a line.
TakePieceAsLine ==
  /\ pc = "read" /\ fgetsReturns /\ buffer' = <<>>
  /\ split_output' = Append(split_output,
       IF Last(buffer) = NL THEN Front(buffer) ELSE buffer)
  /\ UNCHANGED <<pc, callVars, childVars, pipeVars, output, ret>>

\* A piece ends the line it belongs to if it ends in a newline.
TakePiece ==
  /\ pc = "read" /\ fgetsReturns /\ buffer' = <<>>
  /\ IF Last(buffer) = NL
     THEN /\ split_output' = Append(split_output, output \o Front(buffer))
          /\ output' = <<>>
     ELSE output' = output \o buffer /\ UNCHANGED split_output
  /\ UNCHANGED <<pc, callVars, childVars, pipeVars, ret>>

\* Mutated form: the stream is not closed.
EndReadKeepsOpen ==
  /\ pc = "read" /\ EndOfFile /\ buffer = <<>> /\ pc' = "wait"
  /\ split_output' = IF output = <<>> THEN split_output ELSE Append(split_output, output)
  /\ output' = <<>>
  /\ UNCHANGED <<callVars, childVars, pipeVars, buffer, ret>>

\* The last line may lack its newline.  fclose closes the read end.
EndRead ==
  /\ pc = "read" /\ EndOfFile /\ buffer = <<>> /\ pc' = "wait"
  /\ split_output' = IF output = <<>> THEN split_output ELSE Append(split_output, output)
  /\ output' = <<>> /\ fds' = fds - 1
  /\ UNCHANGED <<calls, forkFailures, childVars, pipeVars, buffer, ret>>

\* waitpid blocks until the child is dead.  What one call had is gone.
Wait ==
  /\ pc = "wait" /\ child = "dead" /\ pc' = "idle"
  /\ ret' = Result(IF status # 0 THEN 1 ELSE 0, split_output)
  /\ child' = "none" /\ status' = 0 /\ todo' = <<>> /\ written' = <<>>
  /\ split_output' = <<>>
  /\ UNCHANGED <<callVars, pipeVars, buffer, output>>

Caller ==
  \/ OpenPipe \/ PipeFails \/ Fork \/ ForkFails
  \/ FillBuffer \/ TakePiece \/ EndRead \/ Wait

---------------------------------------------------------------------------
(* The child.                                                              *)

\* execvp replaces the child by the command, which will write something ...
Exec ==
  /\ child = "forked" /\ child' = "running"
  /\ todo' \in SeqOf(Chars, MaxOutput)
  /\ UNCHANGED <<pc, callVars, status, written, pipeVars, readVars, ret>>

\* ... or returns, and the child says so and exits with EXIT_FAILURE.
ExecFails ==
  /\ child = "forked" /\ child' = "failed" /\ todo' = ErrorLine
  /\ UNCHANGED <<pc, callVars, status, written, pipeVars, readVars, ret>>

\* A write to a full pipe blocks.
Write ==
  /\ child \in {"running", "failed"} /\ todo # <<>> /\ Len(pipe) < PipeSize
  /\ pipe' = Append(pipe, Head(todo)) /\ written' = Append(written, Head(todo))
  /\ todo' = Tail(todo)
  /\ UNCHANGED <<pc, callVars, child, status, writers, readVars, ret>>

\* A command may close its output and go on.
CloseOutput ==
  /\ child = "running" /\ "child" \in writers /\ todo = <<>>
  /\ writers' = writers \ {"child"}
  /\ UNCHANGED <<pc, callVars, childVars, pipe, readVars, ret>>

\* The child is dead; the kernel closes its end of the pipe.
Dies(code) ==
  /\ child' = "dead" /\ status' = code /\ todo' = <<>>
  /\ writers' = writers \ {"child"}
  /\ UNCHANGED <<pc, callVars, written, pipe, readVars, ret>>

\* It exits once it has written everything ...
Exits ==
  /\ child \in {"running", "failed"} /\ todo = <<>>
  /\ \E code \in {0, 1} : (child = "failed" => code = 1) /\ Dies(code)

\* ... or is killed at any moment.
Killed == child \in {"forked", "running", "failed"} /\ Dies(SIGKILL)

\* What a child that is left alone does.
ChildStep == Exec \/ ExecFails \/ Write \/ Exits

Next == Caller \/ ChildStep \/ CloseOutput \/ Killed

\* The caller goes on when it can.  So does the command, and it ends: this is
\* assumed of nvidia-smi and lscpu, prmon has no time limit for them.
Spec == Init /\ [][Next]_vars /\ WF_vars(Caller) /\ WF_vars(ChildStep)

---------------------------------------------------------------------------
(* Properties.                                                             *)

Promise == INSTANCE Command WITH
  phase  <- IF child = "none" THEN "idle"
            ELSE IF child = "dead" THEN "ended" ELSE "running",
  ok     <- status = 0,
  result <- ret

\* The caller gets exactly the lines the command wrote, in whatever pieces
\* they were written and read, also if it failed or closed its output early;
\* and the code tells what happened (utils.h:35-49, utils.cpp:22-95).
ImplementsCommand == Promise!Spec

\* After any sequence of calls, prmon holds no end of a pipe but those that
\* failed forks left behind (utils.cpp:23-86).
FdsBalanced == pc = "idle" => fds = 2 * forkFailures

\* Every call returns if the command ends: the pipe is emptied while the
\* command runs, so that neither waits for the other, and the end of the file
\* is noticed (utils.cpp:39, 67, 88).
CallReturns == pc # "idle" ~> pc = "idle"
============================================================================
