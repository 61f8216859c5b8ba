------------------------------ MODULE Command ------------------------------
(***************************************************************************)
(* What utils.h promises of cmd_pipe_output: a command runs, writes and    *)
(* ends; the caller gets all it wrote, one string per line, and whether it *)
(* ended well, or a code that says the command was not started.            *)
(***************************************************************************)
EXTENDS Naturals, Sequences, SequencesExt

CONSTANTS Chars, NL   \* characters, and the one that ends a line

VARIABLES phase,    \* "idle", "running", "ended"
          written,  \* all the command has written
          ok,       \* whether it ended with status 0
          result    \* what the caller got last

commandVars == <<phase, written, ok, result>>

\* Where the lines of s end: at its newlines and, if it does not end in one,
\* behind its last character.
Newlines(s) == {i \in 1..Len(s) : s[i] = NL}
Breaks(s) ==
  Newlines(s) \cup (IF s # <<>> /\ Last(s) # NL THEN {Len(s) + 1} ELSE {})

\* The piece of s that cut ends at its k-th element, without that element.
PieceOf(s, cut, k) ==
  SubSeq(s, (IF k = 1 THEN 0 ELSE cut[k-1]) + 1, cut[k] - 1)

\* ls are the lines of s, in order and without their newlines.
IsLines(ls, s) ==
  \E cut \in [1..Len(ls) -> Breaks(s)] :
    /\ \A i \in Breaks(s) : \E k \in 1..Len(ls) : cut[k] = i
    /\ \A j, k \in 1..Len(ls) : j < k => cut[j] < cut[k]
    /\ \A k \in 1..Len(ls) : ls[k] = PieceOf(s, cut, k)

Result(code, lines) == [code |-> code, lines |-> lines]

Init ==
  /\ phase = "idle" /\ written = <<>> /\ ok = TRUE
  /\ result = Result(0, <<>>)

Start ==
  /\ phase = "idle" /\ phase' = "running"
  /\ written' = <<>> /\ ok' = TRUE /\ UNCHANGED result

\* pipe or fork fails.
NotStarted ==
  /\ phase = "idle" /\ \E code \in {2, 3} : result' = Result(code, <<>>)
  /\ UNCHANGED <<phase, written, ok>>

Write ==
  /\ phase = "running" /\ \E c \in Chars : written' = Append(written, c)
  /\ UNCHANGED <<phase, ok, result>>

End ==
  /\ phase = "running" /\ phase' = "ended" /\ ok' \in BOOLEAN
  /\ UNCHANGED <<written, result>>

Return ==
  /\ phase = "ended" /\ phase' = "idle"
  /\ result' = Result(IF ok THEN 0 ELSE 1, result'.lines)
  /\ IsLines(result'.lines, written)
  /\ written' = <<>> /\ ok' = TRUE

Spec ==
  Init /\ [][Start \/ NotStarted \/ Write \/ End \/ Return]_commandVars
============================================================================
