------------------------------ MODULE TtyModes ------------------------------
(***************************************************************************)
(* lib/ttymodes.c, with the client of esameSNP12 that puts its terminal    *)
(* into raw mode, and the signals that may end it.  The settings of the    *)
(* terminal stay when a client ends, and the next one finds them.          *)
(***************************************************************************)
\* What is asked for: raw by this client.
Modes == {"raw", "cbreak"}

VARIABLES
  tty,          \* the settings of the terminal
  found,        \* those the client that runs has found
  save_termios, ttystate,
  mode,         \* what this client asks for
  at,           \* where it stands
  handler       \* where sig_catch stands, "none" while it is not installed

vars == <<tty, found, save_termios, ttystate, mode, at, handler>>

Settings == {"as made", "partial"} \union Modes

Init ==
  /\ tty = "as made" /\ found = "as made"
  /\ save_termios = "as made" /\ ttystate = "RESET"
  /\ mode \in Modes /\ at = "get" /\ handler = "none"

Ended == {"exit", "killed"}

\* main goes on unless sig_catch runs, which does not return to it.
Main(from, to) ==
  /\ handler \in {"none", "ready"}
  /\ at = from /\ at' = to

-----------------------------------------------------------------------------
(* tty_raw() and tty_cbreak().  err_sys() follows if they fail. *)

\* tcgetattr(): it fails if standard input is no terminal.  The call is refused
\* while a mode is set; this client makes one call only.
Get ==
  /\ ttystate = "RESET"
  /\ \/ Main("get", "set") /\ save_termios' = tty
     \/ Main("get", "exit") /\ UNCHANGED save_termios
  /\ UNCHANGED <<tty, found, ttystate, mode, handler>>

\* tcsetattr() also succeeds when it made some of the changes only.
Set ==
  /\ \/ Main("set", "verify") /\ tty' \in {mode, "partial"}
     \/ Main("set", "exit") /\ UNCHANGED tty
  /\ UNCHANGED <<found, save_termios, ttystate, mode, handler>>

\* A plausible error: the partial change is reported, and stays.
VerifyKept ==
  /\ \/ Main("verify", "signal") /\ tty = mode
     \/ Main("verify", "exit") /\ tty # mode
  /\ ttystate' = IF tty = mode THEN mode ELSE ttystate
  /\ UNCHANGED <<tty, found, save_termios, mode, handler>>

\* The changes are read back, and taken back unless all were made; also when
\* they cannot be read.
Verify ==
  /\ \/ Main("verify", "signal") /\ tty = mode /\ UNCHANGED tty /\ ttystate' = mode
     \/ Main("verify", "exit") /\ tty' = save_termios /\ UNCHANGED ttystate
  /\ UNCHANGED <<found, save_termios, mode, handler>>

-----------------------------------------------------------------------------
(* The client. *)

\* signal(SIGINT, sig_catch)
Install ==
  /\ Main("signal", "loop") /\ handler' = "ready"
  /\ UNCHANGED <<tty, found, save_termios, ttystate, mode>>

\* q, or the end of the standard input or of the connection.
LeaveLoop ==
  /\ Main("loop", "reset")
  /\ UNCHANGED <<tty, found, save_termios, ttystate, mode, handler>>

\* tty_reset(), in main ...
Reset ==
  /\ Main("reset", IF ttystate = "RESET" THEN "exit" ELSE "state")
  /\ tty' = IF ttystate = "RESET" THEN tty ELSE save_termios
  /\ UNCHANGED <<found, save_termios, ttystate, mode, handler>>

ResetState ==
  /\ Main("state", "exit") /\ ttystate' = "RESET"
  /\ UNCHANGED <<tty, found, save_termios, mode, handler>>

\* ... and in sig_catch, which may interrupt it there, and exits.
Interrupt ==
  /\ at \notin Ended /\ handler = "ready" /\ handler' = "reset"
  /\ UNCHANGED <<tty, found, save_termios, ttystate, mode, at>>

Caught ==
  /\ at \notin Ended /\ handler = "reset" /\ handler' = "done" /\ at' = "exit"
  /\ tty' = IF ttystate = "RESET" THEN tty ELSE save_termios
  /\ ttystate' = "RESET"
  /\ UNCHANGED <<found, save_termios, mode>>

\* SIGINT before sig_catch is there, SIGPIPE, or a signal nobody catches.
Kill ==
  /\ at \notin Ended /\ at' = "killed"
  /\ UNCHANGED <<tty, found, save_termios, ttystate, mode, handler>>

\* The next client on this terminal.
Again ==
  /\ at \in Ended /\ at' = "get"
  /\ found' = tty /\ save_termios' = "as made" /\ ttystate' = "RESET"
  /\ mode' \in Modes /\ handler' = "none"
  /\ UNCHANGED tty

Next == \/ Get \/ Set \/ Verify \/ Install \/ LeaveLoop \/ Reset \/ ResetState
        \/ Interrupt \/ Caught \/ Kill \/ Again

Spec == Init /\ [][Next]_vars

-----------------------------------------------------------------------------

TypeOK ==
  /\ {tty, found, save_termios} \subseteq Settings
  /\ ttystate \in {"RESET"} \union Modes /\ mode \in Modes
  /\ at \in {"get", "set", "verify", "signal", "loop", "reset", "state"} \union Ended
  /\ handler \in {"none", "ready", "reset", "done"}

\* Every exit() finds the terminal as the client found it: after a failure of
\* any call, after a change that was made in part, and when SIGINT comes while
\* main is resetting.  Only a client that is killed leaves it changed.
Restored == at = "exit" => tty = found
=============================================================================
