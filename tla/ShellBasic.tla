----------------------------- MODULE ShellBasic -----------------------------
(***************************************************************************)
(* The basic shell (shell_basic.c): a prompt, one command at a time, and a *)
(* SIGINT handler that leaves whatever it interrupts by siglongjmp.        *)
(*                                                                         *)
(* The shell blocks SIGINT except around getline and waitid.  A step is a  *)
(* stretch of code in which no signal can arrive, or one system call; the  *)
(* terminal sends SIGINT to the shell and its child between any two steps. *)
(***************************************************************************)
EXTENDS Integers

VARIABLES bpc,        \* where the shell is
          blocked,    \* SIGINT is blocked in the shell
          pending,    \* SIGINT is pending for the shell
          pid,        \* the global pid: -1, or 1 for the child
          env_input,  \* jmp_env_handle_input leads to "none", a "live" or a "dead" frame
          env_run,    \* the same for jmp_env_run_cmd
          line,       \* what getline has read
          info,       \* child_info: si_code and si_status
          prompt,     \* what the next prompt shows
          child,      \* where the child is
          cblocked,   \* SIGINT is blocked in the child
          cdefault,   \* the child has set SIGINT to SIG_DFL
          cpending,   \* SIGINT is pending for the child
          fate,       \* how the last command ended
          late        \* the handler ran after the child was reaped

shellvars == <<bpc, blocked, pid, env_input, env_run, line, info, prompt>>
childvars == <<child, cblocked, cdefault, cpending, fate>>
basicVars == <<shellvars, childvars, pending, late>>

Lines == {"empty", "blank", "help", "quit", "command"}

(* What waitid stores for a child that ended this way; zero for no child. *)
SigInfo(f) == [code   |-> CASE f = "none" -> "0"
                            [] f \in {"exited", "failed"} -> "CLD_EXITED"
                            [] f = "killed" -> "CLD_KILLED",
               status |-> IF f \in {"none", "exited"} THEN 0 ELSE 1]

Gone == {"ended", "crashed"}

(* main, up to the loop: SIGINT is blocked, child_info is zero. *)
BasicInit == /\ bpc = "main"
             /\ blocked = TRUE
             /\ pending = FALSE
             /\ pid = -1
             /\ env_input = "none" /\ env_run = "none"
             /\ line = "empty"
             /\ info = SigInfo("none")
             /\ prompt = "ready"
             /\ child = "none"
             /\ cblocked = FALSE /\ cdefault = FALSE /\ cpending = FALSE
             /\ fate = "exited"
             /\ late = FALSE

------------------------------------------------------------------------------
(* handle_input *)

PromptFor(i) == IF i.code = "CLD_KILLED" THEN "killed"
                ELSE IF i.status # 0 THEN "failed" ELSE "ready"

(* sigsetjmp returns 0: the prompt tells how the last command ended. *)
HandleInput ==
    /\ bpc = "main"
    /\ env_input' = "live"
    /\ prompt' = PromptFor(info)
    /\ bpc' = "input"
    /\ UNCHANGED <<blocked, pid, env_run, line, info, childvars, pending, late>>

(* The prompt is printed, SIGINT unblocked. *)
Unblock ==
    /\ bpc = "input"
    /\ blocked' = FALSE
    /\ bpc' = "getline"
    /\ UNCHANGED <<pid, env_input, env_run, line, info, prompt, childvars, pending, late>>

GetLine ==
    /\ bpc = "getline"
    /\ \E l \in Lines \cup {"eof"} : line' = l
    /\ bpc' = "read"
    /\ UNCHANGED <<blocked, pid, env_input, env_run, info, prompt, childvars, pending, late>>

(* SIGINT is blocked; an empty line is asked for again, any other returned. *)
Block ==
    /\ bpc = "read"
    /\ blocked' = TRUE
    /\ prompt' = "ready"
    /\ IF line = "empty"
       THEN bpc' = "input" /\ UNCHANGED env_input
       ELSE bpc' = "parse" /\ env_input' = "dead"
    /\ UNCHANGED <<pid, env_run, line, info, childvars, pending, late>>

------------------------------------------------------------------------------
(* main's loop body: child_info is reset, the line parsed. *)

Builtin ==
    /\ bpc = "parse"
    /\ line = "help"
    /\ info' = SigInfo("exited") /\ fate' = "exited"
    /\ bpc' = "main"
    /\ UNCHANGED <<blocked, pid, env_input, env_run, line, prompt,
                   child, cblocked, cdefault, cpending, pending, late>>

(* quit and the end of the input; without a first word strcmp gets NULL. *)
Quit ==
    /\ bpc = "parse"
    /\ line \in {"quit", "eof", "blank"}
    /\ bpc' = IF line = "blank" THEN "crashed" ELSE "ended"
    /\ UNCHANGED <<blocked, pid, env_input, env_run, line, info, prompt,
                   childvars, pending, late>>

(* run_cmd: the child inherits the mask and the handler, no pending signal. *)
RunCmd ==
    /\ bpc = "parse"
    /\ line = "command"
    /\ info' = SigInfo("exited")
    /\ pid' = 1
    /\ child' = "forked"
    /\ cblocked' = blocked /\ cdefault' = FALSE /\ cpending' = FALSE
    /\ fate' = "exited"
    /\ late' = FALSE
    /\ bpc' = "setjmp"
    /\ UNCHANGED <<blocked, env_input, env_run, line, prompt, pending>>

SetJmp ==
    /\ bpc = "setjmp"
    /\ env_run' = "live"
    /\ blocked' = FALSE
    /\ bpc' = "wait"
    /\ UNCHANGED <<pid, env_input, line, info, prompt, childvars, pending, late>>

(* Mutant of Wait: waitid is called again until it succeeds. *)
WaitUntilReaped ==
    /\ bpc = "wait"
    /\ child = "zombie" /\ info' = SigInfo(fate) /\ child' = "reaped"
    /\ bpc' = "waited"
    /\ UNCHANGED <<blocked, pid, env_input, env_run, line, prompt,
                   cblocked, cdefault, cpending, fate, pending, late>>

(* waitid reaps the child, or fails without one and zeroes child_info. *)
Wait ==
    /\ bpc = "wait"
    /\ \/ child = "zombie" /\ info' = SigInfo(fate) /\ child' = "reaped"
       \/ child = "reaped" /\ info' = SigInfo("none") /\ UNCHANGED child
    /\ bpc' = "waited"
    /\ UNCHANGED <<blocked, pid, env_input, env_run, line, prompt,
                   cblocked, cdefault, cpending, fate, pending, late>>

(* Mutant of EndRun: SIGINT stays unblocked until the next prompt. *)
EndRunUnblocked ==
    /\ bpc = "waited"
    /\ pid' = -1
    /\ env_run' = "dead"
    /\ bpc' = "main"
    /\ UNCHANGED <<blocked, env_input, line, info, prompt, childvars, pending, late>>

EndRun ==
    /\ bpc = "waited"
    /\ blocked' = TRUE
    /\ pid' = -1
    /\ env_run' = "dead"
    /\ bpc' = "main"
    /\ UNCHANGED <<env_input, line, info, prompt, childvars, pending, late>>

------------------------------------------------------------------------------
(* The handler.  sigsetjmp saved the mask with SIGINT blocked, both times. *)

HandleAtPrompt ==
    /\ pid <= 0
    /\ prompt' = "interrupted"
    /\ bpc' = "input"
    /\ UNCHANGED <<cpending, late>>

(* Mutant of HandleAtWait: back to the prompt, as without a child. *)
HandleAtWaitLeaves ==
    /\ pid > 0
    /\ cpending' = (child \notin {"zombie", "reaped"})
    /\ late' = (child = "reaped")
    /\ bpc' = "main"
    /\ UNCHANGED prompt

(* kill, then waitid once more with SIGINT blocked. *)
HandleAtWait ==
    /\ pid > 0
    /\ cpending' = (child \notin {"zombie", "reaped"})
    /\ late' = (child = "reaped")
    /\ bpc' = "wait"
    /\ UNCHANGED prompt

BasicHandler ==
    /\ bpc \notin Gone
    /\ pending /\ ~blocked
    /\ pending' = FALSE
    /\ blocked' = TRUE
    /\ HandleAtPrompt \/ HandleAtWait
    /\ UNCHANGED <<pid, env_input, env_run, line, info, child, cblocked, cdefault, fate>>

(* Ctrl-C, external: to the shell and, in the same group, to its child. *)
Interrupt ==
    /\ bpc \notin Gone
    /\ pending' = TRUE
    /\ cpending' = (child \notin {"none", "zombie", "reaped"})
    /\ UNCHANGED <<shellvars, child, cblocked, cdefault, fate, late>>

------------------------------------------------------------------------------
(* The child *)

ChildDefault ==
    /\ child = "forked"
    /\ cdefault' = TRUE
    /\ child' = "default"
    /\ UNCHANGED <<shellvars, cblocked, cpending, fate, pending, late>>

ChildUnblock ==
    /\ child = "default"
    /\ cblocked' = FALSE
    /\ child' = "running"
    /\ UNCHANGED <<shellvars, cdefault, cpending, fate, pending, late>>

(* The command ends with a status (that of a failing execvp is not 0). *)
ChildExit ==
    /\ child = "running"
    /\ child' = "zombie"
    /\ fate' \in {"exited", "failed"}
    /\ cpending' = FALSE
    /\ UNCHANGED <<shellvars, cblocked, cdefault, pending, late>>

(* SIGINT ends the command, or the command handles it. *)
ChildInterrupted ==
    /\ cpending /\ ~cblocked
    /\ cpending' = FALSE
    /\ \/ child' = "zombie" /\ fate' = "killed"
       \/ UNCHANGED <<child, fate>>
    /\ UNCHANGED <<shellvars, cblocked, cdefault, pending, late>>

BasicShell == \/ HandleInput \/ Unblock \/ Block
              \/ Builtin \/ Quit
              \/ RunCmd \/ SetJmp \/ Wait \/ EndRun
              \/ BasicHandler

BasicChild == ChildDefault \/ ChildUnblock \/ ChildExit \/ ChildInterrupted

BasicNext == BasicShell \/ GetLine \/ BasicChild \/ Interrupt

BasicSpec == BasicInit /\ [][BasicNext]_basicVars

(* The shell runs, the child gets to its command, and the command ends: the   *)
(* shell has no way to stop one that does not.  Nobody need press a key.      *)
FairBasicSpec == /\ BasicSpec
                 /\ WF_basicVars(BasicShell)
                 /\ WF_basicVars(ChildDefault \/ ChildUnblock)
                 /\ WF_basicVars(ChildExit)
------------------------------------------------------------------------------
(***************************************************************************)
(* The handler is safe wherever it can run.  The jump it takes leads into  *)
(* a frame that is still there: that of handle_input when there is no      *)
(* child, that of run_cmd when there is.  The child cannot run it at all.  *)
(* And kill goes to a child that has not been reaped, but for a SIGINT     *)
(* between the return of waitid and the blocking of SIGINT.                *)
(***************************************************************************)
HandlerSafe ==
    /\ ~blocked /\ pid <= 0 => env_input = "live"
    /\ ~blocked /\ pid > 0 => /\ env_run = "live"
                              /\ child \notin {"none", "reaped"} \/ bpc = "waited"
    /\ child = "running" => cdefault
    /\ ~cblocked => child \in {"none", "running", "zombie", "reaped"}

(***************************************************************************)
(* The prompt after a command tells how the command ended, whatever SIGINT *)
(* did to shell and child in between and however often waitid was called,  *)
(* unless the handler ran after the child had been reaped (the second      *)
(* waitid then wipes child_info).  And the shell never leaves a child      *)
(* behind: it prompts when its last child has been reaped.                 *)
(***************************************************************************)
PromptTellsFate ==
    [][bpc = "main" /\ bpc' = "input" =>
          /\ child \in {"none", "reaped"}
          /\ ~late => prompt' = (IF fate = "exited" THEN "ready" ELSE fate)]_basicVars

(***************************************************************************)
(* The shell always comes back to its prompt, however many SIGINTs hit it  *)
(* and its children, until it is told to quit, sees the end of its input   *)
(* or crashes on a line of blanks.                                         *)
(***************************************************************************)
PromptsAgain == []<>(bpc \in {"getline"} \cup Gone)
=============================================================================
