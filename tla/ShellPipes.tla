----------------------------- MODULE ShellPipes -----------------------------
(***************************************************************************)
(* The pipeline shell (shell_pipes.c): run() starts the commands of a line *)
(* from left to right, one recursive call per command, and waits for them  *)
(* from right to left on its way back.                                     *)
(*                                                                         *)
(* A command is the place it has in its line, the shell is 0.  A step of   *)
(* the shell is one system call or the handler; a child's copies of the    *)
(* pipe ends that its last calls before execvp close are closed with it.   *)
(* Process ids are not reused.                                             *)
(***************************************************************************)
EXTENDS Integers

CONSTANTS N,          \* the longest pipeline, the empty command after a last | included
          MaxSigints  \* SIGINTs the terminal sends during a line

ASSUME NAssumption == N \in Nat \ {0}

VARIABLES pc,       \* where the shell is
          cmd,      \* the level of run(): the command it is about
          n,        \* commands of the line
          trailing, \* the last one is followed by a | and nothing more
          style,    \* what ends the line: its "source" or its "sink"
          pgid,     \* the global pgid
          st,       \* what has become of each command
          grp,      \* its process group: that of the shell (0) or of a command
          cpg,      \* its copy of pgid, up to execvp
          rd, wr,   \* who holds the ends of the pipe after each command
          pend,     \* for whom SIGINT is pending
          sigints,  \* SIGINTs sent during this line
          struck,   \* living commands that were alive at one of them
          stray     \* commands in whose start a SIGINT fell, see SigintReachesAll

shell == <<pc, cmd, n, trailing, style, pgid>>
children == <<st, grp, cpg>>
pipes == <<rd, wr>>
signals == <<pend, sigints, struck, stray>>
vars == <<shell, children, pipes, signals>>

Cmds == 1..N

(* A pgid left over from an earlier line: a group without members. *)
Stale == N + 1

Alive == {j \in Cmds : st[j] \in {"forked", "running"}}
Zombies == {j \in Cmds : st[j] \in {"aborted", "ended"}}

(* A zombie is a member of its group until it is reaped. *)
Members(g) == {j \in Alive \cup Zombies : grp[j] = g}

(* The last command of a line writes to the terminal, not to a pipe. *)
HasPipe(j) == j < n \/ trailing

NoEnds == [j \in Cmds |-> {}]
Drop(ends, p) == [j \in Cmds |-> ends[j] \ {p}]

Init == /\ pc = "prompt" /\ cmd = 0 /\ n = 0 /\ trailing = FALSE /\ style = "source"
        /\ pgid = 0
        /\ st = [j \in Cmds |-> "none"]
        /\ grp = [j \in Cmds |-> 0] /\ cpg = [j \in Cmds |-> 0]
        /\ sigints = 0 /\ struck = {} /\ stray = {}
        /\ rd = NoEnds /\ wr = NoEnds
        /\ pend = {}

------------------------------------------------------------------------------
(* No command has been started yet. *)
NoCommands ==
    /\ st' = [j \in Cmds |-> "none"]
    /\ grp' = [j \in Cmds |-> 0] /\ cpg' = [j \in Cmds |-> 0]
    /\ sigints' = 0 /\ struck' = {} /\ stray' = {}

(* exit(): what becomes of the shell's commands is not followed any further. *)
Exit ==
    /\ pc' = "exited"
    /\ cmd' = 0 /\ n' = 0 /\ trailing' = FALSE /\ style' = "source" /\ pgid' = 0
    /\ NoCommands
    /\ rd' = NoEnds /\ wr' = NoEnds
    /\ pend' = {}

ReadLine ==
    /\ pc = "prompt"
    /\ n' \in 0..N
    /\ trailing' \in {t \in BOOLEAN : t => n' \in 1..N - 1}
    /\ style' \in {"source", "sink"}
    /\ pc' = "run" /\ cmd' = 1
    /\ NoCommands
    /\ UNCHANGED <<pgid, pipes, pend>>

EndOfInput == pc = "prompt" /\ Exit

(* run returns: to the close after the call, or from main's call to its loop. *)
Return ==
    /\ cmd' = cmd - 1
    /\ pc' = IF cmd = 1 THEN "prompt" ELSE "close_read"
    /\ pgid' = IF cmd = 1 /\ pgid # 0 THEN Stale ELSE pgid
    /\ UNCHANGED <<n, trailing, style>>

(* No word before the next | or the end of the line. *)
NoCommand ==
    /\ pc = "run" /\ cmd > n
    /\ Return
    /\ UNCHANGED <<children, pipes, signals>>

(* pipe, then fork: the child has every end that the shell has. *)
Fork ==
    /\ pc = "run" /\ cmd <= n
    /\ LET opened(ends) == IF HasPipe(cmd) THEN [ends EXCEPT ![cmd] = {0}] ELSE ends
           inherited(ends) == [j \in Cmds |-> IF 0 \in ends[j] THEN ends[j] \cup {cmd}
                                              ELSE ends[j]]
       IN rd' = inherited(opened(rd)) /\ wr' = inherited(opened(wr))
    /\ st' = [st EXCEPT ![cmd] = "forked"]
    /\ cpg' = [cpg EXCEPT ![cmd] = pgid]
    /\ pc' = "assign"
    /\ UNCHANGED <<cmd, n, trailing, style, pgid, grp, signals>>

(* pipe or fork fails. *)
ForkFails == pc = "run" /\ cmd <= n /\ Exit

(* Mutant of Assign: a group for every command. *)
AssignOwn ==
    /\ pc = "assign"
    /\ pgid' = cmd
    /\ pc' = "setpgid"
    /\ UNCHANGED <<cmd, n, trailing, style, children, pipes, signals>>

Assign ==
    /\ pc = "assign"
    /\ pgid' = IF pgid = 0 THEN cmd ELSE pgid
    /\ pc' = "setpgid"
    /\ UNCHANGED <<cmd, n, trailing, style, children, pipes, signals>>

(* Not after execvp (EACCES), not to a group without members (EPERM); 0 is the *)
(* command's own group.                                                        *)
SetPgid ==
    /\ pc = "setpgid"
    /\ LET g == IF pgid = 0 THEN cmd ELSE pgid
       IN IF st[cmd] \in {"forked", "aborted"} /\ (g = cmd \/ Members(g) # {})
          THEN /\ grp' = [grp EXCEPT ![cmd] = g]
               /\ pc' = IF HasPipe(cmd) THEN "close_write" ELSE "wait"
               /\ stray' = IF pgid = 0 THEN stray \cup {cmd} ELSE stray
               /\ UNCHANGED <<cmd, n, trailing, style, pgid, st, cpg, pipes,
                              pend, sigints, struck>>
          ELSE Exit

(* Mutant of CloseWrite: the shell keeps the end its child writes to. *)
CloseWriteNot ==
    /\ pc = "close_write"
    /\ cmd' = cmd + 1
    /\ pc' = "run"
    /\ UNCHANGED <<n, trailing, style, pgid, children, pipes, signals>>

CloseWrite ==
    /\ pc = "close_write"
    /\ wr' = [wr EXCEPT ![cmd] = @ \ {0}]
    /\ cmd' = cmd + 1
    /\ pc' = "run"
    /\ UNCHANGED <<n, trailing, style, pgid, children, rd, signals>>

(* Mutant of CloseRead: the end the next command reads from stays open. *)
CloseReadNot ==
    /\ pc = "close_read"
    /\ pc' = "wait"
    /\ UNCHANGED <<cmd, n, trailing, style, pgid, children, pipes, signals>>

CloseRead ==
    /\ pc = "close_read"
    /\ rd' = [rd EXCEPT ![cmd] = @ \ {0}]
    /\ pc' = "wait"
    /\ UNCHANGED <<cmd, n, trailing, style, pgid, children, wr, signals>>

WaitPid ==
    /\ pc = "wait"
    /\ cmd \in Zombies
    /\ st' = [st EXCEPT ![cmd] = "reaped"]
    /\ grp' = [grp EXCEPT ![cmd] = 0]
    /\ Return
    /\ UNCHANGED <<cpg, pipes, signals>>

(* sigint_handler in the shell *)
Handler ==
    /\ 0 \in pend
    /\ IF pgid # 0 /\ Members(pgid) # {}
       THEN /\ pend' = (pend \ {0}) \cup (Members(pgid) \cap Alive)
            /\ pgid' = 0
            /\ UNCHANGED <<pc, cmd, n, trailing, style, children, pipes, sigints, struck, stray>>
       ELSE Exit

------------------------------------------------------------------------------
(* A command *)

Die(j, how) ==
    /\ st' = [st EXCEPT ![j] = how]
    /\ rd' = Drop(rd, j) /\ wr' = Drop(wr, j)
    /\ cpg' = [cpg EXCEPT ![j] = 0]
    /\ pend' = pend \ {j} /\ struck' = struck \ {j} /\ stray' = stray \ {j}
    /\ UNCHANGED <<shell, grp, sigints>>

(* The pipe it does not read from is closed, its program runs. *)
Exec(j) ==
    /\ st[j] = "forked"
    /\ st' = [st EXCEPT ![j] = "running"]
    /\ rd' = [rd EXCEPT ![j] = @ \ {j}]
    /\ cpg' = [cpg EXCEPT ![j] = 0]
    /\ UNCHANGED <<shell, grp, wr, signals>>

ExecFails(j) == st[j] = "forked" /\ Die(j, "aborted")

(* Before execvp, SIGINT runs the inherited handler with the child's pgid. *)
ChildHandler(j) ==
    /\ st[j] = "forked" /\ j \in pend
    /\ IF cpg[j] # 0 /\ Members(cpg[j]) # {}
       THEN /\ pend' = (pend \ {j}) \cup (Members(cpg[j]) \cap Alive)
            /\ cpg' = [cpg EXCEPT ![j] = 0]
            /\ stray' = stray \cup ({j} \ pend')
            /\ UNCHANGED <<shell, st, grp, pipes, sigints, struck>>
       ELSE Die(j, "aborted")

(* After it, SIGINT ends the command. *)
Interrupted(j) == st[j] = "running" /\ j \in pend /\ Die(j, "ended")

End(j) == st[j] = "running" /\ Die(j, "ended")

(* What makes a command end: no more input, nobody to write to, or its own work. *)
CanEnd(j) == \/ j > 1 /\ wr[j - 1] = {}
             \/ HasPipe(j) /\ rd[j] = {}
             \/ j = IF style = "source" THEN 1 ELSE n

(* Ctrl-C, external: to the shell's group, and to every command not yet moved. *)
Terminal ==
    /\ pc # "exited"
    /\ sigints < MaxSigints
    /\ sigints' = sigints + 1
    /\ pend' = pend \cup {0} \cup {j \in Alive : grp[j] = 0}
    /\ struck' = struck \cup Alive
    /\ UNCHANGED <<shell, children, pipes, stray>>

------------------------------------------------------------------------------
Shell == \/ NoCommand \/ Fork \/ ForkFails \/ Assign \/ SetPgid
         \/ CloseWrite \/ CloseRead \/ WaitPid \/ Handler

Child(j) == \/ Exec(j) \/ ExecFails(j)
            \/ ChildHandler(j) \/ Interrupted(j)

Next == \/ Shell \/ ReadLine \/ EndOfInput
        \/ \E j \in Cmds : Child(j) \/ End(j)
        \/ Terminal

Spec == Init /\ [][Next]_vars

(* Nobody need type anything; a command that has a reason to end does end. *)
FairSpec == /\ Spec
            /\ WF_vars(Shell)
            /\ \A j \in Cmds : WF_vars(Child(j)) /\ WF_vars(End(j) /\ CanEnd(j))
------------------------------------------------------------------------------
(***************************************************************************)
(* Nothing of a line outlives it, and nothing leaks into it: at the prompt *)
(* every command has been reaped and no process holds an end of a pipe;    *)
(* and at no time does a process hold the write end of a pipe but the      *)
(* command before it and, until it has moved on, the shell.  (Read ends do *)
(* leak: a command has those of all the pipes further to the left.)        *)
(***************************************************************************)
NothingLeft ==
    /\ pc = "prompt" => /\ Alive \cup Zombies = {}
                        /\ rd = NoEnds /\ wr = NoEnds
    /\ \A j \in Cmds : /\ wr[j] \subseteq {0, j}
                       /\ 0 \in wr[j] => cmd = j

(***************************************************************************)
(* A line ends, and the shell prompts again or exits, when its first       *)
(* command ends by itself and the others at the end of their input, and    *)
(* also when its last command ends by itself and the others only once      *)
(* nobody reads what they write: no close comes too late, no copy of a     *)
(* pipe end that a command has inherited keeps its neighbours alive.       *)
(***************************************************************************)
PipelineEnds == pc = "run" ~> pc \in {"prompt", "exited"}

(***************************************************************************)
(* SIGINT reaches the whole pipeline although the shell has moved it out   *)
(* of the terminal's process group: every command that was alive when the  *)
(* terminal sent it is dead or has it pending once the shell has handled   *)
(* it, unless the shell exits.  Two windows in the start of a command let  *)
(* it escape: it swallowed a SIGINT in the handler it had before execvp,   *)
(* or the handler of the shell reset pgid after run() had set it and       *)
(* before setpgid, which leaves the command in a group nobody knows.       *)
(***************************************************************************)
SigintReachesAll ==
    pc # "exited" /\ 0 \notin pend => struck \subseteq (pend \cup stray)
=============================================================================
