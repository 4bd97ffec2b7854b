---------------------------- MODULE ShellProofs -----------------------------
(***************************************************************************)
(* Proofs about the two shells.  ShellPipes: for lines of any length and   *)
(* any number of SIGINTs.  ShellBasic, in the second half: for any number  *)
(* of commands and of SIGINTs.                                             *)
(***************************************************************************)
EXTENDS ShellPipes, ShellBasic, TLAPS

USE NAssumption

------------------------------------------------------------------------------
(* The inductive invariant. *)

Unreaped == {"forked", "running", "aborted", "ended"}
Forking == {"assign", "setpgid", "close_write"}

Types ==
    /\ pc \in {"prompt", "exited", "run", "close_read", "wait"} \cup Forking
    /\ n \in 0..N
    /\ pgid \in Nat
    /\ st \in [Cmds -> Unreaped \cup {"none", "reaped"}]
    /\ grp \in [Cmds -> Nat] /\ cpg \in [Cmds -> Nat]
    /\ rd \in [Cmds -> SUBSET (0..N)] /\ wr \in [Cmds -> SUBSET (0..N)]

(* The level of run, by where the shell is. *)
Level ==
    /\ cmd \in 0..N + 1
    /\ pc \in {"prompt", "exited"} <=> cmd = 0
    /\ pc = "run" => cmd - 1 <= n
    /\ pc # "run" => cmd <= n

(* The commands that have been started and not yet waited for. *)
Depth == IF pc = "run" THEN cmd - 1 ELSE cmd

(* Only they are processes, and only they can be in a group of their own. *)
Processes ==
    \A j \in Cmds : /\ st[j] \in Unreaped <=> j <= Depth
                    /\ j > Depth => grp[j] = 0

(* What the shell holds: the read ends of the pipes to the left, and the   *)
(* write end it has not closed yet.                                        *)
ShellEnds ==
    \A j \in Cmds :
        /\ 0 \in rd[j] => j <= Depth /\ (j = cmd => pc \in Forking \cup {"close_read"})
        /\ 0 \in wr[j] => j = cmd /\ pc \in Forking
        /\ j = cmd /\ pc \in Forking /\ 0 \in rd[j] \cup wr[j] => HasPipe(j)

(* Only a living command holds an end; of write ends, only its own. *)
CommandEnds ==
    \A j \in Cmds :
        /\ rd[j] \subseteq Alive \cup {0}
        /\ wr[j] \subseteq {0, j} /\ wr[j] \subseteq Alive \cup {0}

(* Who has left the shell's group without being signalled or having strayed *)
(* is in the group that the shell knows of.                                 *)
Grouped ==
    \A j \in Alive : grp[j] # 0 => j \in pend \cup stray \/ grp[j] = pgid

(* Who was struck has the signal, has strayed, or is left to the handler. *)
Signalled ==
    /\ pend \subseteq Alive \cup {0}
    /\ struck \subseteq Alive
    /\ \A j \in struck : j \in pend \cup stray \/ (0 \in pend /\ grp[j] # 0)

PipeInv == Types /\ Level /\ Processes /\ ShellEnds /\ CommandEnds
SignalInv == Grouped /\ Signalled

LEMMA InitInv == Init => PipeInv /\ SignalInv
  BY DEF Init, PipeInv, SignalInv, Types, Level, Processes, ShellEnds, CommandEnds,
         Grouped, Signalled, Cmds, NoEnds, Unreaped, Forking, Depth, Alive

(* exit() leaves nothing to speak of. *)
LEMMA ExitInv == Exit => PipeInv' /\ SignalInv'
  BY DEF Exit, NoCommands, PipeInv, SignalInv, Types, Level, Processes, ShellEnds, CommandEnds,
         Grouped, Signalled, Cmds, NoEnds, Unreaped, Forking, Depth, Alive

LEMMA DieInv ==
    ASSUME PipeInv, SignalInv, NEW j \in Cmds, NEW how \in {"aborted", "ended"},
           st[j] \in {"forked", "running"}, Die(j, how)
    PROVE  PipeInv' /\ SignalInv'
<1> USE DEF Die, Drop, shell, PipeInv, SignalInv, Cmds
<1>0. Alive' = Alive \ {j}
  BY DEF Alive, Types
<1>1. Types'
  BY DEF Types, Unreaped
<1>2. Level'
  BY DEF Level
<1>3. Processes'
  BY DEF Types, Processes, Depth, Unreaped
<1>4. ShellEnds'
  BY DEF Types, ShellEnds, Depth, Unreaped, HasPipe
<1>5. CommandEnds'
  BY <1>0 DEF Types, CommandEnds
<1>6. Grouped'
  BY <1>0 DEF Types, Grouped
<1>7. Signalled'
  BY <1>0 DEF Types, Signalled
<1>8. QED
  BY <1>1, <1>2, <1>3, <1>4, <1>5, <1>6, <1>7

------------------------------------------------------------------------------
LEMMA PipeInductive == PipeInv /\ SignalInv /\ [Next]_vars => PipeInv'
<1> SUFFICES ASSUME PipeInv, SignalInv, [Next]_vars PROVE PipeInv'
  OBVIOUS
<1> USE DEF PipeInv, Types, Level, Processes, ShellEnds, CommandEnds, Cmds,
            Unreaped, Forking, Depth, Alive, HasPipe,
            shell, children, pipes, signals
<1>1. CASE ReadLine
  <2>1. Types'
    BY <1>1 DEF ReadLine, NoCommands
  <2>2. Level'
    BY <1>1 DEF ReadLine, NoCommands
  <2>3. Processes'
    BY <1>1 DEF ReadLine, NoCommands
  <2>4. ShellEnds'
    BY <1>1 DEF ReadLine, NoCommands
  <2>5. CommandEnds'
    BY <1>1 DEF ReadLine, NoCommands
  <2>6. QED
    BY <2>1, <2>2, <2>3, <2>4, <2>5
<1>2. CASE EndOfInput \/ ForkFails
  BY <1>2, ExitInv DEF EndOfInput, ForkFails
<1>3. CASE NoCommand
  BY <1>3 DEF NoCommand, Return, Stale
<1>4. CASE Fork
  <2>1. \A j \in Cmds : /\ rd'[j] \subseteq rd[j] \cup {0, cmd}
                        /\ wr'[j] \subseteq wr[j] \cup {0, cmd}
    BY <1>4 DEF Fork
  <2>2. \A j \in Cmds : /\ 0 \in rd'[j] => 0 \in rd[j] \/ (j = cmd /\ HasPipe(j))
                        /\ 0 \in wr'[j] => 0 \in wr[j] \/ (j = cmd /\ HasPipe(j))
                        /\ j # cmd /\ cmd \in wr'[j] => cmd \in wr[j] \/ 0 \in wr[j]
    BY <1>4 DEF Fork
  <2>3. rd' \in [Cmds -> SUBSET (0..N)] /\ wr' \in [Cmds -> SUBSET (0..N)]
    BY <1>4 DEF Fork
  <2>4. Alive' = Alive \cup {cmd}
    BY <1>4 DEF Fork
  <2>5. Types' /\ Level' /\ Processes'
    BY <1>4, <2>3 DEF Fork
  <2>6. ShellEnds'
    BY <1>4, <2>2 DEF Fork
  <2>7. CommandEnds'
    BY <1>4, <2>1, <2>2, <2>4 DEF Fork
  <2>8. QED
    BY <2>5, <2>6, <2>7
<1>5. CASE Assign
  BY <1>5 DEF Assign
<1>6. CASE SetPgid
  <2>1. CASE Exit
    BY <2>1, ExitInv
  <2>2. CASE ~Exit
    <3>1. /\ grp' \in [Cmds -> Nat] /\ \A j \in Cmds : j # cmd => grp'[j] = grp[j]
          /\ pc' = IF HasPipe(cmd) THEN "close_write" ELSE "wait"
      BY <1>6, <2>2, SMTT(20) DEF SetPgid
    <3>2. UNCHANGED <<cmd, n, trailing, pgid, st, cpg, rd, wr, pend, struck>>
      BY <1>6, <2>2 DEF SetPgid
    <3>3. QED
      BY <1>6, <3>1, <3>2 DEF SetPgid
  <2>3. QED
    BY <2>1, <2>2
<1>7. CASE CloseWrite
  BY <1>7 DEF CloseWrite
<1>8. CASE CloseRead
  BY <1>8, SMTT(20) DEF CloseRead
<1>9. CASE WaitPid
  <2>1. Alive' = Alive
    BY <1>9 DEF WaitPid, Zombies
  <2>2. Types'
    BY <1>9 DEF WaitPid, Return, Zombies, Stale
  <2>3. Level'
    BY <1>9 DEF WaitPid, Return, Zombies, Stale
  <2>4. Processes'
    BY <1>9 DEF WaitPid, Return, Zombies, Stale
  <2>5. ShellEnds'
    BY <1>9 DEF WaitPid, Return, Zombies, Stale
  <2>6. CommandEnds'
    BY <1>9, <2>1 DEF WaitPid, Return, Zombies, Stale
  <2>7. QED
    BY <2>2, <2>3, <2>4, <2>5, <2>6
<1>10. CASE Handler
  <2>1. CASE Exit
    BY <2>1, ExitInv
  <2>2. CASE ~Exit
    <3>1. pgid' = 0
      BY <1>10, <2>2 DEF Handler
    <3>2. UNCHANGED <<pc, cmd, n, trailing, st, grp, cpg, rd, wr, struck, stray>>
      BY <1>10, <2>2 DEF Handler
    <3>3. QED
      BY <3>1, <3>2
  <2>3. QED
    BY <2>1, <2>2
<1>11. ASSUME NEW j \in Cmds, Exec(j) PROVE PipeInv'
  <2>1. Alive' = Alive
    BY <1>11 DEF Exec
  <2>2. Types'
    BY <1>11 DEF Exec
  <2>3. Level'
    BY <1>11 DEF Exec
  <2>4. Processes'
    BY <1>11 DEF Exec
  <2>5. ShellEnds'
    BY <1>11 DEF Exec
  <2>6. CommandEnds'
    BY <1>11, <2>1 DEF Exec
  <2>7. QED
    BY <2>2, <2>3, <2>4, <2>5, <2>6
<1>12. ASSUME NEW j \in Cmds, ChildHandler(j) PROVE PipeInv'
  <2>1. CASE Die(j, "aborted")
    BY <1>12, <2>1, DieInv DEF ChildHandler
  <2>2. CASE ~Die(j, "aborted")
    <3>1. cpg' = [cpg EXCEPT ![j] = 0]
      BY <1>12, <2>2 DEF ChildHandler
    <3>2. UNCHANGED <<pc, cmd, n, trailing, pgid, st, grp, rd, wr, struck>>
      BY <1>12, <2>2 DEF ChildHandler
    <3>3. QED
      BY <3>1, <3>2
  <2>3. QED
    BY <2>1, <2>2
<1>13. ASSUME NEW j \in Cmds, ExecFails(j) \/ Interrupted(j) \/ End(j) PROVE PipeInv'
  BY <1>13, DieInv DEF ExecFails, Interrupted, End
<1>14. CASE Terminal
  BY <1>14 DEF Terminal
<1>15. CASE UNCHANGED vars
  BY <1>15 DEF vars
<1>16. QED
  BY <1>1, <1>2, <1>3, <1>4, <1>5, <1>6, <1>7, <1>8, <1>9, <1>10, <1>11, <1>12,
     <1>13, <1>14, <1>15 DEF Next, Shell, Child

LEMMA SignalInductive == PipeInv /\ SignalInv /\ [Next]_vars => SignalInv'
<1> SUFFICES ASSUME PipeInv, SignalInv, [Next]_vars PROVE SignalInv'
  OBVIOUS
<1> USE DEF SignalInv, Grouped, Signalled, PipeInv, Types, Level, Processes, Cmds,
            Unreaped, Forking, Depth, Alive,
            shell, children, pipes, signals
<1>1. CASE ReadLine
  BY <1>1 DEF ReadLine, NoCommands
<1>2. CASE EndOfInput \/ ForkFails
  BY <1>2, ExitInv DEF EndOfInput, ForkFails
<1>3. CASE NoCommand
  BY <1>3 DEF NoCommand, Return, Stale
<1>4. CASE Fork
  BY <1>4 DEF Fork
<1>5. CASE Assign
  BY <1>5 DEF Assign
<1>6. CASE SetPgid
  <2>1. CASE Exit
    BY <2>1, ExitInv
  <2>2. CASE ~Exit
    <3>1. PICK g \in Nat \ {0} : /\ grp' = [grp EXCEPT ![cmd] = g]
                                 /\ g = pgid \/ (pgid = 0 /\ cmd \in stray')
      BY <1>6, <2>2 DEF SetPgid
    <3>2. stray \subseteq stray' /\ UNCHANGED <<st, pgid, pend, struck>>
      BY <1>6, <2>2 DEF SetPgid
    <3>3. QED
      BY <3>1, <3>2
  <2>3. QED
    BY <2>1, <2>2
<1>7. CASE CloseWrite
  BY <1>7 DEF CloseWrite
<1>8. CASE CloseRead
  BY <1>8 DEF CloseRead
<1>9. CASE WaitPid
  BY <1>9 DEF WaitPid, Return, Zombies, Stale
<1>10. CASE Handler
  <2>1. CASE Exit
    BY <2>1, ExitInv
  <2>2. CASE ~Exit
    <3>1. /\ pend' = (pend \ {0}) \cup {j \in Alive : grp[j] = pgid}
          /\ pgid # 0 /\ UNCHANGED <<st, grp, struck, stray>>
      BY <1>10, <2>2 DEF Handler, Members
    <3>2. Grouped'
      BY <3>1
    <3>3. \A j \in struck : j \in pend' \cup stray
      BY <3>1
    <3>4. Alive' = Alive /\ pend' \subseteq Alive \cup {0}
      BY <3>1
    <3>5. Signalled'
      BY <3>1, <3>3, <3>4
    <3>6. QED
      BY <3>2, <3>5
  <2>3. QED
    BY <2>1, <2>2
<1>11. ASSUME NEW j \in Cmds, Exec(j) PROVE SignalInv'
  BY <1>11 DEF Exec
<1>12. ASSUME NEW j \in Cmds, ChildHandler(j) PROVE SignalInv'
  <2>1. CASE Die(j, "aborted")
    BY <1>12, <2>1, DieInv DEF ChildHandler
  <2>2. CASE ~Die(j, "aborted")
    <3>1. /\ pend \ {j} \subseteq pend' /\ pend' \subseteq pend \cup Alive
          /\ stray \subseteq stray' /\ j \in pend' \cup stray'
          /\ UNCHANGED <<pgid, st, grp, struck>>
      BY <1>12, <2>2 DEF ChildHandler, Members
    <3>2. QED
      BY <3>1, SMTT(20)
  <2>3. QED
    BY <2>1, <2>2
<1>13. ASSUME NEW j \in Cmds, ExecFails(j) \/ Interrupted(j) \/ End(j) PROVE SignalInv'
  BY <1>13, DieInv DEF ExecFails, Interrupted, End
<1>14. CASE Terminal
  BY <1>14 DEF Terminal
<1>15. CASE UNCHANGED vars
  BY <1>15 DEF vars
<1>16. QED
  BY <1>1, <1>2, <1>3, <1>4, <1>5, <1>6, <1>7, <1>8, <1>9, <1>10, <1>11, <1>12,
     <1>13, <1>14, <1>15 DEF Next, Shell, Child

LEMMA Invariant == Spec => [](PipeInv /\ SignalInv)
  BY InitInv, PipeInductive, SignalInductive, PTL DEF Spec

------------------------------------------------------------------------------
(***************************************************************************)
(* When run has returned to main's loop, every command of the line has     *)
(* been waited for and every end of every pipe has been closed by all of   *)
(* the processes that had it; and no process but the command on its left   *)
(* and, up to its close, the shell ever holds the write end of a pipe.     *)
(***************************************************************************)
THEOREM NothingLeftCorrect == Spec => []NothingLeft
<1>1. PipeInv => NothingLeft
  <2> SUFFICES ASSUME PipeInv PROVE NothingLeft
    OBVIOUS
  <2>1. ASSUME NEW j \in Cmds PROVE wr[j] \subseteq {0, j} /\ (0 \in wr[j] => cmd = j)
    BY DEF PipeInv, ShellEnds, CommandEnds
  <2>2. ASSUME pc = "prompt" PROVE Alive \cup Zombies = {} /\ rd = NoEnds /\ wr = NoEnds
    <3>1. Depth = 0
      BY <2>2 DEF PipeInv, Level, Depth
    <3>2. Alive \cup Zombies = {}
      BY <3>1 DEF PipeInv, Processes, Alive, Zombies, Unreaped, Cmds
    <3>3. \A j \in Cmds : rd[j] = {} /\ wr[j] = {}
      BY <2>2, <3>1, <3>2 DEF PipeInv, ShellEnds, CommandEnds, Forking, Cmds
    <3>4. QED
      BY <3>2, <3>3 DEF PipeInv, Types, NoEnds
  <2>3. QED
    BY <2>1, <2>2 DEF NothingLeft
<1>2. QED
  BY <1>1, Invariant, PTL

(***************************************************************************)
(* Once sigint_handler has run in the shell, every command that was alive  *)
(* when the terminal sent a SIGINT is dead or has it pending, but for the  *)
(* strays; whatever the children's own handlers did in the meantime.       *)
(***************************************************************************)
THEOREM SigintCorrect == Spec => []SigintReachesAll
<1>1. SignalInv => SigintReachesAll
  BY DEF SignalInv, Signalled, SigintReachesAll
<1>2. QED
  BY <1>1, Invariant, PTL

------------------------------------------------------------------------------
(***************************************************************************)
(* The basic shell, a program of its own.                                  *)
(***************************************************************************)
(***************************************************************************)
(* The inductive invariant: what the rest of the state is, by where the    *)
(* shell is.                                                               *)
(***************************************************************************)

AtPrompt == {"input", "getline", "read"}
InRun == {"setjmp", "wait", "waited"}
Living == {"forked", "default", "running"}
Fates == {"exited", "failed", "killed"}

BasicTypes ==
    /\ bpc \in {"main", "parse"} \cup AtPrompt \cup InRun \cup Gone
    /\ blocked \in BOOLEAN /\ pending \in BOOLEAN
    /\ pid \in {-1, 1}
    /\ child \in Living \cup {"none", "zombie", "reaped"}
    /\ cblocked \in BOOLEAN /\ cdefault \in BOOLEAN /\ cpending \in BOOLEAN
    /\ fate \in Fates
    /\ late \in BOOLEAN

(* SIGINT is unblocked around getline and around the first waitid only. *)
Masked == bpc \notin {"getline", "read", "wait", "waited"} => blocked

(* Where the shell is, the frame that a jump from there needs is live. *)
Frames ==
    /\ pid = 1 <=> bpc \in InRun
    /\ bpc \in AtPrompt => env_input = "live"
    /\ bpc \in {"wait", "waited"} => env_run = "live"

(* A child that has been reaped is waited for again only by the handler,   *)
(* which has then run late, and has left SIGINT blocked.                   *)
Reaping ==
    /\ bpc \notin InRun => child \in {"none", "reaped"}
    /\ bpc = "setjmp" => child \in Living \cup {"zombie"}
    /\ bpc = "wait" => \/ child \in Living \cup {"zombie"}
                       \/ child = "reaped" /\ late /\ blocked
    /\ bpc = "waited" => child = "reaped"

(* The child sets SIGINT to its default before it unblocks it, and no      *)
(* signal is pending for a child that is no more.                          *)
ChildMask ==
    /\ child = "forked" => cblocked
    /\ child = "default" => cblocked /\ cdefault
    /\ child = "running" => cdefault
    /\ cpending => child \in Living

(* What the prompt says of a command. *)
Told(f) == IF f = "exited" THEN "ready" ELSE f

(* From the return of waitid to the prompt, child_info tells the fate. *)
InfoTrue == bpc \in {"waited", "main"} /\ ~late => PromptFor(info) = Told(fate)

BasicInv == BasicTypes /\ Masked /\ Frames /\ Reaping /\ ChildMask /\ InfoTrue

LEMMA SigInfoTells ==
    ASSUME NEW f \in Fates
    PROVE  PromptFor(SigInfo(f)) = Told(f)
  BY DEF PromptFor, SigInfo, Told, Fates

LEMMA BasicInvInit == BasicInit => BasicInv
<1> SUFFICES ASSUME BasicInit PROVE BasicInv
  OBVIOUS
<1>1. PromptFor(info) = Told(fate)
  BY DEF BasicInit, PromptFor, SigInfo, Told
<1>2. BasicTypes
  BY DEF BasicInit, BasicTypes, AtPrompt, InRun, Living, Fates, Gone
<1>3. Masked /\ Frames /\ Reaping /\ ChildMask
  BY DEF BasicInit, Masked, Frames, Reaping, ChildMask, AtPrompt, InRun
<1>4. QED
  BY <1>1, <1>2, <1>3 DEF BasicInv, InfoTrue

LEMMA BasicInductive == BasicInv /\ [BasicNext]_basicVars => BasicInv'
<1> SUFFICES ASSUME BasicInv, [BasicNext]_basicVars PROVE BasicInv'
  OBVIOUS
<1> USE DEF BasicInv, BasicTypes, Masked, Frames, Reaping, ChildMask, InfoTrue,
            AtPrompt, InRun, Living, Fates, Gone, childvars
<1>1. CASE HandleInput
  BY <1>1 DEF HandleInput
<1>2. CASE Unblock
  BY <1>2 DEF Unblock
<1>3. CASE GetLine
  BY <1>3 DEF GetLine
<1>4. CASE Block
  BY <1>4 DEF Block
<1>5. CASE Builtin
  <2>1. PromptFor(info') = Told(fate')
    BY <1>5, SigInfoTells DEF Builtin
  <2>2. QED
    BY <1>5, <2>1 DEF Builtin
<1>6. CASE Quit
  BY <1>6 DEF Quit
<1>7. CASE RunCmd
  BY <1>7 DEF RunCmd
<1>8. CASE SetJmp
  BY <1>8 DEF SetJmp
<1>9. CASE Wait
  <2>1. CASE child = "zombie"
    <3>1. PromptFor(info') = Told(fate')
      BY <1>9, <2>1, SigInfoTells DEF Wait
    <3>2. QED
      BY <1>9, <2>1, <3>1 DEF Wait
  <2>2. CASE child = "reaped"
    BY <1>9, <2>2 DEF Wait
  <2>3. QED
    BY <1>9, <2>1, <2>2 DEF Wait
<1>10. CASE EndRun
  BY <1>10 DEF EndRun
<1>11. CASE BasicHandler
  <2>1. CASE HandleAtPrompt
    <3>1. bpc \in {"getline", "read"} /\ bpc' = "input" /\ pid' = -1 /\ blocked'
      BY <1>11, <2>1 DEF BasicHandler, HandleAtPrompt
    <3>2. UNCHANGED <<child, cblocked, cdefault, cpending, fate, late, env_input>>
      BY <1>11, <2>1 DEF BasicHandler, HandleAtPrompt
    <3>3. QED
      BY <1>11, <3>1, <3>2 DEF BasicHandler
  <2>2. CASE HandleAtWait
    <3>1. bpc \in {"wait", "waited"} /\ bpc' = "wait" /\ pid' = 1 /\ blocked'
      BY <1>11, <2>2 DEF BasicHandler, HandleAtWait
    <3>2. /\ UNCHANGED <<child, cblocked, cdefault, fate, env_run>>
          /\ cpending' <=> child \notin {"zombie", "reaped"}
          /\ late' <=> child = "reaped"
      BY <1>11, <2>2 DEF BasicHandler, HandleAtWait
    <3>3. cpending' \in BOOLEAN /\ late' \in BOOLEAN /\ pending' \in BOOLEAN
      BY <1>11, <2>2 DEF BasicHandler, HandleAtWait
    <3>4. QED
      BY <3>1, <3>2, <3>3
  <2>3. QED
    BY <1>11, <2>1, <2>2 DEF BasicHandler
<1>12. CASE Interrupt
  BY <1>12 DEF Interrupt, shellvars
<1>13. CASE ChildDefault
  BY <1>13 DEF ChildDefault, shellvars
<1>14. CASE ChildUnblock
  BY <1>14 DEF ChildUnblock, shellvars
<1>15. CASE ChildExit
  BY <1>15 DEF ChildExit, shellvars
<1>16. CASE ChildInterrupted
  BY <1>16 DEF ChildInterrupted, shellvars
<1>17. CASE UNCHANGED basicVars
  BY <1>17 DEF basicVars, shellvars
<1>18. QED
  BY <1>1, <1>2, <1>3, <1>4, <1>5, <1>6, <1>7, <1>8, <1>9, <1>10, <1>11, <1>12,
     <1>13, <1>14, <1>15, <1>16, <1>17 DEF BasicNext, BasicShell, BasicChild

LEMMA BasicInvariant == BasicSpec => []BasicInv
  BY BasicInvInit, BasicInductive, PTL DEF BasicSpec

------------------------------------------------------------------------------
(***************************************************************************)
(* Wherever SIGINT finds the shell, handle_interrupt jumps into a live     *)
(* frame and kills no process but an unreaped child, save between the      *)
(* return of waitid and the blocking of SIGINT; the child never runs it.   *)
(***************************************************************************)
THEOREM HandlerCorrect == BasicSpec => []HandlerSafe
<1>1. BasicInv => HandlerSafe
  BY DEF BasicInv, BasicTypes, Masked, Frames, Reaping, ChildMask, HandlerSafe,
         AtPrompt, InRun, Living, Gone
<1>2. QED
  BY <1>1, BasicInvariant, PTL

(***************************************************************************)
(* Every prompt that handle_input prints tells how the last command ended, *)
(* unless the handler ran after that command was reaped, and is printed    *)
(* when no child is left.                                                  *)
(***************************************************************************)
THEOREM PromptCorrect == BasicSpec => PromptTellsFate
<1>1. ASSUME BasicInv, [BasicNext]_basicVars, bpc = "main", bpc' = "input"
      PROVE  /\ child \in {"none", "reaped"}
             /\ ~late => prompt' = (IF fate = "exited" THEN "ready" ELSE fate)
  <2>1. blocked /\ bpc \notin InRun
    BY <1>1 DEF BasicInv, Masked, InRun
  <2>2. HandleInput
    BY <1>1, <2>1 DEF BasicNext, BasicShell, BasicChild, Unblock, Block, GetLine, Builtin,
       Quit, RunCmd, SetJmp, Wait, EndRun, BasicHandler, Interrupt, ChildDefault,
       ChildUnblock, ChildExit, ChildInterrupted, basicVars, shellvars
  <2>3. QED
    BY <1>1, <2>1, <2>2 DEF HandleInput, BasicInv, Reaping, InfoTrue, Told
<1>2. QED
  BY <1>1, BasicInvariant, PTL DEF PromptTellsFate, BasicSpec
=============================================================================
