-------------------------------- MODULE Sh61 --------------------------------
(***************************************************************************)
(* The shell of src/processes/sh61.cc: main reads a line, parse_line turns *)
(* its tokens into a list of commands, and run_list runs it.  A chain that *)
(* ends in & is run by a forked subshell; rl_helper walks the list,        *)
(* creating pipes, running cd itself, forking every other command and     *)
(* waiting for it unless it feeds a pipe, and marks the next command not   *)
(* executable when && or || says so.                                       *)
(*                                                                         *)
(* The shell, its subshells and the commands they fork are processes that *)
(* run concurrently.  A command is one of a few programs, described by     *)
(* what it does with its standard input and output; pipes hold PIPE_CAP   *)
(* bytes, and a process holds the pipe ends it inherited at fork and has   *)
(* not closed.  Tokens are given already split (the tokenizer, shell_parser,*)
(* is not part of sh61.cc); a word is a program name, cd's argument, or a *)
(* file name.                                                              *)
(***************************************************************************)
EXTENDS Integers, Sequences, SequencesExt, FiniteSets

CONSTANTS
    Lines,      \* the command lines the script may hold, as token sequences
    MaxLines,   \* lines before end of file
    MaxCmds,    \* commands on a line
    PIPE_CAP,   \* bytes a pipe buffers before write blocks
    Out         \* bytes the program prod writes

\* The programs: true/false exit 0/1, maybe exits 0 or 2, prod writes Out
\* bytes to its standard output, wc reads its standard input to end of file.
Progs == {"true", "false", "maybe", "prod", "wc"}

-----------------------------------------------------------------------------
(* parse_line *)

NewCommand(w) ==
    [args |-> <<w>>, link |-> "SEQUENCE", file_i |-> "", file_o |-> "", error_f |-> ""]

RedirField == <<"file_i", "file_o", "error_f">>

\* One iteration of parse_line's token loop.  ccur is the last command while
\* it is open; an operator or a file name with ccur == nullptr dereferences
\* it, which crashes the shell.
ParseStep(p, t) ==
    LET last == Len(p.cmds) IN
    IF p.crash THEN p
    ELSE CASE t[1] = "NORMAL" /\ p.redir = 0 ->
                IF p.ccur THEN [p EXCEPT !.cmds[last].args = Append(@, t[2])]
                ELSE [p EXCEPT !.cmds = Append(@, NewCommand(t[2])), !.ccur = TRUE]
           [] t[1] = "NORMAL" ->
                IF ~p.ccur THEN [p EXCEPT !.crash = TRUE]
                ELSE [p EXCEPT !.cmds[last][RedirField[p.redir]] = t[2], !.redir = 0]
           [] t[1] = "REDIRECT_OP" ->
                [p EXCEPT !.redir = CASE t[2] = "<" -> 1
                                      [] t[2] = ">" -> 2
                                      [] t[2] = "2>" -> 3
                                      [] OTHER -> @]
           [] OTHER ->
                IF ~p.ccur THEN [p EXCEPT !.crash = TRUE]
                ELSE [p EXCEPT !.cmds[last].link = t[1], !.ccur = FALSE]

ParseLine(toks) ==
    FoldLeft(ParseStep, [cmds |-> <<>>, ccur |-> FALSE, redir |-> 0, crash |-> FALSE], toks)

-----------------------------------------------------------------------------
(* The command list *)

\* c->next as an index; 0 is nullptr.
NextOf(L, i) == IF i < Len(L) THEN i + 1 ELSE 0

\* The loop of chain_in_bg: the first command from i whose link is ; or &,
\* or 0 when it walks off the end of the list (a null dereference).
RECURSIVE ChainEnd(_, _)
ChainEnd(L, i) ==
    IF i = 0 THEN 0
    ELSE IF L[i].link \in {"SEQUENCE", "BACKGROUND"} THEN i
    ELSE ChainEnd(L, NextOf(L, i))

-----------------------------------------------------------------------------
(* Processes and pipes *)

Positions == (1 .. MaxLines) \X (1 .. MaxCmds)    \* command i of line k
Sh == <<0, 0, "sh", 0>>                            \* the shell itself
\* The subshell run_list forks for the chain that starts at command j.
Subs == (1 .. MaxLines) \X (1 .. MaxCmds) \X {"sub"} \X {0}
\* Command i of line k forked by the shell (j = 0) or by subshell j.
CmdIds == (1 .. MaxLines) \X (1 .. MaxCmds) \X {"cmd"} \X (0 .. MaxCmds)
Pids == CmdIds \cup Subs
PipeIds == Positions                               \* made at command i
NoPipe == <<0, 0>>
Ends == PipeIds \X {"r", "w"}

Proc(s, k, i) == <<k, i, "cmd", IF s = Sh THEN 0 ELSE s[2]>>

VARIABLES
    line,       \* line[k]: the commands parse_line built for line k
    sh,         \* the interpreters: the shell and its subshells
    procs,      \* the forked processes
    fds,        \* the pipe ends each process holds open
    pipes,      \* bytes in each pipe
    decided,    \* ghost: whether command i of line k ran or was skipped
    exitst      \* ghost: the status of each command that ran to a wait

vars == <<line, sh, procs, fds, pipes, decided, exitst>>

Holds(e) == \E x \in DOMAIN fds : e \in fds[x]

\* A wait status that is not a normal exit: killed by SIGPIPE.
SIGPIPE == 141

\* _exit: the process ends and its descriptors close.
Exit(p, code) ==
    /\ procs' = [procs EXCEPT ![p].st = "exit", ![p].code = code]
    /\ fds' = [fds EXCEPT ![p] = {}]

\* One step of a running program.  A write to a pipe nobody can read kills
\* the writer with SIGPIPE; wc sees end of file when the pipe is empty and
\* no one holds its write end.  The terminal and files never block.
ProgStep(p) ==
    LET r == procs[p] IN
    /\ r.st = "run"
    /\ \/ r.prog = "true" /\ Exit(p, 0) /\ UNCHANGED pipes
       \/ r.prog \in {"false", "exit1"} /\ Exit(p, 1) /\ UNCHANGED pipes
       \/ r.prog = "maybe" /\ \E code \in {0, 2} : Exit(p, code) /\ UNCHANGED pipes
       \/ r.prog = "prod" /\ r.left = 0 /\ Exit(p, 0) /\ UNCHANGED pipes
       \/ /\ r.prog = "prod" /\ r.left > 0
          /\ IF r.out \in PipeIds
             THEN IF ~Holds(<<r.out, "r">>) THEN Exit(p, SIGPIPE) /\ UNCHANGED pipes
                  ELSE /\ pipes[r.out] < PIPE_CAP
                       /\ pipes' = [pipes EXCEPT ![r.out] = @ + 1]
                       /\ procs' = [procs EXCEPT ![p].left = @ - 1]
                       /\ UNCHANGED fds
             ELSE procs' = [procs EXCEPT ![p].left = @ - 1] /\ UNCHANGED <<fds, pipes>>
       \/ /\ r.prog = "wc"
          /\ IF r.in \in PipeIds
             THEN \/ /\ pipes[r.in] > 0
                     /\ pipes' = [pipes EXCEPT ![r.in] = @ - 1]
                     /\ UNCHANGED <<procs, fds>>
                  \/ /\ pipes[r.in] = 0 /\ ~Holds(<<r.in, "w">>)
                     /\ Exit(p, 0) /\ UNCHANGED pipes
             ELSE Exit(p, 0) /\ UNCHANGED pipes
    /\ UNCHANGED <<line, sh, decided, exitst>>

\* command::run's child between fork and execvp: standard input and output
\* become the pipe ends (dup2, then close), redirect replaces them with
\* files (the pipe end it replaces closes), and a file that cannot be
\* opened, or a program that cannot be executed, makes the child _exit(1).
ChildOf(s, r, i) ==
    LET cmd == line[r.k][i]
        inP == r.pin[i]
        outP == r.pout[i]
    IN [st |-> "run", code |-> 0, parent |-> s, left |-> Out,
        prog |-> IF cmd.file_i = "nofile" \/ cmd.args[1] \notin Progs THEN "exit1"
                 ELSE cmd.args[1],
        in |-> IF cmd.file_i # "" THEN "file" ELSE IF inP # NoPipe THEN inP ELSE "tty",
        out |-> IF cmd.file_o # "" THEN "file" ELSE IF outP # NoPipe THEN outP ELSE "tty"]

Replaced(r, i) ==
    LET cmd == line[r.k][i] IN
    (IF cmd.file_i # "" THEN {<<r.pin[i], "r">>} ELSE {})
    \cup (IF cmd.file_o # "" THEN {<<r.pout[i], "w">>} ELSE {})

\* The interpreter's copy of the list, as rl_helper starts on it.  state is
\* uninitialised in the code; it is only read once it has been set.
Fresh(k, n) ==
    [pc |-> "list", k |-> k, c |-> IF n > 0 THEN 1 ELSE 0,
     exe |-> [i \in 1 .. n |-> TRUE], st |-> [i \in 1 .. n |-> 0],
     pin |-> [i \in 1 .. n |-> NoPipe], pout |-> [i \in 1 .. n |-> NoPipe]]

\* Faulty advance: || never makes the next command not executable.
AdvanceNoOr(r) ==
    LET L == line[r.k]
        n == NextOf(L, r.c)
    IN [r EXCEPT !.c = n, !.pc = "helper",
                 !.exe = IF n # 0 /\ L[r.c].link = "AND" /\ r.st[r.c] # 0
                         THEN [@ EXCEPT ![n] = FALSE] ELSE @]

\* The end of an rl_helper iteration: && after a failure, or || after a
\* success, makes the next command not executable; then c = c->next.
Advance(r) ==
    LET L == line[r.k]
        i == r.c
        n == NextOf(L, i)
    IN [r EXCEPT !.c = n, !.pc = "helper",
                 !.exe = IF /\ n # 0
                            /\ \/ L[i].link = "AND" /\ r.st[i] # 0
                               \/ L[i].link = "OR" /\ r.st[i] = 0
                         THEN [@ EXCEPT ![n] = FALSE] ELSE @]

\* waitpid(-1, 0, WNOHANG): reaps one exited child of the shell, if any.
Zombies == {p \in Pids : procs[p].st = "exit" /\ procs[p].parent = Sh}
ReapOne ==
    IF Zombies = {} THEN UNCHANGED procs
    ELSE \E z \in Zombies : procs' = [procs EXCEPT ![z].st = "reaped"]

\* Leaving the interpreter: run_list's subshell calls _exit(1) once
\* rl_helper returns.
SubExit(s) ==
    /\ procs' = [procs EXCEPT ![s].st = "exit", ![s].code = 1]
    /\ fds' = [fds EXCEPT ![s] = {}]

-----------------------------------------------------------------------------
(* rl_helper, one iteration per step *)

\* A command that && or || made not executable takes its predecessor's state.
Skip(s) ==
    LET r == sh[s] IN
    /\ r.pc = "helper" /\ r.c # 0 /\ ~r.exe[r.c]
    /\ sh' = [sh EXCEPT ![s] = Advance([r EXCEPT !.st[r.c] = r.st[r.c - 1]])]
    /\ decided' = [decided EXCEPT ![Proc(s, r.k, r.c)] = "skipped"]
    /\ UNCHANGED <<line, procs, fds, pipes, exitst>>

\* The pipe rl_helper creates for a command that feeds the next one.
Piped(r) ==
    LET L == line[r.k]
        i == r.c
        n == NextOf(L, i)
    IN IF L[i].link = "PIPE" /\ n # 0
       THEN [r EXCEPT !.pout[i] = <<r.k, i>>, !.pin[n] = <<r.k, i>>]
       ELSE r
NewEnds(r) ==
    IF Piped(r).pout[r.c] = <<r.k, r.c>> THEN {<<<<r.k, r.c>>, "r">>, <<<<r.k, r.c>>, "w">>}
    ELSE {}

\* cd runs in the shell: state = abs(chdir(args[1])).
Cd(s) ==
    LET r == sh[s]
        cmd == line[r.k][r.c]
        res == IF cmd.args[2] = "ok" THEN 0 ELSE 1
    IN /\ r.pc = "helper" /\ r.c # 0 /\ r.exe[r.c]
       /\ cmd.args[1] = "cd"
       /\ sh' = [sh EXCEPT ![s] = Advance([Piped(r) EXCEPT !.st[r.c] = res])]
       /\ fds' = [fds EXCEPT ![s] = @ \cup NewEnds(r)]
       /\ decided' = [decided EXCEPT ![Proc(s, r.k, r.c)] = "ran"]
       /\ exitst' = [exitst EXCEPT ![<<r.k, r.c>>] = res]
       /\ UNCHANGED <<line, procs, pipes>>

\* Faulty close: the parent keeps the write end it handed to the child.
ParentClosesRead(r, i) == {<<r.pin[i], "r">>}

\* command::run's parent closes the command's pipe ends once it has forked.
ParentCloses(r, i) == {<<r.pout[i], "w">>, <<r.pin[i], "r">>}

\* Faulty return: a command linked by & treated like one linked by ;.
ReturnsNever(L, i) == FALSE

\* rl_helper returns c->next after running a command linked by &.
Returns(L, i) == L[i].link = "BACKGROUND"

\* Faulty wait test: the last command of the list is not waited for.
MustWaitNotLast(L, i) ==
    LET n == NextOf(L, i) IN L[i].link # "PIPE" /\ n # 0

\* rl_helper's test for waiting: not when c feeds a pipe whose reader also
\* feeds a pipe.
MustWait(L, i) ==
    LET n == NextOf(L, i) IN ~(L[i].link = "PIPE" /\ n # 0 /\ L[n].link = "PIPE")

\* Any other executable command: command::run forks it with the pipe the
\* iteration created.  A command linked by & returns c->next from
\* rl_helper; otherwise the shell waits for it unless MustWait says no.
Start(s) ==
    LET r == sh[s]
        L == line[r.k]
        i == r.c
        r1 == Piped(r)
        p == Proc(s, r.k, i)
        held == fds[s] \cup NewEnds(r)
    IN /\ r.pc = "helper" /\ i # 0 /\ r.exe[i]
       /\ L[i].args[1] # "cd"
       /\ procs' = [procs EXCEPT ![p] = ChildOf(s, r1, i)]
       /\ decided' = [decided EXCEPT ![p] = "ran"]
       /\ fds' = [fds EXCEPT ![p] = held \ Replaced(r1, i),
                             ![s] = held \ ParentCloses(r1, i)]
       /\ \/ Returns(L, i) /\ sh' = [sh EXCEPT ![s] = [r1 EXCEPT !.pc = "list", !.c = NextOf(L, i)]]
          \/ ~Returns(L, i) /\ MustWait(L, i) /\ sh' = [sh EXCEPT ![s] = [r1 EXCEPT !.pc = "wait"]]
          \/ ~Returns(L, i) /\ ~MustWait(L, i) /\ sh' = [sh EXCEPT ![s] = Advance(r1)]
       /\ UNCHANGED <<line, pipes, exitst>>

\* A subshell whose rl_helper returned calls _exit(1).
SubDone(s) ==
    LET r == sh[s] IN
    /\ s # Sh /\ procs[s].st = "run"
    /\ r.pc = "list" \/ (r.pc = "helper" /\ r.c = 0)
    /\ SubExit(s)
    /\ UNCHANGED <<line, sh, pipes, decided, exitst>>

\* state = !(WIFEXITED(status) && WEXITSTATUS(status) == 0).
Status(code) == IF code = 0 THEN 0 ELSE 1

\* waitpid(c->pid, &status, 0) returns once the child has exited.
Wait(s) ==
    LET r == sh[s]
        p == Proc(s, r.k, r.c)
        res == Status(procs[p].code)
    IN /\ r.pc = "wait" /\ procs[p].st = "exit"
       /\ procs' = [procs EXCEPT ![p].st = "reaped"]
       /\ sh' = [sh EXCEPT ![s] = Advance([r EXCEPT !.st[r.c] = res])]
       /\ exitst' = [exitst EXCEPT ![<<r.k, r.c>>] = res]
       /\ UNCHANGED <<line, fds, pipes, decided>>

\* rl_helper reaches the end of the list; its closing loop starts from the
\* null c and closes nothing.  run_list's loop then ends.
End ==
    /\ sh[Sh].pc = "helper" /\ sh[Sh].c = 0
    /\ sh' = [sh EXCEPT ![Sh].pc = "list"]
    /\ UNCHANGED <<line, procs, fds, pipes, decided, exitst>>

-----------------------------------------------------------------------------
(* run_list and main *)

\* Faulty chain test: only the current command's own link is looked at.
ChainInBgHere(L, i) == L[i].link = "BACKGROUND"

\* chain_in_bg: the chain that starts at c ends in &.
ChainInBg(L, i) == LET e == ChainEnd(L, i) IN e # 0 /\ L[e].link = "BACKGROUND"

\* run_list at c: a chain that ends in & goes to a forked subshell, which
\* starts rl_helper at c with a copy of the list, and the shell skips past
\* the &; any other chain runs in rl_helper in the shell.
RunList ==
    LET r == sh[Sh]
        L == line[r.k]
        e == ChainEnd(L, r.c)
        sub == <<r.k, r.c, "sub", 0>>
    IN /\ r.pc = "list" /\ r.c # 0
       /\ \/ /\ ChainInBg(L, r.c)
             /\ sh' = [sh EXCEPT ![sub] = [r EXCEPT !.pc = "helper"],
                                 ![Sh].c = NextOf(L, e)]
             /\ procs' = [procs EXCEPT ![sub] = [@ EXCEPT !.st = "run", !.parent = Sh]]
             /\ fds' = [fds EXCEPT ![sub] = fds[Sh]]
          \/ /\ ~ChainInBg(L, r.c)
             /\ sh' = [sh EXCEPT ![Sh].pc = IF e = 0 THEN "segv" ELSE "helper"]
             /\ UNCHANGED <<procs, fds>>
       /\ UNCHANGED <<line, pipes, decided, exitst>>

\* The line has run: delete it, and waitpid(-1, 0, WNOHANG) once.
LineDone ==
    /\ sh[Sh].pc = "list" /\ sh[Sh].c = 0
    /\ sh' = [sh EXCEPT ![Sh].pc = "read"]
    /\ ReapOne
    /\ UNCHANGED <<line, fds, pipes, decided, exitst>>

\* main reads the next line and parse_line builds it, reaping one zombie
\* before it returns; a parse that dereferences nullptr crashes the shell.
\* At end of file main returns.
ReadLine ==
    /\ sh[Sh].pc = "read"
    /\ \/ /\ Len(line) < MaxLines
          /\ \E toks \in Lines :
               LET P == ParseLine(toks) IN
               /\ line' = Append(line, P.cmds)
               /\ sh' = [sh EXCEPT ![Sh] = IF P.crash THEN [@ EXCEPT !.pc = "segv"]
                                           ELSE Fresh(Len(line) + 1, Len(P.cmds))]
               /\ IF P.crash THEN UNCHANGED procs ELSE ReapOne
       \/ /\ Len(line) = MaxLines
          /\ sh' = [sh EXCEPT ![Sh].pc = "exit"]
          /\ UNCHANGED <<line, procs>>
    /\ UNCHANGED <<fds, pipes, decided, exitst>>

Init ==
    /\ line = <<>>
    /\ sh = [s \in {Sh} \cup Subs |->
               [pc |-> IF s = Sh THEN "read" ELSE "none", k |-> 0, c |-> 0,
                exe |-> <<>>, st |-> <<>>, pin |-> <<>>, pout |-> <<>>]]
    /\ procs = [p \in Pids |-> [st |-> "none", code |-> 0, parent |-> Sh, left |-> 0,
                                prog |-> "none", in |-> "tty", out |-> "tty"]]
    /\ fds = [x \in {Sh} \cup Pids |-> {}]
    /\ pipes = [q \in PipeIds |-> 0]
    /\ decided = [p \in CmdIds |-> "pending"]
    /\ exitst = [q \in Positions |-> 0]

Interp(s) == Skip(s) \/ Cd(s) \/ Start(s) \/ Wait(s) \/ SubDone(s)

ShellStep == Interp(Sh) \/ End \/ RunList \/ LineDone \/ ReadLine

Next ==
    \/ ShellStep
    \/ \E s \in Subs : Interp(s)
    \/ \E p \in CmdIds : ProgStep(p)

\* The OS runs every runnable process: the shell, each subshell and each
\* command.  Nothing more is assumed of the programs.
Spec ==
    /\ Init /\ [][Next]_vars
    /\ WF_vars(ShellStep)
    /\ \A s \in Subs : WF_vars(Interp(s))
    /\ \A p \in CmdIds : WF_vars(ProgStep(p))

-----------------------------------------------------------------------------
(* Properties *)

\* The first command of the pipeline that contains command i.
RECURSIVE PipeHead(_, _)
PipeHead(L, i) == IF i > 1 /\ L[i - 1].link = "PIPE" THEN PipeHead(L, i - 1) ELSE i

\* The interpreters that ran or skipped command i of line k.
Deciders(k, i) == {j \in 0 .. MaxCmds : decided[<<k, i, "cmd", j>>] # "pending"}
Ran(k, i) == \E j \in 0 .. MaxCmds : decided[<<k, i, "cmd", j>>] = "ran"

\* Each command of a line is run or skipped once, by one interpreter: the
\* subshell of a background chain stops at its &, and the shell skips the
\* chain.
RunsOnce == \A q \in Positions : Cardinality(Deciders(q[1], q[2])) <= 1

\* What a shell's && and || mean, stated over pipelines and the exit
\* statuses the commands really had: a pipeline after ; or & runs; after
\* && it runs when the and-or list so far has status 0, after || when it
\* has not; a pipeline that did not run leaves the status as it was.
RECURSIVE RefRuns(_, _, _), RefStatus(_, _, _)
RefRuns(L, k, i) ==
    LET h == PipeHead(L, i) IN
    IF h = 1 \/ L[h - 1].link \in {"SEQUENCE", "BACKGROUND"} THEN TRUE
    ELSE IF L[h - 1].link = "AND" THEN RefStatus(L, k, h - 1) = 0
    ELSE RefStatus(L, k, h - 1) # 0
RefStatus(L, k, j) ==
    IF RefRuns(L, k, j) THEN exitst[<<k, j>>]
    ELSE RefStatus(L, k, PipeHead(L, j) - 1)

\* rl_helper's executable flags and state propagation run exactly the
\* commands that the && / || semantics runs, whatever the programs' exit
\* statuses, cd's result and the interleaving of the processes.
ConditionalsFollowStatus ==
    \A k \in 1 .. Len(line) : \A i \in 1 .. Len(line[k]) :
        Deciders(k, i) # {} => (Ran(k, i) <=> RefRuns(line[k], k, i))

\* Command i belongs to a chain that ends in &.
InBg(L, i) == LET e == ChainEnd(L, i) IN e # 0 /\ L[e].link = "BACKGROUND"

\* When the shell prompts again (or reaches end of file), every command of a
\* foreground chain it started has exited: rl_helper's waitpid calls cover
\* every process of every foreground pipeline.
ForegroundDone ==
    sh[Sh].pc \in {"read", "exit"} =>
        \A p \in CmdIds :
            (/\ decided[p] = "ran" /\ p[4] = 0
             /\ line[p[1]][p[2]].args[1] # "cd" /\ ~InBg(line[p[1]], p[2]))
                => procs[p].st \in {"exit", "reaped"}

\* The shell itself never blocks in waitpid on a command of a chain that
\* ends in &: run_list hands every such chain to a forked subshell.
NoWaitOnBackground ==
    sh[Sh].pc = "wait" => ~InBg(line[sh[Sh].k], sh[Sh].c)

\* The shell runs every line of the script and reaches end of file: no
\* pipeline leaves it blocked in waitpid for ever.
Terminates == <>(sh[Sh].pc = "exit")

====
