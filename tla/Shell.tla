------------------------------- MODULE Shell --------------------------------
(***************************************************************************)
(* user/sh.c: a command line is parsed into a tree of commands, and the    *)
(* processes that run it share out pipes and files among themselves.       *)
(*                                                                         *)
(* A line is a sequence of tokens as gettoken() returns them: "a" is any   *)
(* word, "+" is >>.  Words and commands go by their places in the line, as *)
(* they do in the code, which keeps pointers into it.                      *)
(***************************************************************************)
EXTENDS Integers, Sequences, SequencesExt, FiniteSets, FiniteSetsExt, TLC

CONSTANTS
  CmdLines,  \* the lines that are typed
  MAXARGS

ASSUME ShellAssumption == MAXARGS \in Nat \ {0}

VARIABLES
  line,      \* chosen once
  tree,      \* what parsecmd() made of it: [ok, cmd, at]
  ended,     \* the words that nulterminate() has terminated
  proc,      \* the processes: [st, cmd, fd, todo, parent]
  runs,      \* history: the programs that were started
  broke      \* history: a system call failed

shVars == <<line, tree, ended, proc, runs, broke>>

-----------------------------------------------------------------------------
(* The commands, and what the parser returns; panic() ends the process.    *)

NoCmd == [type |-> "NONE"]
Execcmd(args) == [type |-> "EXEC", args |-> args]
Redircmd(c, r) ==
  [type |-> "REDIR", cmd |-> c, file |-> r.file, fd |-> IF r.tok = "<" THEN 0 ELSE 1]
Pipecmd(l, r, k) == [type |-> "PIPE", left |-> l, right |-> r, at |-> k]
Listcmd(l, r, k) == [type |-> "LIST", left |-> l, right |-> r, at |-> k]
Backcmd(c, k) == [type |-> "BACK", cmd |-> c, at |-> k]

Parsed(c, k) == [ok |-> TRUE, cmd |-> c, at |-> k]
Panic == [ok |-> FALSE, cmd |-> NoCmd, at |-> 0]
Then(r, F(_)) == IF r.ok THEN F(r) ELSE Panic

Peek(k, toks) == k \in DOMAIN line /\ line[k] \in toks

-----------------------------------------------------------------------------
(* The parser.                                                             *)

RECURSIVE Parseline(_), Parsepipe(_), Parseredirs(_), Words(_, _, _), Backs(_)

Parseredirs(k) ==
  CASE ~Peek(k, {"<", ">", "+"}) -> [ok |-> TRUE, list |-> <<>>, at |-> k]
    [] Peek(k, {"<", ">", "+"}) /\ ~Peek(k + 1, {"a"}) -> Panic
    [] OTHER -> LET redir == [file |-> k + 1, tok |-> line[k]]
                IN Then(Parseredirs(k + 2), LAMBDA r : [r EXCEPT !.list = <<redir>> \o @])

Redirected(c, list) == FoldLeft(Redircmd, c, list)

Parseblock(k) ==
  Then(Parseline(k + 1), LAMBDA c :
    IF ~Peek(c.at, {")"}) THEN Panic
    ELSE Then(Parseredirs(c.at + 1), LAMBDA r : Parsed(Redirected(c.cmd, r.list), r.at)))

(* The loop of parseexec(), with the words and redirections so far.        *)
Words(args, list, k) ==
  Then(Parseredirs(k), LAMBDA r :
    IF r.at > Len(line) \/ Peek(r.at, {"|", ")", "&", ";"})
    THEN Parsed(Redirected(Execcmd(args), list \o r.list), r.at)
    ELSE IF line[r.at] # "a" \/ Len(args) + 1 >= MAXARGS THEN Panic
    ELSE Words(Append(args, r.at), list \o r.list, r.at + 1))

Parseexec(k) == IF Peek(k, {"("}) THEN Parseblock(k) ELSE Words(<<>>, <<>>, k)

Parsepipe(k) ==
  Then(Parseexec(k), LAMBDA l :
    IF ~Peek(l.at, {"|"}) THEN l
    ELSE Then(Parsepipe(l.at + 1), LAMBDA r : Parsed(Pipecmd(l.cmd, r.cmd, l.at), r.at)))

Backs(c) ==
  IF Peek(c.at, {"&"}) THEN Backs(Parsed(Backcmd(c.cmd, c.at), c.at + 1)) ELSE c

Parseline(k) ==
  Then(Parsepipe(k), LAMBDA p :
    LET l == Backs(p)
    IN IF ~Peek(l.at, {";"}) THEN l
       ELSE Then(Parseline(l.at + 1), LAMBDA r : Parsed(Listcmd(l.cmd, r.cmd, l.at), r.at)))

RECURSIVE Nulterminate(_)
Nulterminate(c) ==
  CASE c.type = "EXEC" -> Range(c.args)
    [] c.type = "REDIR" -> Nulterminate(c.cmd) \cup {c.file}
    [] c.type \in {"PIPE", "LIST"} -> Nulterminate(c.left) \cup Nulterminate(c.right)
    [] c.type = "BACK" -> Nulterminate(c.cmd)

Parsecmd == Then(Parseline(1), LAMBDA c : IF c.at <= Len(line) THEN Panic ELSE c)

-----------------------------------------------------------------------------
(* Descriptors, which a process has for itself; of its NOFILE a few do.    *)

Closed == <<"none", 0>>
Tty == <<"tty", 0>>
AtStart == [d \in 0 .. 7 |-> IF d < 3 THEN Tty ELSE Closed]

Close(fd, d) == [fd EXCEPT ![d] = Closed]
Lowest(fd) == Min({d \in DOMAIN fd : fd[d] = Closed})
Open(fd, x) == [fd EXCEPT ![Lowest(fd)] = x]

(* pipe(p) for the pipe k, and close(p[0]), close(p[1]).                   *)
OpenPipe(fd, k) == Open(Open(fd, <<"r", k>>), <<"w", k>>)
CloseEnds(fd, k) ==
  [d \in DOMAIN fd |-> IF fd[d] \in {<<"r", k>>, <<"w", k>>} THEN Closed ELSE fd[d]]

(* In a child: close(d), dup(end), close(p[0]), close(p[1]).               *)
PipeEnd(fd, k, d, end) == Open(CloseEnds(Close(fd, d), k), <<end, k>>)

-----------------------------------------------------------------------------
(* runcmd(), one action for each type of command.                          *)

Process(c, fd, p) == [st |-> "run", cmd |-> c, fd |-> fd, todo |-> 0, parent |-> p]
Root == <<0, "left">>

At(p, type) == proc[p].st = "run" /\ proc[p].cmd.type = type
ShExit(p) == [proc EXCEPT ![p].st = "dead"]
ShWait(p, n, c) == [proc EXCEPT ![p].st = "wait", ![p].todo = n, ![p].cmd = c]

(* The process that main() has forked parses the line.                     *)
ShStart ==
  /\ proc = <<>>
  /\ tree' = Parsecmd
  /\ ended' = IF Parsecmd.ok THEN Nulterminate(Parsecmd.cmd) ELSE {}
  /\ LET p == Process(Parsecmd.cmd, AtStart, Root)
     IN proc' = (Root :> IF Parsecmd.ok THEN p ELSE [p EXCEPT !.st = "dead"])
  /\ UNCHANGED <<line, runs, broke>>

(* exit(), open(), fork(), pipe() or exec() fails.                         *)
ShFail(p) == proc' = ShExit(p) /\ broke' = TRUE /\ UNCHANGED <<line, tree, ended, runs>>

RunEmpty(p) ==
  /\ At(p, "EXEC") /\ proc[p].cmd.args = <<>>
  /\ proc' = ShExit(p)
  /\ UNCHANGED <<line, tree, ended, runs, broke>>

RunExec(p) ==
  /\ At(p, "EXEC") /\ proc[p].cmd.args # <<>>
  /\ \/ /\ proc' = [proc EXCEPT ![p].st = "program"]
        /\ runs' = runs \cup {proc[p].cmd.args}
        /\ UNCHANGED <<line, tree, ended, broke>>
     \/ ShFail(p)

RunRedir(p) ==
  LET c == proc[p].cmd
  IN /\ At(p, "REDIR")
     /\ \/ /\ proc' = [proc EXCEPT ![p].cmd = c.cmd,
                                   ![p].fd = Open(Close(@, c.fd), <<"file", c.file>>)]
           /\ UNCHANGED <<line, tree, ended, runs, broke>>
        \/ ShFail(p)

RunList(p) ==
  LET c == proc[p].cmd
  IN /\ At(p, "LIST")
     /\ \/ /\ proc' = (<<c.at, "left">> :> Process(c.left, proc[p].fd, p)) @@ ShWait(p, 1, c.right)
           /\ UNCHANGED <<line, tree, ended, runs, broke>>
        \/ ShFail(p)

(* The left side is forked, and with it what the pipe() has opened.        *)
RunPipe(p) ==
  LET c == proc[p].cmd
      fd == OpenPipe(proc[p].fd, c.at)
  IN /\ At(p, "PIPE")
     /\ \/ /\ proc' = (<<c.at, "left">> :> Process(c.left, PipeEnd(fd, c.at, 1, "w"), p))
                      @@ [proc EXCEPT ![p].st = "fork", ![p].fd = fd]
           /\ UNCHANGED <<line, tree, ended, runs, broke>>
        \/ ShFail(p)

(* The right side, with both ends still open here.                         *)
RunPipeRight(p) ==
  LET c == proc[p].cmd
  IN /\ proc[p].st = "fork"
     /\ \/ /\ proc' = (<<c.at, "right">> :> Process(c.right, PipeEnd(proc[p].fd, c.at, 0, "r"), p))
                      @@ [proc EXCEPT ![p].st = "close"]
           /\ UNCHANGED <<line, tree, ended, runs, broke>>
        \/ ShFail(p)

(* Mutant: the shell keeps the end for writing.                            *)
RunPipeKeepsEnd(p) ==
  LET k == proc[p].cmd.at
  IN /\ proc[p].st = "close"
     /\ proc' = [ShWait(p, 2, NoCmd) EXCEPT ![p].fd = Open(CloseEnds(@, k), <<"w", k>>)]
     /\ UNCHANGED <<line, tree, ended, runs, broke>>

RunPipeClose(p) ==
  /\ proc[p].st = "close"
  /\ proc' = [ShWait(p, 2, NoCmd) EXCEPT ![p].fd = CloseEnds(@, proc[p].cmd.at)]
  /\ UNCHANGED <<line, tree, ended, runs, broke>>

RunBack(p) ==
  LET c == proc[p].cmd
  IN /\ At(p, "BACK")
     /\ \/ /\ proc' = (<<c.at, "left">> :> Process(c.cmd, proc[p].fd, p)) @@ ShExit(p)
           /\ UNCHANGED <<line, tree, ended, runs, broke>>
        \/ ShFail(p)

(* wait(0) takes any child that is dead.                                   *)
CanReap(p, z) == proc[p].st = "wait" /\ z # Root /\ proc[z].parent = p /\ proc[z].st = "dead"

RunWait(p) ==
  \E z \in DOMAIN proc :
    LET q == proc[p]
        goOn == IF q.todo > 1 THEN "wait" ELSE IF q.cmd = NoCmd THEN "dead" ELSE "run"
    IN /\ CanReap(p, z)
       /\ proc' = [r \in DOMAIN proc \ {z} |->
                     IF r = p THEN [q EXCEPT !.todo = @ - 1, !.st = goOn] ELSE proc[r]]
       /\ UNCHANGED <<line, tree, ended, runs, broke>>

(* A program that reads a pipe reads until nobody can write to it.         *)
CanEnd(p) ==
  LET in == proc[p].fd[0]
  IN /\ proc[p].st = "program"
     /\ in[1] = "r" => \A q \in DOMAIN proc :
                         proc[q].st = "dead" \/ <<"w", in[2]>> \notin Range(proc[q].fd)

ProgramEnds(p) == CanEnd(p) /\ proc' = ShExit(p) /\ UNCHANGED <<line, tree, ended, runs, broke>>

-----------------------------------------------------------------------------
ShInit(lines) ==
  /\ line \in lines
  /\ tree = Panic /\ ended = {} /\ proc = <<>> /\ runs = {} /\ broke = FALSE

ShStep(p) ==
  \/ RunEmpty(p) \/ RunExec(p) \/ RunRedir(p) \/ RunList(p) \/ RunBack(p)
  \/ RunPipe(p) \/ RunPipeRight(p) \/ RunPipeClose(p) \/ RunWait(p) \/ ProgramEnds(p)

ShNext == ShStart \/ \E p \in DOMAIN proc : ShStep(p)

ShSpec == ShInit(CmdLines) /\ [][ShNext]_shVars

-----------------------------------------------------------------------------
(* Properties.                                                             *)

(* The grammar, as the trees that the tokens i .. j - 1 may stand for.     *)
RECURSIVE LineTrees(_, _), BackTrees(_, _), PipeTrees(_, _)

Of(t, i, j) == {k \in i .. j - 1 : line[k] = t}
RedirsIn(i, j) == {k \in i .. j - 1 : line[k] \in {"<", ">", "+"}}

SimpleTrees(i, j) ==
  LET redirs == RedirsIn(i, j)
      files == {k + 1 : k \in redirs}
      args == Of("a", i, j) \ files
      list == [n \in 1 .. Cardinality(redirs) |->
                 LET k == SetToSortSeq(redirs, <)[n] IN [file |-> k + 1, tok |-> line[k]]]
  IN IF /\ redirs \cup Of("a", i, j) = i .. j - 1 /\ files \subseteq Of("a", i, j)
        /\ Cardinality(args) < MAXARGS
     THEN {FoldLeft(Redircmd, Execcmd(SetToSortSeq(args, <)), list)} ELSE {}

BlockTrees(i, j) ==
  UNION {LET list == [n \in 1 .. (j - k - 1) \div 2 |->
                        [file |-> k + 2 * n, tok |-> line[k + 2 * n - 1]]]
         IN IF (j - k) % 2 = 1 /\ \A n \in DOMAIN list :
                 list[n].tok \in {"<", ">", "+"} /\ line[list[n].file] = "a"
            THEN {FoldLeft(Redircmd, c, list) : c \in LineTrees(i + 1, k)} ELSE {} :
         k \in IF i < j /\ line[i] = "(" THEN Of(")", i, j) ELSE {}}

PipeTrees(i, j) ==
  LET exec(a, b) == SimpleTrees(a, b) \cup BlockTrees(a, b)
  IN exec(i, j) \cup UNION {{Pipecmd(l, r, k) : l \in exec(i, k), r \in PipeTrees(k + 1, j)} :
                            k \in Of("|", i, j)}

BackTrees(i, j) ==
  PipeTrees(i, j) \cup
  {Backcmd(c, j - 1) : c \in IF i < j /\ line[j - 1] = "&" THEN BackTrees(i, j - 1) ELSE {}}

LineTrees(i, j) ==
  BackTrees(i, j) \cup UNION {{Listcmd(l, r, k) : l \in BackTrees(i, k), r \in LineTrees(k + 1, j)} :
                              k \in Of(";", i, j)}

(* The programs that a command waits for; those that it starts, with what  *)
(* their descriptors are and which programs must have ended before.        *)
RECURSIVE Fore(_), Meaning(_, _, _)
Fore(c) ==
  CASE c.type = "EXEC" -> {c.args}
    [] c.type = "REDIR" -> Fore(c.cmd)
    [] c.type \in {"PIPE", "LIST"} -> Fore(c.left) \cup Fore(c.right)
    [] c.type = "BACK" -> {}

Meaning(c, fd, before) ==
  CASE c.type = "EXEC" ->
         IF c.args = <<>> THEN {} ELSE {[args |-> c.args, fd |-> fd, before |-> before]}
    [] c.type = "REDIR" -> Meaning(c.cmd, [fd EXCEPT ![c.fd] = <<"file", c.file>>], before)
    [] c.type = "LIST" ->
         Meaning(c.left, fd, before) \cup Meaning(c.right, fd, before \cup Fore(c.left))
    [] c.type = "PIPE" ->
         Meaning(c.left, [fd EXCEPT ![1] = <<"w", c.at>>], before)
         \cup Meaning(c.right, [fd EXCEPT ![0] = <<"r", c.at>>], before)
    [] c.type = "BACK" -> Meaning(c.cmd, fd, before)

(* The shell accepts exactly the lines that the grammar derives, each of   *)
(* which has one tree, and starts the programs of that tree.  Each has its *)
(* words terminated, its input and output where the line says, and no      *)
(* other end of a pipe, which would keep a reader from the end of its      *)
(* input; with ; it starts after what stands to the left, other than what  *)
(* runs in the background, has ended.  Not all that is left is waiting for *)
(* children that do not exist or for the end of a pipe that one of them    *)
(* could still write to, whatever has failed; and when everything has      *)
(* ended, every program has run, unless a system call failed.              *)
ShellExact ==
  proc # <<>> =>
    LET trees == LineTrees(1, Len(line) + 1)
        meant == UNION {Meaning(c, AtStart, {}) : c \in trees}
        running == {p \in DOMAIN proc : proc[p].st = "program"}
    IN /\ trees = IF tree.ok THEN {tree.cmd} ELSE {}
       /\ tree.ok => ended = Of("a", 1, Len(line) + 1)
       /\ \A p \in running : \E e \in meant :
            /\ e.args = proc[p].cmd.args /\ e.fd = proc[p].fd
            /\ broke \/ \A q \in running : proc[q].cmd.args \notin e.before
       /\ (\A p \in DOMAIN proc : /\ proc[p].st \in {"dead", "wait", "program"}
                                  /\ ~CanEnd(p) /\ \A z \in DOMAIN proc : ~CanReap(p, z)) =>
            /\ \A p \in DOMAIN proc : proc[p].st = "dead"
            /\ broke \/ runs = {e.args : e \in meant}
=============================================================================
