----------------------------- MODULE Execution -----------------------------
(***************************************************************************)
(* RunTask: the setup and run scripts of a task on the nodes of a cluster, *)
(* for the cloud backend (internal/provisioner) and the existing, docker   *)
(* and local backends (internal/backend); the writers that cut the output  *)
(* into lines; and what the command line, the API server and a job make of *)
(* the result.  One task is run once.                                      *)
(*                                                                         *)
(* Output is a sequence of characters "x" and line ends "nl"; a script's   *)
(* standard output reaches the writer in chunks of any length.  Standard   *)
(* error has a writer of its own, which works the same way.                *)
(***************************************************************************)
EXTENDS Integers, Sequences, FiniteSetsExt, Sorting

CONSTANTS
    Backends,    \* a subset of {"cloud", "existing", "docker", "local"}
    Sizes,       \* numbers of nodes of a cloud cluster
    Texts,       \* what scripts may write
    MaxWait,     \* attempts of waitSSH before its deadline
    MaxFaults    \* bound: commands that cannot be run, connections that break

ASSUME ExecutionAssumption ==
    /\ Backends \subseteq {"cloud", "existing", "docker", "local"}
    /\ Sizes \subseteq Nat \ {0}
    /\ Texts \subseteq Seq({"x", "nl"})
    /\ MaxWait \in Nat
    /\ MaxFaults \in Nat

VARIABLES
    cfg,         \* the task, its backend and who runs it
    pc,          \* where RunTask is
    at,          \* the node waitSSH waits for, and its attempts
    proc,        \* the process of each node's current script
    ran,         \* ghost: the codes of the scripts that ended, by phase
    left,        \* nodes where a script may run on without its process
    result,      \* what RunTask returned
    cancelled,   \* is the context cancelled?
    faults

vars == <<cfg, pc, at, proc, ran, left, result, cancelled, faults>>

Config == [backend : Backends, nodes : Sizes, setup : BOOLEAN, run : BOOLEAN,
           workdir : BOOLEAN,
           text : Texts, client : {"cli", "server", "job"}]

NoProc == [st |-> "none", pos |-> 0, buf |-> <<>>, got |-> <<>>, code |-> 0, err |-> FALSE]

(* An exit code: of the script, of ssh when the connection breaks, of a killed
   process. *)
Code == {0, 1, 255, -1}

TypeOK ==
    /\ cfg \in Config
    /\ pc \in {"find", "ssh", "workdir", "setup", "run", "returned"}
    /\ at.node \in 1..(cfg.nodes + 1) /\ at.try \in 0..MaxWait
    /\ \A n \in 1..cfg.nodes :
         /\ proc[n].st \in {"none", "running", "ended"}
         /\ proc[n].pos \in 0..Len(cfg.text)
         /\ proc[n].code \in Code
    /\ left \subseteq 1..cfg.nodes
    /\ result \in [code : Code, err : BOOLEAN]
    /\ faults \in 0..MaxFaults

ExecStart ==
    /\ pc = "find"
    /\ at = [node |-> 1, try |-> 0]
    /\ proc = [n \in 1..cfg.nodes |-> NoProc]
    /\ ran = [setup |-> {}, run |-> {}]
    /\ left = {}
    /\ result = [code |-> 0, err |-> FALSE]
    /\ cancelled = FALSE
    /\ faults = 0

(* Only a cloud cluster has several nodes. *)
Init ==
    /\ cfg \in Config
    /\ cfg.backend # "cloud" => cfg.nodes = 1
    /\ ExecStart

Fault ==
    /\ faults < MaxFaults
    /\ faults' = faults + 1

Return(code, err) ==
    /\ pc' = "returned"
    /\ result' = [code |-> code, err |-> err]

-----------------------------------------------------------------------------
(* Lines *)

Ends(s) == {i \in DOMAIN s : s[i] = "nl"}

(* Where the line begins that goes up to position e. *)
LineStart(s, e) == 1 + Max({0} \cup {i \in Ends(s) : i < e})

LineAt(s, e) == SubSeq(s, LineStart(s, e), e - 1)

(* The lines that end at the positions E, in their order. *)
LinesAt(s, E) == [k \in DOMAIN Ascending(E) |-> LineAt(s, Ascending(E)[k])]

Lines(s) == LinesAt(s, Ends(s))

NonEmptyLines(s) == LinesAt(s, {e \in Ends(s) : LineAt(s, e) # <<>>})

(* What comes after the last line end. *)
Rest(s) == LineAt(s, Len(s) + 1)

(* backend.lineWriter: lines are cut from the buffer; empty ones are dropped,
   and the rest of the buffer waits for the next chunk. *)
lineWriter(p, chunk) ==
    LET s == p.buf \o chunk
    IN  [p EXCEPT !.got = @ \o NonEmptyLines(s), !.buf = Rest(s)]

(* provisioner.lineWriter: every chunk is scanned on its own. *)
streamWriter(p, chunk) ==
    [p EXCEPT !.got = @ \o Lines(chunk)
                        \o IF Rest(chunk) = <<>> THEN <<>> ELSE <<Rest(chunk)>>]

(* sshRun collects the output; at the end it is trimmed and split. *)
sshOutput(p) ==
    LET text == SubSeq(cfg.text, 1, p.pos)
        xs == {i \in DOMAIN text : text[i] # "nl"}
        trimmed == SubSeq(text, CHOOSE i \in xs : \A j \in xs : i <= j,
                                CHOOSE i \in xs : \A j \in xs : i >= j)
    IN  IF xs = {} THEN <<>> ELSE Lines(trimmed \o <<"nl">>)

-----------------------------------------------------------------------------
(* Processes *)

(* The nodes the current script runs on. *)
Targets == IF pc = "setup" /\ cfg.backend = "cloud" THEN 1..cfg.nodes ELSE {1}

(* cmd.Run starts the process; a command that cannot be run, or whose context
   is cancelled, is an error. *)
Start(n) ==
    /\ pc \in {"setup", "run"} /\ n \in Targets /\ proc[n].st = "none"
    /\ \/ /\ ~cancelled
          /\ proc' = [proc EXCEPT ![n].st = "running"]
          /\ UNCHANGED faults
       \/ /\ cancelled
          /\ proc' = [proc EXCEPT ![n].st = "ended", ![n].code = -1, ![n].err = TRUE]
          /\ UNCHANGED faults
       \/ /\ Fault
          /\ proc' = [proc EXCEPT ![n].st = "ended", ![n].code = -1, ![n].err = TRUE]
    /\ UNCHANGED <<cfg, pc, at, ran, left, result, cancelled>>

(* A chunk of output arrives at the writer of the backend. *)
Output(n, k) ==
    LET p == [proc[n] EXCEPT !.pos = @ + k]
        chunk == SubSeq(cfg.text, proc[n].pos + 1, proc[n].pos + k)
    IN  /\ proc[n].st = "running" /\ k \in 1..(Len(cfg.text) - proc[n].pos)
        /\ proc' = [proc EXCEPT ![n] =
             CASE cfg.backend = "cloud" -> streamWriter(p, chunk)
               [] cfg.backend = "existing" -> p
               [] OTHER -> lineWriter(p, chunk)]
        /\ UNCHANGED <<cfg, pc, at, ran, left, result, cancelled, faults>>

Ended(n, code) ==
    LET p == [proc[n] EXCEPT !.st = "ended", !.code = code]
    IN  /\ proc[n].st = "running"
        /\ proc' = [proc EXCEPT ![n] =
             IF cfg.backend = "existing" THEN [p EXCEPT !.got = sshOutput(p)] ELSE p]
        /\ ran' = [ran EXCEPT ![pc] = @ \cup {code}]
        /\ UNCHANGED <<cfg, pc, at, result, cancelled>>

(* The process of a script ends first: over ssh, or in a container, the script
   itself may go on. *)
Detached(n) == left' = left \/ (cfg.backend # "local" /\ left' = left \cup {n})

(* The script ends, and all it wrote has been read. *)
Exit(n, code) ==
    /\ proc[n].pos = Len(cfg.text)
    /\ code \in {0, 1}
    /\ Ended(n, code)
    /\ UNCHANGED <<left, faults>>

(* The connection breaks: ssh exits with 255. *)
Lost(n) ==
    /\ cfg.backend \in {"cloud", "existing"}
    /\ Fault
    /\ Ended(n, 255)
    /\ Detached(n)

(* CommandContext kills the process when the context is cancelled. *)
Killed(n) == cancelled /\ Ended(n, -1) /\ Detached(n) /\ UNCHANGED faults

(* A script that was left behind ends. *)
RemoteEnds(n) ==
    /\ n \in left
    /\ left' = left \ {n}
    /\ UNCHANGED <<cfg, pc, at, proc, ran, result, cancelled, faults>>

(* An interrupted command line; the request context of a job started with
   run_now.  The server's own runs have a context that is never cancelled. *)
Cancel ==
    /\ cfg.client # "server" /\ ~cancelled /\ pc # "returned"
    /\ cancelled' = TRUE
    /\ UNCHANGED <<cfg, pc, at, proc, ran, left, result, faults>>

-----------------------------------------------------------------------------
(* RunTask *)

NewProcs == [n \in 1..cfg.nodes |-> NoProc]

(* Manager.RunTask: forCluster; the cloud backend looks for the head and its
   address, existing for the ssh target. *)
Find ==
    /\ pc = "find"
    /\ \/ Fault /\ Return(-1, TRUE)
       \/ /\ pc' = IF cfg.backend = "cloud" THEN "ssh" ELSE "workdir"
          /\ UNCHANGED <<faults, result>>
    /\ UNCHANGED <<cfg, at, proc, ran, left, cancelled>>

(* Mutant: waitSSH has no deadline. *)
WaitSSHForever ==
    /\ pc = "ssh" /\ at.node <= cfg.nodes
    /\ \/ at' = [node |-> at.node + 1, try |-> 0]
       \/ at' = [at EXCEPT !.try = (@ + 1) % MaxWait]
    /\ UNCHANGED <<cfg, pc, proc, ran, left, result, cancelled, faults>>

(* waitAllSSH, waitSSH: node after node, until it answers, the deadline has
   passed or the context is cancelled. *)
WaitSSH ==
    /\ pc = "ssh" /\ at.node <= cfg.nodes
    /\ \/ /\ at' = [node |-> at.node + 1, try |-> 0]
          /\ UNCHANGED <<pc, result>>
       \/ /\ at.try < MaxWait /\ ~cancelled
          /\ at' = [at EXCEPT !.try = @ + 1]
          /\ UNCHANGED <<pc, result>>
       \/ /\ at.try = MaxWait \/ cancelled
          /\ Return(-1, TRUE)
          /\ UNCHANGED at
    /\ UNCHANGED <<cfg, proc, ran, left, cancelled, faults>>

SSHReady ==
    /\ pc = "ssh" /\ at.node > cfg.nodes
    /\ pc' = "workdir"
    /\ UNCHANGED <<cfg, at, proc, ran, left, result, cancelled, faults>>

(* copyDir of the cloud backend; the others say that they do not support it. *)
CopyDir ==
    /\ pc = "workdir"
    /\ \/ /\ cfg.workdir /\ cfg.backend = "cloud"
          /\ Fault \/ (cancelled /\ UNCHANGED faults)
          /\ Return(-1, TRUE)
          /\ UNCHANGED proc
       \/ /\ IF cfg.setup \/ cfg.run
             THEN /\ pc' = IF cfg.setup THEN "setup" ELSE "run"
                  /\ UNCHANGED result
             ELSE Return(0, FALSE)
          /\ proc' = NewProcs
          /\ UNCHANGED faults
    /\ UNCHANGED <<cfg, at, ran, left, cancelled>>

(* wg.Wait of runOnAllNodes; cmd.Run of a single node. *)
AllEnded == \A n \in Targets : proc[n].st = "ended"

(* Provisioner.RunTask looks at the error of a script, not at its exit code. *)
CloudScriptEnded ==
    /\ cfg.backend = "cloud" /\ pc \in {"setup", "run"} /\ AllEnded
    /\ IF \E n \in Targets : proc[n].err THEN Return(-1, TRUE) /\ UNCHANGED proc
       ELSE IF pc = "setup" /\ cfg.run
       THEN pc' = "run" /\ proc' = NewProcs /\ UNCHANGED result
       ELSE Return(0, FALSE) /\ UNCHANGED proc
    /\ UNCHANGED <<cfg, at, ran, left, cancelled, faults>>

(* Mutant: the exit code of setup is dropped. *)
NextScriptAnyway ==
    IF proc[1].err THEN Return(-1, TRUE) /\ UNCHANGED proc
    ELSE IF pc = "setup" /\ cfg.run
    THEN pc' = "run" /\ proc' = NewProcs /\ UNCHANGED result
    ELSE Return(proc[1].code, FALSE) /\ UNCHANGED proc

(* The other backends: an error, then a code that is not 0, ends RunTask. *)
NextScript ==
    IF proc[1].err THEN Return(-1, TRUE) /\ UNCHANGED proc
    ELSE IF pc = "setup" /\ cfg.run /\ proc[1].code = 0
    THEN pc' = "run" /\ proc' = NewProcs /\ UNCHANGED result
    ELSE Return(proc[1].code, FALSE) /\ UNCHANGED proc

DockerScriptEnded ==
    /\ cfg.backend = "docker" /\ pc \in {"setup", "run"} /\ AllEnded
    /\ NextScript
    /\ UNCHANGED <<cfg, at, ran, left, cancelled, faults>>

ExistingScriptEnded ==
    /\ cfg.backend = "existing" /\ pc \in {"setup", "run"} /\ AllEnded
    /\ NextScript
    /\ UNCHANGED <<cfg, at, ran, left, cancelled, faults>>

LocalScriptEnded ==
    /\ cfg.backend = "local" /\ pc \in {"setup", "run"} /\ AllEnded
    /\ NextScript
    /\ UNCHANGED <<cfg, at, ran, left, cancelled, faults>>

Script(n) ==
    \/ Start(n)
    \/ \E k \in 1..Len(cfg.text) : Output(n, k)
    \/ \E code \in {0, 1} : Exit(n, code)
    \/ Lost(n)
    \/ Killed(n)

RunTask ==
    \/ Find
    \/ WaitSSH
    \/ SSHReady
    \/ CopyDir
    \/ CloudScriptEnded
    \/ DockerScriptEnded
    \/ ExistingScriptEnded
    \/ LocalScriptEnded

Next ==
    \/ \E n \in 1..cfg.nodes : Script(n) \/ RemoteEnds(n)
    \/ RunTask
    \/ Cancel

Spec == Init /\ [][Next]_vars

(* The goroutine of RunTask goes on, and the scripts of the task end. *)
FairSpec ==
    /\ Spec
    /\ WF_vars(RunTask)
    /\ \A n \in 1..2 : WF_vars(n \in 1..cfg.nodes /\ Script(n))

-----------------------------------------------------------------------------
(* What callers make of the result: newLaunchCommand and jobs.runOnce; the
   server's goroutine drops it. *)

launchCommand == IF result.err \/ result.code # 0 THEN "error" ELSE "ok"

runOnce == IF result.err THEN "error" ELSE "ok"

Answer == IF cfg.client = "job" THEN runOnce ELSE launchCommand

(* Correctness *)

(* However the output of a script is cut into chunks, the docker and local
   backends stream exactly its terminated lines, empty ones left out. *)
LinesAreWhole ==
    cfg.backend \in {"docker", "local"} =>
        proc[1].got = NonEmptyLines(SubSeq(cfg.text, 1, proc[1].pos))

(* On existing, docker and local, a command line that reports success ran the
   scripts of the task, none failed, lost its connection or was killed, and none
   runs on. *)
SuccessIsTrue ==
    (pc = "returned" /\ cfg.backend # "cloud" /\ cfg.client = "cli" /\ launchCommand = "ok") =>
        /\ ran.run = IF cfg.run THEN {0} ELSE {}
        /\ ran.setup = IF cfg.setup THEN {0} ELSE {}
        /\ left = {}

(* "runs setup ... and the run command": outside the cloud, the run script does not
   start beside what a broken connection left of setup. *)
RunIsAlone ==
    (pc = "run" /\ cfg.backend # "cloud" /\ proc[1].st # "ended") => left = {}

(* What RunTask reports and goes on from is what the scripts did. *)
ReportIsTrue == LinesAreWhole /\ SuccessIsTrue /\ RunIsAlone

(* "task run exited with code %d": the launch command fails when the run script
   of the task did not exit with 0. *)
ExitCodeIsReported ==
    (pc = "returned" /\ cfg.client = "cli" /\ cfg.run /\ launchCommand = "ok") => ran.run = {0}
=============================================================================
