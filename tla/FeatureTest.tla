---------------------------- MODULE FeatureTest ----------------------------
(***************************************************************************)
(* The feature-test harness src/pkg/bkmonitorbeat/script/featuretest.py    *)
(* and the command it runs.                                                 *)
(*                                                                          *)
(* The harness starts a UDP, a TCP and an HTTP echo server, polls them      *)
(* once, starts the command with stdout=PIPE, and then serves the echo      *)
(* servers until the command has exited; only after that does it read the   *)
(* command's output, one JSON document per line.                            *)
(*                                                                          *)
(* The command (bkmonitorbeat with a test configuration) is the other       *)
(* process: for each of its probes it sends a request to one echo server,   *)
(* waits for the echo or gives up when its own probe timeout expires, and   *)
(* writes one result line to its stdout.  A write to a full pipe blocks     *)
(* until the reader takes something out.                                    *)
(*                                                                          *)
(* The script imports html, a module only Python 3 has, so the Python 3    *)
(* semantics apply: dict has no has_key.                                    *)
(***************************************************************************)
EXTENDS Integers, Sequences

CONSTANTS Probes,      \* the servers the command's probes talk to, in order
          PipeCap,     \* result lines the stdout pipe holds before a write
                       \* blocks (the pipe buffer over the line size)
          DryRun,      \* --dry-run
          ChildCodes   \* what process.poll() returns when the command
                       \* ended: its exit status, or -N after signal N

Servers == {"udp", "tcp", "http"}

ASSUME /\ Probes \in Seq(Servers)
       /\ PipeCap \in Nat \ {0}
       /\ DryRun \in BOOLEAN
       /\ ChildCodes \subseteq Int

VARIABLES hpc,        \* where main() is
          cpc,        \* where the command is: "send", "wait", "write",
                      \* "exited", or "none" before Popen
          k,          \* the command's current probe
          pending,    \* per server, the probes whose request it has not
                      \* handled yet (the socket's receive queue)
          echoed,     \* probes whose request the server answered
          avail,      \* "available" of the current probe's result
          pipe,       \* result lines in the stdout pipe, oldest first
          code,       \* the command's exit status once it exited
          status      \* the harness's exit status once it exited

vars == <<hpc, cpc, k, pending, echoed, avail, pipe, code, status>>

(* process.poll() before the command ended (None); not a status.          *)
NotExited == "none"

(* sys.exit(n) with an int: the operating system keeps n modulo 256.       *)
ExitStatus(n) == n % 256

Abs(n) == IF n < 0 THEN -n ELSE n

Init ==
    /\ hpc = "first_poll"
    /\ cpc = "none"
    /\ k = 1
    /\ pending = [s \in Servers |-> <<>>]
    /\ echoed = {}
    /\ avail = 0
    /\ pipe = <<>>
    /\ code = NotExited
    /\ status = NotExited

ChildVars == <<cpc, k, avail, code>>

-----------------------------------------------------------------------------
(***************************************************************************)
(* The harness                                                             *)
(***************************************************************************)

(* ServerManager.poll_and_do: select over the three servers, then each     *)
(* ready server handles one request (_handle_request_noblock): the echo    *)
(* handlers send the data back.  A poll that finds nothing ready changes   *)
(* nothing and is a stuttering step.                                        *)
PollAndDo(next) ==
    LET ready == {s \in Servers : pending[s] # <<>>}
    IN  /\ ready # {}
        /\ pending' = [s \in Servers |->
                          IF s \in ready THEN Tail(pending[s]) ELSE pending[s]]
        /\ echoed' = echoed \cup {Head(pending[s]) : s \in ready}
        /\ hpc' = next
        /\ UNCHANGED <<ChildVars, pipe, status>>

(* main(): the poll right after the servers are bound, before the command  *)
(* runs; nothing can be ready, so it only moves on.                         *)
FirstPoll ==
    /\ hpc = "first_poll"
    /\ hpc' = "spawn"
    /\ UNCHANGED <<ChildVars, pending, echoed, pipe, status>>

(* Popen(args.commands, stdout=PIPE): the command starts.                  *)
Spawn ==
    /\ hpc = "spawn"
    /\ hpc' = "loop"
    /\ cpc' = IF Len(Probes) > 0 THEN "send" ELSE "done_probes"
    /\ UNCHANGED <<k, avail, code, pending, echoed, pipe, status>>

(* while process.poll() is None: manager.poll_and_do(...)                  *)
ServeLoop ==
    /\ hpc = "loop"
    /\ cpc # "exited"
    /\ PollAndDo("loop")

(* process.poll() returned the status: manager.shutdown() closes the       *)
(* servers.                                                                 *)
Shutdown ==
    /\ hpc = "loop"
    /\ cpc = "exited"
    /\ hpc' = "check"
    /\ UNCHANGED <<ChildVars, pending, echoed, pipe, status>>

Exit(s) ==
    /\ hpc' = "done"
    /\ status' = s
    /\ UNCHANGED <<ChildVars, pending, echoed, pipe>>

(* if process.poll() != 0: sys.exit(-abs(process.poll())); with --dry-run   *)
(* main() returns and the status is 0.                                       *)
CheckStatus ==
    /\ hpc = "check"
    /\ \/ code # 0 /\ Exit(ExitStatus(-Abs(code)))
       \/ code = 0 /\ DryRun /\ Exit(0)
       \/ code = 0 /\ ~DryRun /\ hpc' = "read"
          /\ UNCHANGED <<ChildVars, pending, echoed, pipe, status>>

(* for i in process.stdout: json.loads(i), then info.has_key(...), which   *)
(* raises AttributeError on a Python 3 dict: the first line ends the       *)
(* harness with the traceback's status 1, so the fails count of the elif   *)
(* branch is never reached.  No line at all: sys.exit(fails) with 0.        *)
ReadOutput ==
    /\ hpc = "read"
    /\ \/ pipe # <<>> /\ Exit(1)
       \/ pipe = <<>> /\ Exit(0)

-----------------------------------------------------------------------------
(***************************************************************************)
(* The command                                                             *)
(***************************************************************************)

(* The probe sends its request to its echo server.                         *)
Send ==
    /\ cpc = "send"
    /\ pending' = [pending EXCEPT ![Probes[k]] = Append(@, k)]
    /\ cpc' = "wait"
    /\ UNCHANGED <<hpc, k, avail, code, echoed, pipe, status>>

(* The echo arrives: the probe is available.                               *)
Echo ==
    /\ cpc = "wait"
    /\ k \in echoed
    /\ avail' = 1
    /\ cpc' = "write"
    /\ UNCHANGED <<hpc, k, code, pending, echoed, pipe, status>>

(* The probe's own timeout expires before an echo: not available.          *)
ProbeTimeout ==
    /\ cpc = "wait"
    /\ k \notin echoed
    /\ avail' = 0
    /\ cpc' = "write"
    /\ UNCHANGED <<hpc, k, code, pending, echoed, pipe, status>>

(* The result line goes into the pipe; a full pipe blocks the write.       *)
WriteResult ==
    /\ cpc = "write"
    /\ Len(pipe) < PipeCap
    /\ pipe' = Append(pipe, avail)
    /\ k' = k + 1
    /\ cpc' = IF k < Len(Probes) THEN "send" ELSE "done_probes"
    /\ UNCHANGED <<hpc, avail, code, pending, echoed, status>>

(* The command exits with one of its statuses.                             *)
ChildExit ==
    /\ cpc = "done_probes"
    /\ \E c \in ChildCodes : code' = c
    /\ cpc' = "exited"
    /\ UNCHANGED <<hpc, k, avail, pending, echoed, pipe, status>>

-----------------------------------------------------------------------------
HarnessStep ==
    FirstPoll \/ Spawn \/ ServeLoop \/ Shutdown \/ CheckStatus \/ ReadOutput

ChildStep == Send \/ Echo \/ ProbeTimeout \/ WriteResult \/ ChildExit

Next == HarnessStep \/ ChildStep

Spec == Init /\ [][Next]_vars

(* The harness and the command are two processes the operating system     *)
(* schedules: each one that can take a step eventually does.               *)
FairSpec == Spec /\ WF_vars(HarnessStep) /\ WF_vars(ChildStep)

-----------------------------------------------------------------------------
(* Type invariant.                                                          *)
TypeOK ==
    /\ hpc \in {"first_poll", "spawn", "loop", "check", "read", "done"}
    /\ cpc \in {"none", "send", "wait", "write", "done_probes", "exited"}
    /\ k \in 1..Len(Probes) + 1
    /\ pending \in [Servers -> Seq(1..Len(Probes))]
    /\ echoed \subseteq 1..Len(Probes)
    /\ pipe \in Seq({0, 1}) /\ Len(pipe) <= PipeCap
    /\ code \in ChildCodes \cup {NotExited}
    /\ status \in 0..255 \cup {NotExited}

(* The harness ends: main() waits for the command to exit and then reads   *)
(* its output, so every run of featuretest.py terminates with a status.   *)
HarnessEnds == <>(hpc = "done")

=============================================================================
