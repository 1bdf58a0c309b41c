------------------------------ MODULE LogPipes -------------------------------
(* How the output of commands gets into the log of a project: the pipes and   *)
(* reader threads of AsyncLogging and the filter that hands a record to the   *)
(* handlers of a thread (elbepack/log.py), run() (elbepack/shellhelper.py),   *)
(* and the process of the package cache, which is forked while pipes are open *)
(* (elbepack/rpcaptcache.py).                                                 *)
(*                                                                            *)
(* Two threads run commands: the worker, with handlers for the project of its *)
(* job, and the one that serves SOAP requests, which has none for projects.   *)
EXTENDS Integers, FiniteSets, SequencesExt

CONSTANTS
    Worker, Soap,            \* the threads
    MaxJobs,                 \* bound: jobs
    Parent, Command, Daemon, \* who holds the write end of a pipe, besides cache processes
    Outputs,                 \* what a command may print
    CacheOutputs,            \* what a cache process may print
    AtMost,                  \* bytes of one os.read
    PipeSize,                \* bytes a pipe holds
    MaxRuns, MaxCaches       \* bounds: commands, cache processes

\* Bytes are numbers; a character is one of them, or Lead and Trail together.
NL == 0
Lead == 2
Trail == 3
Replaced == 4                \* U+FFFD, which the decoder puts in the place of half a character
Threads == {Worker, Soap}
\* Jobs are numbered in the order of their requests, which is that of the queue.
Jobs == 1..MaxJobs
NoJob == 0
\* A pipe is named after the thread whose command prints into it, or after the
\* job whose cache process does.  So is that process.
Pipes == Threads \union Jobs

ASSUME LogPipesAssumption ==
    /\ MaxJobs \in Nat /\ MaxRuns \in Nat /\ AtMost \in Nat \ {0} /\ PipeSize \in Nat \ {0}
    /\ Outputs \union CacheOutputs \subseteq Seq(Nat)
    /\ Worker # Soap /\ Threads \intersect Jobs = {}
    /\ Parent \notin Jobs /\ Command \notin Jobs /\ Parent # Command

VARIABLES
    requested,     \* jobs requested; those after `job' are in the queue of the worker
    job,           \* variable `job' of AsyncWorker.run
    handler,       \* job with whose handlers the worker logs, or NoJob
    pc,            \* where a thread is
    ran,           \* ghost: job and output of every command
    current,       \* thread -> number of its command in ran
    toprint,       \* pipe -> what its process has still to print
    leaves,        \* thread -> its command leaves a process behind that holds stdout
    holders,       \* pipe -> holders of its write end
    pipe,          \* pipe -> what waits in it
    reader,        \* pipe -> state of its AsyncLogging thread
    cache,         \* jobs whose cache process lives
    caches,        \* cache processes started
    log, echo      \* job -> blocks in its log.txt, lines sent to its clients

jobvars == <<requested, job, handler>>
runvars == <<ran, current, leaves>>
pipevars == <<toprint, holders, pipe, reader>>
logvars == <<log, echo>>
vars == <<jobvars, pc, runvars, pipevars, cache, caches, logvars>>

Closed == [alive |-> FALSE, lines |-> <<>>, rest |-> <<>>]
Started == [Closed EXCEPT !.alive = TRUE]

Init ==
    /\ requested = 0 /\ job = NoJob /\ handler = NoJob
    /\ pc = [t \in Threads |-> IF t = Worker THEN "get" ELSE "idle"]
    /\ ran = <<>> /\ current = [t \in Threads |-> 0] /\ leaves = [t \in Threads |-> FALSE]
    /\ toprint = [p \in Pipes |-> <<>>] /\ holders = [p \in Pipes |-> {}]
    /\ pipe = [p \in Pipes |-> <<>>] /\ reader = [p \in Pipes |-> Closed]
    /\ cache = {} /\ caches = 0
    /\ log = [j \in Jobs |-> <<>>] /\ echo = [j \in Jobs |-> <<>>]
-----------------------------------------------------------------------------
(* The worker and its jobs.                                                  *)
Enqueue ==
    /\ pc[Soap] = "idle" /\ requested < MaxJobs
    /\ requested' = requested + 1
    /\ UNCHANGED <<job, handler, pc, runvars, pipevars, cache, caches, logvars>>

\* The last reference to a cache goes: its process is told to end, and
\* alog.shutdown closes the write end. Nobody joins the reader.
Dropped(j) ==
    /\ cache' = cache \ {j}
    /\ toprint' = IF j \in cache THEN [toprint EXCEPT ![j] = <<>>] ELSE toprint
    /\ holders' = IF j \in cache
                  THEN [p \in Pipes |-> holders[p] \ (IF p = j THEN {j, Parent} ELSE {j})]
                  ELSE holders

\* Only when the next job is assigned to `job' the last one is let go.
TakeJob ==
    /\ pc[Worker] = "get" /\ job < requested
    /\ job' = job + 1
    /\ Dropped(job)
    /\ pc' = [pc EXCEPT ![Worker] = "open"]
    /\ UNCHANGED <<requested, handler, runvars, pipe, reader, caches, logvars>>

OpenLog ==
    /\ pc[Worker] = "open"
    /\ handler' = job
    /\ pc' = [pc EXCEPT ![Worker] = "idle"]
    /\ UNCHANGED <<requested, job, runvars, pipevars, cache, caches, logvars>>

\* execute returns or raises: the handlers are removed either way.
CloseLog ==
    /\ pc[Worker] = "idle"
    /\ handler' = NoJob
    /\ pc' = [pc EXCEPT ![Worker] = "get"]
    /\ UNCHANGED <<requested, job, runvars, pipevars, cache, caches, logvars>>

\* get_rpcaptcache: the cache process is a fork of the daemon, which keeps the
\* write end of every pipe that is open in it at that moment.
StartCache ==
    /\ pc[Worker] = "idle" /\ job \notin cache /\ ~reader[job].alive
    /\ caches < MaxCaches /\ caches' = caches + 1
    /\ cache' = cache \union {job}
    /\ \E o \in CacheOutputs : toprint' = [toprint EXCEPT ![job] = o]
    /\ holders' = [p \in Pipes |->
          IF p = job THEN {Parent, job}
          ELSE IF Parent \in holders[p] THEN holders[p] \union {job} ELSE holders[p]]
    /\ pipe' = [pipe EXCEPT ![job] = <<>>]
    /\ reader' = [reader EXCEPT ![job] = Started]
    /\ UNCHANGED <<jobvars, pc, runvars, logvars>>

\* drop_rpcaptcache
DropCache ==
    /\ pc[Worker] = "idle" /\ job \in cache
    /\ Dropped(job)
    /\ UNCHANGED <<jobvars, pc, runvars, pipe, reader, caches, logvars>>
-----------------------------------------------------------------------------
(* run(), of either thread.                                                  *)

\* async_logging_ctx and Popen: the command holds its own pipe only.
Start(t) ==
    /\ pc[t] = "idle" /\ Len(ran) < MaxRuns
    /\ \E o \in Outputs, d \in BOOLEAN :
          /\ ran' = Append(ran, [job |-> IF t = Worker THEN handler ELSE NoJob, output |-> o])
          /\ toprint' = [toprint EXCEPT ![t] = o]
          /\ leaves' = [leaves EXCEPT ![t] = d]
    /\ current' = [current EXCEPT ![t] = Len(ran) + 1]
    /\ holders' = [holders EXCEPT ![t] = {Parent, Command}]
    /\ pipe' = [pipe EXCEPT ![t] = <<>>]
    /\ reader' = [reader EXCEPT ![t] = Started]
    /\ pc' = [pc EXCEPT ![t] = "running"]
    /\ UNCHANGED <<jobvars, cache, caches, logvars>>

\* A command or a cache process prints; it waits when the pipe is full.
Write(p) ==
    /\ toprint[p] # <<>> /\ Len(pipe[p]) < PipeSize
    /\ pipe' = [pipe EXCEPT ![p] = Append(@, Head(toprint[p]))]
    /\ toprint' = [toprint EXCEPT ![p] = Tail(@)]
    /\ UNCHANGED <<jobvars, pc, runvars, holders, reader, cache, caches, logvars>>

Exit(t) ==
    /\ pc[t] = "running" /\ toprint[t] = <<>>
    /\ holders' = [holders EXCEPT ![t] = (@ \ {Command}) \union IF leaves[t] THEN {Daemon} ELSE {}]
    /\ pc' = [pc EXCEPT ![t] = "exited"] /\ leaves' = [leaves EXCEPT ![t] = FALSE]
    /\ UNCHANGED <<jobvars, ran, current, toprint, pipe, reader, cache, caches, logvars>>

\* Mutant: the write end is left open.
Shutdown_KeepsOpen(t) ==
    /\ pc[t] = "exited"
    /\ pc' = [pc EXCEPT ![t] = "join"]
    /\ UNCHANGED <<jobvars, runvars, pipevars, cache, caches, logvars>>

\* async_logging_ctx, at its end and when run() raises: close the write end ...
Shutdown(t) ==
    /\ pc[t] = "exited"
    /\ holders' = [holders EXCEPT ![t] = @ \ {Parent}]
    /\ pc' = [pc EXCEPT ![t] = "join"]
    /\ UNCHANGED <<jobvars, runvars, toprint, pipe, reader, cache, caches, logvars>>

\* Mutant: the reader thread is not waited for.
Join_NoWait(t) ==
    /\ pc[t] = "join"
    /\ pc' = [pc EXCEPT ![t] = "idle"]
    /\ UNCHANGED <<jobvars, runvars, pipevars, cache, caches, logvars>>

\* ... and wait for the reader.
Join(t) ==
    /\ pc[t] = "join" /\ ~reader[t].alive
    /\ pc' = [pc EXCEPT ![t] = "idle"]
    /\ UNCHANGED <<jobvars, runvars, pipevars, cache, caches, logvars>>

-----------------------------------------------------------------------------
(* AsyncLogging.run. A record carries the thread that made the pipe, and goes *)
(* to the handlers that thread has when the record is logged.                 *)
Record(store, p, text) ==
    LET j == IF p = Soap THEN NoJob ELSE handler
        r == [run |-> IF p \in Threads THEN current[p] ELSE 0, text |-> text]
    IN IF j = NoJob THEN store ELSE [store EXCEPT ![j] = Append(@, r)]

\* The position of the last newline, or 0.
LastNL(text) == SelectLastInSeq(text, LAMBDA c : c = NL)
Lines(text) == SubSeq(text, 1, LastNL(text))
Rest(text) == SubSeq(text, LastNL(text) + 1, Len(text))

\* What one os.read returned is decoded for itself, with errors='replace'.
Whole(bytes, i) ==
    /\ bytes[i] = Lead => i < Len(bytes) /\ bytes[i + 1] = Trail
    /\ bytes[i] = Trail => i > 1 /\ bytes[i - 1] = Lead
Decode(bytes) == [i \in DOMAIN bytes |-> IF Whole(bytes, i) THEN bytes[i] ELSE Replaced]

\* os.read returns what there is. Complete lines are echoed, joined by newlines
\* (no output here has the terminal sequences that the echo leaves out).
Read(p) ==
    /\ reader[p].alive /\ pipe[p] # <<>>
    /\ LET n == IF Len(pipe[p]) < AtMost THEN Len(pipe[p]) ELSE AtMost
           buf == reader[p].rest \o Decode(SubSeq(pipe[p], 1, n))
           new == Lines(buf)
       IN /\ pipe' = [pipe EXCEPT ![p] = SubSeq(@, n + 1, Len(@))]
          /\ reader' = [reader EXCEPT ![p].lines = @ \o new, ![p].rest = Rest(buf)]
          /\ echo' = IF new = <<>> THEN echo ELSE Record(echo, p, Front(new))
    /\ UNCHANGED <<jobvars, pc, runvars, toprint, holders, cache, caches, log>>

\* The pipe broke: the block is logged, an incomplete line at the end of the
\* last complete one. Without a complete line there is no block.
EndOfFile(p) ==
    /\ reader[p].alive /\ pipe[p] = <<>> /\ holders[p] = {}
    /\ reader' = [reader EXCEPT ![p] = Closed]
    /\ log' = IF reader[p].lines = <<>> THEN log
              ELSE Record(log, p, Front(reader[p].lines) \o reader[p].rest)
    /\ UNCHANGED <<jobvars, pc, runvars, toprint, holders, pipe, cache, caches, echo>>
-----------------------------------------------------------------------------
Run(t) == Start(t) \/ Exit(t) \/ Shutdown(t) \/ Join(t)
Next ==
    \/ Enqueue \/ TakeJob \/ OpenLog \/ CloseLog \/ StartCache \/ DropCache
    \/ \E t \in Threads : Run(t)
    \/ \E p \in Pipes : Write(p) \/ Read(p) \/ EndOfFile(p)

Spec == Init /\ [][Next]_vars

\* Commands end (as JobsFinish of ElbeDaemon assumes), and the threads run.
FairSpec ==
    /\ Spec
    /\ WF_vars(OpenLog)
    /\ \A t \in Threads : WF_vars(Exit(t)) /\ WF_vars(Shutdown(t)) /\ WF_vars(Join(t))
    /\ \A p \in Pipes : WF_vars(Write(p)) /\ WF_vars(Read(p)) /\ WF_vars(EndOfFile(p))
-----------------------------------------------------------------------------
Returned(r) == \A t \in Threads : current[t] = r => pc[t] \notin {"running", "exited", "join"}
\* The blocks of command r in a log, and the lines of it that were sent.
Blocks(store, r) ==
    FlattenSeq([k \in DOMAIN store |->
                   IF store[k].run = r THEN <<store[k].text>> ELSE <<>>])
Sent(store, r) ==
    FlattenSeq([k \in DOMAIN store |->
                   IF store[k].run = r THEN Append(store[k].text, NL) ELSE <<>>])

\* What a reader may make of an output: halves of characters may be replaced.
Halves(output) == {i \in DOMAIN output : output[i] \in {Lead, Trail}}
Readings(output) ==
    {[i \in DOMAIN output |-> IF i \in cut THEN Replaced ELSE output[i]] :
        cut \in SUBSET Halves(output)}

LoggedAs(r, text) ==
    \A j \in Jobs :
       IF j = ran[r].job
       THEN /\ Blocks(log[j], r) = IF NL \in ToSet(text)
                                   THEN <<Front(Lines(text)) \o Rest(text)>> ELSE <<>>
            /\ Sent(echo[j], r) = Lines(text)
       ELSE Blocks(log[j], r) = <<>> /\ Sent(echo[j], r) = <<>>
Logged(r) == \E text \in Readings(ran[r].output) : LoggedAs(r, text)

\* When run() has returned, the output of the command is in the log of the job
\* that ran it, in one block with all but its last newline, and in no other
\* log; and the clients of that project were sent its complete lines in order,
\* both with the same text. That text is the output, except that a character of
\* several bytes may be unreadable: a read may end inside of it. A command of
\* the SOAP thread leaves nothing in any log.
OutputLogged == \A r \in DOMAIN ran : Returned(r) => Logged(r)

\* run() returns - unless a process holds its pipe for ever that is not the
\* command: one the command left behind, or a cache forked while it ran.
RunReturns ==
    \A t \in Threads :
        <>[](pc[t] \in {"running", "exited", "join"})
            => <>[](holders[t] \intersect ({Daemon} \union Jobs) # {})
-----------------------------------------------------------------------------
(* The inductive invariant behind OutputLogged.                              *)
Block == [run : Nat, text : Seq(Nat)]
TypeOK ==
    /\ requested \in 0..MaxJobs /\ job \in 0..requested /\ handler \in Jobs \union {NoJob}
    /\ pc \in [Threads -> {"get", "open", "idle", "running", "exited", "join"}]
    /\ ran \in Seq([job : Jobs \union {NoJob}, output : Outputs])
    /\ current \in [Threads -> 0..Len(ran)]
    /\ toprint \in [Pipes -> Seq(Nat)] /\ pipe \in [Pipes -> Seq(Nat)]
    /\ DOMAIN holders = Pipes
    /\ cache \subseteq Jobs /\ (pc[Worker] = "get" \/ job \in Jobs)
    /\ reader \in [Pipes -> [alive : BOOLEAN, lines : Seq(Nat), rest : Seq(Nat)]]
    /\ log \in [Jobs -> Seq(Block)] /\ echo \in [Jobs -> Seq(Block)]

Active(t) == pc[t] \in {"running", "exited", "join"}
Ended(text) == text = <<>> \/ text[Len(text)] = NL
Unended(text) == \A i \in DOMAIN text : text[i] # NL

\* The daemon holds the write end until it shuts the pipe down, the command as
\* long as it runs; and the reader reads as long as somebody holds it.
PipeHeld(t) ==
    /\ reader[t].alive => Active(t)
    /\ pc[t] \in {"running", "exited"} => reader[t].alive /\ Parent \in holders[t]
    /\ pc[t] = "running" => Command \in holders[t]
    /\ pc[t] \in {"exited", "join"} => toprint[t] = <<>>

\* Nothing is lost between the command and the reader, which keeps the start of
\* a line until the line is complete.
Underway(t) ==
    LET r == current[t]
        text == reader[t]
    IN /\ Ended(text.lines) /\ Unended(text.rest)
       /\ text.lines \o (text.rest \o (pipe[t] \o toprint[t])) \in Readings(ran[r].output)
       /\ \A j \in Jobs :
             /\ Blocks(log[j], r) = <<>>
             /\ Sent(echo[j], r) = IF j = ran[r].job THEN text.lines ELSE <<>>

\* The handlers that the reader finds are those of the job that runs the
\* command; two threads never run the same one.
OwnHandler(t) ==
    Active(t) =>
        /\ current[t] \in DOMAIN ran
        /\ ran[current[t]].job = IF t = Worker THEN handler ELSE NoJob
        /\ \A u \in Threads \ {t} : Active(u) => current[u] # current[t]
        /\ IF reader[t].alive THEN Underway(t) ELSE Logged(current[t])

LogInv ==
    /\ TypeOK /\ pc[Soap] \notin {"get", "open"}
    /\ \A t \in Threads : PipeHeld(t) /\ OwnHandler(t)
    /\ OutputLogged
    /\ \A r \in (Len(ran) + 1)..MaxRuns, j \in Jobs :
          Blocks(log[j], r) = <<>> /\ Sent(echo[j], r) = <<>>
=============================================================================
