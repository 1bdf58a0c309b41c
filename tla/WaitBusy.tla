------------------------------ MODULE WaitBusy ------------------------------
(***************************************************************************)
(* Waiting for a job: clients poll get_project_busy until the daemon says  *)
(* ELBE-FINISH, and print the messages of the job on the way.              *)
(*                                                                         *)
(* The messages of a project pass through one bounded LoggingQueue.  The   *)
(* worker thread appends to it while it executes a job; the SOAP thread    *)
(* takes one message per poll and only then asks whether the project is    *)
(* still busy.  These two reads are not one step: the worker may log its   *)
(* last message and give the project back between them.                    *)
(*                                                                         *)
(* Messages are numbered in the order of their emission.  A message is     *)
(* blank when the logged text is empty (a lone newline a build tool wrote),*)
(* which the protocol cannot tell from "no message".                       *)
(***************************************************************************)
EXTENDS Naturals, Sequences, SequencesExt

CONSTANTS
    Clients,     \* clients that wait for the project
    QueueLen,    \* maxlen of the LoggingQueue, 1024 in the code
    Retries,     \* the client's --retries
    Blank,       \* the numbers of the messages that are blank
    MaxMessages, \* bound: messages all jobs log together
    MaxJobs,     \* bound: jobs run for the project
    MaxErrors    \* bound: socket errors each client meets

ASSUME QueueLenAssumption == QueueLen \in Nat \ {0}
ASSUME RetriesAssumption == Retries \in Nat
ASSUME BoundsAssumption ==
    MaxMessages \in Nat /\ MaxJobs \in Nat /\ MaxErrors \in Nat

VARIABLES
    status,   \* of the project: busy, build_done or build_failed
    jobs,     \* how many jobs were started
    sent,     \* how many messages were logged
    queue,    \* the LoggingQueue
    serving,  \* the client whose poll the SOAP thread handles, or Nobody
    msg,      \* what this poll popped, 0 for the empty string
    pc,       \* where each client is
    polls,    \* its current_retries, up to Retries + 1
    errors,   \* how many socket errors it met
    got,      \* the messages it printed
    lost,     \* the messages whose reply got lost
    logged,   \* history: how many messages were logged before the last pop
    told      \* history: the last message taken when a client was told ELBE-FINISH

vars == <<status, jobs, sent, queue, serving, msg, pc, polls, errors, got, lost,
          logged, told>>
workerVars == <<status, jobs, sent>>

Nobody == "nobody"
ASSUME ClientsAssumption == Nobody \notin Clients

Done == {"ok", "failed", "raised"}

Init ==
    /\ status = "busy"
    /\ jobs = 1
    /\ sent = 0
    /\ queue = <<>>
    /\ serving = Nobody
    /\ msg = 0
    /\ pc = [c \in Clients |-> "poll"]
    /\ polls = [c \in Clients |-> 0]
    /\ errors = [c \in Clients |-> 0]
    /\ got = [c \in Clients |-> <<>>]
    /\ lost = {}
    /\ logged = 0
    /\ told = [c \in Clients |-> 0]

-----------------------------------------------------------------------------
(* The worker.                                                             *)

\* deque(maxlen): a full queue forgets its oldest message.
Push(q, m) == IF Len(q) < QueueLen THEN Append(q, m) ELSE Append(Tail(q), m)

\* The job logs a message: QHandler.emit.
Emit ==
    /\ status = "busy"
    /\ sent < MaxMessages
    /\ sent' = sent + 1
    /\ queue' = Push(queue, sent + 1)
    /\ UNCHANGED <<status, jobs, serving, msg, pc, polls, errors, got, lost, logged,
                   told>>

\* execute ends with reset_busy.
EndJob ==
    /\ status = "busy"
    /\ \E s \in {"build_done", "build_failed"} : status' = s
    /\ UNCHANGED <<jobs, sent, queue, serving, msg, pc, polls, errors, got, lost,
                   logged, told>>

\* Somebody asks for another job of the project, between two polls.
StartJob ==
    /\ serving = Nobody
    /\ status # "busy"
    /\ jobs < MaxJobs
    /\ status' = "busy"
    /\ jobs' = jobs + 1
    /\ UNCHANGED <<sent, queue, serving, msg, pc, polls, errors, got, lost,
                   logged, told>>

-----------------------------------------------------------------------------
(* A poll.  The SOAP thread handles one request at a time.                 *)

CountPoll(c) ==
    polls' = [polls EXCEPT ![c] = IF @ <= Retries THEN @ + 1 ELSE @]

\* Mutant: pop instead of popleft.
Pop_Newest(c) ==
    /\ pc[c] = "poll"
    /\ serving = Nobody
    /\ serving' = c
    /\ CountPoll(c)
    /\ IF queue = <<>> THEN msg' = 0 /\ queue' = queue
       ELSE msg' = Last(queue) /\ queue' = Front(queue)
    /\ logged' = sent
    /\ UNCHANGED <<workerVars, pc, errors, got, lost, told>>

\* The client calls get_project_busy; read_loggingQ pops a message.
Pop(c) ==
    /\ pc[c] = "poll"
    /\ serving = Nobody
    /\ serving' = c
    /\ CountPoll(c)
    /\ IF queue = <<>> THEN msg' = 0 /\ queue' = queue
       ELSE msg' = Head(queue) /\ queue' = Tail(queue)
    /\ logged' = sent
    /\ UNCHANGED <<workerVars, pc, errors, got, lost, told>>

\* The empty string is false in Python, whether popped or made up.
NoText(m) == m = 0 \/ m \in Blank

\* A client that ends its wait saw what was logged before its poll, or, when a
\* blank message ended it, what was logged before that.
Tell(c) ==
    told' = IF pc'[c] # pc[c] THEN [told EXCEPT ![c] = IF msg = 0 THEN logged ELSE msg]
            ELSE told

\* Mutant: ELBE-FINISH whenever the project is not busy.
Reply_IgnoresMsg(c) ==
    /\ serving = c
    /\ serving' = Nobody
    /\ msg' = 0
    /\ pc' = IF status # "busy" THEN [pc EXCEPT ![c] = "finish"] ELSE pc
    /\ got' = IF NoText(msg) \/ status # "busy" THEN got
              ELSE [got EXCEPT ![c] = Append(@, msg)]
    /\ Tell(c)
    /\ UNCHANGED <<workerVars, queue, polls, errors, lost, logged>>

\* Mutant: ELBE-FINISH is sent for a successful build only.
Reply_SuccessOnly(c) ==
    /\ serving = c
    /\ serving' = Nobody
    /\ msg' = 0
    /\ pc' = IF NoText(msg) /\ status = "build_done"
             THEN [pc EXCEPT ![c] = "finish"] ELSE pc
    /\ got' = IF NoText(msg) THEN got ELSE [got EXCEPT ![c] = Append(@, msg)]
    /\ Tell(c)
    /\ UNCHANGED <<workerVars, queue, polls, errors, lost, logged>>

\* db.is_busy is read, and the client acts on the reply: it ends on
\* ELBE-FINISH, sleeps on the empty string, and prints anything else.
Reply(c) ==
    /\ serving = c
    /\ serving' = Nobody
    /\ msg' = 0
    /\ pc' = IF NoText(msg) /\ status # "busy"
             THEN [pc EXCEPT ![c] = "finish"] ELSE pc
    /\ got' = IF NoText(msg) THEN got ELSE [got EXCEPT ![c] = Append(@, msg)]
    /\ Tell(c)
    /\ UNCHANGED <<workerVars, queue, polls, errors, lost, logged>>

\* The client catches socket.error: it raises when current_retries, which
\* counts the polls, has passed the limit, and goes on otherwise.
SocketError(c) ==
    /\ errors[c] < MaxErrors
    /\ errors' = [errors EXCEPT ![c] = @ + 1]
    /\ pc' = IF polls'[c] > Retries THEN [pc EXCEPT ![c] = "raised"] ELSE pc

\* No connection: the daemon does not see the poll.
ConnectFails(c) ==
    /\ pc[c] = "poll" /\ serving # c
    /\ CountPoll(c)
    /\ SocketError(c)
    /\ UNCHANGED <<workerVars, queue, serving, msg, got, lost, logged, told>>

\* The reply is lost, and with it the message that was popped for it.
ReplyLost(c) ==
    /\ serving = c
    /\ serving' = Nobody
    /\ msg' = 0
    /\ lost' = IF msg = 0 THEN lost ELSE lost \cup {msg}
    /\ polls' = polls
    /\ SocketError(c)
    /\ UNCHANGED <<workerVars, queue, got, logged, told>>

\* After ELBE-FINISH the client asks for the project's status.
CheckStatus(c) ==
    /\ pc[c] = "finish" /\ serving = Nobody
    /\ pc' = [pc EXCEPT ![c] = IF status = "build_done" THEN "ok" ELSE "failed"]
    /\ UNCHANGED <<workerVars, queue, serving, msg, polls, errors, got, lost,
                   logged, told>>

-----------------------------------------------------------------------------
ClientStep(c) == Pop(c) \/ Reply(c) \/ CheckStatus(c)

Terminated ==
    /\ \A c \in Clients : pc[c] \in Done
    /\ UNCHANGED vars

Next ==
    \/ Emit \/ EndJob \/ StartJob
    \/ \E c \in Clients : ClientStep(c) \/ ConnectFails(c) \/ ReplyLost(c)
    \/ Terminated

Spec == Init /\ [][Next]_vars

\* Jobs end (JobsFinish of ElbeDaemon), and the daemon answers every poll; it
\* takes the clients' connections in turn, so that a client that goes on
\* polling is served again and again.
Fairness ==
    /\ WF_vars(EndJob)
    /\ \A c \in Clients : WF_vars(Reply(c)) /\ SF_vars(Pop(c)) /\ SF_vars(CheckStatus(c))

FairSpec == Spec /\ Fairness

-----------------------------------------------------------------------------
Printed == UNION {ToSet(got[c]) : c \in Clients}

\* Every client prints messages in the order in which they were logged, and no
\* message is printed twice, also not by two clients that wait for the same
\* project; what is printed is never behind what still waits in the queue.
PrintedInOrder ==
    /\ \A c \in Clients : \A i, j \in 1..Len(got[c]) : i < j => got[c][i] < got[c][j]
    /\ \A c, d \in Clients : c # d => ToSet(got[c]) \cap ToSet(got[d]) = {}
    /\ \A m \in ToSet(queue) : \A n \in Printed \cup {msg} : n < m

\* A client that was told ELBE-FINISH ends its wait, and what it left unread may
\* never be seen.  As long as the queue does not overflow that is only a message
\* whose reply was lost, or one that the worker logged after the last poll of every
\* such client had looked into the queue, or behind the blank message that ended
\* its wait: all messages with a text before these were printed by some client, or
\* are on their way to one.
NothingVanishes ==
    sent <= QueueLen =>
        \A m \in (1..sent) \ Blank :
            \/ m \in Printed \cup lost \cup {msg}
            \/ \A c \in Clients : m > told[c]

\* When a client is told ELBE-FINISH, only messages are left unread that the
\* worker logged after the poll had looked into the queue.  The exception is a
\* blank message, which ends the wait with the messages behind it unread.
FinishLeavesNothingOld ==
    [][\A c \in Clients : pc[c] = "poll" /\ pc'[c] = "finish" /\ msg \notin Blank
          => \A m \in ToSet(queue) : m > logged]_vars

\* A client that waits returns, once no more jobs are started.
WaitEnds == \A c \in Clients : <>(pc[c] \in Done)

-----------------------------------------------------------------------------
(* The inductive invariant under the safety properties.                    *)

TypeOK ==
    /\ status \in {"busy", "build_done", "build_failed"}
    /\ jobs \in Nat /\ sent \in Nat /\ logged \in Nat /\ msg \in Nat
    /\ queue \in Seq(Nat)
    /\ serving \in Clients \union {Nobody}
    /\ pc \in [Clients -> {"poll", "finish"} \union Done]
    /\ polls \in [Clients -> Nat] /\ errors \in [Clients -> Nat]
    /\ got \in [Clients -> Seq(Nat)]
    /\ lost \subseteq Nat
    /\ told \in [Clients -> Nat]

\* The number of the last message that was popped, dropped or never queued.
Passed == sent - Len(queue)

\* The queue holds the latest messages, one after the other.
QueueIsLatest ==
    /\ Len(queue) <= sent /\ Len(queue) <= QueueLen
    /\ \A i \in 1..Len(queue) : queue[i] = Passed + i
\* What was popped is older than the queue, and newer than what was printed.
PoppedIsOlder ==
    /\ msg <= Passed /\ \A n \in Printed : n <= Passed
    /\ msg # 0 => serving # Nobody /\ \A n \in Printed : n < msg
\* A poll that popped nothing saw all messages logged before it.
EmptyIsUpToDate == serving # Nobody /\ msg = 0 => logged <= Passed
\* Without an overflow a message with a text that was popped is somewhere.
PassedIsSeen ==
    sent <= QueueLen => (1..Passed) \ Blank \subseteq Printed \union lost \union {msg}
\* No client was told more than what was popped.
ToldIsPassed == \A c \in Clients : told[c] <= Passed
PrintedOnce ==
    /\ \A c \in Clients : \A i, j \in 1..Len(got[c]) : i < j => got[c][i] < got[c][j]
    /\ \A c, d \in Clients : c # d => ToSet(got[c]) \intersect ToSet(got[d]) = {}

IInv == /\ TypeOK /\ QueueIsLatest /\ PoppedIsOlder /\ EmptyIsUpToDate
        /\ PassedIsSeen /\ ToldIsPassed /\ PrintedOnce
=============================================================================
