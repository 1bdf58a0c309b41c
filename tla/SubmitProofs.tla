---------------------------- MODULE SubmitProofs ----------------------------
(***************************************************************************)
(* Theorems about Submit: for any users, commands, recipes, results and    *)
(* numbers of commands and interrupts, what is uploaded is what the file   *)
(* says, and a submission deletes no result that was not downloaded.       *)
(***************************************************************************)
EXTENDS Submit, SequenceTheorems, WellFoundedInduction, TLAPS

\* Nobody has a project at the start.

LEMMA IInvInit == Init => IInv
<1> SUFFICES ASSUME Init PROVE IInv
  OBVIOUS
<1>1. TypeOK
  BY DEF Init, InitvmInit, TypeOK, Labels, VMLabels
<1>2. ASSUME NEW u \in Users PROVE Kept(u)
  BY <1>2 DEF Init, InitvmInit, Kept, JobIsBusy, DoneOrGone, NoneSkipped, RemovedSafely, Saved
<1> QED BY <1>1, <1>2 DEF IInv

\* A step from a label of the initvm's commands that changes nothing about the
\* projects.
LEMMA VMStepKeeps ==
    ASSUME IInv, NEW u \in Users, pc[u] \in VMLabels,
           NEW label \in VMLabels \union {"serve"}, pc' = [pc EXCEPT ![u] = label],
           domain' \in {"none", "shutoff", "running", "shutdown"},
           UNCHANGED <<prjVars, got, todo>>
    PROVE  IInv'
<1> USE DEF prjVars
<1>1. TypeOK'
  BY DEF IInv, TypeOK, Labels
<1>2. ASSUME NEW v \in Users PROVE Kept(v)'
  <2>1. Kept(v)
    BY DEF IInv
  <2>2. \/ pc'[v] = pc[v]
        \/ v = u /\ pc'[v] \in VMLabels \union {"serve"}
    BY DEF IInv, TypeOK
  <2> QED BY <2>1, <2>2 DEF Kept, JobIsBusy, DoneOrGone, NoneSkipped, RemovedSafely, Saved,
                            VMLabels
<1> QED BY <1>1, <1>2 DEF IInv

\* The commands of the initvm stay among their own labels; create and ensure end
\* at the one where a submission begins.
LEMMA VMStepLabel ==
    ASSUME TypeOK, NEW u \in Users, VMStep(u)
    PROVE  /\ pc[u] \in VMLabels
           /\ \E label \in VMLabels : pc' = [pc EXCEPT ![u] = label]
           /\ domain' \in {"none", "shutoff", "running", "shutdown"}
<1> USE DEF TypeOK, End, GoTo, Stay, guestVars, VMLabels
<1>1. AfterEnsure(u) => \E label \in {"repodir", "idle"} : pc' = [pc EXCEPT ![u] = label]
  BY DEF AfterEnsure
<1>2. AfterStart(u) => \E label \in {"probe", "ensure", "idle"} :
                          pc' = [pc EXCEPT ![u] = label]
  BY DEF AfterStart
<1>3. AfterProbe(u) => \E label \in VMLabels : pc' = [pc EXCEPT ![u] = label]
  BY <1>1, <1>2 DEF AfterProbe
<1>4. CASE CreateDirectory(u) \/ CreateMake(u) \/ CreateDefine(u)
  BY <1>4 DEF CreateDirectory, CreateMake, CreateDefine
<1>5. CASE StartLibvirt(u)
  BY <1>5, <1>2 DEF StartLibvirt
<1>6. CASE StartQemu(u)
  BY <1>6, <1>2 DEF StartQemu
<1>7. CASE Launch(u)
  BY <1>7, <1>2 DEF Launch
<1>8. CASE Ensure(u)
  <2>1. pc[u] \in VMLabels /\ domain' = domain
    BY <1>8 DEF Ensure
  <2>2. CASE mode = "qemu"
    <3>1. AfterEnsure(u) \/ pc' = [pc EXCEPT ![u] = "idle"]
      BY <1>8, <2>2 DEF Ensure
    <3> QED BY <1>1, <2>1, <3>1
  <2>3. CASE mode # "qemu"
    <3>1. \E label \in {"idle", "probe", "restart"} : pc' = [pc EXCEPT ![u] = label]
      BY <1>8, <2>3 DEF Ensure
    <3> QED BY <2>1, <3>1
  <2> QED BY <2>2, <2>3
<1>9. CASE ProbeAnswered(u) \/ ProbeFails(u)
  BY <1>9, <1>3 DEF ProbeAnswered, ProbeFails
<1>10. CASE Stop(u)
  BY <1>10 DEF Stop
<1>11. CASE StopPoll(u) \/ StopAsk(u) \/ StopQemu(u)
  BY <1>11 DEF StopPoll, StopAsk, StopQemu
<1> QED BY <1>4, <1>5, <1>6, <1>7, <1>8, <1>9, <1>10, <1>11 DEF VMStep

\* A step of a submission changes its own user's project and label only.
LEMMA OthersKeep ==
    ASSUME IInv, NEW u \in Users, TypeOK',
           \A v \in Users \ {u} :
               /\ pc'[v] = pc[v] /\ status'[v] = status[v] /\ job'[v] = job[v]
               /\ results'[v] = results[v] /\ todo'[v] = todo[v] /\ got'[v] = got[v]
               /\ removed'[v] = removed[v] /\ foreign'[v] = foreign[v],
           Kept(u)'
    PROVE  IInv'
<1> SUFFICES ASSUME NEW v \in Users \ {u} PROVE Kept(v)'
  BY DEF IInv
<1> QED BY DEF IInv, Kept, JobIsBusy, DoneOrGone, NoneSkipped, RemovedSafely, Saved

\* The steps of a submission, in their order.
LEMMA SubmitKeeps ==
    ASSUME IInv, NEW u \in Users,
           \/ RepodirEnter(u) \/ StartServer(u) \/ PreprocessFile(u)
           \/ NewProject(u) \/ SetXml(u) \/ Upload(u) \/ Build(u) \/ BuildSdk(u)
           \/ Wait(u) \/ WaitSdk(u)
           \/ Validate(u) \/ List(u) \/ Download(u) \/ Downloaded(u) \/ Delete(u)
           \/ RemoveOutput(u) \/ ShutdownServer(u)
    PROVE  IInv'
<1> DEFINE Others == \A v \in Users \ {u} :
               /\ pc'[v] = pc[v] /\ status'[v] = status[v] /\ job'[v] = job[v]
               /\ results'[v] = results[v] /\ todo'[v] = todo[v] /\ got'[v] = got[v]
               /\ removed'[v] = removed[v] /\ foreign'[v] = foreign[v]
<1>0. TypeOK /\ Kept(u)
  BY DEF IInv
<1> SUFFICES TypeOK' /\ Others /\ Kept(u)'
  BY OthersKeep
<1> USE DEF TypeOK, Kept, JobIsBusy, DoneOrGone, NoneSkipped, RemovedSafely, Saved,
            KeepRest, KeepInput, guestVars, fixedVars, prjVars, Leave, GoTo, End,
            Idle, Answers, Labels
<1>1. CASE RepodirEnter(u)
  BY <1>0, <1>1 DEF RepodirEnter, VMLabels
<1>2. CASE StartServer(u)
  BY <1>0, <1>2 DEF StartServer, Inside
<1>3. CASE PreprocessFile(u) \/ Upload(u)
  BY <1>0, <1>3 DEF PreprocessFile, Upload, Inside
<1>4. CASE NewProject(u)
  <2>1. CASE daemon = "up"
    <3>1. /\ pc' = [pc EXCEPT ![u] = "set_xml"]
          /\ status' = [status EXCEPT ![u] = "empty"]
          /\ job' = [job EXCEPT ![u] = "none"]
          /\ results' = [results EXCEPT ![u] = {}]
          /\ got' = [got EXCEPT ![u] = {}]
          /\ removed' = [removed EXCEPT ![u] = "no"]
          /\ foreign' = [foreign EXCEPT ![u] = FALSE]
          /\ UNCHANGED <<todo, domain>>
      BY <1>4, <2>1 DEF NewProject
    <3>2. TypeOK'
      BY <1>0, <3>1 DEF Inside
    <3>3. Others
      BY <1>0, <3>1
    <3>4. Kept(u)'
      BY <1>0, <3>1
    <3> QED BY <3>2, <3>3, <3>4
  <2>2. CASE daemon # "up"
    BY <1>0, <1>4, <2>2 DEF NewProject
  <2> QED BY <2>1, <2>2
<1>5. CASE SetXml(u)
  BY <1>0, <1>5 DEF SetXml, Inside
<1>6. CASE Build(u) \/ BuildSdk(u)
  BY <1>0, <1>6 DEF Build, BuildSdk, Request, Inside
<1>7. CASE Wait(u) \/ WaitSdk(u)
  BY <1>0, <1>7 DEF Wait, WaitSdk, Inside
<1>8. CASE Validate(u)
  BY <1>0, <1>8 DEF Validate, Inside
<1>9. CASE List(u)
  BY <1>0, <1>9 DEF List, Inside
<1>10. CASE Download(u)
  <2>1. UNCHANGED <<domain, status, job, results, removed, foreign>>
        /\ pc[u] = "download" /\ removed[u] = "no"
    BY <1>0, <1>10 DEF Download
  <2>2. CASE pc' = [pc EXCEPT ![u] = "leave"] /\ todo' = [todo EXCEPT ![u] = {}]
             /\ UNCHANGED got
    BY <1>0, <2>1, <2>2
  <2>3. ASSUME NEW f \in results[u],
               got' = [got EXCEPT ![u] = Written(@, f)],
               todo' = [todo EXCEPT ![u] = @ \ {f}],
               pc' = [pc EXCEPT ![u] = "download"]
        PROVE  TypeOK' /\ Others /\ Kept(u)'
    <3>0. got'[u] = Written(got[u], f) /\ Written(got[u], f) \in SUBSET Files
          /\ todo'[u] = todo[u] \ {f} /\ results' = results
      BY <1>0, <2>1, <2>3 DEF Written
    <3>1. TypeOK'
      BY <1>0, <2>1, <2>3, <3>0 DEF Inside
    <3>2. Others
      BY <1>0, <2>1, <2>3
    <3>3. results[u] \subseteq Saved(u) \union todo[u]
             => results'[u] \subseteq Saved(u)' \union todo'[u]
      <4> SUFFICES ASSUME NEW h \in results[u], h \in Saved(u) \/ h \in todo[u]
                   PROVE  h \in Saved(u)' \/ h \in todo'[u]
        BY <3>0
      <4>1. h \in Files
        BY <1>0
      <4>2. CASE BaseName[h] = BaseName[f]
        <5>1. f \in got'[u] \intersect results'[u]
          BY <2>3, <3>0 DEF Written
        <5> QED BY <4>1, <4>2, <5>1 DEF Saved, Namesakes
      <4>3. CASE BaseName[h] # BaseName[f] /\ h \in Saved(u)
        <5>1. PICK g \in got[u] \intersect results[u] : BaseName[g] = BaseName[h]
          BY <4>3 DEF Saved, Namesakes
        <5>2. g \in got'[u] \intersect results'[u]
          BY <3>0, <4>3, <5>1 DEF Written
        <5> QED BY <4>1, <5>1, <5>2 DEF Saved, Namesakes
      <4>4. CASE BaseName[h] # BaseName[f] /\ h \in todo[u]
        BY <3>0, <4>4
      <4> QED BY <4>2, <4>3, <4>4
    <3>4. Kept(u)'
      BY <1>0, <2>1, <2>3, <3>3
    <3> QED BY <3>1, <3>2, <3>4
  <2> QED BY <1>10, <2>2, <2>3 DEF Download
<1>11. CASE Downloaded(u) \/ Delete(u)
  BY <1>0, <1>11 DEF Downloaded, Delete, Inside
<1>12. CASE RemoveOutput(u) \/ ShutdownServer(u)
  BY <1>0, <1>12 DEF RemoveOutput, ShutdownServer, VMLabels
<1> HIDE DEF Others, TypeOK, Kept
<1> QED BY <1>1, <1>2, <1>3, <1>4, <1>5, <1>6, <1>7, <1>8, <1>9, <1>10, <1>11, <1>12

\* Other clients: who changes a project that is not busy leaves a mark.
LEMMA ControlKeeps ==
    ASSUME IInv, NEW u \in Users,
           Control(u) \/ ControlDeleteAll(u) \/ DeleteNext(u)
    PROVE  IInv'
<1> USE DEF End, GoTo, KeepRest, guestVars, fixedVars, prjVars, cmdVars, Idle, Answers
<1>0. TypeOK /\ \A v \in Users : Kept(v)
  BY DEF IInv
<1>1. ASSUME NEW l \in {"idle", "del_all"}, pc' = [pc EXCEPT ![u] = l],
             pc[u] \in {"control", "del_all"},
             todo' \in [Users -> SUBSET (Files \union Users)],
             \A v \in Users \ {u} : todo'[v] = todo[v],
             UNCHANGED <<domain, removed, got>>,
             UNCHANGED <<status, job, results, foreign>>
      PROVE  IInv'
  <2>1. TypeOK'
    BY <1>0, <1>1 DEF TypeOK, Labels, VMLabels
  <2>2. ASSUME NEW v \in Users PROVE Kept(v)'
    BY <1>0, <1>1 DEF TypeOK, Kept, JobIsBusy, DoneOrGone, NoneSkipped, RemovedSafely, Saved
  <2> QED BY <2>1, <2>2 DEF IInv
<1>2. ASSUME NEW l \in {"idle", "del_all"}, pc' = [pc EXCEPT ![u] = l],
             pc[u] \in {"control", "del_all"},
             todo' \in [Users -> SUBSET (Files \union Users)],
             \A v \in Users \ {u} : todo'[v] = todo[v],
             UNCHANGED <<domain, removed, got>>,
             NEW v, status[v] # "none", status[v] # "busy",
             NEW s \in {"none", "needs_build", "busy"}, status' = [status EXCEPT ![v] = s],
             \/ UNCHANGED job
             \/ s = "busy" /\ job' = [job EXCEPT ![v] = "build"],
             results' \in [Users -> SUBSET Files],
             \A w \in Users \ {v} : results'[w] = results[w],
             foreign' = [foreign EXCEPT ![v] = TRUE]
      PROVE  IInv'
  <2>1. TypeOK'
    BY <1>0, <1>2 DEF TypeOK, Labels, VMLabels
  <2>2. ASSUME NEW w \in Users PROVE Kept(w)'
    <3>1. CASE w = v
      BY <1>0, <1>2, <3>1 DEF TypeOK, Kept, JobIsBusy, DoneOrGone, NoneSkipped, RemovedSafely, Saved
    <3>2. CASE w # v
      BY <1>0, <1>2, <3>2 DEF TypeOK, Kept, JobIsBusy, DoneOrGone, NoneSkipped, RemovedSafely, Saved
    <3> QED BY <3>1, <3>2
  <2> QED BY <2>1, <2>2 DEF IInv
<1>3. CASE Control(u)
  <2>1. CASE pc' = [pc EXCEPT ![u] = "idle"] /\ UNCHANGED prjVars
    BY <1>0, <1>1, <1>3, <2>1 DEF Control, TypeOK
  <2>2. ASSUME NEW v \in Users, NEW request \in {"build", "reset_project", "del_project"},
               Idle(v), End(u, 0),
               foreign' = [foreign EXCEPT ![v] = TRUE],
               status' = [status EXCEPT ![v] = CASE request = "build" -> "busy"
                                                 [] request = "reset_project" -> "needs_build"
                                                 [] OTHER -> "none"],
               job' = [job EXCEPT ![v] = IF request = "build" THEN "build" ELSE @],
               results' = [results EXCEPT ![v] = IF request = "build" THEN @ ELSE {}],
               UNCHANGED removed
        PROVE  IInv'
    <3>1. UNCHANGED <<domain, todo, got>> /\ pc[u] = "control"
      BY <1>3 DEF Control
    <3>2. CASE request = "build"
      <4>1. status' = [status EXCEPT ![v] = "busy"]
        BY <2>2, <3>2
      <4>2. job' = [job EXCEPT ![v] = "build"]
        BY <2>2, <3>2
      <4>3. UNCHANGED results
        BY <1>0, <2>2, <3>2 DEF TypeOK
      <4>4. /\ pc' = [pc EXCEPT ![u] = "idle"]
            /\ todo' \in [Users -> SUBSET (Files \union Users)]
            /\ results' \in [Users -> SUBSET Files]
        BY <1>0, <2>2, <3>1, <4>3 DEF TypeOK
      <4> QED BY <1>2, <2>2, <3>1, <4>1, <4>2, <4>3, <4>4
    <3>3. CASE request # "build"
      <4>1. PICK s \in {"none", "needs_build"} : status' = [status EXCEPT ![v] = s]
        BY <2>2, <3>3
      <4>2. UNCHANGED job
        BY <1>0, <2>2, <3>3 DEF TypeOK
      <4>3. results' = [results EXCEPT ![v] = {}]
        BY <2>2, <3>3
      <4>4. /\ pc' = [pc EXCEPT ![u] = "idle"]
            /\ todo' \in [Users -> SUBSET (Files \union Users)]
            /\ results' \in [Users -> SUBSET Files]
            /\ \A w \in Users \ {v} : results'[w] = results[w]
        BY <1>0, <2>2, <3>1, <4>3 DEF TypeOK, End, GoTo
      <4>5. /\ s \in {"none", "needs_build", "busy"}
            /\ status[v] # "none" /\ status[v] # "busy"
        BY <2>2, <4>1 DEF Idle, Answers
      <4> QED BY <1>2, <2>2, <3>1, <4>1, <4>2, <4>4, <4>5
    <3> QED BY <3>2, <3>3
  <2> QED BY <1>3, <2>1, <2>2 DEF Control
<1>4. CASE ControlDeleteAll(u)
  BY <1>0, <1>1, <1>4 DEF ControlDeleteAll, TypeOK
<1>5. CASE DeleteNext(u)
  <2>1. UNCHANGED <<domain, removed, got, job>> /\ pc[u] = "del_all"
    BY <1>5 DEF DeleteNext
  <2>2. CASE End(u, 0) /\ UNCHANGED <<todo, status, results, foreign>>
    BY <1>0, <1>1, <2>1, <2>2 DEF TypeOK
  <2>3. ASSUME End(u, 6), todo' = [todo EXCEPT ![u] = {}],
               UNCHANGED <<status, results, foreign>>
        PROVE  IInv'
    BY <1>0, <1>1, <2>1, <2>3 DEF TypeOK
  <2>4. ASSUME NEW v, Idle(v), todo' = [todo EXCEPT ![u] = @ \ {v}],
               status' = [status EXCEPT ![v] = "none"],
               results' = [results EXCEPT ![v] = {}],
               foreign' = [foreign EXCEPT ![v] = TRUE],
               GoTo(u, "del_all")
        PROVE  IInv'
    BY <1>0, <1>2, <2>1, <2>4 DEF TypeOK
  <2> QED BY <1>5, <2>2, <2>3, <2>4 DEF DeleteNext
<1> QED BY <1>3, <1>4, <1>5

\* Ctrl-C forgets what is still to be downloaded and leaves the project alone.
LEMMA InterruptKeeps ==
    ASSUME IInv, NEW u \in Users,
           InterruptInside(u) \/ InterruptServers(u) \/ InterruptOther(u)
    PROVE  IInv'
<1>0. TypeOK /\ \A v \in Users : Kept(v)
  BY DEF IInv
<1>1. PICK l \in {"leave", "idle", "hang"} : pc' = [pc EXCEPT ![u] = l]
  BY DEF InterruptInside, InterruptServers, InterruptOther, Leave, GoTo, End
<1>2. /\ todo' = [todo EXCEPT ![u] = {}]
      /\ UNCHANGED <<domain, status, job, results, removed, foreign, got>>
  BY DEF InterruptInside, InterruptServers, InterruptOther, Pressed, guestVars, prjVars
<1>3. pc[u] # "leave"
  BY DEF InterruptInside, InterruptServers, InterruptOther, Inside
<1>4. TypeOK'
  BY <1>0, <1>1, <1>2 DEF TypeOK, Labels, VMLabels
<1>5. ASSUME NEW v \in Users PROVE Kept(v)'
  BY <1>0, <1>1, <1>2, <1>3 DEF TypeOK, Kept, JobIsBusy, DoneOrGone, NoneSkipped, RemovedSafely, Saved
<1> QED BY <1>4, <1>5 DEF IInv

\* A job ends: its project was busy, which no submission past its last wait
\* finds, unless somebody else asked for the job.
LEMMA JobEndsKeeps ==
    ASSUME IInv, NEW u \in Users, JobEnds(u)
    PROVE  IInv'
<1>0. TypeOK /\ \A v \in Users : Kept(v)
  BY DEF IInv
<1>1. PICK s \in {"build_done", "build_failed"}, new \in SUBSET Files :
          /\ status' = [status EXCEPT ![u] = s]
          /\ results' = [results EXCEPT ![u] = IF job[u] = "sdk" THEN @ \union new ELSE new]
  BY FilesAssumption DEF JobEnds
<1>2. /\ job' = [job EXCEPT ![u] = "none"] /\ job[u] # "none"
      /\ UNCHANGED <<domain, pc, removed, foreign, todo, got>>
  BY DEF JobEnds, initvmVars, cmdVars
<1>3. status[u] = "busy"
  BY <1>0, <1>2 DEF Kept, JobIsBusy
<1>4. TypeOK'
  BY <1>0, <1>1, <1>2 DEF TypeOK
<1>5. ASSUME NEW v \in Users PROVE Kept(v)'
  <2>1. CASE v = u
    BY <1>0, <1>1, <1>2, <1>3, <2>1
       DEF TypeOK, Kept, JobIsBusy, DoneOrGone, NoneSkipped, RemovedSafely, Saved
  <2>2. CASE v # u
    BY <1>0, <1>1, <1>2, <2>2
       DEF TypeOK, Kept, JobIsBusy, DoneOrGone, NoneSkipped, RemovedSafely, Saved
  <2> QED BY <2>1, <2>2
<1> QED BY <1>4, <1>5 DEF IInv

\* The guest goes down, with or without its disk.
LEMMA LoseKeeps ==
    ASSUME IInv, Lose,
           \/ UNCHANGED pc
           \/ \E u \in Users, l \in {"idle", "undefine", "remove"} :
                 pc[u] \in VMLabels /\ pc' = [pc EXCEPT ![u] = l],
           domain' \in {"none", "shutoff", "running", "shutdown"}
    PROVE  IInv'
<1>0. TypeOK /\ \A v \in Users : Kept(v)
  BY DEF IInv
<1>1. job' = job \/ job' = [v \in Users |-> "none"]
  BY DEF Lose
<1>2. status' = status
      \/ (job' = [v \in Users |-> "none"] /\ status' = [v \in Users |-> "none"])
  BY DEF Lose
<1>3. UNCHANGED <<results, removed, foreign, todo, got>>
  BY DEF Lose, cmdVars
<1>4. TypeOK'
  BY <1>0, <1>1, <1>2, <1>3 DEF TypeOK, Labels, VMLabels
<1>5. ASSUME NEW v \in Users PROVE Kept(v)'
  <2>1. pc'[v] = pc[v] \/ (pc[v] \in VMLabels /\ pc'[v] \in {"idle", "undefine", "remove"})
    BY <1>0 DEF TypeOK
  <2>2. /\ job'[v] \in {job[v], "none"}
        /\ status'[v] = status[v] \/ (job'[v] = "none" /\ status'[v] = "none")
    BY <1>0, <1>1, <1>2
  <2> QED BY <1>0, <1>3, <2>1, <2>2
             DEF Kept, JobIsBusy, DoneOrGone, NoneSkipped, RemovedSafely, Saved, VMLabels
<1> QED BY <1>4, <1>5 DEF IInv

\* Every step of every process and of the guest keeps the invariant.
LEMMA IInvNext == IInv /\ [Next]_vars => IInv'
<1> SUFFICES ASSUME IInv, [Next]_vars PROVE IInv'
  OBVIOUS
<1>0. TypeOK
  BY DEF IInv
<1>1. CASE UNCHANGED vars
  BY <1>1 DEF vars, initvmVars, submitVars, prjVars, cmdVars, IInv, TypeOK, Kept,
              JobIsBusy, DoneOrGone, NoneSkipped, RemovedSafely, Saved
<1>2. ASSUME NEW u \in Users, Command(u) \/ NoLibvirt(u), UNCHANGED submitVars
      PROVE  IInv'
  <2>1. pc[u] \in VMLabels /\ UNCHANGED <<domain, prjVars, got, todo>>
    BY <1>2 DEF Command, NoLibvirt, Stay, guestVars, submitVars, cmdVars, VMLabels
  <2>2. PICK l \in VMLabels : pc' = [pc EXCEPT ![u] = l]
    BY <1>2, InitvmAssumption DEF Command, NoLibvirt, GoTo, End, VMLabels
  <2> QED BY <1>0, <2>1, <2>2, VMStepKeeps DEF TypeOK
<1>3. ASSUME NEW u \in Users, VMStep(u), UNCHANGED submitVars
      PROVE  IInv'
  BY <1>0, <1>3, VMStepLabel, VMStepKeeps DEF submitVars, cmdVars
<1>4. ASSUME NEW u \in Users, Destroy(u) \/ Undefine(u) \/ RemoveDirectory(u), Lose
      PROVE  IInv'
  <2>1. pc[u] \in VMLabels
        /\ \E l \in {"idle", "undefine", "remove"} : pc' = [pc EXCEPT ![u] = l]
    BY <1>4 DEF Destroy, Undefine, RemoveDirectory, GoTo, End, VMLabels
  <2>2. domain' \in {"none", "shutoff", "running", "shutdown"}
    BY <1>0, <1>4 DEF Destroy, Undefine, RemoveDirectory, BecomesOff, Stay, guestVars, TypeOK
  <2> QED BY <1>4, <2>1, <2>2, LoseKeeps
<1>5. ASSUME NEW u \in Users, SubmitStep(u)
      PROVE  IInv'
  BY <1>5, SubmitKeeps, ControlKeeps DEF SubmitStep
<1>6. ASSUME NEW u \in Users,
             InterruptInside(u) \/ InterruptServers(u) \/ InterruptOther(u)
      PROVE  IInv'
  BY <1>6, InterruptKeeps
<1>7. ASSUME NEW u \in Users, JobEnds(u)
      PROVE  IInv'
  BY <1>7, JobEndsKeeps
<1>8. CASE Boot /\ UNCHANGED submitVars
  BY <1>8 DEF Boot, submitVars, prjVars, cmdVars, IInv, TypeOK, Kept, JobIsBusy,
              DoneOrGone, NoneSkipped, RemovedSafely, Saved
<1>9. CASE PowerOff /\ Lose
  BY <1>9, LoseKeeps DEF PowerOff, BecomesOff
<1> QED BY <1>1, <1>2, <1>3, <1>4, <1>5, <1>6, <1>7, <1>8, <1>9 DEF Next, Process

\* The invariant that NothingLost is read off.
THEOREM InvariantHolds == Spec => []IInv
<1> QED BY IInvInit, IInvNext, PTL DEF Spec

\* Whatever fails on the way, and whatever the other users do to the initvm
\* meanwhile, a submission deletes its project only when the last job succeeded
\* and every result was downloaded - or somebody else changed the project.
THEOREM NothingLostHolds == Spec => []NothingLost
<1>1. IInv => NothingLost
  BY DEF IInv, Kept, RemovedSafely, Saved, NothingLost
<1> QED BY <1>1, InvariantHolds, PTL

-----------------------------------------------------------------------------
(* Sequences put together.                                                 *)

\* Every set of numbers has a least element.
LEMMA NatLeast ==
    ASSUME NEW N \in SUBSET Nat, N # {}
    PROVE  \E m \in N : \A k \in N : m <= k
<1> DEFINE R == OpToRel(<, Nat)
<1>1. IsWellFoundedOn(R, Nat)
  BY NatLessThanWellFounded
<1>2. \A x, y \in Nat : x < y => <<x, y>> \in R
  BY DEF OpToRel
<1> HIDE DEF R
<1>3. PICK m \in N : \A k \in N : <<k, m>> \notin R
  BY <1>1, WFMin
<1>4. \A k \in N : k \in Nat /\ m \in Nat
  OBVIOUS
<1>5. ASSUME NEW k \in N PROVE m <= k
  <2>1. ~(k < m)
    BY <1>2, <1>3, <1>4
  <2> QED BY <1>4, <2>1
<1> QED BY <1>5

\* How FlattenSeq puts the first n texts together.
IsFlat(f, p, n) == f = [i \in 1..n |-> IF i = 1 THEN p[i] ELSE f[i - 1] \o p[i]]

\* There is such a function.
LEMMA FlatExists ==
    \A p, n : n \in Nat => \E f : IsFlat(f, p, n)
<1> SUFFICES ASSUME NEW p PROVE \A n \in Nat : \E f : IsFlat(f, p, n)
  OBVIOUS
<1> DEFINE Bad == {n \in Nat : ~\E f : IsFlat(f, p, n)}
<1> SUFFICES ASSUME Bad # {} PROVE FALSE
  OBVIOUS
<1>1. PICK m \in Bad : \A k \in Bad : m <= k
  BY NatLeast
<1>2. m \in Nat /\ ~\E f : IsFlat(f, p, m)
  OBVIOUS
<1>3. m # 0
  <2> SUFFICES ASSUME m = 0 PROVE FALSE
    OBVIOUS
  <2>1. \A i \in 1..m : FALSE
    OBVIOUS
  <2>2. IsFlat([i \in 1..m |-> 0], p, m)
    BY <2>1 DEF IsFlat
  <2> QED BY <1>2, <2>2
<1>4. m - 1 \in Nat /\ ~(m <= m - 1)
  BY <1>2, <1>3
<1>5. PICK g : IsFlat(g, p, m - 1)
  BY <1>1, <1>4
<1> DEFINE h == [i \in 1..m |-> IF i = 1 THEN p[i] ELSE g[i - 1] \o p[i]]
<1>6. ASSUME NEW i \in 1..m, i # 1 PROVE h[i - 1] = g[i - 1]
  <2>1. i - 1 \in 1..m /\ i - 1 \in 1..(m - 1)
    BY <1>2, <1>6
  <2>2. h[i - 1] = IF i - 1 = 1 THEN p[i - 1] ELSE g[(i - 1) - 1] \o p[i - 1]
    BY <2>1
  <2>3. g[i - 1] = IF i - 1 = 1 THEN p[i - 1] ELSE g[(i - 1) - 1] \o p[i - 1]
    BY <1>5, <2>1 DEF IsFlat
  <2> QED BY <2>2, <2>3
<1>7. IsFlat(h, p, m)
  BY <1>6 DEF IsFlat
<1> QED BY <1>2, <1>7

\* Two such functions for texts of which one list starts with the other agree.
LEMMA FlatAgree ==
    ASSUME NEW n \in Nat, NEW k \in Nat, n <= k, NEW p, NEW q, \A i \in 1..n : p[i] = q[i],
           NEW f, NEW g, IsFlat(f, p, n), IsFlat(g, q, k)
    PROVE  \A i \in 1..n : f[i] = g[i]
<1> DEFINE Bad == {i \in 1..n : f[i] # g[i]}
<1> SUFFICES ASSUME Bad # {} PROVE FALSE
  OBVIOUS
<1>1. Bad \in SUBSET Nat
  OBVIOUS
<1>2. PICK m \in Bad : \A i \in Bad : m <= i
  BY <1>1, NatLeast
<1>3. m \in 1..n /\ m \in 1..k /\ f[m] # g[m]
  OBVIOUS
<1>4. f[m] = IF m = 1 THEN p[m] ELSE f[m - 1] \o p[m]
  BY <1>3 DEF IsFlat
<1>5. g[m] = IF m = 1 THEN q[m] ELSE g[m - 1] \o q[m]
  BY <1>3 DEF IsFlat
<1>6. CASE m = 1
  BY <1>3, <1>4, <1>5, <1>6
<1>7. CASE m # 1
  <2>1. m - 1 \in 1..n /\ ~(m <= m - 1)
    BY <1>3, <1>7
  <2>2. f[m - 1] = g[m - 1]
    BY <1>2, <2>1
  <2> QED BY <1>3, <1>4, <1>5, <1>7, <2>2
<1> QED BY <1>6, <1>7

\* What FlattenSeq computes.
LEMMA FlattenIs ==
    \A p : Len(p) \in Nat /\ Len(p) # 0 => \E f : IsFlat(f, p, Len(p)) /\ FlattenSeq(p) = f[Len(p)]
<1> SUFFICES ASSUME NEW p, Len(p) \in Nat, Len(p) # 0
             PROVE  \E f : IsFlat(f, p, Len(p)) /\ FlattenSeq(p) = f[Len(p)]
  OBVIOUS
<1> DEFINE F == CHOOSE f : IsFlat(f, p, Len(p))
<1>1. FlattenSeq(p) = F[Len(p)]
  BY DEF FlattenSeq, IsFlat
<1>2. IsFlat(F, p, Len(p))
  BY FlatExists
<1> HIDE DEF F
<1> QED BY <1>1, <1>2

\* The first n of some sequences put together.
Cat(p, n) == FlattenSeq([i \in 1..n |-> p[i]])
AreSeqs(p, n, S) == \A i \in 1..n : p[i] \in Seq(S)

LEMMA CatEmpty == \A p : Cat(p, 0) = <<>>
<1> SUFFICES ASSUME NEW p PROVE Cat(p, 0) = <<>>
  OBVIOUS
<1> DEFINE q == [i \in 1..0 |-> p[i]]
<1>1. q = <<>>
  OBVIOUS
<1>2. Len(<<>>) = 0
  OBVIOUS
<1>3. FlattenSeq(<<>>) = <<>>
  BY <1>2 DEF FlattenSeq
<1> QED BY <1>1, <1>3 DEF Cat

LEMMA CatStep ==
    ASSUME NEW p, NEW n \in Nat
    PROVE  Cat(p, n + 1) = IF n = 0 THEN p[1] ELSE Cat(p, n) \o p[n + 1]
<1> DEFINE l == n + 1
           q == [i \in 1..l |-> p[i]]
           r == [i \in 1..n |-> p[i]]
<1>1. /\ l \in Nat /\ l # 0 /\ n <= l /\ l \in 1..l /\ l - 1 = n
      /\ Len(q) = l /\ Len(r) = n /\ q[l] = p[l]
      /\ \A i \in 1..n : r[i] = q[i]
  OBVIOUS
<1>2. Cat(p, l) = FlattenSeq(q) /\ Cat(p, n) = FlattenSeq(r)
  BY DEF Cat
<1> HIDE DEF q, r
<1>3. PICK g : IsFlat(g, q, l) /\ FlattenSeq(q) = g[l]
  BY <1>1, FlattenIs
<1>4. g[l] = IF l = 1 THEN q[l] ELSE g[l - 1] \o q[l]
  BY <1>1, <1>3 DEF IsFlat
<1>5. CASE n = 0
  BY <1>1, <1>2, <1>3, <1>4, <1>5
<1>6. CASE n # 0
  <2>1. PICK f : IsFlat(f, r, n) /\ FlattenSeq(r) = f[n]
    BY <1>1, <1>6, FlattenIs
  <2> HIDE DEF l
  <2>2. \A i \in 1..n : f[i] = g[i]
    <3>1. /\ l \in Nat /\ n <= l /\ \A i \in 1..n : r[i] = q[i]
          /\ IsFlat(f, r, n) /\ IsFlat(g, q, l)
      BY <1>1, <1>3, <2>1
    <3> QED BY ONLY <3>1, n \in Nat, FlatAgree
  <2>3. n \in 1..n /\ l # 1
    BY <1>1, <1>6
  <2>4. Cat(p, l) = Cat(p, n) \o p[l]
    BY <1>1, <1>2, <1>3, <1>4, <2>1, <2>2, <2>3
  <2> QED BY <1>6, <2>4 DEF l
<1> QED BY <1>5, <1>6

\* What is true of no sequences, and of one more, is true of n.
LEMMA CatUpTo ==
    ASSUME NEW n \in Nat, NEW T, 0 \in T,
           \A k \in Nat : k + 1 <= n /\ k \in T => k + 1 \in T
    PROVE  n \in T
<1> DEFINE Bad == {m \in 0..n : m \notin T}
<1> SUFFICES ASSUME Bad # {} PROVE FALSE
  OBVIOUS
<1>1. Bad \in SUBSET Nat
  OBVIOUS
<1>2. PICK m \in Bad : \A k \in Bad : m <= k
  BY <1>1, NatLeast
<1>3. m \in 0..n /\ m \notin T /\ m # 0
  OBVIOUS
<1>4. m - 1 \in Nat /\ m - 1 \in 0..n /\ (m - 1) + 1 = m /\ m <= n /\ ~(m <= m - 1)
  BY <1>3
<1>5. m - 1 \in T
  BY <1>2, <1>4
<1> QED BY <1>3, <1>4, <1>5

\* They make a sequence, and one more goes to its end.
LEMMA CatType ==
    ASSUME NEW S, NEW p, NEW n \in Nat, AreSeqs(p, n, S)
    PROVE  Cat(p, n) \in Seq(S)
<1> DEFINE T == {m \in Nat : m <= n => Cat(p, m) \in Seq(S)}
<1>1. 0 \in T
  <2>1. Cat(p, 0) = <<>> /\ <<>> \in Seq(S)
    BY CatEmpty
  <2> QED BY <2>1
<1>2. ASSUME NEW k \in Nat, k + 1 <= n, k \in T PROVE k + 1 \in T
  <2>1. Cat(p, k) \in Seq(S) /\ k + 1 \in 1..n
    BY <1>2
  <2>2. p[k + 1] \in Seq(S)
    BY <2>1 DEF AreSeqs
  <2>3. Cat(p, k) \o p[k + 1] \in Seq(S)
    BY <2>1, <2>2, ConcatProperties
  <2>4. Cat(p, k + 1) = IF k = 0 THEN p[1] ELSE Cat(p, k) \o p[k + 1]
    BY CatStep
  <2>5. k = 0 => p[k + 1] = p[1]
    OBVIOUS
  <2>6. Cat(p, k + 1) \in Seq(S)
    BY <2>2, <2>3, <2>4, <2>5
  <2> QED BY <2>6
<1> HIDE DEF T
<1>3. n \in T
  BY <1>1, <1>2, CatUpTo
<1> QED BY <1>3 DEF T

LEMMA CatNext ==
    ASSUME NEW S, NEW p, NEW n \in Nat, AreSeqs(p, n + 1, S)
    PROVE  /\ Cat(p, n) \in Seq(S) /\ p[n + 1] \in Seq(S)
           /\ Cat(p, n + 1) = Cat(p, n) \o p[n + 1]
<1>1. AreSeqs(p, n, S) /\ p[n + 1] \in Seq(S)
  BY DEF AreSeqs
<1>2. Cat(p, n) \in Seq(S)
  BY <1>1, CatType
<1>3. CASE n = 0
  <2>1. Cat(p, n + 1) = p[1] /\ Cat(p, n) = <<>> /\ n + 1 = 1
    BY <1>3, CatStep, CatEmpty
  <2>2. <<>> \o p[n + 1] = p[n + 1]
    BY <1>1, ConcatEmptySeq
  <2> QED BY <1>1, <1>2, <2>1, <2>2
<1>4. CASE n # 0
  BY <1>1, <1>2, <1>4, CatStep
<1> QED BY <1>3, <1>4

LEMMA CatSame ==
    ASSUME NEW p, NEW q, NEW n, \A i \in 1..n : p[i] = q[i]
    PROVE  Cat(p, n) = Cat(q, n)
<1>1. [i \in 1..n |-> p[i]] = [i \in 1..n |-> q[i]]
  OBVIOUS
<1> QED BY <1>1 DEF Cat

\* Two sequences of sequences one after the other.
LEMMA CatSplit ==
    ASSUME NEW S, NEW k \in Nat, NEW m \in Nat, NEW p, AreSeqs(p, k + m, S)
    PROVE  Cat(p, k + m) = Cat(p, k) \o Cat([i \in 1..m |-> p[k + i]], m)
<1> DEFINE q == [i \in 1..m |-> p[k + i]]
           T == {j \in Nat : j <= m => Cat(p, k + j) = Cat(p, k) \o Cat(q, j)}
<1>1. Cat(p, k) \in Seq(S)
  <2>1. AreSeqs(p, k, S)
    BY DEF AreSeqs
  <2> QED BY <2>1, CatType
<1>2. 0 \in T
  <2>1. Cat(q, 0) = <<>> /\ k + 0 = k
    BY CatEmpty
  <2>2. Cat(p, k) \o <<>> = Cat(p, k)
    BY <1>1, ConcatEmptySeq
  <2> QED BY <2>1, <2>2
<1>3. ASSUME NEW j \in Nat, j + 1 <= m, j \in T PROVE j + 1 \in T
  <2>1. Cat(p, k + j) = Cat(p, k) \o Cat(q, j)
    BY <1>3
  <2>2. q[j + 1] = p[k + (j + 1)]
    BY <1>3
  <2>3. AreSeqs(q, j + 1, S)
    <3> SUFFICES ASSUME NEW i \in 1..(j + 1) PROVE q[i] \in Seq(S)
      BY DEF AreSeqs
    <3>1. k + i \in 1..(k + m) /\ i \in 1..m
      BY <1>3
    <3> QED BY <3>1 DEF AreSeqs
  <2> HIDE DEF q
  <2>4. Cat(q, j + 1) = Cat(q, j) \o q[j + 1] /\ Cat(q, j) \in Seq(S) /\ q[j + 1] \in Seq(S)
    BY <2>3, CatNext
  <2> DEFINE l == k + j
  <2>5. l \in Nat /\ l + 1 = k + (j + 1)
    OBVIOUS
  <2>6. AreSeqs(p, l + 1, S)
    BY <1>3 DEF AreSeqs
  <2> HIDE DEF l
  <2>7. Cat(p, l + 1) = Cat(p, l) \o p[l + 1]
    BY <2>5, <2>6, CatNext
  <2>8. (Cat(p, k) \o Cat(q, j)) \o q[j + 1] = Cat(p, k) \o (Cat(q, j) \o q[j + 1])
    <3> DEFINE a == Cat(p, k)
               b == Cat(q, j)
               c == q[j + 1]
    <3>1. a \in Seq(S) /\ b \in Seq(S) /\ c \in Seq(S)
      BY <1>1, <2>4
    <3> HIDE DEF a, b, c
    <3>2. (a \o b) \o c = a \o (b \o c)
      BY ONLY <3>1, ConcatAssociative, SMTT(30)
    <3> QED BY <3>2 DEF a, b, c
  <2>9. Cat(p, k + (j + 1)) = Cat(p, k) \o Cat(q, j + 1)
    BY <2>1, <2>2, <2>4, <2>5, <2>7, <2>8 DEF l
  <2> QED BY <1>3, <2>9
<1> HIDE DEF T
<1>4. m \in T
  BY <1>2, <1>3, CatUpTo
<1> QED BY <1>4 DEF T

\* A function of sequences that respects \o respects Cat.
IsHom(h, S, T) ==
    /\ h \in [Seq(S) -> Seq(T)] /\ h[<<>>] = <<>>
    /\ \A a, b \in Seq(S) : h[a \o b] = h[a] \o h[b]

LEMMA CatHom ==
    ASSUME NEW S, NEW T, NEW h, IsHom(h, S, T),
           NEW n \in Nat, NEW p, AreSeqs(p, n, S),
           NEW q, \A i \in 1..n : q[i] = h[p[i]]
    PROVE  h[Cat(p, n)] = Cat(q, n)
<1> DEFINE D == {m \in Nat : m <= n => h[Cat(p, m)] = Cat(q, m)}
<1>1. 0 \in D
  BY CatEmpty DEF IsHom
<1>2. ASSUME NEW k \in Nat, k + 1 <= n, k \in D PROVE k + 1 \in D
  <2>1. h[Cat(p, k)] = Cat(q, k) /\ k + 1 \in 1..n
    BY <1>2
  <2>2. AreSeqs(p, k + 1, S) /\ q[k + 1] = h[p[k + 1]]
    BY <1>2 DEF AreSeqs
  <2>7. AreSeqs(q, k + 1, T)
    <3> SUFFICES ASSUME NEW i \in 1..(k + 1) PROVE q[i] \in Seq(T)
      BY DEF AreSeqs
    <3>1. i \in 1..n /\ p[i] \in Seq(S)
      BY <1>2 DEF AreSeqs
    <3> QED BY <3>1 DEF IsHom
  <2>3. /\ Cat(p, k) \in Seq(S) /\ p[k + 1] \in Seq(S)
        /\ Cat(p, k + 1) = Cat(p, k) \o p[k + 1]
    BY <2>2, CatNext
  <2>4. Cat(q, k + 1) = Cat(q, k) \o q[k + 1]
    BY <2>7, CatNext
  <2>5. h[Cat(p, k) \o p[k + 1]] = h[Cat(p, k)] \o h[p[k + 1]]
    BY <2>3 DEF IsHom
  <2>6. h[Cat(p, k + 1)] = Cat(q, k + 1)
    BY <2>1, <2>2, <2>3, <2>4, <2>5
  <2> QED BY <2>6
<1> HIDE DEF D
<1>3. n \in D
  BY <1>1, <1>2, CatUpTo
<1> QED BY <1>3 DEF D

-----------------------------------------------------------------------------
(* The elements of a sequence, each replaced by a sequence.                *)

Gives(f, S, T) == f \in [S -> Seq(T)]
Each(f, s) == Cat([i \in DOMAIN s |-> f[s[i]]], Len(s))

LEMMA EachType ==
    ASSUME NEW S, NEW T, NEW f, Gives(f, S, T), NEW s \in Seq(S)
    PROVE  Each(f, s) \in Seq(T)
<1> DEFINE p == [i \in DOMAIN s |-> f[s[i]]]
           n == Len(s)
<1>1. n \in Nat /\ DOMAIN s = 1..n /\ \A i \in 1..n : s[i] \in S
  BY LenProperties, ElementOfSeq
<1>2. AreSeqs(p, n, T)
  BY <1>1 DEF AreSeqs, Gives
<1> HIDE DEF p, n
<1>3. Cat(p, n) \in Seq(T)
  BY <1>1, <1>2, CatType
<1> QED BY <1>3 DEF Each, p, n

LEMMA EachOne ==
    ASSUME NEW S, NEW T, NEW f, Gives(f, S, T), NEW x \in S
    PROVE  Each(f, <<>>) = <<>> /\ Each(f, <<x>>) = f[x]
<1> DEFINE p == [i \in DOMAIN <<x>> |-> f[<<x>>[i]]]
           q == [i \in DOMAIN <<>> |-> f[<<>>[i]]]
<1>1. Len(<<>>) = 0 /\ Len(<<x>>) = 1 /\ p[1] = f[x] /\ 0 + 1 = 1 /\ 0 \in Nat
  OBVIOUS
<1>2. Cat(q, 0) = <<>>
  BY CatEmpty
<1> HIDE DEF p, q
<1>3. Cat(p, 0 + 1) = p[1]
  BY <1>1, CatStep
<1>4. Cat(p, 1) = f[x]
  BY <1>1, <1>3
<1> QED BY <1>1, <1>2, <1>4 DEF Each, p, q

LEMMA EachConcat ==
    ASSUME NEW S, NEW T, NEW f, Gives(f, S, T), NEW a \in Seq(S), NEW b \in Seq(S)
    PROVE  Each(f, a \o b) = Each(f, a) \o Each(f, b)
<1> DEFINE k == Len(a)
           m == Len(b)
           c == a \o b
           p == [i \in DOMAIN c |-> f[c[i]]]
<1>1. /\ k \in Nat /\ m \in Nat /\ DOMAIN a = 1..k /\ DOMAIN b = 1..m
      /\ c \in Seq(S) /\ Len(c) = k + m
      /\ \A i \in 1..(k + m) : c[i] = IF i <= k THEN a[i] ELSE b[i - k]
  BY LenProperties, ConcatProperties
<1>2. DOMAIN c = 1..(k + m)
  BY <1>1, LenProperties
<1>3. \A i \in 1..(k + m) : c[i] \in S
  BY <1>1, ElementOfSeq
<1>4. AreSeqs(p, k + m, T)
  BY <1>2, <1>3 DEF AreSeqs, Gives
<1> DEFINE qa == [i \in DOMAIN a |-> f[a[i]]]
           qb == [i \in DOMAIN b |-> f[b[i]]]
           r == [i \in 1..m |-> p[k + i]]
<1>5. \A i \in 1..k : p[i] = qa[i]
  <2> SUFFICES ASSUME NEW i \in 1..k PROVE p[i] = qa[i]
    OBVIOUS
  <2>1. i \in 1..(k + m) /\ i <= k /\ i \in DOMAIN a
    BY <1>1
  <2>2. c[i] = a[i]
    BY <1>1, <2>1
  <2> HIDE DEF c
  <2> QED BY <1>2, <2>1, <2>2
<1>6. \A i \in 1..m : r[i] = qb[i]
  <2> SUFFICES ASSUME NEW i \in 1..m PROVE p[k + i] = qb[i]
    OBVIOUS
  <2>1. k + i \in 1..(k + m) /\ ~(k + i <= k) /\ (k + i) - k = i /\ i \in DOMAIN b
    BY <1>1
  <2>2. c[k + i] = b[i]
    BY <1>1, <2>1
  <2> HIDE DEF c
  <2> QED BY <1>2, <2>1, <2>2
<1> HIDE DEF p, qa, qb, r, k, m, c
<1>7. Cat(p, k + m) = Cat(p, k) \o Cat(r, m)
  BY <1>1, <1>4, CatSplit DEF r
<1>8. Cat(p, k) = Cat(qa, k) /\ Cat(r, m) = Cat(qb, m)
  BY <1>5, <1>6, CatSame
<1>9. Each(f, c) = Cat(p, k + m)
  BY <1>1 DEF Each, p
<1>10. Each(f, a) = Cat(qa, k) /\ Each(f, b) = Cat(qb, m)
  BY DEF Each, qa, qb, k, m
<1> QED BY <1>7, <1>8, <1>9, <1>10 DEF c

LEMMA EachCat ==
    ASSUME NEW S, NEW T, NEW f, Gives(f, S, T), NEW n \in Nat, NEW p, AreSeqs(p, n, S),
           NEW q, \A i \in 1..n : q[i] = Each(f, p[i])
    PROVE  Each(f, Cat(p, n)) = Cat(q, n)
<1> DEFINE h == [s \in Seq(S) |-> Each(f, s)]
<1>1. h \in [Seq(S) -> Seq(T)] /\ \A s \in Seq(S) : h[s] = Each(f, s)
  BY EachType
<1>2. Cat(p, n) \in Seq(S) /\ <<>> \in Seq(S)
  BY CatType
<1>3. Each(f, <<>>) = <<>>
  BY CatEmpty DEF Each
<1>4. ASSUME NEW a \in Seq(S), NEW b \in Seq(S)
      PROVE  a \o b \in Seq(S) /\ Each(f, a \o b) = Each(f, a) \o Each(f, b)
  <2>1. a \o b \in Seq(S)
    BY ConcatProperties
  <2>2. Each(f, a \o b) = Each(f, a) \o Each(f, b)
    BY EachConcat
  <2> QED BY <2>1, <2>2
<1>5. \A i \in 1..n : q[i] = h[p[i]]
  BY DEF AreSeqs
<1> HIDE DEF h
<1>6. IsHom(h, S, T)
  <2>1. h[<<>>] = <<>>
    BY <1>1, <1>2, <1>3
  <2>2. ASSUME NEW a \in Seq(S), NEW b \in Seq(S) PROVE h[a \o b] = h[a] \o h[b]
    <3> DEFINE c == a \o b
    <3>1. c \in Seq(S) /\ Each(f, c) = Each(f, a) \o Each(f, b)
      BY <1>4
    <3> HIDE DEF c
    <3>2. h[c] = Each(f, c) /\ h[a] = Each(f, a) /\ h[b] = Each(f, b)
      BY <1>1, <3>1
    <3> QED BY <3>1, <3>2 DEF c
  <2> QED BY <1>1, <2>1, <2>2 DEF IsHom
<1>7. h[Cat(p, n)] = Cat(q, n)
  BY <1>5, <1>6, CatHom
<1> QED BY <1>1, <1>2, <1>7

\* Where all but one are empty.
LEMMA CatOne ==
    ASSUME NEW S, NEW p, NEW n \in Nat, AreSeqs(p, n, S), NEW k \in 1..n,
           \A i \in 1..n : i # k => p[i] = <<>>
    PROVE  Cat(p, n) = p[k]
<1> DEFINE T == {m \in Nat : m <= n => Cat(p, m) = IF m < k THEN <<>> ELSE p[k]}
<1>1. 0 \in T
  BY CatEmpty
<1>2. ASSUME NEW m \in Nat, m + 1 <= n, m \in T PROVE m + 1 \in T
  <2>1. Cat(p, m) = (IF m < k THEN <<>> ELSE p[k]) /\ m + 1 \in 1..n
    BY <1>2
  <2>2. AreSeqs(p, m + 1, S)
    BY <1>2 DEF AreSeqs
  <2>3. /\ Cat(p, m) \in Seq(S) /\ p[m + 1] \in Seq(S)
        /\ Cat(p, m + 1) = Cat(p, m) \o p[m + 1]
    BY <2>2, CatNext
  <2>4. Cat(p, m) \o <<>> = Cat(p, m) /\ <<>> \o p[m + 1] = p[m + 1]
    BY <2>3, ConcatEmptySeq
  <2>5. Cat(p, m + 1) = IF m + 1 < k THEN <<>> ELSE p[k]
    <3>1. CASE m + 1 = k
      <4>1. Cat(p, m) = <<>> /\ ~(m + 1 < k)
        BY <2>1, <3>1
      <4> QED BY <2>3, <2>4, <3>1, <4>1
    <3>2. CASE m + 1 # k
      <4>1. p[m + 1] = <<>> /\ (m < k <=> m + 1 < k)
        BY <2>1, <3>2
      <4> QED BY <2>1, <2>3, <2>4, <4>1
    <3> QED BY <3>1, <3>2
  <2> QED BY <2>5
<1> HIDE DEF T
<1>3. n \in T
  BY <1>1, <1>2, CatUpTo
<1> QED BY <1>3 DEF T

LEMMA CatNone ==
    ASSUME NEW p, NEW n \in Nat, \A i \in 1..n : p[i] = <<>>
    PROVE  Cat(p, n) = <<>>
<1>1. CASE n = 0
  BY <1>1, CatEmpty
<1>2. CASE n # 0
  <2>1. n \in 1..n /\ p[n] = <<>> /\ \A S : <<>> \in Seq(S)
    BY <1>2
  <2>2. AreSeqs(p, n, {})
    BY <2>1 DEF AreSeqs
  <2>3. Cat(p, n) = p[n]
    BY <2>1, <2>2, CatOne
  <2> QED BY <2>1, <2>3
<1> QED BY <1>1, <1>2

\* What is in a sequence.
LEMMA InSeq ==
    ASSUME NEW S, NEW s \in Seq(S)
    PROVE  /\ Len(s) \in Nat /\ DOMAIN s = 1..Len(s)
           /\ ToSet(s) = {s[i] : i \in 1..Len(s)}
           /\ \A i \in 1..Len(s) : s[i] \in S /\ s[i] \in ToSet(s)
           /\ \A x \in ToSet(s) : x \in S /\ \E i \in 1..Len(s) : x = s[i]
<1>1. Len(s) \in Nat /\ DOMAIN s = 1..Len(s) /\ \A i \in 1..Len(s) : s[i] \in S
  BY LenProperties, ElementOfSeq
<1>2. ToSet(s) = {s[i] : i \in 1..Len(s)}
  BY <1>1 DEF ToSet
<1> QED BY <1>1, <1>2

LEMMA InConcat ==
    ASSUME NEW S, NEW a \in Seq(S), NEW b \in Seq(S)
    PROVE  ToSet(a \o b) = ToSet(a) \union ToSet(b)
<1>1. /\ Len(a) \in Nat /\ Len(b) \in Nat /\ a \o b \in Seq(S)
      /\ Len(a \o b) = Len(a) + Len(b)
      /\ \A i \in 1..(Len(a) + Len(b)) :
            (a \o b)[i] = IF i <= Len(a) THEN a[i] ELSE b[i - Len(a)]
  BY LenProperties, ConcatProperties
<1> DEFINE c == a \o b
           k == Len(a)
           m == Len(b)
<1>2. /\ ToSet(c) = {c[i] : i \in 1..(k + m)}
      /\ ToSet(a) = {a[i] : i \in 1..k} /\ ToSet(b) = {b[i] : i \in 1..m}
  <2>1. ToSet(c) = {c[i] : i \in 1..Len(c)}
    BY <1>1, InSeq
  <2> QED BY <1>1, <2>1, InSeq
<1>3. /\ k \in Nat /\ m \in Nat
      /\ \A i \in 1..(k + m) : c[i] = IF i <= k THEN a[i] ELSE b[i - k]
  BY <1>1
<1> HIDE DEF c, k, m
<1>4. ASSUME NEW x \in ToSet(c) PROVE x \in ToSet(a) \union ToSet(b)
  <2>1. PICK i \in 1..(k + m) : x = c[i]
    BY <1>2
  <2>2. IF i <= k THEN i \in 1..k ELSE i - k \in 1..m
    BY <1>3
  <2> QED BY <1>2, <1>3, <2>1, <2>2
<1>5. ASSUME NEW x \in ToSet(a) PROVE x \in ToSet(c)
  <2>1. PICK i \in 1..k : x = a[i]
    BY <1>2
  <2>2. i \in 1..(k + m) /\ i <= k
    BY <1>3
  <2> QED BY <1>2, <1>3, <2>1, <2>2
<1>6. ASSUME NEW x \in ToSet(b) PROVE x \in ToSet(c)
  <2>1. PICK i \in 1..m : x = b[i]
    BY <1>2
  <2>2. k + i \in 1..(k + m) /\ ~(k + i <= k) /\ (k + i) - k = i
    BY <1>3
  <2>3. c[k + i] = b[i]
    BY <1>3, <2>2
  <2> QED BY <1>2, <2>1, <2>2, <2>3
<1> QED BY <1>4, <1>5, <1>6 DEF c

LEMMA InCat ==
    ASSUME NEW S, NEW p, NEW n \in Nat, AreSeqs(p, n, S)
    PROVE  ToSet(Cat(p, n)) = UNION {ToSet(p[i]) : i \in 1..n}
<1> DEFINE All(m) == UNION {ToSet(p[i]) : i \in 1..m}
           T == {m \in Nat : m <= n => ToSet(Cat(p, m)) = All(m)}
<1>1. 0 \in T
  <2>1. ToSet(<<>>) = {} /\ 1..0 = {}
    BY DEF ToSet
  <2> QED BY <2>1, CatEmpty
<1>2. ASSUME NEW k \in Nat, k + 1 <= n, k \in T PROVE k + 1 \in T
  <2>1. AreSeqs(p, k + 1, S)
    BY <1>2 DEF AreSeqs
  <2>2. /\ Cat(p, k) \in Seq(S) /\ p[k + 1] \in Seq(S)
        /\ Cat(p, k + 1) = Cat(p, k) \o p[k + 1]
    BY <2>1, CatNext
  <2>3. ToSet(Cat(p, k + 1)) = ToSet(Cat(p, k)) \union ToSet(p[k + 1])
    BY ONLY <2>2, InConcat, ZenonT(30)
  <2>4. 1..(k + 1) = (1..k) \union {k + 1}
    OBVIOUS
  <2>5. All(k + 1) = All(k) \union ToSet(p[k + 1])
    BY <2>4
  <2>6. ToSet(Cat(p, k)) = All(k)
    BY <1>2
  <2> QED BY <2>3, <2>5, <2>6
<1> HIDE DEF T
<1>3. n \in T
  BY <1>1, <1>2, CatUpTo
<1> QED BY <1>3 DEF T

\* Select and ItemsOf replace every element by a sequence.
Picked(Good) == [x \in Items |-> IF x \in Good THEN <<x>> ELSE <<>>]
Within(kind) == [s \in Section |-> IF s.sec = kind THEN s.items ELSE <<>>]

LEMMA SelectIs ==
    ASSUME NEW Good, NEW s \in Seq(Items)
    PROVE  Gives(Picked(Good), Items, Items) /\ Select(s, Good) = Each(Picked(Good), s)
<1>1. Gives(Picked(Good), Items, Items)
  <2>1. \A x \in Items : <<x>> \in Seq(Items) /\ <<>> \in Seq(Items)
    OBVIOUS
  <2> QED BY <2>1 DEF Gives, Picked
<1> DEFINE n == Len(s)
           p == [i \in DOMAIN s |-> IF s[i] \in Good THEN <<s[i]>> ELSE <<>>]
           q == [i \in DOMAIN s |-> Picked(Good)[s[i]]]
<1>2. n \in Nat /\ DOMAIN s = 1..n /\ \A i \in 1..n : s[i] \in Items
  BY InSeq
<1>3. \A i \in 1..n : p[i] = q[i]
  BY <1>2 DEF Picked
<1>4. FlattenSeq(p) = Cat(p, n)
  BY <1>2 DEF Cat
<1>5. Select(s, Good) = FlattenSeq(p) /\ Each(Picked(Good), s) = Cat(q, n)
  BY DEF Select, Each
<1> HIDE DEF p, q, n
<1>6. Cat(p, n) = Cat(q, n)
  BY <1>3, CatSame
<1> QED BY <1>1, <1>4, <1>5, <1>6

LEMMA ItemsOfIs ==
    ASSUME NEW kind, NEW d \in Document
    PROVE  Gives(Within(kind), Section, Items) /\ ItemsOf(d, kind) = Each(Within(kind), d)
<1>1. Gives(Within(kind), Section, Items)
  <2>1. \A x \in Section : x.items \in Seq(Items) /\ <<>> \in Seq(Items)
    BY DEF Section
  <2> QED BY <2>1 DEF Gives, Within
<1> DEFINE n == Len(d)
           p == [s \in DOMAIN d |-> IF d[s].sec = kind THEN d[s].items ELSE <<>>]
           q == [s \in DOMAIN d |-> Within(kind)[d[s]]]
<1>2. n \in Nat /\ DOMAIN d = 1..n /\ \A i \in 1..n : d[i] \in Section
  BY InSeq DEF Document
<1>3. \A i \in 1..n : p[i] = q[i]
  BY <1>2 DEF Within
<1>4. FlattenSeq(p) = Cat(p, n)
  BY <1>2 DEF Cat
<1>5. ItemsOf(d, kind) = FlattenSeq(p) /\ Each(Within(kind), d) = Cat(q, n)
  BY DEF ItemsOf, Each
<1> HIDE DEF p, q, n
<1>6. Cat(p, n) = Cat(q, n)
  BY <1>3, CatSame
<1> QED BY <1>1, <1>4, <1>5, <1>6

LEMMA SelectType ==
    ASSUME NEW Good, NEW s \in Seq(Items)
    PROVE  /\ Select(s, Good) \in Seq(Items)
           /\ ToSet(Select(s, Good)) = ToSet(s) \intersect Good
<1> DEFINE n == Len(s)
           q == [i \in DOMAIN s |-> Picked(Good)[s[i]]]
<1>1. /\ n \in Nat /\ DOMAIN s = 1..n /\ \A i \in 1..n : s[i] \in Items
      /\ ToSet(s) = {s[i] : i \in 1..n}
  BY InSeq
<1>2. Gives(Picked(Good), Items, Items) /\ Select(s, Good) = Cat(q, n)
  BY SelectIs DEF Each
<1>3. \A i \in 1..n : q[i] = IF s[i] \in Good THEN <<s[i]>> ELSE <<>>
  BY <1>1 DEF Picked
<1>4. AreSeqs(q, n, Items)
  <2>1. \A x \in Items : <<x>> \in Seq(Items) /\ <<>> \in Seq(Items)
    OBVIOUS
  <2> QED BY <1>1, <1>3, <2>1 DEF AreSeqs
<1> HIDE DEF q, n
<1>5. Cat(q, n) \in Seq(Items) /\ ToSet(Cat(q, n)) = UNION {ToSet(q[i]) : i \in 1..n}
  BY <1>1, <1>4, CatType, InCat
<1>6. \A i \in 1..n : ToSet(q[i]) = {s[i]} \intersect Good
  <2>1. \A x : ToSet(<<x>>) = {x} /\ ToSet(<<>>) = {}
    BY DEF ToSet
  <2>2. ASSUME NEW i \in 1..n PROVE ToSet(q[i]) = {s[i]} \intersect Good
    <3>1. CASE s[i] \in Good
      <4>1. ToSet(q[i]) = {s[i]}
        BY <1>3, <2>1, <3>1
      <4> QED BY <3>1, <4>1
    <3>2. CASE s[i] \notin Good
      <4>1. ToSet(q[i]) = {}
        BY <1>3, <2>1, <3>2
      <4> QED BY <3>2, <4>1
    <3> QED BY <3>1, <3>2
  <2> QED BY <2>2
<1>7. UNION {ToSet(q[i]) : i \in 1..n} = {s[i] : i \in 1..n} \intersect Good
  BY <1>6
<1> QED BY <1>1, <1>2, <1>5, <1>7

LEMMA SelectConcat ==
    ASSUME NEW Good, NEW a \in Seq(Items), NEW b \in Seq(Items)
    PROVE  Select(a \o b, Good) = Select(a, Good) \o Select(b, Good)
<1> DEFINE f == Picked(Good)
<1>1. a \o b \in Seq(Items)
  BY ConcatProperties
<1>2. /\ Gives(f, Items, Items) /\ Select(a, Good) = Each(f, a)
      /\ Select(b, Good) = Each(f, b) /\ Select(a \o b, Good) = Each(f, a \o b)
  BY <1>1, SelectIs
<1> HIDE DEF f
<1>3. Each(f, a \o b) = Each(f, a) \o Each(f, b)
  BY <1>2, EachConcat
<1> QED BY <1>2, <1>3

LEMMA SelectCat ==
    ASSUME NEW Good, NEW n \in Nat, NEW p, AreSeqs(p, n, Items),
           NEW q, \A i \in 1..n : q[i] = Select(p[i], Good)
    PROVE  Select(Cat(p, n), Good) = Cat(q, n)
<1> DEFINE f == Picked(Good)
<1>1. Cat(p, n) \in Seq(Items) /\ <<>> \in Seq(Items)
  BY CatType
<1>2. Gives(f, Items, Items) /\ Select(Cat(p, n), Good) = Each(f, Cat(p, n))
  BY <1>1, SelectIs
<1>3. \A i \in 1..n : q[i] = Each(f, p[i])
  BY SelectIs DEF AreSeqs
<1> HIDE DEF f
<1>4. Each(f, Cat(p, n)) = Cat(q, n)
  BY <1>2, <1>3, EachCat
<1> QED BY <1>2, <1>4

LEMMA ItemsOfCat ==
    ASSUME NEW kind, NEW n \in Nat, NEW p, AreSeqs(p, n, Section),
           NEW q, \A i \in 1..n : q[i] = ItemsOf(p[i], kind)
    PROVE  ItemsOf(Cat(p, n), kind) = Cat(q, n)
<1> DEFINE f == Within(kind)
<1>1. Cat(p, n) \in Document /\ <<>> \in Document
  BY CatType DEF Document
<1>2. Gives(f, Section, Items) /\ ItemsOf(Cat(p, n), kind) = Each(f, Cat(p, n))
  BY <1>1, ItemsOfIs
<1>3. \A i \in 1..n : q[i] = Each(f, p[i])
  BY ItemsOfIs DEF AreSeqs, Document
<1> HIDE DEF f
<1>4. Each(f, Cat(p, n)) = Cat(q, n)
  BY <1>2, <1>3, EachCat
<1> QED BY <1>2, <1>4

LEMMA SelectSame ==
    ASSUME NEW s \in Seq(Items), NEW A, NEW B, ToSet(s) \intersect A = ToSet(s) \intersect B
    PROVE  Select(s, A) = Select(s, B)
<1>1. DOMAIN s = 1..Len(s) /\ \A i \in 1..Len(s) : s[i] \in ToSet(s)
  BY InSeq
<1>2. \A i \in 1..Len(s) : s[i] \in A <=> s[i] \in B
  BY <1>1
<1> QED BY <1>1, <1>2 DEF Select

LEMMA SelectNone ==
    ASSUME NEW s \in Seq(Items), NEW A, ToSet(s) \intersect A = {}
    PROVE  Select(s, A) = <<>>
<1> DEFINE n == Len(s)
           q == [i \in DOMAIN s |-> Picked(A)[s[i]]]
<1>1. /\ n \in Nat /\ DOMAIN s = 1..n
      /\ \A i \in 1..n : s[i] \in Items /\ s[i] \in ToSet(s)
  BY InSeq
<1>2. Select(s, A) = Cat(q, n)
  BY SelectIs DEF Each
<1>3. \A i \in 1..n : q[i] = <<>>
  BY <1>1 DEF Picked
<1> HIDE DEF q, n
<1>4. Cat(q, n) = <<>>
  BY <1>1, <1>3, CatNone
<1> QED BY <1>2, <1>4

LEMMA SelectAll ==
    ASSUME NEW s \in Seq(Items), NEW A, ToSet(s) \subseteq A
    PROVE  Select(s, A) = s
<1> DEFINE n == Len(s)
           q == [i \in DOMAIN s |-> Picked(A)[s[i]]]
<1>1. /\ n \in Nat /\ DOMAIN s = 1..n
      /\ \A i \in 1..n : s[i] \in Items /\ s[i] \in ToSet(s)
  BY InSeq
<1>2. Select(s, A) = Cat(q, n)
  BY SelectIs DEF Each
<1>3. \A i \in 1..n : q[i] = <<s[i]>>
  BY <1>1 DEF Picked
<1> DEFINE Begins(m) == Len(Cat(q, m)) = m /\ \A i \in 1..m : Cat(q, m)[i] = s[i]
           T == {m \in Nat : m <= n => Begins(m)}
<1>4. AreSeqs(q, n, Items)
  <2>1. \A x \in Items : <<x>> \in Seq(Items)
    OBVIOUS
  <2> QED BY <1>1, <1>3, <2>1 DEF AreSeqs
<1> HIDE DEF q, n
<1>5. 0 \in T
  BY CatEmpty
<1>6. ASSUME NEW m \in Nat, m + 1 <= n, m \in T PROVE m + 1 \in T
  <2>1. AreSeqs(q, m + 1, Items) /\ m + 1 \in 1..n
    BY <1>1, <1>4, <1>6 DEF AreSeqs
  <2> DEFINE a == Cat(q, m)
             b == q[m + 1]
             c == a \o b
  <2>2. a \in Seq(Items) /\ b \in Seq(Items) /\ Cat(q, m + 1) = c
    BY <2>1, CatNext
  <2>3. Len(a) = m /\ b = <<s[m + 1]>> /\ \A i \in 1..m : a[i] = s[i]
    BY <1>1, <1>3, <1>6, <2>1
  <2>4. Len(b) = 1 /\ b[1] = s[m + 1]
    BY <2>3
  <2> HIDE DEF a, b
  <2>5. Len(c) = m + 1 /\ \A i \in 1..(m + 1) : c[i] = IF i <= m THEN a[i] ELSE b[i - m]
    BY <2>2, <2>3, <2>4, ConcatProperties
  <2> HIDE DEF c
  <2>6. ASSUME NEW i \in 1..(m + 1) PROVE c[i] = s[i]
    <3>1. CASE i <= m
      BY <2>3, <2>5, <3>1
    <3>2. CASE ~(i <= m)
      <4>1. i = m + 1 /\ i - m = 1
        BY <3>2
      <4> QED BY <2>4, <2>5, <3>2, <4>1
    <3> QED BY <3>1, <3>2
  <2>7. Begins(m + 1)
    BY <2>2, <2>5, <2>6
  <2> QED BY <2>7
<1> HIDE DEF T
<1>7. n \in T
  BY <1>1, <1>5, <1>6, CatUpTo
<1>8. Len(Cat(q, n)) = Len(s) /\ \A i \in 1..Len(s) : Cat(q, n)[i] = s[i]
  BY <1>1, <1>7 DEF T, n
<1>9. Cat(q, n) \in Seq(Items)
  BY <1>1, <1>4, CatType
<1>10. Cat(q, n) = s
  BY <1>8, <1>9, SeqEqual
<1> QED BY <1>2, <1>10

LEMMA SelectTwice ==
    ASSUME NEW s \in Seq(Items), NEW A, NEW B
    PROVE  Select(Select(s, A), B) = Select(s, A \intersect B)
<1> DEFINE n == Len(s)
           p == [i \in DOMAIN s |-> Picked(A)[s[i]]]
           q == [i \in DOMAIN s |-> Picked(A \intersect B)[s[i]]]
<1>1. n \in Nat /\ DOMAIN s = 1..n /\ \A i \in 1..n : s[i] \in Items
  BY InSeq
<1>2. Select(s, A) = Cat(p, n) /\ Select(s, A \intersect B) = Cat(q, n)
  BY SelectIs DEF Each
<1>3. \A i \in 1..n : /\ p[i] = IF s[i] \in A THEN <<s[i]>> ELSE <<>>
                      /\ q[i] = IF s[i] \in A /\ s[i] \in B THEN <<s[i]>> ELSE <<>>
  BY <1>1 DEF Picked
<1>4. \A x \in Items : /\ <<x>> \in Seq(Items) /\ <<>> \in Seq(Items)
                       /\ ToSet(<<x>>) = {x} /\ ToSet(<<>>) = {}
  BY DEF ToSet
<1> HIDE DEF p, q, n
<1>5. AreSeqs(p, n, Items)
  BY <1>1, <1>3, <1>4 DEF AreSeqs
<1>6. ASSUME NEW i \in 1..n PROVE q[i] = Select(p[i], B)
  <2> DEFINE x == s[i]
  <2>1. x \in Items
    BY <1>1
  <2>2. /\ p[i] = IF x \in A THEN <<x>> ELSE <<>>
        /\ q[i] = IF x \in A /\ x \in B THEN <<x>> ELSE <<>>
    BY <1>3
  <2> HIDE DEF x
  <2>3. Select(<<>>, B) = <<>>
    BY <1>4, <2>1, SelectNone
  <2>4. ASSUME x \in B PROVE Select(<<x>>, B) = <<x>>
    <3>1. <<x>> \in Seq(Items) /\ ToSet(<<x>>) \subseteq B
      BY <1>4, <2>1, <2>4
    <3> QED BY ONLY <3>1, SelectAll
  <2>5. ASSUME x \notin B PROVE Select(<<x>>, B) = <<>>
    <3>1. <<x>> \in Seq(Items) /\ ToSet(<<x>>) \intersect B = {}
      BY <1>4, <2>1, <2>5
    <3> QED BY ONLY <3>1, SelectNone
  <2>6. CASE x \in A /\ x \in B
    BY <2>2, <2>4, <2>6
  <2>7. CASE x \in A /\ x \notin B
    BY <2>2, <2>5, <2>7
  <2>8. CASE x \notin A
    BY <2>2, <2>3, <2>8
  <2> QED BY <2>6, <2>7, <2>8
<1>7. Select(Cat(p, n), B) = Cat(q, n)
  BY <1>1, <1>5, <1>6, SelectCat
<1> QED BY <1>2, <1>7

LEMMA Fields ==
    /\ \A i \in Items : /\ i.tag \in Names /\ i.variant \in SUBSET Names
                        /\ i.of \in SUBSET Nat /\ i.attrs \in SUBSET Names
    /\ \A s \in Section : /\ s.sec \in Names /\ s.variant \in SUBSET Names
                          /\ s.items \in Seq(Items)
BY DEF Items, Section

LEMMA DocumentIs ==
    ASSUME NEW d \in Document
    PROVE  /\ Len(d) \in Nat /\ DOMAIN d = 1..Len(d)
           /\ \A s \in 1..Len(d) : /\ d[s] \in Section /\ d[s].items \in Seq(Items)
                                   /\ d[s] \in ToSet(d)
           /\ \A x \in ToSet(d) : x \in Section /\ \E s \in 1..Len(d) : x = d[s]
<1>1. d \in Seq(Section)
  BY DEF Document
<1>2. /\ Len(d) \in Nat /\ DOMAIN d = 1..Len(d)
      /\ \A s \in 1..Len(d) : d[s] \in Section /\ d[s] \in ToSet(d)
      /\ \A x \in ToSet(d) : x \in Section /\ \E s \in 1..Len(d) : x = d[s]
  BY <1>1, InSeq
<1> QED BY <1>2, Fields

\* What a sequence of items was made of.
LEMMA ContentsType ==
    ASSUME NEW s \in Seq(Items)
    PROVE  /\ Contents(s) \in Seq(SUBSET Nat) /\ Len(Contents(s)) = Len(s)
           /\ DOMAIN Contents(s) = 1..Len(s)
           /\ \A i \in 1..Len(s) : Contents(s)[i] = s[i].of
           /\ Parts(s) = UNION ToSet(Contents(s))
<1> DEFINE n == Len(s)
           c == Contents(s)
<1>1. /\ n \in Nat /\ DOMAIN s = 1..n /\ ToSet(s) = {s[i] : i \in 1..n}
      /\ \A i \in 1..n : s[i] \in Items
  BY InSeq
<1>6. \A i \in 1..n : s[i].of \in SUBSET Nat
  BY <1>1, Fields
<1>2. c = [i \in 1..n |-> s[i].of]
  BY <1>1 DEF Contents
<1> HIDE DEF n, c
<1>3. c \in Seq(SUBSET Nat) /\ Len(c) = n /\ DOMAIN c = 1..n /\ \A i \in 1..n : c[i] = s[i].of
  BY <1>1, <1>2, <1>6
<1>4. ToSet(c) = {s[i].of : i \in 1..n}
  BY <1>3 DEF ToSet
<1>5. Parts(s) = UNION ToSet(c)
  BY <1>1, <1>4 DEF Parts
<1> QED BY <1>3, <1>5 DEF n, c

LEMMA ContentsCat ==
    ASSUME NEW n \in Nat, NEW p, AreSeqs(p, n, Items),
           NEW q, \A i \in 1..n : q[i] = Contents(p[i])
    PROVE  Contents(Cat(p, n)) = Cat(q, n)
<1> DEFINE h == [s \in Seq(Items) |-> Contents(s)]
<1>1. h \in [Seq(Items) -> Seq(SUBSET Nat)] /\ \A s \in Seq(Items) : h[s] = Contents(s)
  BY ContentsType
<1>2. <<>> \in Seq(Items) /\ Contents(<<>>) = <<>>
  BY DEF Contents
<1>3. ASSUME NEW a \in Seq(Items), NEW b \in Seq(Items)
      PROVE  h[a \o b] = h[a] \o h[b]
  <2> DEFINE c == a \o b
             x == Contents(a)
             y == Contents(b)
             z == Contents(c)
             k == Len(a)
             m == Len(b)
  <2>1. /\ c \in Seq(Items) /\ Len(c) = k + m /\ k \in Nat /\ m \in Nat
        /\ \A i \in 1..(k + m) : c[i] = IF i <= k THEN a[i] ELSE b[i - k]
    BY ConcatProperties, LenProperties
  <2>2. /\ x \in Seq(SUBSET Nat) /\ Len(x) = k /\ \A i \in 1..k : x[i] = a[i].of
        /\ y \in Seq(SUBSET Nat) /\ Len(y) = m /\ \A i \in 1..m : y[i] = b[i].of
    BY ContentsType
  <2>3. z \in Seq(SUBSET Nat) /\ Len(z) = k + m /\ \A i \in 1..(k + m) : z[i] = c[i].of
    BY <2>1, ContentsType
  <2> HIDE DEF c, x, y, z, k, m
  <2> DEFINE w == x \o y
  <2>4. /\ w \in Seq(SUBSET Nat) /\ Len(w) = k + m
        /\ \A i \in 1..(k + m) : w[i] = IF i <= k THEN x[i] ELSE y[i - k]
    BY <2>2, ConcatProperties, ZenonT(30)
  <2> HIDE DEF w
  <2>5. ASSUME NEW i \in 1..(k + m) PROVE z[i] = w[i]
    <3>1. CASE i <= k
      <4>1. i \in 1..k
        BY <2>1, <3>1
      <4>2. z[i] = c[i].of /\ c[i] = a[i]
        BY <2>1, <2>3, <3>1
      <4>3. w[i] = x[i] /\ x[i] = a[i].of
        BY <2>2, <2>4, <3>1, <4>1
      <4> QED BY <4>2, <4>3
    <3>2. CASE ~(i <= k)
      <4>1. i - k \in 1..m
        BY <2>1, <3>2
      <4>2. z[i] = c[i].of /\ c[i] = b[i - k]
        BY <2>1, <2>3, <3>2
      <4>3. w[i] = y[i - k] /\ y[i - k] = b[i - k].of
        BY <2>2, <2>4, <3>2, <4>1
      <4> QED BY <4>2, <4>3
    <3> QED BY <3>1, <3>2
  <2>6. z = w
    BY <2>3, <2>4, <2>5, SeqEqual
  <2>7. h[c] = z /\ h[a] = x /\ h[b] = y
    BY <1>1, <2>1 DEF x, y, z
  <2> QED BY <2>6, <2>7 DEF w, c
<1>4. \A i \in 1..n : q[i] = h[p[i]]
  BY <1>1 DEF AreSeqs
<1>5. Cat(p, n) \in Seq(Items)
  BY CatType
<1> HIDE DEF h
<1>6. IsHom(h, Items, SUBSET Nat)
  BY <1>1, <1>2, <1>3 DEF IsHom
<1>7. h[Cat(p, n)] = Cat(q, n)
  BY <1>4, <1>6, CatHom
<1> QED BY <1>1, <1>5, <1>7

-----------------------------------------------------------------------------
(* The selection of the variants.                                          *)

LEMMA WantedItemsIs ==
    ASSUME NEW s \in Seq(Items), NEW variants
    PROVE  /\ WantedItems(s, variants) \in Seq(Items)
           /\ ToSet(WantedItems(s, variants)) = {i \in ToSet(s) : Wanted(i, variants)}
BY SelectType DEF WantedItems

LEMMA ChosenIs ==
    ASSUME NEW sec \in Section, NEW variants
    PROVE  /\ Chosen(sec, variants) \in Section
           /\ Chosen(sec, variants).sec = sec.sec
           /\ Chosen(sec, variants).variant = {}
           /\ Contents(Chosen(sec, variants).items) = Contents(WantedItems(sec.items, variants))
           /\ \A i \in ToSet(Chosen(sec, variants).items) :
                 \E j \in ToSet(sec.items) :
                    Wanted(j, variants) /\ i = [j EXCEPT !.variant = {}]
<1> DEFINE w == WantedItems(sec.items, variants)
           c == [i \in DOMAIN w |-> [w[i] EXCEPT !.variant = {}]]
           n == Len(w)
<1>1. sec.items \in Seq(Items) /\ sec.sec \in Names
  BY DEF Section
<1>2. w \in Seq(Items) /\ ToSet(w) = {i \in ToSet(sec.items) : Wanted(i, variants)}
  BY <1>1, WantedItemsIs
<1>3. Chosen(sec, variants) = [sec EXCEPT !.variant = {}, !.items = c]
  BY DEF Chosen
<1> HIDE DEF w
<1>4. n \in Nat /\ DOMAIN w = 1..n /\ \A i \in 1..n : w[i] \in Items /\ w[i] \in ToSet(w)
  BY <1>2, InSeq
<1>5. \A i \in 1..n : [w[i] EXCEPT !.variant = {}] \in Items
                      /\ [w[i] EXCEPT !.variant = {}].of = w[i].of
  BY <1>4 DEF Items
<1>6. c \in Seq(Items) /\ DOMAIN c = 1..n /\ \A i \in 1..n : c[i] = [w[i] EXCEPT !.variant = {}]
  BY <1>4, <1>5
<1> HIDE DEF n, c
<1>7. Contents(c) = Contents(w)
  BY <1>4, <1>5, <1>6 DEF Contents
<1>8. \A x \in ToSet(c) : \E i \in 1..n : x = c[i]
  BY <1>6 DEF ToSet
<1>9. ASSUME NEW x \in ToSet(c)
      PROVE  \E j \in ToSet(sec.items) : Wanted(j, variants) /\ x = [j EXCEPT !.variant = {}]
  <2>1. PICK i \in 1..n : x = c[i]
    BY <1>8
  <2>2. w[i] \in ToSet(sec.items) /\ Wanted(w[i], variants) /\ x = [w[i] EXCEPT !.variant = {}]
    BY <1>2, <1>4, <1>6, <2>1
  <2> QED BY <2>2
<1>10. /\ Chosen(sec, variants) \in Section /\ Chosen(sec, variants).sec = sec.sec
       /\ Chosen(sec, variants).variant = {} /\ Chosen(sec, variants).items = c
  BY <1>3, <1>6 DEF Section
<1> QED BY <1>7, <1>9, <1>10 DEF w

\* What is wanted of a kind, section by section.
LEMMA WantedForIs ==
    ASSUME NEW d \in Document, NEW kind, NEW variants,
           NEW q, \A s \in 1..Len(d) :
               q[s] = IF d[s].sec = kind /\ Wanted(d[s], variants)
                      THEN WantedItems(d[s].items, variants) ELSE <<>>
    PROVE  WantedFor(d, kind, variants) = Cat(q, Len(d)) /\ AreSeqs(q, Len(d), Items)
<1> DEFINE n == Len(d)
           r == [s \in DOMAIN d |-> IF d[s].sec = kind /\ Wanted(d[s], variants)
                                    THEN d[s].items ELSE <<>>]
           G == {i \in ToSet(Cat(r, n)) : Wanted(i, variants)}
<1>1. n \in Nat /\ DOMAIN d = 1..n /\ \A s \in 1..n : d[s].items \in Seq(Items)
  BY DocumentIs
<1>2. \A s \in 1..n : r[s] = IF d[s].sec = kind /\ Wanted(d[s], variants)
                             THEN d[s].items ELSE <<>>
  BY <1>1
<1>3. FlattenSeq(r) = Cat(r, n)
  BY <1>1 DEF Cat
<1>4. WantedFor(d, kind, variants) = WantedItems(FlattenSeq(r), variants)
  BY DEF WantedFor
<1> HIDE DEF r
<1>5. AreSeqs(r, n, Items)
  <2>1. <<>> \in Seq(Items)
    OBVIOUS
  <2> QED BY <1>1, <1>2, <2>1 DEF AreSeqs
<1>6. WantedFor(d, kind, variants) = Select(Cat(r, n), G)
  BY <1>3, <1>4 DEF WantedItems
<1>7. ToSet(Cat(r, n)) = UNION {ToSet(r[s]) : s \in 1..n}
  BY <1>1, <1>5, InCat
<1>8. ASSUME NEW s \in 1..n PROVE q[s] = Select(r[s], G)
  <2>1. CASE d[s].sec = kind /\ Wanted(d[s], variants)
    <3> DEFINE H == {i \in ToSet(r[s]) : Wanted(i, variants)}
    <3>1. r[s] \in Seq(Items) /\ r[s] = d[s].items
      BY <1>1, <1>2, <2>1
    <3>2. ToSet(r[s]) \intersect G = ToSet(r[s]) \intersect H
      BY <1>7
    <3>3. Select(r[s], G) = Select(r[s], H)
      BY <3>1, <3>2, SelectSame
    <3> QED BY <2>1, <3>1, <3>3 DEF WantedItems
  <2>2. CASE ~(d[s].sec = kind /\ Wanted(d[s], variants))
    <3>1. r[s] = <<>> /\ q[s] = <<>> /\ <<>> \in Seq(Items) /\ ToSet(<<>>) = {}
      BY <1>2, <2>2 DEF ToSet
    <3> QED BY <3>1, SelectNone
  <2> QED BY <2>1, <2>2
<1> HIDE DEF G, n
<1>9. Select(Cat(r, n), G) = Cat(q, n)
  BY <1>1, <1>5, <1>8, SelectCat
<1>10. AreSeqs(q, n, Items)
  <2> SUFFICES ASSUME NEW s \in 1..n PROVE q[s] \in Seq(Items)
    BY DEF AreSeqs
  <2>1. r[s] \in Seq(Items)
    BY <1>5 DEF AreSeqs
  <2> QED BY <1>8, <2>1, SelectType
<1> QED BY <1>6, <1>9, <1>10 DEF n

\* KeepVariants keeps it, and in its order.
LEMMA KeepVariantsIs ==
    ASSUME NEW d \in Document, NEW variants
    PROVE  /\ KeepVariants(d, variants) \in Document
           /\ \A s \in ToSet(KeepVariants(d, variants)) :
                 \E r \in ToSet(d) : Wanted(r, variants) /\ s = Chosen(r, variants)
           /\ \A kind : Contents(ItemsOf(KeepVariants(d, variants), kind))
                          = Contents(WantedFor(d, kind, variants))
<1> DEFINE n == Len(d)
           p == [s \in DOMAIN d |->
                   IF Wanted(d[s], variants) THEN <<Chosen(d[s], variants)>> ELSE <<>>]
<1>1. n \in Nat /\ DOMAIN d = 1..n /\ \A s \in 1..n : d[s] \in Section /\ d[s] \in ToSet(d)
  BY DocumentIs
<1>2. \A s \in 1..n : p[s] = IF Wanted(d[s], variants) THEN <<Chosen(d[s], variants)>>
                             ELSE <<>>
  BY <1>1
<1>3. KeepVariants(d, variants) = Cat(p, n)
  BY <1>1 DEF Cat, KeepVariants
<1> HIDE DEF p, n
<1>4. AreSeqs(p, n, Section)
  <2> SUFFICES ASSUME NEW s \in 1..n PROVE p[s] \in Seq(Section)
    BY DEF AreSeqs
  <2> DEFINE x == Chosen(d[s], variants)
  <2>1. x \in Section
    BY <1>1, ChosenIs
  <2>2. p[s] = IF Wanted(d[s], variants) THEN <<x>> ELSE <<>>
    BY <1>2
  <2> HIDE DEF x
  <2>3. <<x>> \in Seq(Section) /\ <<>> \in Seq(Section)
    BY <2>1
  <2> QED BY <2>2, <2>3
<1>5. Cat(p, n) \in Document /\ ToSet(Cat(p, n)) = UNION {ToSet(p[s]) : s \in 1..n}
  BY <1>1, <1>4, CatType, InCat DEF Document
<1>6. ASSUME NEW x \in ToSet(Cat(p, n))
      PROVE  \E r \in ToSet(d) : Wanted(r, variants) /\ x = Chosen(r, variants)
  <2>1. PICK s \in 1..n : x \in ToSet(p[s])
    BY <1>5
  <2>2. \A y : ToSet(<<y>>) = {y} /\ ToSet(<<>>) = {}
    BY DEF ToSet
  <2>3. Wanted(d[s], variants) /\ x = Chosen(d[s], variants)
    BY <1>2, <2>1, <2>2
  <2> QED BY <1>1, <2>3
<1>7. ASSUME NEW kind
      PROVE  Contents(ItemsOf(Cat(p, n), kind)) = Contents(WantedFor(d, kind, variants))
  <2> DEFINE Is(s) == d[s].sec = kind /\ Wanted(d[s], variants)
             q == [s \in 1..n |-> IF Is(s) THEN Chosen(d[s], variants).items ELSE <<>>]
             r == [s \in 1..n |-> IF Is(s) THEN WantedItems(d[s].items, variants) ELSE <<>>]
             c == [s \in 1..n |-> Contents(q[s])]
  <2>1. ASSUME NEW s \in 1..n
        PROVE  q[s] = ItemsOf(p[s], kind) /\ q[s] \in Seq(Items) /\ Contents(r[s]) = c[s]
    <3> DEFINE x == Chosen(d[s], variants)
    <3>1. /\ x \in Section /\ x.sec = d[s].sec /\ x.items \in Seq(Items)
          /\ Contents(x.items) = Contents(WantedItems(d[s].items, variants))
      BY <1>1, ChosenIs DEF Section
    <3>2. /\ p[s] = IF Wanted(d[s], variants) THEN <<x>> ELSE <<>>
          /\ q[s] = IF Is(s) THEN x.items ELSE <<>>
          /\ r[s] = IF Is(s) THEN WantedItems(d[s].items, variants) ELSE <<>>
          /\ c[s] = Contents(q[s])
      BY <1>2
    <3> HIDE DEF x, q, r, c
    <3>3. <<x>> \in Document /\ <<>> \in Document /\ <<>> \in Seq(Items)
      BY <3>1 DEF Document
    <3>4. ItemsOf(<<>>, kind) = <<>> /\ ItemsOf(<<x>>, kind) = Within(kind)[x]
      BY <3>1, <3>3, ItemsOfIs, EachOne
    <3>5. Within(kind)[x] = IF x.sec = kind THEN x.items ELSE <<>>
      BY <3>1 DEF Within
    <3>6. CASE Is(s)
      BY <3>1, <3>2, <3>4, <3>5, <3>6
    <3>7. CASE ~Is(s)
      BY <3>1, <3>2, <3>3, <3>4, <3>5, <3>7
    <3> QED BY <3>6, <3>7
  <2>2. AreSeqs(q, n, Items) /\ \A s \in 1..n : c[s] = Contents(q[s])
    BY <2>1 DEF AreSeqs
  <2>3. \A s \in 1..n : r[s] = IF d[s].sec = kind /\ Wanted(d[s], variants)
                               THEN WantedItems(d[s].items, variants) ELSE <<>>
    OBVIOUS
  <2> HIDE DEF q, r, c, Is
  <2>4. ItemsOf(Cat(p, n), kind) = Cat(q, n)
    BY <1>1, <1>4, <2>1, ItemsOfCat
  <2>5. Contents(Cat(q, n)) = Cat(c, n)
    BY <1>1, <2>2, ContentsCat
  <2>6. WantedFor(d, kind, variants) = Cat(r, n) /\ AreSeqs(r, n, Items)
    BY <2>3, WantedForIs DEF n
  <2>7. \A s \in 1..n : c[s] = Contents(r[s])
    BY <2>1
  <2>8. Contents(Cat(r, n)) = Cat(c, n)
    BY <1>1, <2>6, <2>7, ContentsCat
  <2> QED BY <2>4, <2>5, <2>6, <2>8
<1> QED BY <1>3, <1>5, <1>6, <1>7

\* At most one element of a kind, when it comes from one place.
LEMMA OneOf ==
    ASSUME NEW S, NEW p, NEW n \in Nat, AreSeqs(p, n, S), NEW K,
           \A i \in 1..n : Len(p[i]) <= 1,
           \A i, j \in 1..n : ToSet(p[i]) \intersect K # {} /\ ToSet(p[j]) \intersect K # {}
                                => i = j
    PROVE  \A r, s \in 1..Len(Cat(p, n)) : Cat(p, n)[r] \in K /\ Cat(p, n)[s] \in K => r = s
<1> DEFINE One(c) == \A r, s \in 1..Len(c) : c[r] \in K /\ c[s] \in K => r = s
           T == {m \in Nat : m <= n => One(Cat(p, m))}
<1>1. 0 \in T
  <2>1. Len(<<>>) = 0 /\ 1..0 = {}
    OBVIOUS
  <2> QED BY <2>1, CatEmpty
<1>2. ASSUME NEW m \in Nat, m + 1 <= n, m \in T PROVE m + 1 \in T
  <2> DEFINE a == Cat(p, m)
             b == p[m + 1]
             c == Cat(p, m + 1)
  <2>1. AreSeqs(p, m + 1, S) /\ AreSeqs(p, m, S) /\ m + 1 \in 1..n /\ 1..m \subseteq 1..n
    BY <1>2 DEF AreSeqs
  <2>2. a \in Seq(S) /\ b \in Seq(S) /\ c = a \o b
    BY <2>1, CatNext
  <2>3. ToSet(a) = UNION {ToSet(p[i]) : i \in 1..m}
    BY <2>1, InCat
  <2>4. One(a) /\ Len(b) <= 1
    BY <1>2, <2>1
  <2>5. ASSUME NEW x \in ToSet(a), x \in K, NEW y \in ToSet(b), y \in K PROVE FALSE
    <3>1. PICK i \in 1..m : x \in ToSet(p[i])
      BY <2>3, <2>5
    <3>2. i \in 1..n /\ m + 1 \in 1..n /\ i # m + 1
      BY <2>1, <3>1
    <3>3. ToSet(p[i]) \intersect K # {} /\ ToSet(p[m + 1]) \intersect K # {}
      BY <2>5, <3>1
    <3> QED BY <3>2, <3>3
  <2> HIDE DEF a, b, c
  <2>6. /\ Len(a) \in Nat /\ Len(b) \in Nat /\ Len(c) = Len(a) + Len(b)
        /\ \A i \in 1..(Len(a) + Len(b)) : c[i] = IF i <= Len(a) THEN a[i] ELSE b[i - Len(a)]
    BY <2>2, ConcatProperties, LenProperties
  <2>7. /\ \A i \in 1..Len(a) : a[i] \in ToSet(a)
        /\ \A i \in 1..Len(b) : b[i] \in ToSet(b)
    BY <2>2, InSeq
  <2> DEFINE k == Len(a)
             l == Len(b)
  <2>8. k \in Nat /\ l \in Nat /\ l <= 1 /\ Len(c) = k + l
    BY <2>4, <2>6
  <2>9. \A i \in 1..(k + l) : IF i <= k THEN i \in 1..k /\ c[i] = a[i] /\ a[i] \in ToSet(a)
                              ELSE i - k = 1 /\ c[i] = b[i - k] /\ b[i - k] \in ToSet(b)
    <3> SUFFICES ASSUME NEW i \in 1..(k + l)
                 PROVE  IF i <= k THEN i \in 1..k /\ c[i] = a[i] /\ a[i] \in ToSet(a)
                        ELSE i - k = 1 /\ c[i] = b[i - k] /\ b[i - k] \in ToSet(b)
      OBVIOUS
    <3>1. c[i] = IF i <= k THEN a[i] ELSE b[i - k]
      BY <2>6
    <3> HIDE DEF k, l
    <3>2. CASE i <= k
      <4>1. i \in 1..k
        BY <2>8, <3>2
      <4> QED BY <2>7, <3>1, <3>2, <4>1 DEF k
    <3>3. CASE ~(i <= k)
      <4>1. i - k = 1 /\ i - k \in 1..l
        BY <2>8, <3>3
      <4> QED BY <2>7, <3>1, <3>3, <4>1 DEF l
    <3> QED BY <3>2, <3>3
  <2>10. ASSUME NEW r \in 1..(k + l), NEW s \in 1..(k + l), c[r] \in K, c[s] \in K
         PROVE  r = s
    <3> HIDE DEF k, l
    <3>1. CASE r <= k /\ s <= k
      <4>1. a[r] \in K /\ a[s] \in K /\ r \in 1..k /\ s \in 1..k
        BY <2>9, <2>10, <3>1
      <4> QED BY <2>4, <4>1 DEF k
    <3>2. CASE ~(r <= k) /\ ~(s <= k)
      <4>1. r - k = 1 /\ s - k = 1
        BY <2>9, <3>2
      <4> QED BY <2>8, <4>1
    <3>3. CASE r <= k /\ ~(s <= k)
      <4>1. a[r] \in ToSet(a) /\ a[r] \in K /\ b[s - k] \in ToSet(b) /\ b[s - k] \in K
        BY <2>9, <2>10, <3>3
      <4> QED BY <2>5, <4>1
    <3>4. CASE ~(r <= k) /\ s <= k
      <4>1. a[s] \in ToSet(a) /\ a[s] \in K /\ b[r - k] \in ToSet(b) /\ b[r - k] \in K
        BY <2>9, <2>10, <3>4
      <4> QED BY <2>5, <4>1
    <3> QED BY <3>1, <3>2, <3>3, <3>4
  <2>11. One(c)
    BY <2>8, <2>10
  <2> QED BY <2>11 DEF c
<1> HIDE DEF T
<1>3. n \in T
  BY <1>1, <1>2, CatUpTo
<1> QED BY <1>3 DEF T

\* The items of a kind, from all of its sections.
LEMMA InItemsOf ==
    ASSUME NEW d \in Document, NEW kind
    PROVE  /\ ItemsOf(d, kind) \in Seq(Items)
           /\ ToSet(ItemsOf(d, kind))
                = UNION {ToSet(d[s].items) : s \in {r \in 1..Len(d) : d[r].sec = kind}}
<1> DEFINE n == Len(d)
           q == [s \in DOMAIN d |-> IF d[s].sec = kind THEN d[s].items ELSE <<>>]
<1>1. n \in Nat /\ DOMAIN d = 1..n /\ \A s \in 1..n : d[s].items \in Seq(Items)
  BY DocumentIs
<1>2. \A s \in 1..n : q[s] = IF d[s].sec = kind THEN d[s].items ELSE <<>>
  BY <1>1
<1>3. ItemsOf(d, kind) = Cat(q, n)
  BY <1>1 DEF ItemsOf, Cat
<1>4. AreSeqs(q, n, Items)
  <2>1. <<>> \in Seq(Items)
    OBVIOUS
  <2> QED BY <1>1, <1>2, <2>1 DEF AreSeqs
<1> HIDE DEF q, n
<1>5. Cat(q, n) \in Seq(Items) /\ ToSet(Cat(q, n)) = UNION {ToSet(q[s]) : s \in 1..n}
  BY <1>1, <1>4, CatType, InCat
<1>6. ToSet(<<>>) = {}
  BY DEF ToSet
<1>7. UNION {ToSet(q[s]) : s \in 1..n}
        = UNION {ToSet(d[s].items) : s \in {r \in 1..n : d[r].sec = kind}}
  BY <1>2, <1>6
<1> QED BY <1>3, <1>5, <1>7 DEF n

\* The items of a kind in a document of one section, or of none.
LEMMA ItemsOfOne ==
    ASSUME NEW x \in Section, NEW kind
    PROVE  /\ ItemsOf(<<x>>, kind) = IF x.sec = kind THEN x.items ELSE <<>>
           /\ ItemsOf(<<>>, kind) = <<>>
<1>1. <<x>> \in Document /\ <<>> \in Document
  BY DEF Document
<1>2. ItemsOf(<<>>, kind) = <<>> /\ ItemsOf(<<x>>, kind) = Within(kind)[x]
  BY <1>1, ItemsOfIs, EachOne
<1> QED BY <1>2 DEF Within

-----------------------------------------------------------------------------
(* Sections that were written more than once.                              *)

MergedSection(d, s) == [s EXCEPT !.items = ItemsOf(d, s.sec)]

\* What Merge puts in the place of a section.
LEMMA MergePlaces ==
    ASSUME NEW d \in Document
    PROVE  \E p : /\ Merge(d) = Cat(p, Len(d)) /\ AreSeqs(p, Len(d), Section)
                  /\ \A s \in 1..Len(d) :
                       p[s] = IF d[s].sec \notin Mergeable THEN <<d[s]>>
                              ELSE IF IsFirst(d, s) THEN <<MergedSection(d, d[s])>> ELSE <<>>
                  /\ \A s \in 1..Len(d) :
                       /\ MergedSection(d, d[s]) \in Section
                       /\ MergedSection(d, d[s]).sec = d[s].sec
                       /\ MergedSection(d, d[s]).items = ItemsOf(d, d[s].sec)
<1> DEFINE n == Len(d)
           p == [s \in DOMAIN d |->
                   IF d[s].sec \notin Mergeable THEN <<d[s]>>
                   ELSE IF IsFirst(d, s)
                        THEN <<[d[s] EXCEPT !.items = ItemsOf(d, d[s].sec)]>>
                        ELSE <<>>]
<1>1. n \in Nat /\ DOMAIN d = 1..n /\ \A s \in 1..n : d[s] \in Section
  BY DocumentIs
<1>2. ASSUME NEW s \in 1..n
      PROVE  /\ MergedSection(d, d[s]) \in Section
             /\ MergedSection(d, d[s]).sec = d[s].sec
             /\ MergedSection(d, d[s]).items = ItemsOf(d, d[s].sec)
  <2>1. ItemsOf(d, d[s].sec) \in Seq(Items) /\ d[s] \in Section
    BY <1>1, InItemsOf
  <2> QED BY <2>1 DEF MergedSection, Section
<1>3. \A s \in 1..n :
          p[s] = IF d[s].sec \notin Mergeable THEN <<d[s]>>
                 ELSE IF IsFirst(d, s) THEN <<MergedSection(d, d[s])>> ELSE <<>>
  BY <1>1 DEF MergedSection
<1>4. Merge(d) = Cat(p, n)
  BY <1>1 DEF Merge, Cat
<1> HIDE DEF p
<1>5. AreSeqs(p, n, Section)
  <2>1. \A x \in Section : <<x>> \in Seq(Section) /\ <<>> \in Seq(Section)
    OBVIOUS
  <2> QED BY <1>1, <1>2, <1>3, <2>1 DEF AreSeqs
<1> QED BY <1>2, <1>3, <1>4, <1>5

LEMMA MergeIs ==
    ASSUME NEW d \in Document
    PROVE  /\ Merge(d) \in Document
           /\ \A m \in ToSet(Merge(d)) :
                \/ m \in ToSet(d) /\ m.sec \notin Mergeable
                \/ m.sec \in Mergeable /\ \E s \in ToSet(d) : m = MergedSection(d, s)
           /\ \A kind : ItemsOf(Merge(d), kind) = ItemsOf(d, kind)
           /\ \A kind \in Mergeable : \A r, s \in DOMAIN Merge(d) :
                Merge(d)[r].sec = kind /\ Merge(d)[s].sec = kind => r = s
<1> DEFINE n == Len(d)
<1>1. /\ n \in Nat /\ DOMAIN d = 1..n
      /\ \A s \in 1..n : d[s] \in Section /\ d[s].items \in Seq(Items) /\ d[s] \in ToSet(d)
  BY DocumentIs
<1>2. PICK p : /\ Merge(d) = Cat(p, n) /\ AreSeqs(p, n, Section)
               /\ \A s \in 1..n :
                    p[s] = IF d[s].sec \notin Mergeable THEN <<d[s]>>
                           ELSE IF IsFirst(d, s) THEN <<MergedSection(d, d[s])>> ELSE <<>>
               /\ \A s \in 1..n :
                    /\ MergedSection(d, d[s]) \in Section
                    /\ MergedSection(d, d[s]).sec = d[s].sec
                    /\ MergedSection(d, d[s]).items = ItemsOf(d, d[s].sec)
  BY MergePlaces
<1> HIDE DEF n
<1>3. Cat(p, n) \in Document /\ ToSet(Cat(p, n)) = UNION {ToSet(p[s]) : s \in 1..n}
  BY <1>1, <1>2, CatType, InCat DEF Document
<1>4. \A y : ToSet(<<y>>) = {y} /\ ToSet(<<>>) = {} /\ Len(<<y>>) = 1 /\ Len(<<>>) = 0
  BY DEF ToSet
<1>5. ASSUME NEW m \in ToSet(Cat(p, n))
      PROVE  \/ m \in ToSet(d) /\ m.sec \notin Mergeable
             \/ m.sec \in Mergeable /\ \E s \in ToSet(d) : m = MergedSection(d, s)
  <2>1. PICK s \in 1..n : m \in ToSet(p[s])
    BY <1>3
  <2>2. d[s] \in ToSet(d)
    BY <1>1
  <2>3. CASE d[s].sec \notin Mergeable
    <3>1. p[s] = <<d[s]>>
      BY <1>2, <2>3
    <3>2. m = d[s]
      BY <1>4, <2>1, <3>1
    <3> QED BY <2>2, <2>3, <3>2
  <2>4. CASE d[s].sec \in Mergeable
    <3>1. p[s] = <<MergedSection(d, d[s])>> \/ p[s] = <<>>
      BY <1>2, <2>4
    <3>2. m = MergedSection(d, d[s])
      BY <1>4, <2>1, <3>1
    <3>3. m.sec = d[s].sec
      BY <1>2, <3>2
    <3> QED BY <2>2, <2>4, <3>2, <3>3
  <2> QED BY <2>3, <2>4
<1>6. \A s, r \in 1..n : IsFirst(d, s) /\ r < s => d[r].sec # d[s].sec
  <2> SUFFICES ASSUME NEW s \in 1..n, NEW r \in 1..n, IsFirst(d, s), r < s
               PROVE  d[r].sec # d[s].sec
    OBVIOUS
  <2>1. r \in 1..(s - 1)
    BY <1>1
  <2> QED BY <2>1 DEF IsFirst
<1>7. ASSUME NEW kind PROVE ItemsOf(Cat(p, n), kind) = ItemsOf(d, kind)
  <2> DEFINE q == [s \in 1..n |-> ItemsOf(p[s], kind)]
             r == [s \in DOMAIN d |-> IF d[s].sec = kind THEN d[s].items ELSE <<>>]
  <2>1. ItemsOf(Cat(p, n), kind) = Cat(q, n)
    BY <1>1, <1>2, ItemsOfCat
  <2>2. ItemsOf(d, kind) = Cat(r, n)
    BY <1>1 DEF ItemsOf, Cat
  <2>3. \A s \in 1..n : r[s] = IF d[s].sec = kind THEN d[s].items ELSE <<>>
    BY <1>1
  <2>4. ASSUME NEW s \in 1..n
        PROVE  q[s] = IF d[s].sec # kind THEN <<>>
                      ELSE IF kind \notin Mergeable THEN d[s].items
                      ELSE IF IsFirst(d, s) THEN ItemsOf(d, kind) ELSE <<>>
    <3> DEFINE x == d[s]
               y == MergedSection(d, d[s])
    <3>1. /\ x \in Section /\ y \in Section /\ y.sec = x.sec /\ y.items = ItemsOf(d, x.sec)
          /\ p[s] = IF x.sec \notin Mergeable THEN <<x>>
                    ELSE IF IsFirst(d, s) THEN <<y>> ELSE <<>>
          /\ q[s] = ItemsOf(p[s], kind)
      BY <1>1, <1>2
    <3> HIDE DEF x, y, q
    <3>2. /\ ItemsOf(<<x>>, kind) = IF x.sec = kind THEN x.items ELSE <<>>
          /\ ItemsOf(<<y>>, kind) = IF y.sec = kind THEN y.items ELSE <<>>
          /\ ItemsOf(<<>>, kind) = <<>>
      BY <3>1, ItemsOfOne
    <3> QED BY <3>1, <3>2 DEF x
  <2> HIDE DEF q, r
  <2>5. CASE kind \notin Mergeable
    <3>1. \A s \in 1..n : q[s] = r[s]
      BY <2>3, <2>4, <2>5
    <3> QED BY <2>1, <2>2, <3>1, CatSame
  <2>6. CASE kind \in Mergeable
    <3> DEFINE K == {s \in 1..n : d[s].sec = kind}
    <3>1. CASE K = {}
      <4>1. \A s \in 1..n : q[s] = <<>> /\ r[s] = <<>>
        BY <2>3, <2>4, <3>1
      <4> QED BY <1>1, <2>1, <2>2, <4>1, CatNone
    <3>2. CASE K # {}
      <4>1. K \in SUBSET Nat
        OBVIOUS
      <4>2. PICK k \in K : \A s \in K : k <= s
        BY <3>2, <4>1, NatLeast
      <4>3. k \in 1..n /\ d[k].sec = kind
        OBVIOUS
      <4>4. IsFirst(d, k)
        <5> SUFFICES ASSUME NEW s \in 1..(k - 1) PROVE d[s].sec # d[k].sec
          BY DEF IsFirst
        <5>1. s \in 1..n /\ ~(k <= s)
          BY <1>1, <4>3
        <5> QED BY <4>2, <4>3, <5>1
      <4>5. q[k] = ItemsOf(d, kind)
        BY <2>4, <2>6, <4>3, <4>4
      <4>6. ASSUME NEW s \in 1..n, s # k PROVE q[s] = <<>>
        <5>1. CASE d[s].sec # kind
          BY <2>4, <5>1
        <5>2. CASE d[s].sec = kind
          <6>1. k <= s
            BY <4>2, <5>2
          <6>2. k < s
            BY <1>1, <4>3, <4>6, <6>1
          <6>3. ~IsFirst(d, s)
            BY <1>6, <4>3, <5>2, <6>2
          <6> QED BY <2>4, <2>6, <5>2, <6>3
        <5> QED BY <5>1, <5>2
      <4>7. AreSeqs(q, n, Items)
        <5> SUFFICES ASSUME NEW s \in 1..n PROVE q[s] \in Seq(Items)
          BY DEF AreSeqs
        <5>1. ItemsOf(d, kind) \in Seq(Items) /\ <<>> \in Seq(Items)
          BY InItemsOf
        <5> QED BY <4>5, <4>6, <5>1
      <4>8. Cat(q, n) = q[k]
        BY <1>1, <4>3, <4>6, <4>7, CatOne
      <4> QED BY <2>1, <4>5, <4>8
    <3> QED BY <3>1, <3>2
  <2> QED BY <2>5, <2>6
<1>8. ASSUME NEW kind \in Mergeable
      PROVE  \A r, s \in DOMAIN Cat(p, n) :
                Cat(p, n)[r].sec = kind /\ Cat(p, n)[s].sec = kind => r = s
  <2> DEFINE K == {x \in Section : x.sec = kind}
             c == Cat(p, n)
  <2>1. ASSUME NEW s \in 1..n
        PROVE  Len(p[s]) <= 1 /\ (ToSet(p[s]) \intersect K # {} => d[s].sec = kind /\ IsFirst(d, s))
    <3> DEFINE x == d[s]
               y == MergedSection(d, d[s])
    <3>1. /\ x \in Section /\ y \in Section /\ y.sec = x.sec
          /\ p[s] = IF x.sec \notin Mergeable THEN <<x>>
                    ELSE IF IsFirst(d, s) THEN <<y>> ELSE <<>>
      BY <1>1, <1>2
    <3> HIDE DEF x, y
    <3> QED BY <1>4, <1>8, <3>1 DEF x
  <2>2. ASSUME NEW i \in 1..n, NEW j \in 1..n,
               ToSet(p[i]) \intersect K # {}, ToSet(p[j]) \intersect K # {}
        PROVE  i = j
    <3>1. d[i].sec = d[j].sec /\ IsFirst(d, i) /\ IsFirst(d, j)
      BY <2>1, <2>2
    <3>2. ~(i < j) /\ ~(j < i)
      BY <1>6, <3>1
    <3> QED BY <3>2
  <2> HIDE DEF K
  <2>3. \A r, s \in 1..Len(Cat(p, n)) : Cat(p, n)[r] \in K /\ Cat(p, n)[s] \in K => r = s
    BY <1>1, <1>2, <2>1, <2>2, OneOf
  <2>4. DOMAIN c = 1..Len(c) /\ \A s \in 1..Len(c) : c[s] \in Section
    BY <1>3, DocumentIs
  <2> HIDE DEF c
  <2>5. \A s \in DOMAIN c : c[s].sec = kind => c[s] \in K
    BY <2>4 DEF K
  <2> QED BY <2>3, <2>4, <2>5 DEF c
<1> QED BY <1>2, <1>3, <1>5, <1>7, <1>8

-----------------------------------------------------------------------------
(* The passes after the merge change the items of one section after the    *)
(* other.                                                                  *)

\* What a pass leaves as the user wrote it.
Same(d, e) ==
    /\ d \in Document /\ e \in Document /\ Len(e) = Len(d)
    /\ \A s \in 1..Len(d) :
          /\ e[s].sec = d[s].sec /\ e[s].variant = d[s].variant
          /\ Parts(e[s].items) = Parts(d[s].items)
          /\ d[s].sec = "finetuning" => Contents(e[s].items) = Contents(d[s].items)

\* What is left to do: no tag of T and no attribute of A.
CleanItem(kind, i, T, A) ==
    /\ i.variant = {} /\ i.tag \notin T
    /\ i.attrs \intersect DeprecatedAttrs(kind) \intersect A = {}
    /\ "pin" \in i.attrs => i.tag = "pkg"
    /\ "location" \in i.attrs => i.tag = "check-script"
    /\ i.tag = "key" => kind = "url-list"
    /\ i.tag = "passwd" => kind = "target"
    /\ "passwd" \in i.attrs => kind = "finetuning" /\ i.tag = "adduser"
    /\ kind = "finetuning" => i.tag \notin {"archivedir", "tune2fs"}
Clean(d, T, A) ==
    \A s \in 1..Len(d) :
        /\ d[s].variant = {}
        /\ \A i \in ToSet(d[s].items) : CleanItem(d[s].sec, i, T, A)

Rebuilt(d, g) == [s \in DOMAIN d |-> [d[s] EXCEPT !.items = g[d[s]]]]

LEMMA RebuiltKeeps ==
    ASSUME NEW d \in Document, NEW g,
           \A s \in ToSet(d) : /\ g[s] \in Seq(Items) /\ Parts(g[s]) = Parts(s.items)
                               /\ s.sec = "finetuning" => Contents(g[s]) = Contents(s.items)
    PROVE  /\ Same(d, Rebuilt(d, g))
           /\ \A s \in 1..Len(d) : /\ d[s] \in ToSet(d) /\ Rebuilt(d, g)[s].items = g[d[s]]
                                   /\ Rebuilt(d, g)[s].sec = d[s].sec
                                   /\ Rebuilt(d, g)[s].variant = d[s].variant
<1> DEFINE n == Len(d)
           e == Rebuilt(d, g)
<1>1. n \in Nat /\ DOMAIN d = 1..n /\ \A s \in 1..n : d[s] \in Section /\ d[s] \in ToSet(d)
  BY DocumentIs
<1>2. e = [s \in 1..n |-> [d[s] EXCEPT !.items = g[d[s]]]]
  BY <1>1 DEF Rebuilt
<1> HIDE DEF n, e
<1>3. \A s \in 1..n : e[s] = [d[s] EXCEPT !.items = g[d[s]]]
  BY <1>2
<1>4. ASSUME NEW s \in 1..n
      PROVE  /\ e[s] \in Section /\ e[s].items = g[d[s]]
             /\ e[s].sec = d[s].sec /\ e[s].variant = d[s].variant
  <2>1. d[s] \in Section /\ g[d[s]] \in Seq(Items)
    BY <1>1
  <2> QED BY <1>3, <2>1 DEF Section
<1>5. e \in Document /\ Len(e) = n
  <2>1. DOMAIN e = 1..n /\ e = [s \in 1..n |-> e[s]]
    BY <1>2
  <2>2. \A s \in 1..n : e[s] \in Section
    BY <1>4
  <2>3. e \in Seq(Section) /\ Len(e) = n
    BY <1>1, <2>1, <2>2
  <2> QED BY <2>3 DEF Document
<1>6. Same(d, e)
  BY <1>1, <1>4, <1>5 DEF Same, n
<1> QED BY <1>1, <1>4, <1>6 DEF n, e

LEMMA RebuiltClean ==
    ASSUME NEW d \in Document, NEW g, NEW T, NEW A, NEW U, NEW B,
           \A s \in ToSet(d) : /\ g[s] \in Seq(Items) /\ Parts(g[s]) = Parts(s.items)
                               /\ s.sec = "finetuning" => Contents(g[s]) = Contents(s.items),
           Clean(d, T, A),
           \A s \in ToSet(d) :
              (\A i \in ToSet(s.items) : CleanItem(s.sec, i, T, A))
                => \A i \in ToSet(g[s]) : CleanItem(s.sec, i, U, B)
    PROVE  Same(d, Rebuilt(d, g)) /\ Clean(Rebuilt(d, g), U, B)
<1> DEFINE e == Rebuilt(d, g)
<1>1. /\ Same(d, e)
      /\ \A s \in 1..Len(d) : /\ d[s] \in ToSet(d) /\ e[s].items = g[d[s]]
                              /\ e[s].sec = d[s].sec /\ e[s].variant = d[s].variant
  BY RebuiltKeeps
<1> HIDE DEF e
<1>2. Len(e) = Len(d)
  BY <1>1 DEF Same
<1>3. ASSUME NEW s \in 1..Len(d)
      PROVE  /\ e[s].variant = {}
             /\ \A i \in ToSet(e[s].items) : CleanItem(e[s].sec, i, U, B)
  <2>1. d[s].variant = {} /\ \A i \in ToSet(d[s].items) : CleanItem(d[s].sec, i, T, A)
    BY DEF Clean
  <2>2. d[s] \in ToSet(d)
    BY <1>1
  <2>3. \A i \in ToSet(g[d[s]]) : CleanItem(d[s].sec, i, U, B)
    BY <2>1, <2>2
  <2> QED BY <1>1, <2>1, <2>3
<1>4. Clean(e, U, B)
  BY <1>2, <1>3 DEF Clean
<1> QED BY <1>1, <1>4 DEF e

\* A pass that changes every item for itself.
Mapped(d, f) == [s \in DOMAIN d |-> [d[s] EXCEPT
    !.items = [i \in DOMAIN d[s].items |-> f[d[s].sec][d[s].items[i]]]]]
Keeps(f) == \A kind \in Names, i \in Items :
                f[kind][i] \in Items /\ f[kind][i].of = i.of
Cleans(f, T, A, U, B) == \A kind \in Names, i \in Items :
    CleanItem(kind, i, T, A) => CleanItem(kind, f[kind][i], U, B)

LEMMA MappedClean ==
    ASSUME NEW d \in Document, NEW f, NEW T, NEW A, NEW U, NEW B, Keeps(f),
           Clean(d, T, A), Cleans(f, T, A, U, B)
    PROVE  Same(d, Mapped(d, f)) /\ Clean(Mapped(d, f), U, B)
<1> DEFINE G(s) == [i \in DOMAIN s.items |-> f[s.sec][s.items[i]]]
           g == [s \in ToSet(d) |-> G(s)]
<1>1. ASSUME NEW s \in ToSet(d)
      PROVE  /\ G(s) \in Seq(Items) /\ Contents(G(s)) = Contents(s.items)
             /\ Parts(G(s)) = Parts(s.items)
             /\ (\A i \in ToSet(s.items) : CleanItem(s.sec, i, T, A))
                   => \A i \in ToSet(G(s)) : CleanItem(s.sec, i, U, B)
  <2> DEFINE items == s.items
             n == Len(items)
             c == G(s)
  <2>1. items \in Seq(Items) /\ s.sec \in Names
    BY DocumentIs, Fields
  <2>2. /\ n \in Nat /\ DOMAIN items = 1..n
        /\ \A i \in 1..n : items[i] \in Items /\ items[i] \in ToSet(items)
    BY <2>1, InSeq
  <2>3. \A i \in 1..n : /\ f[s.sec][items[i]] \in Items
                        /\ f[s.sec][items[i]].of = items[i].of
    BY <2>1, <2>2 DEF Keeps
  <2>4. c = [i \in 1..n |-> f[s.sec][items[i]]]
    BY <2>2
  <2> HIDE DEF c, items, n
  <2>5. c \in Seq(Items) /\ DOMAIN c = 1..n /\ \A i \in 1..n : c[i] = f[s.sec][items[i]]
    BY <2>2, <2>3, <2>4
  <2>6. Contents(c) = Contents(items)
    BY <2>2, <2>3, <2>5 DEF Contents
  <2>7. Parts(c) = Parts(items)
    BY <2>1, <2>5, <2>6, ContentsType
  <2>8. ASSUME \A i \in ToSet(items) : CleanItem(s.sec, i, T, A), NEW x \in ToSet(c)
        PROVE  CleanItem(s.sec, x, U, B)
    <3>1. PICK i \in 1..n : x = c[i]
      BY <2>5, InSeq DEF ToSet
    <3>2. CleanItem(s.sec, items[i], T, A)
      BY <2>2, <2>8
    <3> QED BY <2>1, <2>2, <2>5, <3>1, <3>2 DEF Cleans
  <2> QED BY <2>5, <2>6, <2>7, <2>8 DEF c, items
<1>2. DOMAIN d = 1..Len(d) /\ \A s \in 1..Len(d) : d[s] \in ToSet(d)
  BY DocumentIs
<1>3. Mapped(d, f) = Rebuilt(d, g)
  BY <1>2 DEF Mapped, Rebuilt
<1>4. \A s \in ToSet(d) : g[s] = G(s)
  OBVIOUS
<1> HIDE DEF G, g
<1>5. Same(d, Rebuilt(d, g)) /\ Clean(Rebuilt(d, g), U, B)
  BY <1>1, <1>4, RebuiltClean
<1> QED BY <1>3, <1>5

-----------------------------------------------------------------------------
(* One pass after the other.                                               *)

T0 == {"repodir", "unknown"}
T1 == T0 \union {"archivedir"}
T2 == T1 \union {"key"}
T3 == T2 \union {"debootstrapvariant"}
T4 == T3 \union {"tune2fs"}

LEMMA MappedFields ==
    ASSUME NEW d \in Document
    PROVE  /\ DOMAIN d = 1..Len(d)
           /\ \A s \in 1..Len(d) : d[s].sec \in Names
           /\ \A s \in 1..Len(d) : \A i \in DOMAIN d[s].items : d[s].items[i] \in Items
  BY DocumentIs, Fields, InSeq

\* An item with other attributes, or another tag.
LEMMA WithAttrs ==
    ASSUME NEW i \in Items, NEW A \in SUBSET Names
    PROVE  LET j == [i EXCEPT !.attrs = A]
           IN  j \in Items /\ j.of = i.of /\ j.tag = i.tag /\ j.variant = i.variant
               /\ j.attrs = A
  BY DEF Items

Retagged(j, i, old, new) ==
    /\ j \in Items /\ j.of = i.of /\ j.variant = i.variant /\ j.attrs = i.attrs
    /\ j.tag = IF i.tag = old THEN new ELSE i.tag
LEMMA RetagIs ==
    ASSUME NEW i \in Items, NEW old, NEW new \in Names
    PROVE  Retagged(Retag(i, old, new), i, old, new)
  BY DEF Items, Retag, Retagged

\* Swap changes one element.
LEMMA SwapIs ==
    ASSUME NEW S \in SUBSET Names, NEW old, NEW new \in Names, old # new
    PROVE  /\ Swap(S, old, new) \in SUBSET Names /\ old \notin Swap(S, old, new)
           /\ \A x \in Swap(S, old, new) : x \in S \/ x = new
  BY DEF Swap

LEMMA NewNames ==
    /\ "primary_proxy" \in Names
    /\ "raw-key" \in Names
    /\ "debootstrap" \in Names
    /\ "option" \in Names
    /\ "trusted" \in Names
    /\ "passwd_hashed" \in Names
    /\ "release-name" \in Names
  BY DEF Names

\* At most one <debootstrapvariant>.
Once(d) == \A s, t \in ToSet(d) : \A i \in ToSet(s.items), j \in ToSet(t.items) :
    i.tag = "debootstrapvariant" /\ j.tag = "debootstrapvariant" => i = j

\* A pass that makes no other of it.
LEMMA MappedOnce ==
    ASSUME NEW d \in Document, NEW f, Once(d), Keeps(f),
           \A kind \in Names, i \in Items :
              f[kind][i].tag = "debootstrapvariant" => f[kind][i] = i
    PROVE  Once(Mapped(d, f))
<1> DEFINE e == Mapped(d, f)
<1>1. /\ DOMAIN d = 1..Len(d)
      /\ \A s \in 1..Len(d) : /\ d[s] \in Section /\ d[s] \in ToSet(d) /\ d[s].sec \in Names
                              /\ d[s].items \in Seq(Items)
  BY DocumentIs, MappedFields
<1>2. ASSUME NEW x \in ToSet(e), NEW i \in ToSet(x.items), i.tag = "debootstrapvariant"
      PROVE  \E s \in ToSet(d) : i \in ToSet(s.items)
  <2>1. PICK s \in 1..Len(d) : x = [d[s] EXCEPT
            !.items = [k \in DOMAIN d[s].items |-> f[d[s].sec][d[s].items[k]]]]
    BY <1>1 DEF Mapped, ToSet
  <2>2. x.items = [k \in DOMAIN d[s].items |-> f[d[s].sec][d[s].items[k]]]
    BY <1>1, <2>1 DEF Section
  <2>3. PICK k \in DOMAIN d[s].items : i = f[d[s].sec][d[s].items[k]]
    BY <2>2 DEF ToSet
  <2>4. d[s].items[k] \in Items /\ d[s].items[k] \in ToSet(d[s].items)
    BY <1>1, InSeq
  <2>5. i = d[s].items[k]
    BY <1>1, <1>2, <2>3, <2>4
  <2> QED BY <1>1, <2>4, <2>5
<1> HIDE DEF e
<1> QED BY <1>2 DEF Once, e

LEMMA ProxyAddKeeps ==
    ASSUME NEW d \in Document, NEW proxy, Clean(d, T1, {}), Once(d)
    PROVE  Same(d, ProxyAdd(d, proxy)) /\ Clean(ProxyAdd(d, proxy), T1, {})
           /\ Once(ProxyAdd(d, proxy))
<1> DEFINE F(kind, i) ==
              IF i.tag = "mirror" /\ proxy # "none" /\ "primary_proxy" \notin i.attrs
              THEN [i EXCEPT !.attrs = @ \union {"primary_proxy"}] ELSE i
           f == [kind \in Names |-> [i \in Items |-> F(kind, i)]]
<1>1. ProxyAdd(d, proxy) = Mapped(d, f)
  BY MappedFields DEF ProxyAdd, Mapped, Change
<1>2. Keeps(f) /\ Cleans(f, T1, {}, T1, {})
  <2> SUFFICES ASSUME NEW kind \in Names, NEW i \in Items
               PROVE  /\ f[kind][i] \in Items /\ f[kind][i].of = i.of
                      /\ CleanItem(kind, i, T1, {})
                           => CleanItem(kind, f[kind][i], T1, {})
    BY DEF Keeps, Cleans
  <2>1. f[kind][i] = F(kind, i)
    OBVIOUS
  <2> HIDE DEF f
  <2>2. i.tag \in Names /\ i.attrs \in SUBSET Names
    BY Fields
  <2> DEFINE a == i.attrs \union {"primary_proxy"}
             j == [i EXCEPT !.attrs = a]
  <2>3. F(kind, i) = i \/ F(kind, i) = j
    OBVIOUS
  <2>4. a \in SUBSET Names
    BY <2>2, NewNames
  <2>7. \A x \in {"pin", "location", "passwd"} : x \in a => x \in i.attrs
    OBVIOUS
  <2> HIDE DEF F, a
  <2>5. j \in Items /\ j.of = i.of /\ j.tag = i.tag /\ j.variant = i.variant /\ j.attrs = a
    BY <2>4, WithAttrs
  <2>6. CleanItem(kind, i, T1, {}) => CleanItem(kind, j, T1, {})
    BY <2>5, <2>7 DEF CleanItem
  <2> QED BY <2>1, <2>3, <2>5, <2>6
<1>3. ASSUME NEW kind \in Names, NEW i \in Items, f[kind][i].tag = "debootstrapvariant"
      PROVE  f[kind][i] = i
  <2>1. f[kind][i] = F(kind, i)
    OBVIOUS
  <2> QED BY <1>3, <2>1 DEF Items
<1> HIDE DEF f
<1> QED BY <1>1, <1>2, <1>3, MappedClean, MappedOnce

LEMMA PgpKeyKeeps ==
    ASSUME NEW d \in Document, Clean(d, T1, {}), Once(d)
    PROVE  Same(d, PgpKey(d)) /\ Clean(PgpKey(d), T2, {}) /\ Once(PgpKey(d))
<1> DEFINE F(kind, i) == RawKey(kind, i)
           f == [kind \in Names |-> [i \in Items |-> F(kind, i)]]
<1>1. PgpKey(d) = Mapped(d, f)
  <2>1. ASSUME NEW s \in DOMAIN d, NEW i \in DOMAIN d[s].items
        PROVE  f[d[s].sec][d[s].items[i]] = RawKey(d[s].sec, d[s].items[i])
    BY MappedFields
  <2> HIDE DEF f
  <2> QED BY <2>1 DEF PgpKey, ChangeIn, Mapped
<1>2. Keeps(f) /\ Cleans(f, T1, {}, T2, {})
  <2> SUFFICES ASSUME NEW kind \in Names, NEW i \in Items
               PROVE  /\ f[kind][i] \in Items /\ f[kind][i].of = i.of
                      /\ CleanItem(kind, i, T1, {})
                           => CleanItem(kind, f[kind][i], T2, {})
    BY DEF Keeps, Cleans
  <2>1. f[kind][i] = F(kind, i)
    OBVIOUS
  <2> HIDE DEF f
  <2>2. i.tag \in Names /\ i.attrs \in SUBSET Names
    BY Fields
  <2> DEFINE j == Retag(i, "key", "raw-key")
  <2>3. Retagged(j, i, "key", "raw-key")
    BY RetagIs, NewNames
  <2>5. F(kind, i) = IF kind = "url-list" THEN j ELSE i
    BY DEF RawKey
  <2> HIDE DEF j, F
  <2>4. CleanItem(kind, i, T1, {}) => CleanItem(kind, j, T2, {})
    BY <2>3 DEF CleanItem, Retagged, T0, T1, T2, T3
  <2>6. CleanItem(kind, i, T1, {}) /\ kind # "url-list" => CleanItem(kind, i, T2, {})
    BY DEF CleanItem, T2
  <2> QED BY <2>1, <2>3, <2>4, <2>5, <2>6 DEF Retagged
<1>3. ASSUME NEW kind \in Names, NEW i \in Items, f[kind][i].tag = "debootstrapvariant"
      PROVE  f[kind][i] = i
  <2>1. f[kind][i] = RawKey(kind, i)
    OBVIOUS
  <2> QED BY <1>3, <2>1 DEF RawKey, Retag, Items
<1> HIDE DEF f
<1> QED BY <1>1, <1>2, <1>3, MappedClean, MappedOnce

\* The elements with a tag, and all others.
LEMMA OnlyWithout ==
    ASSUME NEW s \in Seq(Items), NEW tag
    PROVE  /\ Only(s, tag) \in Seq(Items) /\ Without(s, tag) \in Seq(Items)
           /\ ToSet(Only(s, tag)) = {i \in ToSet(s) : i.tag = tag}
           /\ ToSet(Without(s, tag)) = {i \in ToSet(s) : i.tag # tag}
<1>1. /\ Only(s, tag) \in Seq(Items) /\ Without(s, tag) \in Seq(Items)
      /\ ToSet(Only(s, tag)) = ToSet(s) \intersect Tagged(s, tag)
      /\ ToSet(Without(s, tag)) = ToSet(s) \intersect (ToSet(s) \ Tagged(s, tag))
  BY SelectType DEF Only, Without
<1> QED BY <1>1 DEF Tagged

LEMMA BootstrapKeeps ==
    ASSUME NEW d \in Document, Clean(d, T2, {}), Once(d)
    PROVE  Same(d, Bootstrap(d)) /\ Clean(Bootstrap(d), T3, {})
<1> DEFINE F(kind, i) == Retag(i, "debootstrapvariant", "debootstrap")
           f == [kind \in Names |-> [i \in Items |-> F(kind, i)]]
<1>1. Bootstrap(d) = Mapped(d, f)
  <2> DEFINE n == Len(d)
             p == [s \in 1..n |-> d[s].items]
             old == Only(FlattenSeq([s \in DOMAIN d |-> d[s].items]), "debootstrapvariant")
             G(i) == IF old # <<>> /\ i = old[1]
                     THEN [i EXCEPT !.tag = "debootstrap"] ELSE i
  <2>1. /\ n \in Nat /\ DOMAIN d = 1..n
        /\ \A s \in 1..n : d[s] \in ToSet(d) /\ d[s].items \in Seq(Items)
    BY DocumentIs
  <2>2. FlattenSeq([s \in DOMAIN d |-> d[s].items]) = Cat(p, n)
    BY <2>1 DEF Cat
  <2>3. \A s \in 1..n : p[s] = d[s].items
    OBVIOUS
  <2>4. AreSeqs(p, n, Items)
    BY <2>1, <2>3 DEF AreSeqs
  <2> HIDE DEF p, n
  <2>5. Cat(p, n) \in Seq(Items) /\ ToSet(Cat(p, n)) = UNION {ToSet(p[s]) : s \in 1..n}
    BY <2>1, <2>4, CatType, InCat
  <2>6. /\ old \in Seq(Items)
        /\ ToSet(old) = {i \in ToSet(Cat(p, n)) : i.tag = "debootstrapvariant"}
    BY <2>2, <2>5, OnlyWithout
  <2>7. \A x \in ToSet(old) : \E s \in 1..n : x \in ToSet(d[s].items) /\ x.tag = "debootstrapvariant"
    BY <2>3, <2>5, <2>6
  <2>8. \A s \in 1..n : \A x \in ToSet(d[s].items) : x.tag = "debootstrapvariant" => x \in ToSet(old)
    BY <2>3, <2>5, <2>6
  <2> HIDE DEF old
  <2>9. /\ old # <<>> => old[1] \in ToSet(old)
        /\ old = <<>> => ToSet(old) = {}
    BY <2>6, InSeq DEF ToSet
  <2>10. ASSUME NEW s \in 1..n, NEW i \in ToSet(d[s].items), i \in Items
         PROVE  G(i) = F(d[s].sec, i)
    <3>1. CASE i.tag = "debootstrapvariant"
      <4>1. i \in ToSet(old) /\ old # <<>> /\ old[1] \in ToSet(old)
        BY <2>8, <2>9, <3>1
      <4>2. PICK r \in 1..n : old[1] \in ToSet(d[r].items) /\ old[1].tag = "debootstrapvariant"
        BY <2>7, <4>1
      <4>3. i = old[1]
        BY <2>1, <3>1, <4>2 DEF Once
      <4> QED BY <3>1, <4>1, <4>3 DEF Retag
    <3>2. CASE i.tag # "debootstrapvariant"
      <4>1. ~(old # <<>> /\ i = old[1])
        BY <2>7, <2>9, <3>2
      <4> QED BY <3>2, <4>1 DEF Retag
    <3> QED BY <3>1, <3>2
  <2>11. ASSUME NEW s \in 1..n, NEW k \in DOMAIN d[s].items
         PROVE  f[d[s].sec][d[s].items[k]] = G(d[s].items[k])
    <3>1. d[s].items[k] \in Items /\ d[s].items[k] \in ToSet(d[s].items) /\ d[s].sec \in Names
      BY <2>1, InSeq, MappedFields DEF n
    <3> QED BY <2>10, <3>1
  <2>12. Bootstrap(d) = [s \in DOMAIN d |-> [d[s] EXCEPT
                            !.items = [k \in DOMAIN d[s].items |-> G(d[s].items[k])]]]
    BY DEF Bootstrap, Change, old
  <2> HIDE DEF f, G
  <2> QED BY <2>1, <2>11, <2>12 DEF Mapped
<1>2. Keeps(f) /\ Cleans(f, T2, {}, T3, {})
  <2> SUFFICES ASSUME NEW kind \in Names, NEW i \in Items
               PROVE  /\ f[kind][i] \in Items /\ f[kind][i].of = i.of
                      /\ CleanItem(kind, i, T2, {})
                           => CleanItem(kind, f[kind][i], T3, {})
    BY DEF Keeps, Cleans
  <2>1. f[kind][i] = F(kind, i)
    OBVIOUS
  <2> HIDE DEF f
  <2>2. i.tag \in Names /\ i.attrs \in SUBSET Names
    BY Fields
  <2> DEFINE j == Retag(i, "debootstrapvariant", "debootstrap")
  <2>3. Retagged(j, i, "debootstrapvariant", "debootstrap")
    BY RetagIs, NewNames
  <2> HIDE DEF j
  <2>4. CleanItem(kind, i, T2, {}) => CleanItem(kind, j, T3, {})
    BY <2>3 DEF CleanItem, Retagged, T0, T1, T2, T3
  <2> QED BY <2>1, <2>3, <2>4 DEF j, Retagged
<1> HIDE DEF f
<1> QED BY <1>1, <1>2, MappedClean

LEMMA MirrorsKeeps ==
    ASSUME NEW d \in Document, Clean(d, T4, {})
    PROVE  Same(d, Mirrors(d)) /\ Clean(Mirrors(d), T4, {})
<1> DEFINE new == IF HasItem(d, "noauth") THEN {"trusted"} ELSE {}
           F(kind, i) ==
              IF i.tag \notin {"url", "mirror"} THEN i
              ELSE [i EXCEPT !.attrs = Swap(@, "[option]", "option") \union new]
           f == [kind \in Names |-> [i \in Items |-> F(kind, i)]]
<1>1. Mirrors(d) = Mapped(d, f)
  BY MappedFields DEF Mirrors, Mapped, Change
<1>2. Keeps(f) /\ Cleans(f, T4, {}, T4, {})
  <2> SUFFICES ASSUME NEW kind \in Names, NEW i \in Items
               PROVE  /\ f[kind][i] \in Items /\ f[kind][i].of = i.of
                      /\ CleanItem(kind, i, T4, {})
                           => CleanItem(kind, f[kind][i], T4, {})
    BY DEF Keeps, Cleans
  <2>1. f[kind][i] = F(kind, i)
    OBVIOUS
  <2> HIDE DEF f
  <2>2. i.tag \in Names /\ i.attrs \in SUBSET Names
    BY Fields
  <2> DEFINE a == Swap(i.attrs, "[option]", "option") \union new
             j == [i EXCEPT !.attrs = a]
  <2>3. F(kind, i) = i \/ F(kind, i) = j
    OBVIOUS
  <2>4. \A x \in Swap(i.attrs, "[option]", "option") : x \in Names /\ (x \in i.attrs \/ x = "option")
    BY <2>2, SwapIs, NewNames
  <2>5. new \subseteq {"trusted"}
    OBVIOUS
  <2> HIDE DEF new
  <2>6. a \in SUBSET Names /\ ("pin" \in a => "pin" \in i.attrs)
        /\ ("location" \in a => "location" \in i.attrs)
        /\ ("passwd" \in a => "passwd" \in i.attrs)
    BY <2>4, <2>5, NewNames
  <2> HIDE DEF F, a
  <2>7. j \in Items /\ j.of = i.of /\ j.tag = i.tag /\ j.variant = i.variant /\ j.attrs = a
    BY <2>6, WithAttrs
  <2>8. CleanItem(kind, i, T4, {}) => CleanItem(kind, j, T4, {})
    BY <2>6, <2>7 DEF CleanItem
  <2> QED BY <2>1, <2>3, <2>7, <2>8
<1> HIDE DEF f
<1> QED BY <1>1, <1>2, MappedClean

LEMMA PasswdKeeps ==
    ASSUME NEW d \in Document, Clean(d, T4, {})
    PROVE  Same(d, Passwd(d)) /\ Clean(Passwd(d), Deprecated, {"passwd"})
<1> DEFINE F(kind, i) == Hashed(kind, i)
           f == [kind \in Names |-> [i \in Items |-> F(kind, i)]]
<1>1. Passwd(d) = Mapped(d, f)
  <2>1. ASSUME NEW s \in DOMAIN d, NEW i \in DOMAIN d[s].items
        PROVE  f[d[s].sec][d[s].items[i]] = Hashed(d[s].sec, d[s].items[i])
    BY MappedFields
  <2> HIDE DEF f
  <2> QED BY <2>1 DEF Passwd, ChangeIn, Mapped
<1>2. Keeps(f) /\ Cleans(f, T4, {}, Deprecated, {"passwd"})
  <2> SUFFICES ASSUME NEW kind \in Names, NEW i \in Items
               PROVE  /\ f[kind][i] \in Items /\ f[kind][i].of = i.of
                      /\ CleanItem(kind, i, T4, {})
                           => CleanItem(kind, f[kind][i], Deprecated, {"passwd"})
    BY DEF Keeps, Cleans
  <2>1. f[kind][i] = F(kind, i)
    OBVIOUS
  <2> HIDE DEF f
  <2>2. i.tag \in Names /\ i.attrs \in SUBSET Names
    BY Fields
  <2> DEFINE r == Retag(i, "passwd", "passwd_hashed")
             a == Swap(i.attrs, "passwd", "passwd_hashed")
             j == [i EXCEPT !.attrs = a]
  <2>3. Retagged(r, i, "passwd", "passwd_hashed")
    BY RetagIs, NewNames
  <2>4. F(kind, i) = IF kind = "target" THEN r
                     ELSE IF kind = "finetuning" /\ i.tag = "adduser" THEN j ELSE i
    BY DEF Hashed
  <2> HIDE DEF F, r
  <2>6. /\ a \in SUBSET Names /\ "passwd" \notin a
        /\ "pin" \in a => "pin" \in i.attrs
        /\ "location" \in a => "location" \in i.attrs
    BY <2>2, SwapIs, NewNames
  <2> HIDE DEF a
  <2>7. j \in Items /\ j.of = i.of /\ j.tag = i.tag /\ j.variant = i.variant /\ j.attrs = a
    BY <2>6, WithAttrs
  <2> HIDE DEF j
  <2>8. ASSUME CleanItem(kind, i, T4, {})
        PROVE  /\ kind = "target" => CleanItem(kind, r, Deprecated, {"passwd"})
               /\ kind # "target" /\ i.tag = "adduser" => CleanItem(kind, j, Deprecated, {"passwd"})
               /\ kind # "target" /\ ~(kind = "finetuning" /\ i.tag = "adduser")
                    => CleanItem(kind, i, Deprecated, {"passwd"})
    <3>1. kind = "target" => CleanItem(kind, r, Deprecated, {"passwd"})
      BY <2>3, <2>8 DEF Retagged, CleanItem, T0, T1, T2, T3, T4, Deprecated
    <3>2. kind # "target" /\ i.tag = "adduser" => CleanItem(kind, j, Deprecated, {"passwd"})
      BY <2>6, <2>7, <2>8 DEF CleanItem, T0, T1, T2, T3, T4, Deprecated
    <3>3. kind # "target" /\ ~(kind = "finetuning" /\ i.tag = "adduser")
                    => CleanItem(kind, i, Deprecated, {"passwd"})
      BY <2>8 DEF CleanItem, T0, T1, T2, T3, T4, Deprecated
    <3> QED BY <3>1, <3>2, <3>3
  <2> QED BY <2>1, <2>3, <2>4, <2>7, <2>8 DEF Retagged
<1> HIDE DEF f
<1> QED BY <1>1, <1>2, MappedClean

LEMMA PkgPinningKeeps ==
    ASSUME NEW d \in Document, Clean(d, Deprecated, {"passwd"})
    PROVE  Same(d, PkgPinning(d)) /\ Clean(PkgPinning(d), Deprecated, {"passwd", "pin"})
<1> DEFINE F(kind, i) ==
              IF kind = "pkg-list" /\ i.tag = "pkg"
              THEN [i EXCEPT !.attrs = Swap(@, "pin", "release-name")] ELSE i
           f == [kind \in Names |-> [i \in Items |-> F(kind, i)]]
<1>1. PkgPinning(d) = Mapped(d, f)
  <2>1. ASSUME NEW s \in DOMAIN d, NEW i \in DOMAIN d[s].items
        PROVE  /\ d[s].sec \in Names /\ d[s].items[i] \in Items
               /\ f[d[s].sec][d[s].items[i]] = F(d[s].sec, d[s].items[i])
    BY MappedFields
  <2> HIDE DEF f
  <2> QED BY <2>1 DEF PkgPinning, ChangeIn, Pinned, Mapped
<1>2. Keeps(f) /\ Cleans(f, Deprecated, {"passwd"}, Deprecated, {"passwd", "pin"})
  <2> SUFFICES ASSUME NEW kind \in Names, NEW i \in Items
               PROVE  /\ f[kind][i] \in Items /\ f[kind][i].of = i.of
                      /\ CleanItem(kind, i, Deprecated, {"passwd"})
                           => CleanItem(kind, f[kind][i], Deprecated, {"passwd", "pin"})
    BY DEF Keeps, Cleans
  <2>1. f[kind][i] = F(kind, i)
    OBVIOUS
  <2> HIDE DEF f
  <2>2. i.tag \in Names /\ i.attrs \in SUBSET Names
    BY Fields
  <2> DEFINE a == Swap(i.attrs, "pin", "release-name")
             j == [i EXCEPT !.attrs = a]
  <2>3. F(kind, i) = IF kind = "pkg-list" /\ i.tag = "pkg" THEN j ELSE i
    OBVIOUS
  <2>4. /\ a \in SUBSET Names /\ "pin" \notin a
        /\ "passwd" \in a => "passwd" \in i.attrs
        /\ "location" \in a => "location" \in i.attrs
    BY <2>2, SwapIs, NewNames
  <2> HIDE DEF F, a
  <2>5. j \in Items /\ j.of = i.of /\ j.tag = i.tag /\ j.variant = i.variant /\ j.attrs = a
    BY <2>4, WithAttrs
  <2> HIDE DEF j
  <2>6. CleanItem(kind, i, Deprecated, {"passwd"}) => CleanItem(kind, j, Deprecated, {"passwd", "pin"})
    BY <2>4, <2>5 DEF CleanItem
  <2>7. ~(kind = "pkg-list" /\ i.tag = "pkg") /\ CleanItem(kind, i, Deprecated, {"passwd"})
            => CleanItem(kind, i, Deprecated, {"passwd", "pin"})
    BY DEF CleanItem, DeprecatedAttrs
  <2> QED BY <2>1, <2>3, <2>5, <2>6, <2>7
<1> HIDE DEF f
<1> QED BY <1>1, <1>2, MappedClean

LEMMA CheckScriptKeeps ==
    ASSUME NEW d \in Document, Clean(d, Deprecated, {"passwd", "pin"})
    PROVE  Same(d, CheckScript(d)) /\ Clean(CheckScript(d), Deprecated, {"passwd", "pin", "location"})
<1> DEFINE F(kind, i) ==
              IF i.tag = "check-script"
              THEN [i EXCEPT !.attrs = @ \ {"location"}] ELSE i
           f == [kind \in Names |-> [i \in Items |-> F(kind, i)]]
<1>1. CheckScript(d) = Mapped(d, f)
  BY MappedFields DEF CheckScript, Mapped, Change
<1>2. Keeps(f) /\ Cleans(f, Deprecated, {"passwd", "pin"}, Deprecated, {"passwd", "pin", "location"})
  <2> SUFFICES ASSUME NEW kind \in Names, NEW i \in Items
               PROVE  /\ f[kind][i] \in Items /\ f[kind][i].of = i.of
                      /\ CleanItem(kind, i, Deprecated, {"passwd", "pin"})
                           => CleanItem(kind, f[kind][i], Deprecated, {"passwd", "pin", "location"})
    BY DEF Keeps, Cleans
  <2>1. f[kind][i] = F(kind, i)
    OBVIOUS
  <2> HIDE DEF f
  <2>2. i.tag \in Names /\ i.attrs \in SUBSET Names
    BY Fields
  <2> DEFINE a == i.attrs \ {"location"}
             j == [i EXCEPT !.attrs = a]
  <2>3. F(kind, i) = IF i.tag = "check-script" THEN j ELSE i
    OBVIOUS
  <2>4. a \in SUBSET Names /\ "location" \notin a /\ a \subseteq i.attrs
    BY <2>2
  <2> HIDE DEF F, a
  <2>5. j \in Items /\ j.of = i.of /\ j.tag = i.tag /\ j.variant = i.variant /\ j.attrs = a
    BY <2>4, WithAttrs
  <2> HIDE DEF j
  <2>6. CleanItem(kind, i, Deprecated, {"passwd", "pin"})
            => CleanItem(kind, j, Deprecated, {"passwd", "pin", "location"})
    BY <2>4, <2>5 DEF CleanItem
  <2>7. i.tag # "check-script" /\ CleanItem(kind, i, Deprecated, {"passwd", "pin"})
            => CleanItem(kind, i, Deprecated, {"passwd", "pin", "location"})
    BY DEF CleanItem
  <2> QED BY <2>1, <2>3, <2>5, <2>6, <2>7
<1> HIDE DEF f
<1> QED BY <1>1, <1>2, MappedClean

-----------------------------------------------------------------------------
(* Directories become archives.                                            *)

\* Where no section has both for one volume.
Disjoint(s) == \A a, d \in ToSet(s.items) :
    a.tag = "archive" /\ d.tag = "archivedir" => Volume(s, a) # Volume(s, d)
Apart(d) == \A s \in ToSet(d) : Disjoint(s)

LEMMA ArchiveIs ==
    ASSUME NEW s \in Section, \A i \in ToSet(s.items) : CleanItem(s.sec, i, T0, {}),
           NEW v \in Packed(s)
    PROVE  /\ Archive(s, v) \in Items /\ CleanItem(s.sec, Archive(s, v), T1, {})
           /\ \A x : x \in Archive(s, v).of
                        <=> \E j \in Dirs(s) : Volume(s, j) = v /\ x \in j.of
<1> DEFINE a == Archive(s, v)
           of == UNION {i.of : i \in {j \in Dirs(s) : Volume(s, j) = v}}
<1>1. PICK d \in Dirs(s) : v = Volume(s, d)
  BY DEF Packed
<1>2. \A i \in Dirs(s) : i \in ToSet(s.items) /\ i.tag = "archivedir" /\ i \in Items
  BY Fields, InSeq DEF Dirs, Tagged
<1>3. of \in SUBSET Nat
  BY <1>2, Fields
<1>4. v \in SUBSET Names /\ "pin" \notin v /\ "location" \notin v /\ "passwd" \notin v
  <2>1. CleanItem(s.sec, d, T0, {}) /\ d.tag = "archivedir" /\ d.attrs \in SUBSET Names
    BY <1>2, Fields
  <2> QED BY <1>1, <2>1 DEF CleanItem, Volume
<1>5. a = [tag |-> "archive", variant |-> {}, attrs |-> v, of |-> of]
  BY DEF Archive
<1>6. \A x : x \in of <=> \E j \in Dirs(s) : Volume(s, j) = v /\ x \in j.of
  OBVIOUS
<1> HIDE DEF a, of
<1>7. "archive" \in Names
  BY DEF Names
<1>8. a \in Items
  BY <1>3, <1>4, <1>5, <1>7 DEF Items
<1>9. a.tag = "archive" /\ a.variant = {} /\ a.attrs = v /\ a.of = of
  BY <1>5
<1>10. CleanItem(s.sec, a, T1, {})
  BY <1>4, <1>9 DEF CleanItem, T0, T1
<1> QED BY <1>6, <1>8, <1>9, <1>10 DEF a

\* Every volume has a first directory.
LEMMA VolumeHasFirst ==
    ASSUME NEW s \in Section, NEW v \in Packed(s)
    PROVE  \E k \in 1..Len(s.items) : FirstOfVolume(s, k) /\ Volume(s, s.items[k]) = v
<1> DEFINE items == s.items
           n == Len(items)
           N == {m \in 1..n : items[m] \in Dirs(s) /\ Volume(s, items[m]) = v}
<1>1. items \in Seq(Items)
  BY Fields
<1>2. n \in Nat /\ DOMAIN items = 1..n /\ \A x \in ToSet(items) : \E i \in 1..n : x = items[i]
  BY <1>1, InSeq
<1>3. PICK d \in Dirs(s) : v = Volume(s, d)
  BY DEF Packed
<1>4. PICK i \in 1..n : d = items[i]
  BY <1>2, <1>3 DEF Dirs, Tagged
<1>5. i \in N
  BY <1>3, <1>4
<1>6. N \in SUBSET Nat
  BY <1>2
<1>7. PICK k \in N : \A m \in N : k <= m
  BY <1>5, <1>6, NatLeast
<1>8. \A m \in 1..(k - 1) : m \in 1..n /\ ~(k <= m)
  BY <1>2, <1>7
<1>9. \A m \in 1..(k - 1) : ~(items[m] \in Dirs(s) /\ Volume(s, items[m]) = v)
  BY <1>7, <1>8
<1> QED BY <1>7, <1>9 DEF FirstOfVolume

LEMMA ArchivesIs ==
    ASSUME NEW s \in Section, \A i \in ToSet(s.items) : CleanItem(s.sec, i, T0, {}),
           Disjoint(s)
    PROVE  LET new == Archives(s).items
           IN  /\ Archives(s) = [s EXCEPT !.items = new] /\ new \in Seq(Items)
               /\ Parts(new) = Parts(s.items)
               /\ s.sec = "finetuning" => Contents(new) = Contents(s.items)
               /\ \A i \in ToSet(new) : CleanItem(s.sec, i, T1, {})
               /\ \A i \in ToSet(new) : i \in ToSet(s.items) \/ i.tag = "archive"
<1> DEFINE items == s.items
           n == Len(items)
           Good == {i \in ToSet(items) :
                      /\ i.tag # "archivedir"
                      /\ ~(i.tag = "archive" /\ Volume(s, i) \in Packed(s))}
           rest == Select(items, Good)
           p == [k \in 1..n |-> IF FirstOfVolume(s, k)
                                THEN <<Archive(s, Volume(s, items[k]))>> ELSE <<>>]
           made == Cat(p, n)
           new == rest \o made
<1>1. /\ items \in Seq(Items) /\ n \in Nat /\ DOMAIN items = 1..n
      /\ \A i \in 1..n : items[i] \in Items /\ items[i] \in ToSet(items)
      /\ \A x \in ToSet(items) : x \in Items
  BY Fields, InSeq
<1>2. Archives(s) = [s EXCEPT !.items = new]
  <2>1. made = FlattenSeq([k \in DOMAIN items |->
               IF FirstOfVolume(s, k) THEN <<Archive(s, Volume(s, items[k]))>> ELSE <<>>])
    BY <1>1 DEF Cat
  <2> QED BY <2>1 DEF Archives
<1>3. \A k \in 1..n : FirstOfVolume(s, k) => Volume(s, items[k]) \in Packed(s)
  BY DEF FirstOfVolume, Packed
<1>4. AreSeqs(p, n, Items)
  BY <1>3, ArchiveIs DEF AreSeqs
<1>5. \A k \in 1..n : p[k] = IF FirstOfVolume(s, k)
                             THEN <<Archive(s, Volume(s, items[k]))>> ELSE <<>>
  OBVIOUS
<1> HIDE DEF p
<1>6. made \in Seq(Items) /\ ToSet(made) = UNION {ToSet(p[k]) : k \in 1..n}
  BY <1>1, <1>4, CatType, InCat
<1>7. \A a : ToSet(<<a>>) = {a}
  BY DEF ToSet
<1>8. ToSet(<<>>) = {}
  BY DEF ToSet
<1>9. \A x : x \in ToSet(made) <=> \E v \in Packed(s) : x = Archive(s, v)
  <2>1. ASSUME NEW x \in ToSet(made) PROVE \E v \in Packed(s) : x = Archive(s, v)
    <3>1. PICK k \in 1..n : x \in ToSet(p[k])
      BY <1>6, <2>1
    <3>2. FirstOfVolume(s, k) /\ p[k] = <<Archive(s, Volume(s, items[k]))>>
      BY <1>5, <1>8, <3>1
    <3> QED BY <1>3, <1>7, <3>1, <3>2
  <2>2. ASSUME NEW v \in Packed(s) PROVE Archive(s, v) \in ToSet(made)
    <3>1. PICK k \in 1..n : FirstOfVolume(s, k) /\ Volume(s, items[k]) = v
      BY VolumeHasFirst
    <3>2. p[k] = <<Archive(s, v)>>
      BY <1>5, <3>1
    <3>3. Archive(s, v) \in ToSet(p[k])
      BY <1>7, <3>2
    <3> QED BY <1>6, <3>3
  <2> QED BY <2>1, <2>2
<1>10. Good = {i \in ToSet(items) : i.tag # "archivedir"}
  BY DEF Disjoint, Packed, Dirs, Tagged
<1>11. rest \in Seq(Items) /\ ToSet(rest) = {i \in ToSet(items) : i.tag # "archivedir"}
  <2>1. rest \in Seq(Items) /\ ToSet(rest) = ToSet(items) \intersect Good
    BY <1>1, SelectType
  <2> QED BY <1>10, <2>1
<1> HIDE DEF made, rest
<1>12. new \in Seq(Items)
  BY <1>6, <1>11, ConcatProperties
<1>13. ToSet(new) = ToSet(rest) \union ToSet(made)
  BY <1>6, <1>11, InConcat
<1>14. Parts(new) = Parts(items)
  <2>1. ASSUME NEW x \in Parts(new) PROVE x \in Parts(items)
    <3>1. PICK i \in ToSet(new) : x \in i.of
      BY DEF Parts
    <3>2. CASE i \in ToSet(rest)
      BY <1>11, <3>1, <3>2 DEF Parts
    <3>3. CASE i \in ToSet(made)
      <4>1. PICK v \in Packed(s) : i = Archive(s, v)
        BY <1>9, <3>3
      <4>2. PICK j \in Dirs(s) : x \in j.of
        BY <3>1, <4>1, ArchiveIs
      <4> QED BY <4>2 DEF Parts, Dirs, Tagged
    <3> QED BY <1>13, <3>1, <3>2, <3>3
  <2>2. ASSUME NEW x \in Parts(items) PROVE x \in Parts(new)
    <3>1. PICK i \in ToSet(items) : x \in i.of
      BY DEF Parts
    <3>2. CASE i.tag # "archivedir"
      BY <1>11, <1>13, <3>1, <3>2 DEF Parts
    <3>3. CASE i.tag = "archivedir"
      <4>1. i \in Dirs(s) /\ Volume(s, i) \in Packed(s)
        BY <3>1, <3>3 DEF Dirs, Tagged, Packed
      <4>2. x \in Archive(s, Volume(s, i)).of
        BY <3>1, <4>1, ArchiveIs
      <4>3. Archive(s, Volume(s, i)) \in ToSet(new)
        BY <1>9, <1>13, <4>1
      <4> QED BY <4>2, <4>3 DEF Parts
    <3> QED BY <3>2, <3>3
  <2> QED BY <2>1, <2>2
<1>15. ASSUME s.sec = "finetuning" PROVE new = items
  <2>1. \A i \in ToSet(items) : i.tag # "archivedir"
    BY <1>15 DEF CleanItem
  <2>2. ToSet(items) \subseteq Good
    BY <1>10, <2>1
  <2>3. rest = items
    BY <1>1, <2>2, SelectAll DEF rest
  <2>4. \A k \in 1..n : ~FirstOfVolume(s, k)
    BY <1>1, <2>1 DEF FirstOfVolume, Dirs, Tagged
  <2>5. made = <<>>
    BY <1>1, <1>5, <2>4, CatNone DEF made
  <2> QED BY <1>1, <2>3, <2>5, ConcatEmptySeq
<1>16. ASSUME NEW i \in ToSet(new) PROVE CleanItem(s.sec, i, T1, {})
  <2>1. CASE i \in ToSet(rest)
    BY <1>11, <2>1 DEF CleanItem, T1
  <2>2. CASE i \in ToSet(made)
    BY <1>9, <2>2, ArchiveIs
  <2> QED BY <1>13, <1>16, <2>1, <2>2
<1>19. ASSUME NEW i \in ToSet(new) PROVE i \in ToSet(items) \/ i.tag = "archive"
  BY <1>9, <1>11, <1>13, <1>19 DEF Archive
<1>17. [s EXCEPT !.items = new].items = new
  BY DEF Section
<1> HIDE DEF new
<1>18. Archives(s).items = new
  BY <1>2, <1>17
<1> QED BY <1>2, <1>12, <1>14, <1>15, <1>16, <1>18, <1>19 DEF new

LEMMA CombineArchivedirKeeps ==
    ASSUME NEW d \in Document, Clean(d, T0, {}), Apart(d), Once(d)
    PROVE  Same(d, CombineArchivedir(d)) /\ Clean(CombineArchivedir(d), T1, {})
           /\ Once(CombineArchivedir(d))
<1> DEFINE g == [s \in ToSet(d) |-> Archives(s).items]
<1>1. \A s \in ToSet(d) : s \in Section /\ \E k \in 1..Len(d) : s = d[k]
  BY DocumentIs
<1>2. ASSUME NEW s \in ToSet(d)
      PROVE  /\ s \in Section /\ Disjoint(s)
             /\ \A i \in ToSet(s.items) : CleanItem(s.sec, i, T0, {})
  BY <1>1 DEF Apart, Clean
<1>3. ASSUME NEW s \in ToSet(d)
      PROVE  /\ Archives(s) = [s EXCEPT !.items = g[s]] /\ g[s] \in Seq(Items)
             /\ Parts(g[s]) = Parts(s.items)
             /\ s.sec = "finetuning" => Contents(g[s]) = Contents(s.items)
             /\ \A i \in ToSet(g[s]) : CleanItem(s.sec, i, T1, {})
             /\ \A i \in ToSet(g[s]) : i \in ToSet(s.items) \/ i.tag = "archive"
  BY <1>2, ArchivesIs
<1> HIDE DEF g
<1>4. DOMAIN d = 1..Len(d) /\ \A s \in 1..Len(d) : d[s] \in ToSet(d)
  BY DocumentIs
<1>5. CombineArchivedir(d) = Rebuilt(d, g)
  BY <1>3, <1>4 DEF CombineArchivedir, Rebuilt
<1>6. Same(d, Rebuilt(d, g)) /\ Clean(Rebuilt(d, g), T1, {})
  BY <1>3, RebuiltClean
<1>7. Once(Rebuilt(d, g))
  <2>1. \A s \in 1..Len(d) : Rebuilt(d, g)[s].items = g[d[s]]
    BY <1>3, RebuiltKeeps
  <2>2. \A x \in ToSet(Rebuilt(d, g)) : \E s \in ToSet(d) : x.items = g[s]
    BY <1>4, <2>1 DEF ToSet, Rebuilt
  <2> QED BY <1>3, <2>2 DEF Once
<1> QED BY <1>5, <1>6, <1>7

DeviceCommand(i) == [i EXCEPT !.tag = "device-command"]
Tuned(items) ==
    LET old == Only(items, "tune2fs")
    IN  Without(items, "tune2fs") \o [i \in DOMAIN old |-> DeviceCommand(old[i])]

LEMMA TunedIs ==
    ASSUME NEW s \in Section, \A i \in ToSet(s.items) : CleanItem(s.sec, i, T3, {})
    PROVE  /\ Tuned(s.items) \in Seq(Items) /\ Parts(Tuned(s.items)) = Parts(s.items)
           /\ s.sec = "finetuning" => Contents(Tuned(s.items)) = Contents(s.items)
           /\ \A i \in ToSet(Tuned(s.items)) : CleanItem(s.sec, i, T4, {})
<1> DEFINE items == s.items
           old == Only(items, "tune2fs")
           rest == Without(items, "tune2fs")
           n == Len(old)
           made == [i \in DOMAIN old |-> DeviceCommand(old[i])]
           new == rest \o made
<1>1. items \in Seq(Items)
  BY Fields
<1>2. /\ old \in Seq(Items) /\ rest \in Seq(Items)
      /\ ToSet(old) = {i \in ToSet(items) : i.tag = "tune2fs"}
      /\ ToSet(rest) = {i \in ToSet(items) : i.tag # "tune2fs"}
  BY <1>1, OnlyWithout
<1>3. Tuned(items) = new
  BY DEF Tuned
<1> HIDE DEF old, rest
<1>4. /\ n \in Nat /\ DOMAIN old = 1..n
      /\ \A i \in 1..n : old[i] \in Items /\ old[i] \in ToSet(old)
      /\ \A x \in ToSet(old) : x \in Items /\ \E i \in 1..n : x = old[i]
  BY <1>2, InSeq
<1>5. "device-command" \in Names
  BY DEF Names
<1>6. ASSUME NEW i \in Items
      PROVE  /\ DeviceCommand(i) \in Items /\ DeviceCommand(i).of = i.of /\ DeviceCommand(i).attrs = i.attrs
             /\ DeviceCommand(i).variant = i.variant /\ DeviceCommand(i).tag = "device-command"
  BY <1>5 DEF Items, DeviceCommand
<1>7. made = [i \in 1..n |-> DeviceCommand(old[i])]
  BY <1>4
<1> HIDE DEF made, n
<1>8. DOMAIN made = 1..n /\ \A i \in 1..n : made[i] = DeviceCommand(old[i]) /\ made[i] \in Items
  BY <1>4, <1>6, <1>7
<1>9. made \in Seq(Items) /\ ToSet(made) = {DeviceCommand(i) : i \in ToSet(old)}
  <2>2. made \in Seq(Items)
    BY <1>4, <1>6, <1>7
  <2>3. ToSet(made) = {made[i] : i \in 1..n}
    BY <1>8 DEF ToSet
  <2> QED BY <1>4, <1>8, <2>2, <2>3
<1>10. new \in Seq(Items) /\ ToSet(new) = ToSet(rest) \union ToSet(made)
  BY <1>2, <1>9, InConcat, ConcatProperties
<1>11. Parts(new) = Parts(items)
  <2>1. ASSUME NEW x PROVE x \in Parts(new) <=> x \in Parts(items)
    <3>1. \A i \in ToSet(items) : i.tag # "tune2fs" => i \in ToSet(new)
      BY <1>2, <1>10
    <3>2. \A i \in ToSet(items) : i.tag = "tune2fs" =>
              DeviceCommand(i) \in ToSet(new) /\ DeviceCommand(i).of = i.of
      BY <1>2, <1>4, <1>6, <1>9, <1>10
    <3>3. \A j \in ToSet(new) : \E i \in ToSet(items) : j.of = i.of
      BY <1>2, <1>4, <1>6, <1>9, <1>10
    <3> HIDE DEF new
    <3> QED BY <3>1, <3>2, <3>3 DEF Parts
  <2> QED BY <2>1 DEF Parts
<1>12. ASSUME s.sec = "finetuning" PROVE new = items
  <2>1. \A i \in ToSet(items) : i.tag # "tune2fs"
    BY <1>12 DEF CleanItem
  <2>2. ToSet(items) \intersect Tagged(items, "tune2fs") = {}
        /\ ToSet(items) \subseteq ToSet(items) \ Tagged(items, "tune2fs")
    BY <2>1 DEF Tagged
  <2>3. rest = items
    BY <1>1, <2>2, SelectAll DEF rest, Without
  <2>4. old = <<>>
    BY <1>1, <2>2, SelectNone DEF old, Only
  <2>5. n = 0
    BY <2>4 DEF n
  <2>6. made = <<>>
    BY <1>7, <2>5
  <2> QED BY <1>1, <2>3, <2>6, ConcatEmptySeq
<1>13. ASSUME NEW j \in ToSet(new) PROVE CleanItem(s.sec, j, T4, {})
  <2>1. CASE j \in ToSet(rest)
    BY <1>2, <2>1 DEF CleanItem, T4
  <2>2. CASE j \in ToSet(made)
    <3>1. PICK i \in ToSet(old) : j = DeviceCommand(i)
      BY <1>9, <2>2
    <3>2. i \in Items /\ i.tag = "tune2fs" /\ CleanItem(s.sec, i, T3, {})
      BY <1>2, <1>4, <3>1
    <3>3. /\ j.attrs = i.attrs /\ j.variant = i.variant /\ j.tag = "device-command"
      BY <1>6, <3>1, <3>2
    <3> QED BY <3>2, <3>3 DEF CleanItem, T0, T1, T2, T3, T4
  <2> QED BY <1>10, <1>13, <2>1, <2>2
<1> QED BY <1>3, <1>10, <1>11, <1>12, <1>13

LEMMA Tune2fsKeeps ==
    ASSUME NEW d \in Document, Clean(d, T3, {})
    PROVE  Same(d, Tune2fs(d)) /\ Clean(Tune2fs(d), T4, {})
<1> DEFINE g == [s \in ToSet(d) |-> Tuned(s.items)]
<1>1. \A s \in ToSet(d) : s \in Section /\ \E k \in 1..Len(d) : s = d[k]
  BY DocumentIs
<1>2. ASSUME NEW s \in ToSet(d)
      PROVE  s \in Section /\ \A i \in ToSet(s.items) : CleanItem(s.sec, i, T3, {})
  BY <1>1 DEF Clean
<1>3. ASSUME NEW s \in ToSet(d)
      PROVE  /\ g[s] \in Seq(Items) /\ Parts(g[s]) = Parts(s.items)
             /\ s.sec = "finetuning" => Contents(g[s]) = Contents(s.items)
             /\ \A i \in ToSet(g[s]) : CleanItem(s.sec, i, T4, {})
  BY <1>2, TunedIs
<1>4. DOMAIN d = 1..Len(d) /\ \A s \in 1..Len(d) : d[s] \in ToSet(d)
  BY DocumentIs
<1>5. Tune2fs(d) = Rebuilt(d, g)
  <2>1. \A s \in DOMAIN d : g[d[s]] = Tuned(d[s].items)
    BY <1>4
  <2> HIDE DEF g
  <2> QED BY <2>1 DEF Tune2fs, ChangeSections, Rebuilt, Tuned, DeviceCommand
<1> HIDE DEF g
<1>6. Same(d, Rebuilt(d, g)) /\ Clean(Rebuilt(d, g), T4, {})
  BY <1>3, RebuiltClean
<1> QED BY <1>5, <1>6

\* No <forward> is ever removed.
LEMMA InitvmPortsKeeps ==
    ASSUME NEW d \in Document, NEW T, NEW A, NEW sshport, NEW soapport, Clean(d, T, A)
    PROVE  LET e == InitvmPorts(d, sshport, soapport)
           IN  Same(d, e) /\ Clean(e, T, A)
<1> DEFINE g == [s \in ToSet(d) |-> s.items]
           e == InitvmPorts(d, sshport, soapport)
<1>1. DOMAIN d = 1..Len(d)
      /\ \A s \in 1..Len(d) : d[s] \in ToSet(d) /\ d[s].items \in Seq(Items)
  BY DocumentIs
<1>2. \A s \in ToSet(d) : s.items \in Seq(Items)
  BY DocumentIs
<1>3. \A s \in DOMAIN d :
         Select(d[s].items, {i \in ToSet(d[s].items) :
            ~(i.tag = "forward" /\ \/ SameText("ssh", sshport)
                                   \/ SameText("soap", soapport))}) = d[s].items
  BY <1>1, SelectAll DEF SameText
<1>4. \A s \in DOMAIN d : g[d[s]] = d[s].items
  BY <1>1
<1>5. \A s \in ToSet(d) : g[s] = s.items
  OBVIOUS
<1> HIDE DEF g
<1>6. e = Rebuilt(d, g)
  BY <1>3, <1>4 DEF InitvmPorts, ChangeSections, Rebuilt
<1>7. Same(d, Rebuilt(d, g)) /\ Clean(Rebuilt(d, g), T, A)
  BY <1>2, <1>5, RebuiltClean
<1> QED BY <1>6, <1>7

LEMMA SameIsTransitive ==
    ASSUME NEW a, NEW b, NEW c, Same(a, b), Same(b, c)
    PROVE  Same(a, c)
  BY DEF Same

\* All passes after the merge.
LEMMA PassesKeep ==
    ASSUME NEW d \in Document, NEW proxy, NEW sshport, NEW soapport,
           Clean(d, T0, {}), Apart(d), Once(d)
    PROVE  \E out : /\ Same(d, out)
                    /\ Clean(out, Deprecated, {"passwd", "pin", "location"})
                    /\ out = CheckScript(PkgPinning(Passwd(Mirrors(InitvmPorts(Tune2fs(
                                Bootstrap(PgpKey(ProxyAdd(CombineArchivedir(d), proxy)))),
                                sshport, soapport)))))
<1> DEFINE d1 == CombineArchivedir(d)
           d2 == ProxyAdd(d1, proxy)
           d3 == PgpKey(d2)
           d4 == Bootstrap(d3)
           d5 == Tune2fs(d4)
           d6 == InitvmPorts(d5, sshport, soapport)
           d7 == Mirrors(d6)
           d8 == Passwd(d7)
           d9 == PkgPinning(d8)
           out == CheckScript(d9)
<1>1. Same(d, d1) /\ Clean(d1, T1, {}) /\ Once(d1)
  BY CombineArchivedirKeeps
<1>a. \A x, y : Same(x, y) => y \in Document
  BY DEF Same
<1>2. Same(d1, d2) /\ Clean(d2, T1, {}) /\ Once(d2)
  <2> HIDE DEF d1
  <2> QED BY <1>1, <1>a, ProxyAddKeeps
<1>3. Same(d2, d3) /\ Clean(d3, T2, {}) /\ Once(d3)
  <2> HIDE DEF d2
  <2> QED BY <1>2, <1>a, PgpKeyKeeps
<1>4. Same(d3, d4) /\ Clean(d4, T3, {})
  <2> HIDE DEF d3
  <2> QED BY <1>3, <1>a, BootstrapKeeps
<1>5. Same(d4, d5) /\ Clean(d5, T4, {})
  <2> HIDE DEF d4
  <2> QED BY <1>4, <1>a, Tune2fsKeeps
<1>6. Same(d5, d6) /\ Clean(d6, T4, {})
  <2> HIDE DEF d5
  <2> QED BY <1>5, <1>a, InitvmPortsKeeps
<1>7. Same(d6, d7) /\ Clean(d7, T4, {})
  <2> HIDE DEF d6
  <2> QED BY <1>6, <1>a, MirrorsKeeps
<1>8. Same(d7, d8) /\ Clean(d8, Deprecated, {"passwd"})
  <2> HIDE DEF d7
  <2> QED BY <1>7, <1>a, PasswdKeeps
<1>9. Same(d8, d9) /\ Clean(d9, Deprecated, {"passwd", "pin"})
  <2> HIDE DEF d8
  <2> QED BY <1>8, <1>a, PkgPinningKeeps
<1>10. Same(d9, out) /\ Clean(out, Deprecated, {"passwd", "pin", "location"})
  <2> HIDE DEF d9
  <2> QED BY <1>9, <1>a, CheckScriptKeeps
<1>11. out = CheckScript(PkgPinning(Passwd(Mirrors(InitvmPorts(Tune2fs(
                Bootstrap(PgpKey(ProxyAdd(CombineArchivedir(d), proxy)))),
                sshport, soapport)))))
  OBVIOUS
<1> HIDE DEF d1, d2, d3, d4, d5, d6, d7, d8, d9, out
<1>12. Same(d, d3)
  BY <1>1, <1>2, <1>3, SameIsTransitive
<1>13. Same(d, d6)
  BY <1>4, <1>5, <1>6, <1>12, SameIsTransitive
<1>14. Same(d, out)
  BY <1>7, <1>8, <1>9, <1>10, <1>13, SameIsTransitive
<1> QED BY <1>10, <1>11, <1>14

-----------------------------------------------------------------------------
(* Directories with repositories become URLs.                              *)

Linked(items) ==
    LET old == Only(items, "repodir")
    IN  Without(items, "repodir") \o [i \in DOMAIN old |-> NewUrl(old[i])]

LEMMA NewUrlIs ==
    ASSUME NEW i \in Items
    PROVE  /\ NewUrl(i) \in Items /\ NewUrl(i).of = i.of /\ NewUrl(i).variant = i.variant
           /\ NewUrl(i).tag = "url" /\ NewUrl(i).attrs = {"served"}
<1>1. "url" \in Names /\ "served" \in Names
  BY DEF Names
<1> QED BY <1>1 DEF Items, NewUrl

\* Which elements there are then.
LEMMA LinkedIs ==
    ASSUME NEW items \in Seq(Items)
    PROVE  \E rest, made \in Seq(Items) :
              /\ Linked(items) = rest \o made /\ rest = Without(items, "repodir")
              /\ Linked(items) \in Seq(Items)
              /\ ToSet(Linked(items)) = ToSet(rest) \union ToSet(made)
              /\ ToSet(rest) = {i \in ToSet(items) : i.tag # "repodir"}
              /\ ToSet(made) = {NewUrl(i) : i \in {j \in ToSet(items) : j.tag = "repodir"}}
<1> DEFINE old == Only(items, "repodir")
           rest == Without(items, "repodir")
           n == Len(old)
           made == [i \in DOMAIN old |-> NewUrl(old[i])]
<1>2. /\ old \in Seq(Items) /\ rest \in Seq(Items)
      /\ ToSet(old) = {i \in ToSet(items) : i.tag = "repodir"}
      /\ ToSet(rest) = {i \in ToSet(items) : i.tag # "repodir"}
  BY OnlyWithout
<1>3. Linked(items) = rest \o made
  BY DEF Linked
<1> HIDE DEF old
<1>4. /\ n \in Nat /\ DOMAIN old = 1..n
      /\ \A i \in 1..n : old[i] \in Items /\ old[i] \in ToSet(old)
      /\ \A x \in ToSet(old) : x \in Items /\ \E i \in 1..n : x = old[i]
  BY <1>2, InSeq
<1>5. \A i \in 1..n : NewUrl(old[i]) \in Items
  BY <1>4, NewUrlIs
<1>6. made = [i \in 1..n |-> NewUrl(old[i])]
  BY <1>4
<1> HIDE DEF made, n
<1>7. made \in Seq(Items) /\ DOMAIN made = 1..n /\ \A i \in 1..n : made[i] = NewUrl(old[i])
  BY <1>4, <1>5, <1>6
<1>8. ToSet(made) = {NewUrl(i) : i \in ToSet(old)}
  <2>1. ToSet(made) = {made[i] : i \in 1..n}
    BY <1>7 DEF ToSet
  <2> QED BY <1>4, <1>7, <2>1
<1>9. rest \o made \in Seq(Items) /\ ToSet(rest \o made) = ToSet(rest) \union ToSet(made)
  BY <1>2, <1>7, InConcat, ConcatProperties
<1> QED BY <1>2, <1>3, <1>7, <1>8, <1>9

LEMMA InLinked ==
    ASSUME NEW items \in Seq(Items)
    PROVE  /\ Linked(items) \in Seq(Items)
           /\ \A i \in ToSet(items) : i.tag # "repodir" => i \in ToSet(Linked(items))
           /\ \A i \in ToSet(items) : i.tag = "repodir" => NewUrl(i) \in ToSet(Linked(items))
           /\ \A j \in ToSet(Linked(items)) :
                 \/ j \in ToSet(items) /\ j.tag # "repodir"
                 \/ \E i \in ToSet(items) : i.tag = "repodir" /\ j = NewUrl(i)
<1>1. PICK rest, made \in Seq(Items) :
              /\ Linked(items) \in Seq(Items)
              /\ ToSet(Linked(items)) = ToSet(rest) \union ToSet(made)
              /\ ToSet(rest) = {i \in ToSet(items) : i.tag # "repodir"}
              /\ ToSet(made) = {NewUrl(i) : i \in {j \in ToSet(items) : j.tag = "repodir"}}
  BY LinkedIs
<1> QED BY <1>1

\* Nothing that is wanted gets lost by it.
LEMMA LinkedParts ==
    ASSUME NEW items \in Seq(Items), NEW variants
    PROVE  Parts(WantedItems(Linked(items), variants)) = Parts(WantedItems(items, variants))
<1> DEFINE new == WantedItems(Linked(items), variants)
           old == WantedItems(items, variants)
<1>1. /\ ToSet(new) = {i \in ToSet(Linked(items)) : Wanted(i, variants)}
      /\ ToSet(old) = {i \in ToSet(items) : Wanted(i, variants)}
  BY InLinked, WantedItemsIs
<1>2. ASSUME NEW i \in ToSet(items)
      PROVE  /\ NewUrl(i).of = i.of
             /\ Wanted(NewUrl(i), variants) <=> Wanted(i, variants)
  BY InSeq, NewUrlIs DEF Wanted
<1> HIDE DEF new, old
<1>3. \A i \in ToSet(old) : \E j \in ToSet(new) : j.of = i.of
  BY <1>1, <1>2, InLinked
<1>4. \A j \in ToSet(new) : \E i \in ToSet(old) : j.of = i.of
  BY <1>1, <1>2, InLinked
<1>5. \A x : x \in Parts(new) <=> x \in Parts(old)
  BY <1>3, <1>4 DEF Parts
<1> QED BY <1>5 DEF Parts, new, old

\* Where none of them is wanted nothing changes.
LEMMA WantedItemsSelect ==
    ASSUME NEW s \in Seq(Items), NEW variants
    PROVE  WantedItems(s, variants) = Select(s, {i \in Items : Wanted(i, variants)})
<1>1. ToSet(s) \subseteq Items
  BY InSeq
<1>2. ToSet(s) \intersect {i \in ToSet(s) : Wanted(i, variants)}
        = ToSet(s) \intersect {i \in Items : Wanted(i, variants)}
  BY <1>1
<1> QED BY <1>2, SelectSame DEF WantedItems

LEMMA LinkedSame ==
    ASSUME NEW items \in Seq(Items), NEW variants,
           \A i \in ToSet(items) : Wanted(i, variants) => i.tag # "repodir"
    PROVE  WantedItems(Linked(items), variants) = WantedItems(items, variants)
<1> DEFINE W == {i \in Items : Wanted(i, variants)}
           Others == ToSet(items) \ Tagged(items, "repodir")
<1>1. PICK rest, made \in Seq(Items) :
              /\ Linked(items) = rest \o made /\ rest = Without(items, "repodir")
              /\ Linked(items) \in Seq(Items)
              /\ ToSet(rest) = {i \in ToSet(items) : i.tag # "repodir"}
              /\ ToSet(made) = {NewUrl(i) : i \in {j \in ToSet(items) : j.tag = "repodir"}}
  BY LinkedIs
<1>2. Select(made, W) = <<>>
  <2>1. ASSUME NEW x \in ToSet(made) PROVE x \notin W
    <3>1. PICK i \in ToSet(items) : i.tag = "repodir" /\ x = NewUrl(i)
      BY <1>1
    <3>2. i \in Items /\ ~Wanted(i, variants)
      BY <3>1, InSeq
    <3>3. x.variant = i.variant
      BY <3>1, <3>2, NewUrlIs
    <3> QED BY <3>2, <3>3 DEF Wanted
  <2> QED BY <2>1, SelectNone
<1>3. Select(rest, W) = Select(items, W)
  <2>1. rest = Select(items, Others)
    BY <1>1 DEF Without
  <2>2. Select(rest, W) = Select(items, Others \intersect W)
    BY <2>1, SelectTwice
  <2>3. ToSet(items) \intersect (Others \intersect W) = ToSet(items) \intersect W
    BY DEF Tagged
  <2>4. Select(items, Others \intersect W) = Select(items, W)
    BY <2>3, SelectSame
  <2> QED BY <2>2, <2>4
<1>4. Select(Linked(items), W) = Select(rest, W) \o Select(made, W)
  <2> HIDE DEF W
  <2>1. Select(rest \o made, W) = Select(rest, W) \o Select(made, W)
    BY SelectConcat
  <2>2. Linked(items) = rest \o made
    BY <1>1
  <2> QED BY <2>1, <2>2
<1>5. Select(items, W) \in Seq(Items)
  BY SelectType
<1>6. Select(items, W) \o <<>> = Select(items, W)
  BY <1>5, ConcatEmptySeq
<1>7. Select(Linked(items), W) = Select(items, W)
  BY <1>2, <1>3, <1>4, <1>6
<1>8. /\ WantedItems(Linked(items), variants) = Select(Linked(items), W)
      /\ WantedItems(items, variants) = Select(items, W)
  BY <1>1, WantedItemsSelect
<1> QED BY <1>7, <1>8

LEMMA RepodirsIs ==
    ASSUME NEW d \in Document
    PROVE  /\ Repodirs(d) \in Document /\ Len(Repodirs(d)) = Len(d)
           /\ \A s \in 1..Len(d) :
                 LET r == Repodirs(d)[s]
                 IN  r.sec = d[s].sec /\ r.variant = d[s].variant
                     /\ r.items = Linked(d[s].items)
<1> DEFINE n == Len(d)
           e == Repodirs(d)
<1>1. n \in Nat /\ DOMAIN d = 1..n /\ \A s \in 1..n : d[s] \in Section /\ d[s].items \in Seq(Items)
  BY DocumentIs
<1>2. e = [s \in 1..n |-> [d[s] EXCEPT !.items = Linked(@)]]
  BY <1>1 DEF Repodirs, ChangeSections, Linked
<1>3. \A s \in 1..n : Linked(d[s].items) \in Seq(Items)
  BY <1>1, InLinked
<1>4. ASSUME NEW s \in 1..n
      PROVE  LET r == [d[s] EXCEPT !.items = Linked(@)]
             IN  r \in Section /\ r.sec = d[s].sec /\ r.variant = d[s].variant
                 /\ r.items = Linked(d[s].items)
  <2>1. d[s] \in Section /\ Linked(d[s].items) \in Seq(Items)
    BY <1>1, <1>3
  <2> QED BY <2>1 DEF Section
<1> HIDE DEF e
<1>5. e \in Seq(Section) /\ Len(e) = n
  <2> HIDE DEF n
  <2> QED BY <1>1, <1>2, <1>4
<1>6. e \in Document
  BY <1>5 DEF Document
<1> QED BY <1>2, <1>4, <1>5, <1>6 DEF e

\* What is wanted of each kind.
LEMMA RepodirsKeeps ==
    ASSUME NEW d \in Document, NEW variants, NEW kind
    PROVE  /\ Parts(WantedFor(Repodirs(d), kind, variants)) = Parts(WantedFor(d, kind, variants))
           /\ (\A s \in 1..Len(d) : d[s].sec = kind /\ Wanted(d[s], variants) =>
                 \A i \in ToSet(d[s].items) : Wanted(i, variants) => i.tag # "repodir")
              => WantedFor(Repodirs(d), kind, variants) = WantedFor(d, kind, variants)
<1> DEFINE e == Repodirs(d)
           n == Len(d)
           Q(x) == [s \in 1..n |-> IF x[s].sec = kind /\ Wanted(x[s], variants)
                                   THEN WantedItems(x[s].items, variants) ELSE <<>>]
           q == Q(d)
           r == Q(e)
<1>1. /\ e \in Document /\ Len(e) = n
      /\ \A s \in 1..n : e[s].sec = d[s].sec /\ e[s].variant = d[s].variant
                         /\ e[s].items = Linked(d[s].items)
  BY RepodirsIs
<1>2. n \in Nat /\ \A s \in 1..n : d[s].items \in Seq(Items)
  BY DocumentIs
<1> HIDE DEF e, n
<1>3. \A s \in 1..n : /\ q[s] = IF d[s].sec = kind /\ Wanted(d[s], variants)
                                THEN WantedItems(d[s].items, variants) ELSE <<>>
                      /\ r[s] = IF e[s].sec = kind /\ Wanted(e[s], variants)
                                THEN WantedItems(e[s].items, variants) ELSE <<>>
  OBVIOUS
<1> HIDE DEF q, r
<1>4. WantedFor(d, kind, variants) = Cat(q, n) /\ AreSeqs(q, n, Items)
  BY <1>3, WantedForIs DEF n
<1>5. WantedFor(e, kind, variants) = Cat(r, n) /\ AreSeqs(r, n, Items)
  <2>1. \A s \in 1..Len(e) : r[s] = IF e[s].sec = kind /\ Wanted(e[s], variants)
                                    THEN WantedItems(e[s].items, variants) ELSE <<>>
    BY <1>1, <1>3
  <2>2. WantedFor(e, kind, variants) = Cat(r, Len(e)) /\ AreSeqs(r, Len(e), Items)
    BY <1>1, <2>1, WantedForIs
  <2> QED BY <1>1, <2>2
<1>6. \A s \in 1..n : Wanted(e[s], variants) <=> Wanted(d[s], variants)
  BY <1>1 DEF Wanted
<1>7. \A s \in 1..n : Parts(r[s]) = Parts(q[s])
  BY <1>1, <1>2, <1>3, <1>6, LinkedParts
<1>8. /\ ToSet(Cat(q, n)) = UNION {ToSet(q[s]) : s \in 1..n}
      /\ ToSet(Cat(r, n)) = UNION {ToSet(r[s]) : s \in 1..n}
  BY <1>2, <1>4, <1>5, InCat
<1>9. /\ \A x : x \in Parts(Cat(q, n)) <=> \E s \in 1..n : x \in Parts(q[s])
      /\ \A x : x \in Parts(Cat(r, n)) <=> \E s \in 1..n : x \in Parts(r[s])
  BY <1>8 DEF Parts
<1>10. \A x : x \in Parts(Cat(q, n)) <=> x \in Parts(Cat(r, n))
  BY <1>7, <1>9
<1>11. Parts(Cat(r, n)) = Parts(Cat(q, n))
  BY <1>10 DEF Parts
<1>12. ASSUME \A s \in 1..n : d[s].sec = kind /\ Wanted(d[s], variants) =>
                 \A i \in ToSet(d[s].items) : Wanted(i, variants) => i.tag # "repodir"
       PROVE  Cat(r, n) = Cat(q, n)
  <2>1. \A s \in 1..n : r[s] = q[s]
    BY <1>1, <1>2, <1>3, <1>6, <1>12, LinkedSame
  <2> QED BY <2>1, CatSame
<1> QED BY <1>4, <1>5, <1>11, <1>12 DEF e, n

-----------------------------------------------------------------------------
(* What is left for the passes after the merge.                            *)

\* An item that comes from one of this section.
ComesFrom(i, s, variants) ==
    /\ i.variant = {}
    /\ \E j \in ToSet(s.items) :
          /\ Wanted(j, variants)
          /\ \/ /\ j.tag # "repodir" /\ i.tag = j.tag /\ i.attrs = j.attrs
                /\ i = [j EXCEPT !.variant = {}]
             \/ i.tag = "url" /\ i.attrs = {"served"}

LEMMA KeptFrom ==
    ASSUME NEW d \in Document, NEW variants,
           NEW k \in ToSet(KeepVariants(Repodirs(d), variants))
    PROVE  /\ k \in Section
           /\ \E s \in ToSet(d) : /\ s \in Section /\ Wanted(s, variants)
                                  /\ k.sec = s.sec /\ k.variant = {}
                                  /\ \A i \in ToSet(k.items) : ComesFrom(i, s, variants)
<1> DEFINE e == Repodirs(d)
<1>1. e \in Document /\ Len(e) = Len(d)
  BY RepodirsIs
<1>2. PICK r \in ToSet(e) : Wanted(r, variants) /\ k = Chosen(r, variants)
  BY <1>1, KeepVariantsIs
<1>3. r \in Section /\ \E n \in 1..Len(e) : r = e[n]
  BY <1>1, DocumentIs
<1>4. PICK n \in 1..Len(d) : r = e[n]
  BY <1>1, <1>3
<1>5. /\ d[n] \in ToSet(d) /\ d[n] \in Section /\ d[n].items \in Seq(Items)
      /\ r.sec = d[n].sec /\ r.variant = d[n].variant /\ r.items = Linked(d[n].items)
  BY <1>4, DocumentIs, RepodirsIs
<1>6. /\ k \in Section /\ k.sec = r.sec /\ k.variant = {}
      /\ \A i \in ToSet(k.items) :
            \E j \in ToSet(r.items) : Wanted(j, variants) /\ i = [j EXCEPT !.variant = {}]
  BY <1>2, <1>3, ChosenIs
<1>7. Wanted(d[n], variants)
  BY <1>2, <1>5 DEF Wanted
<1>8. ASSUME NEW i \in ToSet(k.items) PROVE ComesFrom(i, d[n], variants)
  <2>1. PICK j \in ToSet(Linked(d[n].items)) :
            Wanted(j, variants) /\ i = [j EXCEPT !.variant = {}]
    BY <1>5, <1>6
  <2>2. Linked(d[n].items) \in Seq(Items)
    BY <1>5, InLinked
  <2>3. j \in Items
    BY <2>2, InSeq
  <2>4. i.variant = {} /\ i.tag = j.tag /\ i.attrs = j.attrs
    BY <2>1, <2>3 DEF Items
  <2>5. \/ j \in ToSet(d[n].items) /\ j.tag # "repodir"
        \/ \E x \in ToSet(d[n].items) : x.tag = "repodir" /\ j = NewUrl(x)
    BY <1>5, InLinked
  <2>6. CASE j \in ToSet(d[n].items) /\ j.tag # "repodir"
    BY <2>1, <2>4, <2>6 DEF ComesFrom
  <2>7. CASE \E x \in ToSet(d[n].items) : x.tag = "repodir" /\ j = NewUrl(x)
    <3>1. PICK x \in ToSet(d[n].items) : j = NewUrl(x)
      BY <2>7
    <3>2. x \in Items
      BY <1>5, InSeq
    <3>3. j.variant = x.variant /\ j.tag = "url" /\ j.attrs = {"served"}
      BY <3>1, <3>2, NewUrlIs
    <3>4. Wanted(x, variants)
      BY <2>1, <3>3 DEF Wanted
    <3> QED BY <2>4, <3>3, <3>4 DEF ComesFrom
  <2> QED BY <2>5, <2>6, <2>7
<1> QED BY <1>5, <1>6, <1>7, <1>8

LEMMA MergedFrom ==
    ASSUME NEW d \in Document, NEW variants,
           NEW m \in ToSet(Merge(KeepVariants(Repodirs(d), variants)))
    PROVE  /\ m.variant = {}
           /\ \A i \in ToSet(m.items) :
                 \E s \in ToSet(d) : /\ Wanted(s, variants) /\ m.sec = s.sec
                                     /\ ComesFrom(i, s, variants)
           /\ m.sec \notin Mergeable =>
                 \E s \in ToSet(d) :
                    /\ m.sec = s.sec /\ \A i \in ToSet(m.items) : ComesFrom(i, s, variants)
<1> DEFINE k == KeepVariants(Repodirs(d), variants)
<1>1. Repodirs(d) \in Document
  BY RepodirsIs
<1>2. k \in Document
  BY <1>1, KeepVariantsIs
<1>3. \A x \in ToSet(k) :
         /\ x \in Section
         /\ \E s \in ToSet(d) : /\ s \in Section /\ Wanted(s, variants)
                                /\ x.sec = s.sec /\ x.variant = {}
                                /\ \A i \in ToSet(x.items) : ComesFrom(i, s, variants)
  BY KeptFrom
<1> HIDE DEF k
<1>4. \/ m \in ToSet(k) /\ m.sec \notin Mergeable
      \/ m.sec \in Mergeable /\ \E s \in ToSet(k) : m = MergedSection(k, s)
  BY <1>2, MergeIs DEF k
<1>5. CASE m \in ToSet(k) /\ m.sec \notin Mergeable
  BY <1>3, <1>5
<1>6. CASE m.sec \in Mergeable /\ \E s \in ToSet(k) : m = MergedSection(k, s)
  <2>1. PICK x \in ToSet(k) : m = MergedSection(k, x)
    BY <1>6
  <2>2. x \in Section /\ x.variant = {}
    BY <1>3, <2>1
  <2>3. m.variant = {} /\ m.sec = x.sec /\ m.items = ItemsOf(k, x.sec)
    BY <2>1, <2>2 DEF MergedSection, Section
  <2>4. ASSUME NEW i \in ToSet(m.items)
        PROVE  \E s \in ToSet(d) : /\ Wanted(s, variants) /\ m.sec = s.sec
                                   /\ ComesFrom(i, s, variants)
    <3>1. ToSet(ItemsOf(k, x.sec))
            = UNION {ToSet(k[s].items) : s \in {r \in 1..Len(k) : k[r].sec = x.sec}}
      BY <1>2, InItemsOf
    <3>2. PICK n \in 1..Len(k) : k[n].sec = x.sec /\ i \in ToSet(k[n].items)
      BY <2>3, <2>4, <3>1
    <3>3. k[n] \in ToSet(k)
      BY <1>2, DocumentIs
    <3> QED BY <1>3, <2>3, <3>2, <3>3
  <2> QED BY <1>6, <2>3, <2>4
<1> QED BY <1>4, <1>5, <1>6

\* What the checks of xmlpreprocess leave.
LEMMA StartClean ==
    ASSUME NEW d \in Document, NEW variants, ~PreprocessFails(d, variants),
           ArchivesApart(d, variants)
    PROVE  LET m == Merge(KeepVariants(Repodirs(d), variants))
           IN  m \in Document /\ Clean(m, T0, {}) /\ Apart(m) /\ Once(m)
<1> DEFINE m == Merge(KeepVariants(Repodirs(d), variants))
<1>1. m \in Document
  BY RepodirsIs, KeepVariantsIs, MergeIs
<1>2. \A x \in ToSet(m) :
           /\ x.variant = {}
           /\ \A i \in ToSet(x.items) :
                 \E s \in ToSet(d) : /\ Wanted(s, variants) /\ x.sec = s.sec
                                     /\ ComesFrom(i, s, variants)
           /\ x.sec \notin Mergeable =>
                 \E s \in ToSet(d) :
                    /\ x.sec = s.sec /\ \A i \in ToSet(x.items) : ComesFrom(i, s, variants)
  BY MergedFrom
<1> HIDE DEF m
<1>3. \A s \in ToSet(d) : \A j \in ToSet(s.items) :
         Wanted(s, variants) /\ Wanted(j, variants) => ~Invalid(s, j)
  BY DEF PreprocessFails
<1>4. ASSUME NEW x \in ToSet(m), NEW i \in ToSet(x.items)
      PROVE  CleanItem(x.sec, i, T0, {}) /\ (x.sec \in Mergeable => i.tag # "archivedir")
  <2>1. PICK s \in ToSet(d) : Wanted(s, variants) /\ x.sec = s.sec /\ ComesFrom(i, s, variants)
    BY <1>2
  <2>2. PICK j \in ToSet(s.items) :
          /\ Wanted(j, variants)
          /\ \/ j.tag # "repodir" /\ i.tag = j.tag /\ i.attrs = j.attrs
             \/ i.tag = "url" /\ i.attrs = {"served"}
    BY <2>1 DEF ComesFrom
  <2>3. i.variant = {}
    BY <2>1 DEF ComesFrom
  <2>4. ~Invalid(s, j)
    BY <1>3, <2>1, <2>2
  <2>5. CASE j.tag # "repodir" /\ i.tag = j.tag /\ i.attrs = j.attrs
    BY <2>1, <2>3, <2>4, <2>5 DEF CleanItem, T0, Invalid, Mergeable
  <2>6. CASE i.tag = "url" /\ i.attrs = {"served"}
    BY <2>3, <2>6 DEF CleanItem, T0
  <2> QED BY <2>2, <2>5, <2>6
<1>5. Clean(m, T0, {})
  <2>1. \A s \in 1..Len(m) : m[s] \in ToSet(m)
    BY <1>1, DocumentIs
  <2> QED BY <1>2, <1>4, <2>1 DEF Clean
<1>6. ASSUME NEW x \in ToSet(m), NEW a \in ToSet(x.items), NEW b \in ToSet(x.items),
             a.tag = "archive", b.tag = "archivedir"
      PROVE  Volume(x, a) # Volume(x, b)
  <2>1. x.sec \notin Mergeable
    BY <1>4, <1>6
  <2>2. PICK s \in ToSet(d) : x.sec = s.sec /\ \A i \in ToSet(x.items) : ComesFrom(i, s, variants)
    BY <1>2, <2>1
  <2>3. PICK j \in ToSet(s.items) :
           Wanted(j, variants) /\ a.tag = j.tag /\ a.attrs = j.attrs
    BY <1>6, <2>2 DEF ComesFrom
  <2>4. PICK k \in ToSet(s.items) :
           Wanted(k, variants) /\ b.tag = k.tag /\ b.attrs = k.attrs
    BY <1>6, <2>2 DEF ComesFrom
  <2>5. Volume(s, j) # Volume(s, k)
    BY <1>6, <2>3, <2>4 DEF ArchivesApart
  <2> QED BY <2>2, <2>3, <2>4, <2>5 DEF Volume
<1>7. Apart(m)
  BY <1>6 DEF Apart, Disjoint
<1>8. ASSUME NEW x \in ToSet(m), NEW y \in ToSet(m), NEW a \in ToSet(x.items),
             NEW b \in ToSet(y.items),
             a.tag = "debootstrapvariant", b.tag = "debootstrapvariant"
      PROVE  a = b
  <2>1. PICK s \in ToSet(d) : Wanted(s, variants) /\ ComesFrom(a, s, variants)
    BY <1>2
  <2>2. PICK t \in ToSet(d) : Wanted(t, variants) /\ ComesFrom(b, t, variants)
    BY <1>2
  <2>3. PICK i \in ToSet(s.items) : /\ Wanted(i, variants) /\ i.tag = "debootstrapvariant"
                                    /\ a = [i EXCEPT !.variant = {}]
    BY <1>8, <2>1 DEF ComesFrom
  <2>4. PICK j \in ToSet(t.items) : /\ Wanted(j, variants) /\ j.tag = "debootstrapvariant"
                                    /\ b = [j EXCEPT !.variant = {}]
    BY <1>8, <2>2 DEF ComesFrom
  <2>5. i = j
    BY <2>1, <2>2, <2>3, <2>4 DEF PreprocessFails, TwoBootstraps
  <2> QED BY <2>3, <2>4, <2>5
<1>9. Once(m)
  BY <1>8 DEF Once
<1> QED BY <1>1, <1>5, <1>7, <1>9 DEF m

-----------------------------------------------------------------------------
(* The whole way of a document.                                            *)

\* Documents that a pass leaves the same have the same contents.
LEMMA SameItemsOf ==
    ASSUME NEW d, NEW e, Same(d, e), NEW kind
    PROVE  /\ Parts(ItemsOf(e, kind)) = Parts(ItemsOf(d, kind))
           /\ kind = "finetuning" => Contents(ItemsOf(e, kind)) = Contents(ItemsOf(d, kind))
<1> DEFINE n == Len(d)
           P(x) == [s \in 1..n |-> IF x[s].sec = kind THEN x[s].items ELSE <<>>]
           p == P(d)
           r == P(e)
<1>1. /\ d \in Document /\ e \in Document /\ Len(e) = n
      /\ \A s \in 1..n :
          /\ e[s].sec = d[s].sec
          /\ Parts(e[s].items) = Parts(d[s].items)
          /\ d[s].sec = "finetuning" => Contents(e[s].items) = Contents(d[s].items)
  BY DEF Same
<1>2. /\ n \in Nat /\ DOMAIN d = 1..n /\ DOMAIN e = 1..n
      /\ \A s \in 1..n : d[s].items \in Seq(Items) /\ e[s].items \in Seq(Items)
  BY <1>1, DocumentIs
<1> HIDE DEF n
<1>3. ItemsOf(d, kind) = Cat(p, n) /\ ItemsOf(e, kind) = Cat(r, n)
  BY <1>2 DEF ItemsOf, Cat
<1>4. \A s \in 1..n : /\ p[s] = IF d[s].sec = kind THEN d[s].items ELSE <<>>
                      /\ r[s] = IF e[s].sec = kind THEN e[s].items ELSE <<>>
  OBVIOUS
<1> HIDE DEF p, r
<1>5. AreSeqs(p, n, Items) /\ AreSeqs(r, n, Items)
  BY <1>2, <1>4, EmptySeq DEF AreSeqs
<1>6. \A s \in 1..n : Parts(r[s]) = Parts(p[s])
  BY <1>1, <1>4
<1>7. /\ ToSet(Cat(p, n)) = UNION {ToSet(p[s]) : s \in 1..n}
      /\ ToSet(Cat(r, n)) = UNION {ToSet(r[s]) : s \in 1..n}
  BY <1>2, <1>5, InCat
<1>8. /\ \A x : x \in Parts(Cat(p, n)) <=> \E s \in 1..n : x \in Parts(p[s])
      /\ \A x : x \in Parts(Cat(r, n)) <=> \E s \in 1..n : x \in Parts(r[s])
  BY <1>7 DEF Parts
<1>9. \A x : x \in Parts(Cat(p, n)) <=> x \in Parts(Cat(r, n))
  BY <1>6, <1>8
<1>10. Parts(Cat(r, n)) = Parts(Cat(p, n))
  BY <1>9 DEF Parts
<1>11. ASSUME kind = "finetuning" PROVE Contents(Cat(r, n)) = Contents(Cat(p, n))
  <2>1. \A s \in 1..n : Contents(r[s]) = Contents(p[s])
    BY <1>1, <1>4, <1>11
  <2> DEFINE q == [s \in 1..n |-> Contents(p[s])]
  <2>2. \A s \in 1..n : q[s] = Contents(p[s])
    OBVIOUS
  <2> HIDE DEF q
  <2>3. \A s \in 1..n : q[s] = Contents(r[s])
    BY <2>1, <2>2
  <2>4. Contents(Cat(p, n)) = Cat(q, n)
    BY <1>2, <1>5, <2>2, ContentsCat
  <2>5. Contents(Cat(r, n)) = Cat(q, n)
    BY <1>2, <1>5, <2>3, ContentsCat
  <2> QED BY <2>4, <2>5
<1> QED BY <1>3, <1>10, <1>11

LEMMA PreprocessCorrect ==
    ASSUME NEW d \in Document, NEW variants, NEW proxy, NEW sshport, NEW soapport,
           ~PreprocessFails(d, variants), ArchivesApart(d, variants)
    PROVE  LET out == XmlPreprocess(Repodirs(d), variants, proxy, sshport, soapport)
           IN  /\ InOrder(d, variants, out) /\ Complete(d, variants, out)
               /\ UpToDate(out)
<1> DEFINE e == Repodirs(d)
           k == KeepVariants(e, variants)
           m == Merge(k)
           result == XmlPreprocess(e, variants, proxy, sshport, soapport)
<1>1. e \in Document
  BY RepodirsIs
<1>2. k \in Document
  BY <1>1, KeepVariantsIs
<1>3. m \in Document /\ Clean(m, T0, {}) /\ Apart(m) /\ Once(m)
  BY StartClean
<1>4. PICK out : /\ Same(m, out)
                 /\ Clean(out, Deprecated, {"passwd", "pin", "location"})
                 /\ out = result
  <2>1. \E out : /\ Same(m, out)
                 /\ Clean(out, Deprecated, {"passwd", "pin", "location"})
                 /\ out = CheckScript(PkgPinning(Passwd(Mirrors(InitvmPorts(Tune2fs(
                             Bootstrap(PgpKey(ProxyAdd(CombineArchivedir(m), proxy)))),
                             sshport, soapport)))))
    <3> HIDE DEF m
    <3> QED BY <1>3, PassesKeep
  <2> QED BY <2>1 DEF XmlPreprocess
<1>5. \A kind : Contents(ItemsOf(m, kind)) = Contents(WantedFor(e, kind, variants))
  <2> HIDE DEF e
  <2>1. \A kind : Contents(ItemsOf(k, kind)) = Contents(WantedFor(e, kind, variants))
    BY <1>1, KeepVariantsIs
  <2> HIDE DEF k
  <2>2. \A kind : ItemsOf(m, kind) = ItemsOf(k, kind)
    BY <1>2, MergeIs
  <2> QED BY <2>1, <2>2
<1>6. \A kind \in Mergeable : \A r, s \in DOMAIN m : m[r].sec = kind /\ m[s].sec = kind => r = s
  <2> HIDE DEF k
  <2> QED BY <1>2, MergeIs
<1> HIDE DEF k, m
<1>7. ASSUME NEW kind PROVE WantedFor(e, kind, variants) \in Seq(Items)
  <2> DEFINE q == [s \in 1..Len(e) |-> IF e[s].sec = kind /\ Wanted(e[s], variants)
                                       THEN WantedItems(e[s].items, variants) ELSE <<>>]
  <2>1. \A s \in 1..Len(e) : q[s] = IF e[s].sec = kind /\ Wanted(e[s], variants)
                                    THEN WantedItems(e[s].items, variants) ELSE <<>>
    OBVIOUS
  <2> HIDE DEF q, e
  <2>2. WantedFor(e, kind, variants) = Cat(q, Len(e)) /\ AreSeqs(q, Len(e), Items)
    BY <1>1, <2>1, WantedForIs
  <2>3. Len(e) \in Nat
    BY <1>1, DocumentIs
  <2> QED BY <2>2, <2>3, CatType
<1>8. ASSUME NEW kind PROVE Parts(ItemsOf(m, kind)) = Parts(WantedFor(d, kind, variants))
  <2>1. ItemsOf(m, kind) \in Seq(Items)
    BY <1>3, InItemsOf
  <2>2. Parts(ItemsOf(m, kind)) = Parts(WantedFor(e, kind, variants))
    BY <1>5, <1>7, <2>1, ContentsType
  <2>3. Parts(WantedFor(e, kind, variants)) = Parts(WantedFor(d, kind, variants))
    BY RepodirsKeeps
  <2> QED BY <2>2, <2>3
<1>9. ASSUME NEW kind, kind = "finetuning"
      PROVE  WantedFor(e, kind, variants) = WantedFor(d, kind, variants)
  <2>1. \A s \in 1..Len(d) : d[s].sec = kind /\ Wanted(d[s], variants) =>
             \A i \in ToSet(d[s].items) : Wanted(i, variants) => i.tag # "repodir"
    <3>1. \A s \in 1..Len(d) : d[s] \in ToSet(d)
      BY DocumentIs
    <3> QED BY <1>9, <3>1 DEF PreprocessFails, Invalid
  <2> QED BY <2>1, RepodirsKeeps
<1> HIDE DEF e
<1>10. /\ \A kind : Parts(ItemsOf(out, kind)) = Parts(ItemsOf(m, kind))
       /\ Contents(ItemsOf(out, "finetuning")) = Contents(ItemsOf(m, "finetuning"))
  BY <1>4, SameItemsOf
<1>11. InOrder(d, variants, out)
  BY <1>5, <1>9, <1>10 DEF InOrder
<1>12. /\ out \in Document /\ Len(out) = Len(m) /\ DOMAIN out = 1..Len(out)
       /\ DOMAIN m = 1..Len(m) /\ \A s \in 1..Len(m) : out[s].sec = m[s].sec
  <2>1. out \in Document /\ Len(out) = Len(m) /\ \A s \in 1..Len(m) : out[s].sec = m[s].sec
    BY <1>4 DEF Same
  <2> QED BY <1>3, <2>1, DocumentIs
<1>13. Complete(d, variants, out)
  <2>1. ASSUME NEW kind \in Mergeable, NEW r \in DOMAIN out, NEW s \in DOMAIN out,
               out[r].sec = kind, out[s].sec = kind
        PROVE  r = s
    BY <1>6, <1>12, <2>1
  <2> QED BY <1>8, <1>10, <2>1 DEF Complete
<1>14. UpToDate(out)
  <2>1. \A s \in 1..Len(out) :
           /\ out[s].variant = {}
           /\ \A i \in ToSet(out[s].items) :
                 CleanItem(out[s].sec, i, Deprecated, {"passwd", "pin", "location"})
    BY <1>4 DEF Clean
  <2>2. \A kind, i : CleanItem(kind, i, Deprecated, {"passwd", "pin", "location"})
           => /\ i.variant = {} /\ i.tag \notin Deprecated
              /\ i.attrs \intersect DeprecatedAttrs(kind) = {}
    BY DEF CleanItem, DeprecatedAttrs
  <2> QED BY <1>12, <2>1, <2>2 DEF UpToDate
<1> QED BY <1>4, <1>11, <1>13, <1>14 DEF e

-----------------------------------------------------------------------------
(* What is submitted, and what of it is uploaded.                          *)

\* A step that leaves the input alone, or forgets it.
LEMMA InputStays ==
    ASSUME TypeOK, InputInv, NEW u \in Users,
           NEW label, label \notin {"serve", "preprocess", "new", "set_xml"},
           pc' = [pc EXCEPT ![u] = label],
           input' = input \/ input' = [input EXCEPT ![u] = NoInput]
    PROVE  InputInv'
<1>1. ASSUME NEW v \in Users
      PROVE  \/ v # u /\ pc'[v] = pc[v] /\ input'[v] = input[v]
             \/ v = u /\ pc'[v] = label
  BY DEF TypeOK, InputInv
<1>2. ASSUME NEW v \in Users PROVE InputKept(v)'
  BY <1>1 DEF InputInv, InputKept, Rejected
<1>3. input' \in [Users -> Inputs \union {NoInput}]
  BY DEF InputInv
<1> QED BY <1>2, <1>3 DEF InputInv

\* The steps from the file to the project.
LEMMA InputSteps ==
    ASSUME TypeOK, InputInv, NEW u \in Users,
           \/ RepodirEnter(u) \/ StartServer(u) \/ PreprocessFile(u) \/ NewProject(u)
    PROVE  InputInv'
<1> USE DEF KeepRest, guestVars, fixedVars, prjVars, Leave, GoTo, End, KeepInput
<1>1. ASSUME NEW l \in {"serve", "preprocess", "new", "set_xml"}, pc' = [pc EXCEPT ![u] = l],
             NEW i \in Inputs, input' = [input EXCEPT ![u] = i],
             l \in {"new", "set_xml"} => ~Rejected(i)
      PROVE  InputInv'
  <2>1. ASSUME NEW v \in Users
        PROVE  \/ v # u /\ pc'[v] = pc[v] /\ input'[v] = input[v]
               \/ v = u /\ pc'[v] = l /\ input'[v] = i
    BY <1>1 DEF TypeOK, InputInv
  <2>2. ASSUME NEW v \in Users PROVE InputKept(v)'
    BY <1>1, <2>1 DEF InputInv, InputKept, Rejected
  <2>3. input' \in [Users -> Inputs \union {NoInput}]
    BY <1>1 DEF InputInv
  <2> QED BY <2>2, <2>3 DEF InputInv
<1>2. ASSUME UNCHANGED input, input[u] \in Inputs
      PROVE  input' = [input EXCEPT ![u] = input[u]]
  BY <1>2 DEF InputInv
<1>3. CASE RepodirEnter(u)
  <2>1. CASE pc' = [pc EXCEPT ![u] = "idle"] /\ UNCHANGED input
    BY <2>1, InputStays
  <2>2. CASE \E i \in Inputs : GoTo(u, "serve") /\ input' = [input EXCEPT ![u] = i]
    BY <1>1, <2>2
  <2> QED BY <1>3, <2>1, <2>2 DEF RepodirEnter
<1>4. CASE StartServer(u)
  <2>1. pc[u] = "serve" /\ UNCHANGED input
    BY <1>4 DEF StartServer
  <2>2. input[u] \in Inputs
    BY <2>1 DEF InputInv, InputKept
  <2>3. \E l \in {"serve", "preprocess"} : pc' = [pc EXCEPT ![u] = l]
    BY <1>4, <2>1 DEF StartServer, TypeOK
  <2> QED BY <1>1, <1>2, <2>1, <2>2, <2>3
<1>5. CASE PreprocessFile(u)
  <2>1. CASE Rejected(input[u])
    <3>1. pc' = [pc EXCEPT ![u] = "leave"] /\ input' = [input EXCEPT ![u] = NoInput]
      BY <1>5, <2>1 DEF PreprocessFile
    <3> QED BY <3>1, InputStays
  <2>2. CASE ~Rejected(input[u])
    <3>1. pc' = [pc EXCEPT ![u] = "new"] /\ UNCHANGED input /\ input[u] \in Inputs
      BY <1>5, <2>2 DEF PreprocessFile, InputInv, InputKept
    <3> QED BY <1>1, <1>2, <2>2, <3>1
  <2> QED BY <2>1, <2>2
<1>6. CASE NewProject(u)
  <2>1. input[u] \in Inputs /\ ~Rejected(input[u])
    BY <1>6 DEF NewProject, InputInv, InputKept
  <2>2. CASE daemon = "up"
    <3>1. pc' = [pc EXCEPT ![u] = "set_xml"] /\ UNCHANGED input
      BY <1>6, <2>2 DEF NewProject
    <3> QED BY <1>1, <1>2, <2>1, <3>1
  <2>3. CASE daemon # "up"
    <3>1. pc' = [pc EXCEPT ![u] = "leave"] /\ input' = [input EXCEPT ![u] = NoInput]
      BY <1>6, <2>3 DEF NewProject
    <3> QED BY <3>1, InputStays
  <2> QED BY <2>2, <2>3
<1> QED BY <1>3, <1>4, <1>5, <1>6

\* All other steps of the command.
LEMMA InputLater ==
    ASSUME TypeOK, NEW u \in Users,
           \/ SetXml(u) \/ Upload(u) \/ Build(u) \/ BuildSdk(u) \/ Wait(u) \/ WaitSdk(u)
           \/ Validate(u) \/ List(u) \/ Download(u) \/ Downloaded(u) \/ Delete(u)
           \/ RemoveOutput(u) \/ ShutdownServer(u)
           \/ Control(u) \/ ControlDeleteAll(u) \/ DeleteNext(u)
    PROVE  \E label : /\ label \notin {"serve", "preprocess", "new", "set_xml"}
                      /\ pc' = [pc EXCEPT ![u] = label]
                      /\ input' = input \/ input' = [input EXCEPT ![u] = NoInput]
<1> USE DEF Leave, GoTo, End, KeepInput
<1>1. CASE SetXml(u) \/ Upload(u) \/ Build(u) \/ BuildSdk(u)
  BY <1>1 DEF SetXml, Upload, Build, BuildSdk, Request
<1>2. CASE Wait(u)
  <2>1. PICK l \in {"build_sdk", "validate", "leave"} : pc' = [pc EXCEPT ![u] = l]
    BY <1>2 DEF Wait
  <2> QED BY <1>2, <2>1 DEF Wait
<1>3. CASE WaitSdk(u) \/ Validate(u) \/ List(u)
  BY <1>3 DEF WaitSdk, Validate, List
<1>4. CASE Download(u) \/ Downloaded(u) \/ Delete(u)
  BY <1>4 DEF Download, Downloaded, Delete
<1>5. CASE RemoveOutput(u)
  BY <1>5 DEF RemoveOutput
<1>6. CASE ShutdownServer(u)
  <2>1. pc[u] = "shutdown" /\ UNCHANGED input
    BY <1>6 DEF ShutdownServer
  <2>2. PICK l \in {"idle", "shutdown"} : pc' = [pc EXCEPT ![u] = l]
    BY <1>6, <2>1 DEF ShutdownServer, TypeOK
  <2> QED BY <2>1, <2>2
<1>7. CASE Control(u) \/ ControlDeleteAll(u)
  BY <1>7 DEF Control, ControlDeleteAll, cmdVars
<1>8. CASE DeleteNext(u)
  <2>1. UNCHANGED input
    BY <1>8 DEF DeleteNext
  <2>2. PICK l \in {"idle", "del_all"} : pc' = [pc EXCEPT ![u] = l]
    BY <1>8 DEF DeleteNext
  <2> QED BY <2>1, <2>2
<1> QED BY <1>1, <1>2, <1>3, <1>4, <1>5, <1>6, <1>7, <1>8

LEMMA InputInit == Init => InputInv
  BY DEF Init, InitvmInit, InputInv, InputKept

LEMMA InputNext == IInv /\ InputInv /\ [Next]_vars => InputInv'
<1> SUFFICES ASSUME TypeOK, InputInv, [Next]_vars PROVE InputInv'
  BY DEF IInv
<1> DEFINE Early == {"serve", "preprocess", "new", "set_xml"}
<1>0. VMLabels \intersect Early = {}
  BY DEF VMLabels
<1>1. ASSUME UNCHANGED <<pc, input>> PROVE InputInv'
  BY <1>1 DEF InputInv, InputKept, Rejected
<1>2. ASSUME NEW u \in Users, NEW l \in VMLabels, pc' = [pc EXCEPT ![u] = l], UNCHANGED input
      PROVE  InputInv'
  BY <1>0, <1>2, InputStays
<1>3. ASSUME NEW u \in Users, Command(u) \/ NoLibvirt(u), UNCHANGED submitVars
      PROVE  InputInv'
  <2>1. PICK l \in VMLabels : pc' = [pc EXCEPT ![u] = l]
    BY <1>3, InitvmAssumption DEF Command, NoLibvirt, GoTo, End, VMLabels
  <2> QED BY <1>2, <1>3, <2>1 DEF submitVars, cmdVars
<1>4. ASSUME NEW u \in Users, VMStep(u), UNCHANGED submitVars
      PROVE  InputInv'
  BY <1>2, <1>4, VMStepLabel DEF submitVars, cmdVars
<1>5. ASSUME NEW u \in Users, Destroy(u) \/ Undefine(u) \/ RemoveDirectory(u), Lose
      PROVE  InputInv'
  <2>1. \E l \in VMLabels : pc' = [pc EXCEPT ![u] = l]
    BY <1>5 DEF Destroy, Undefine, RemoveDirectory, GoTo, End, VMLabels
  <2> QED BY <1>2, <1>5, <2>1 DEF Lose, cmdVars
<1>6. ASSUME NEW u \in Users, SubmitStep(u)
      PROVE  InputInv'
  <2>1. CASE RepodirEnter(u) \/ StartServer(u) \/ PreprocessFile(u) \/ NewProject(u)
    BY <2>1, InputSteps
  <2>2. CASE ~(RepodirEnter(u) \/ StartServer(u) \/ PreprocessFile(u) \/ NewProject(u))
    <3>1. PICK label : /\ label \notin Early
                       /\ pc' = [pc EXCEPT ![u] = label]
                       /\ input' = input \/ input' = [input EXCEPT ![u] = NoInput]
      BY <1>6, <2>2, InputLater DEF SubmitStep
    <3> QED BY <3>1, InputStays
  <2> QED BY <2>1, <2>2
<1>7. ASSUME NEW u \in Users,
             InterruptInside(u) \/ InterruptServers(u) \/ InterruptOther(u)
      PROVE  InputInv'
  <2>1. PICK l \in {"leave", "idle", "hang"} : pc' = [pc EXCEPT ![u] = l]
    BY <1>7 DEF InterruptInside, InterruptServers, InterruptOther, Leave, GoTo, End
  <2>2. input' = input \/ input' = [input EXCEPT ![u] = NoInput]
    BY <1>7 DEF InterruptInside, InterruptServers, InterruptOther, Leave
  <2> QED BY <2>1, <2>2, InputStays
<1>8. ASSUME NEW u \in Users, JobEnds(u)
      PROVE  InputInv'
  BY <1>1, <1>8 DEF JobEnds, initvmVars, cmdVars
<1>9. CASE Boot /\ UNCHANGED submitVars
  BY <1>1, <1>9 DEF Boot, submitVars, cmdVars
<1>10. CASE PowerOff /\ Lose
  BY <1>1, <1>10 DEF PowerOff, Lose, cmdVars
<1>11. CASE UNCHANGED vars
  BY <1>1, <1>11 DEF vars, initvmVars, submitVars, cmdVars
<1> QED BY <1>3, <1>4, <1>5, <1>6, <1>7, <1>8, <1>9, <1>10, <1>11 DEF Next, Process

\* What is uploaded is what the file says for the variants asked for, whatever
\* the sections, variants, archives, directories and deprecated elements in it:
\* the steps of finetuning in their order, nothing missing and nothing else, and
\* nothing that the daemon's schema does not accept.
THEOREM AsWantedHolds == Spec => []AsWanted
<1>1. Spec => []InputInv
  BY InputInit, InputNext, InvariantHolds, PTL DEF Spec
<1>2. InputInv => AsWanted
  <2> SUFFICES ASSUME InputInv, NEW u \in Users, pc[u] \in {"new", "set_xml"}
               PROVE  LET i == input[u]
                          out == Output(i)
                      IN  /\ InOrder(i.doc, i.variants, out)
                          /\ Complete(i.doc, i.variants, out)
                          /\ UpToDate(out)
    BY DEF AsWanted
  <2>1. input[u] \in Inputs /\ ~PreprocessFails(input[u].doc, input[u].variants)
    BY DEF InputInv, InputKept, Rejected
  <2>2. input[u].doc \in Document /\ ArchivesApart(input[u].doc, input[u].variants)
    BY <2>1, InputsAssumption
  <2> QED BY <2>1, <2>2, PreprocessCorrect DEF Output
<1> QED BY <1>1, <1>2, PTL
=============================================================================
