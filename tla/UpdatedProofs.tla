--------------------------- MODULE UpdatedProofs ---------------------------
(***************************************************************************)
(* Theorems about Updated, for any number of packages and versions and for *)
(* every set of events.                                                    *)
(***************************************************************************)
EXTENDS Updated, FiniteSetTheorems, TLAPS

Names == Files \X {"gpg", "plain"}
PackageType == [signed : Signatures, kind : Kinds, ver : Nat \ {0}]

\* What may be dropped, plugged in or requested.
LEMMA PackagesType ==
    /\ AllPackages \subseteq PackageType
    /\ None \notin AllPackages
    /\ Versions \subseteq Nat \ {0}
<1>1. AllPackages \subseteq PackageType /\ None \notin AllPackages
  BY PackagesAssumption DEF AllPackages, PackageType
<1>2. Versions \subseteq Nat \ {0}
  BY <1>1, BaseAssumption DEF Versions, PackageType
<1> QED BY <1>1, <1>2

-----------------------------------------------------------------------------
(* Sequences of names.                                                     *)

Known(s, p) == \A i \in DOMAIN s : p[s[i][1]] \in AllPackages

\* The file a monitor handles is a package, and so are those left for later.
LEMMA HeadKnown ==
    ASSUME NEW s \in Seq(Names), s # <<>>, NEW p, Known(s, p)
    PROVE  /\ Head(s) \in Names
           /\ p[Head(s)[1]] \in AllPackages
           /\ Tail(s) \in Seq(Names)
           /\ Known(Tail(s), p)
<1>1. Head(s) = s[1] /\ 1 \in DOMAIN s /\ s[1] \in Names
  OBVIOUS
<1>2. p[Head(s)[1]] \in AllPackages
  BY <1>1 DEF Known
<1>3. Tail(s) \in Seq(Names)
  OBVIOUS
<1>4. \A i \in DOMAIN Tail(s) : i + 1 \in DOMAIN s /\ Tail(s)[i] = s[i + 1]
  OBVIOUS
<1>5. Known(Tail(s), p)
  BY <1>4 DEF Known
<1> QED BY <1>1, <1>2, <1>3, <1>5

\* A package may be appended.
LEMMA AppendKnown ==
    ASSUME NEW s \in Seq(Names), NEW n \in Names, NEW p, Known(s, p),
           p[n[1]] \in AllPackages
    PROVE  /\ Append(s, n) \in Seq(Names)
           /\ Known(Append(s, n), p)
           /\ Append(s, n) # <<>>
<1>1. \A i \in DOMAIN Append(s, n) :
        Append(s, n)[i] = n \/ (i \in DOMAIN s /\ Append(s, n)[i] = s[i])
  OBVIOUS
<1>2. Known(Append(s, n), p)
  BY <1>1 DEF Known
<1>3. Append(s, n) # <<>>
  <2>1. Len(Append(s, n)) = Len(s) + 1 /\ Len(s) \in Nat /\ Len(<<>>) = 0
    OBVIOUS
  <2> QED BY <2>1
<1> QED BY <1>2, <1>3

LEMMA NoneKnown == \A p : Known(<<>>, p)
BY DEF Known

-----------------------------------------------------------------------------
(* Type correctness.                                                       *)

TInv == TypeOK /\ TodoKnown /\ Prepared

LEMMA TypeInit == Init => TInv
<1> SUFFICES ASSUME Init PROVE TInv
  OBVIOUS
<1> USE DEF Init, Booted, Results, Actors, Monitors
<1>1. <<>> \in Seq(Names) /\ DOMAIN <<>> = {}
  OBVIOUS
<1>2. TypeOK
  BY <1>1, BaseAssumption, OrigAssumption DEF TypeOK, Places, Names
<1>3. TodoKnown
  BY <1>1 DEF TodoKnown, Places, Locked, Applying
<1>4. Prepared
  BY DEF Prepared, Places, Locked, Applying, Ended
<1> QED BY <1>2, <1>3, <1>4 DEF TInv

\* What a monitor handles, and what is left for later.
LEMMA CurrentKnown ==
    ASSUME TInv, NEW m \in Monitors, todo[m] # <<>>
    PROVE  /\ Current(m) \in Names /\ Plain(m) \in Names
           /\ Package(m) \in PackageType
           /\ pkg[Plain(m)[1]] \in AllPackages
           /\ Rest(m) \in Seq(Names) /\ Known(Rest(m), pkg)
<1>1. todo[m] \in Seq(Names) /\ Known(todo[m], pkg)
  BY DEF TInv, TypeOK, TodoKnown, Known, Names
<1>2. /\ Current(m) \in Names /\ pkg[Current(m)[1]] \in AllPackages
      /\ Tail(todo[m]) \in Seq(Names) /\ Known(Tail(todo[m]), pkg)
  BY <1>1, HeadKnown DEF Current
<1>3. Plain(m) \in Names /\ Plain(m)[1] = Current(m)[1]
  BY <1>2 DEF Plain, Names
<1>4. <<>> \in Seq(Names)
  OBVIOUS
<1> QED BY <1>2, <1>3, <1>4, PackagesType, NoneKnown DEF Rest, Package

\* A step that only moves a thread.
LEMMA TodoSame ==
    ASSUME TInv, NEW a \in Actors, NEW place, Goto(a, place),
           pkg' = pkg, todo' = todo,
           a \in Monitors /\ place \in Locked \cup {"lock"} => todo[a] # <<>>,
           a = "soap" => place \in Applying \cup {"idle"}
    PROVE  TodoKnown'
<1>1. \A b \in Actors : pc'[b] = IF b = a THEN place ELSE pc[b]
  BY DEF TInv, TypeOK, Goto
<1> QED BY <1>1 DEF TInv, TodoKnown, Actors, Monitors

\* A step with which a monitor is through with a file.
LEMMA TodoRest ==
    ASSUME TInv, NEW m \in Monitors, todo[m] # <<>>, Goto(m, "idle"),
           pkg' = pkg, todo' = [todo EXCEPT ![m] = Rest(m)]
    PROVE  TodoKnown' /\ todo' \in [Monitors -> Seq(Names)]
<1>1. Rest(m) \in Seq(Names) /\ Known(Rest(m), pkg)
  BY CurrentKnown
<1>2. \A b \in Actors : pc'[b] = IF b = m THEN "idle" ELSE pc[b]
  BY DEF TInv, TypeOK, Goto
<1>3. todo' \in [Monitors -> Seq(Names)]
      /\ \A b \in Monitors : todo'[b] = IF b = m THEN Rest(m) ELSE todo[b]
  BY <1>1 DEF TInv, TypeOK, Names
<1>4. \A b \in Monitors : Known(todo'[b], pkg')
  BY <1>1, <1>3 DEF TInv, TodoKnown, Known
<1>5. TodoKnown'
  BY <1>2, <1>3, <1>4
  DEF TInv, TodoKnown, Known, Actors, Monitors, Locked, Applying, Places
<1> QED BY <1>3, <1>5

LEMMA DropType ==
    ASSUME TInv, NEW f \in Files, NEW q \in Packages[f], Drop(f, q)
    PROVE  TInv'
<1> USE DEF TInv, Actors, Monitors
<1>1. q \in AllPackages
  BY DEF AllPackages
<1>2. Ext(q) \in {"gpg", "plain"}
  BY DEF Ext
<1> DEFINE n == <<f, Ext(q)>>
<1>3. n \in Names /\ n[1] = f
  BY <1>2 DEF Names
<1>4. pkg' \in [Files -> AllPackages \cup {None}] /\ pkg'[f] = q
      /\ \A g \in Files : pkg[g] \in AllPackages => pkg'[g] \in AllPackages
  BY <1>1 DEF Drop, TypeOK
<1>5. \A m \in Monitors : todo[m] \in Seq(Names) /\ Known(todo[m], pkg)
  BY DEF TypeOK, TodoKnown, Known, Names
<1>6. ASSUME NEW m \in Monitors PROVE Known(todo[m], pkg')
  <2> SUFFICES ASSUME NEW i \in DOMAIN todo[m] PROVE pkg'[todo[m][i][1]] \in AllPackages
    BY DEF Known
  <2>1. todo[m][i] \in Names /\ pkg[todo[m][i][1]] \in AllPackages
    BY <1>5 DEF Known
  <2>2. todo[m][i][1] \in Files
    BY <2>1 DEF Names
  <2> QED BY <1>4, <2>1, <2>2
<1>7. /\ Append(todo["dir"], n) \in Seq(Names)
      /\ Known(Append(todo["dir"], n), pkg')
      /\ Append(todo["dir"], n) # <<>>
  BY <1>1, <1>3, <1>4, <1>5, <1>6, AppendKnown
<1>8. todo' = [todo EXCEPT !["dir"] = Append(todo["dir"], n)]
  BY DEF Drop
<1>9. TypeOK'
  BY <1>3, <1>4, <1>5, <1>7, <1>8 DEF Drop, TypeOK, Names, mountVars, mainVars
<1>10. TodoKnown'
  <2>1. todo'["dir"] # <<>> /\ todo'["usb"] = todo["usb"] /\ pc' = pc
        /\ todo'["dir"] = Append(todo["dir"], n)
    BY <1>7, <1>8 DEF Drop, TypeOK
  <2>2. \A m \in Monitors : Known(todo'[m], pkg')
    BY <2>1, <1>6, <1>7
  <2> QED BY <2>1, <2>2 DEF TodoKnown, Known
<1>11. Prepared'
  BY DEF Drop, Prepared
<1> QED BY <1>9, <1>10, <1>11

LEMMA PlugInType ==
    ASSUME TInv, NEW fs \in SUBSET Files, NEW ps \in Contents(fs), PlugIn(ps)
    PROVE  TInv'
<1> USE DEF TInv, Actors, Monitors
<1>1. DOMAIN ps = fs /\ \A f \in fs : ps[f] \in AllPackages
  BY DEF Contents
<1>2. Cardinality(DOMAIN ps) \in Nat
  BY <1>1, FilesAssumption, FS_Subset, FS_CardinalityType
<1>3. PICK order \in [1 .. Cardinality(DOMAIN ps) -> DOMAIN ps] :
        todo' = [todo EXCEPT !["usb"] =
                   [i \in DOMAIN order |-> <<order[i], Ext(ps[order[i]])>>]]
  BY DEF PlugIn
<1> DEFINE list == [i \in DOMAIN order |-> <<order[i], Ext(ps[order[i]])>>]
<1>4. \A i \in DOMAIN order : order[i] \in fs /\ list[i] \in Names /\ list[i][1] = order[i]
  BY <1>1 DEF Names, Ext
<1>5. pkg' = [f \in Files |-> IF f \in DOMAIN ps THEN ps[f] ELSE pkg[f]]
  BY DEF PlugIn
<1>6. pkg' \in [Files -> AllPackages \cup {None}]
      /\ \A f \in Files : pkg[f] \in AllPackages => pkg'[f] \in AllPackages
  BY <1>1, <1>5 DEF TypeOK
<1>7. \A f \in fs : pkg'[f] \in AllPackages
  BY <1>1, <1>5
<1>8. list \in [1 .. Cardinality(DOMAIN ps) -> Names]
  BY <1>4
<1>9. list \in Seq(Names)
  <2> HIDE DEF list
  <2> QED BY <1>2, <1>8
<1>10. Known(list, pkg')
  BY <1>4, <1>7 DEF Known
<1>11. \A m \in Monitors : todo[m] \in Seq(Names) /\ Known(todo[m], pkg)
  BY DEF TypeOK, TodoKnown, Known, Names
<1>12. todo'["dir"] = todo["dir"] /\ todo'["usb"] = list /\ todo["usb"] = <<>>
       /\ todo' \in [Monitors -> Seq(Names)]
  <2> HIDE DEF list
  <2>1. todo' = [todo EXCEPT !["usb"] = list]
    BY <1>3 DEF list
  <2> QED BY <2>1, <1>9 DEF PlugIn, TypeOK, Names
<1>13. Known(todo["dir"], pkg')
  BY <1>6, <1>11 DEF Known, Names
<1> HIDE DEF list
<1>14. TypeOK'
  BY <1>6, <1>12 DEF PlugIn, TypeOK, Names, mountVars, mainVars
<1>15. pc' = pc
  BY DEF PlugIn
<1>16. \A m \in Monitors : Known(todo'[m], pkg')
  BY <1>10, <1>12, <1>13
<1>17. TodoKnown'
  BY <1>12, <1>15, <1>16 DEF TodoKnown, Known
<1>18. Prepared'
  BY DEF PlugIn, Prepared
<1> QED BY <1>14, <1>17, <1>18

\* Booting forgets what the daemon was told.
LEMMA CrashType ==
    ASSUME TInv, Crash
    PROVE  TInv'
<1> USE DEF TInv, Actors, Monitors, Crash, Booted, Results
<1>1. <<>> \in Seq(Names) /\ DOMAIN <<>> = {}
  OBVIOUS
<1>2. seen' \subseteq EventKinds
  BY EventsAssumption DEF TypeOK
<1>3. TypeOK'
  BY <1>1, <1>2, OrigAssumption DEF TypeOK, Places, Names, diskVars
<1>4. TodoKnown'
  BY <1>1 DEF TodoKnown, Locked, Applying, Places
<1>5. Prepared'
  BY DEF Prepared, Applying, Locked, Places, Ended
<1> QED BY <1>3, <1>4, <1>5

-----------------------------------------------------------------------------
(* The steps of a thread.                                                  *)

\* Remounting leaves the root file system mounted one way or the other.
LEMMA MountType ==
    ASSUME TInv, NEW a \in Actors, RemountRw(a) \/ Restore(a)
    PROVE  root' \in {"ro", "rw"} /\ saved' \in [Actors -> {"ro", "rw", "unknown"}]
<1>1. CASE RemountRw(a)
  BY <1>1 DEF RemountRw, TInv, TypeOK
<1>2. CASE Restore(a)
  BY <1>2 DEF Restore, Forget, TInv, TypeOK
<1> QED BY <1>1, <1>2

LEMMA EventType ==
    ASSUME TInv, NEW e, Happens(e)
    PROVE  seen' \subseteq EventKinds
BY EventsAssumption DEF Happens, TInv, TypeOK

\* How a thread leaves keeps the types of what it leaves.
LEMMA LeaveType ==
    ASSUME TInv, NEW a \in Actors, Leave(a) \/ Die(a)
    PROVE  /\ pc' \in [Actors -> Places]
           /\ lock' \in Monitors \cup {"none"}
           /\ target' \in [Actors -> Nat]
           /\ result' \in [Actors -> {"none", "ready", "OK", "error"}]
           /\ Prepared'
<1>1. pc' = [pc EXCEPT ![a] = "idle"] \/ pc' = [pc EXCEPT ![a] = "dead"]
  BY DEF Leave, Die, Goto
<1>2. /\ lock' \in {lock, "none"}
      /\ target' = [target EXCEPT ![a] = 0]
      /\ result' = [result EXCEPT ![a] = "none"]
  BY DEF Leave, Die
<1>3. /\ pc' \in [Actors -> Places]
      /\ lock' \in Monitors \cup {"none"}
      /\ target' \in [Actors -> Nat]
      /\ result' \in [Actors -> {"none", "ready", "OK", "error"}]
  BY <1>1, <1>2 DEF TInv, TypeOK, Places
<1>4. \A b \in Actors \ {a} : pc'[b] = pc[b] /\ target'[b] = target[b] /\ result'[b] = result[b]
  BY <1>1, <1>2 DEF TInv, TypeOK
<1>5. pc'[a] \in {"idle", "dead"}
  BY <1>1 DEF TInv, TypeOK
<1>6. Prepared'
  BY <1>4, <1>5 DEF TInv, Prepared, Applying, Locked, Ended
<1> QED BY <1>3, <1>6

\* A thread that goes elsewhere.
LEMMA GotoType ==
    ASSUME TInv, NEW a \in Actors, NEW place \in Places, Goto(a, place)
    PROVE  /\ pc' \in [Actors -> Places]
           /\ pc'[a] = place
           /\ \A b \in Actors \ {a} : pc'[b] = pc[b]
BY DEF TInv, TypeOK, Goto

\* A thread that leaves without having handled its file.
LEMMA DieTodo ==
    ASSUME TInv, NEW a \in Actors, Die(a), pkg' = pkg, todo' = todo
    PROVE  TodoKnown'
<1>1. PICK place \in {"idle", "dead"} :
        Goto(a, place) /\ (a = "soap" => place = "idle")
  BY DEF Die
<1>2. place \notin Locked \cup {"lock"}
  BY DEF Locked, Places
<1> QED BY <1>1, <1>2, TodoSame, Zenon

\* A file that was handled is removed from the directory.
LEMMA RemovedType ==
    ASSUME TInv, NEW m \in Monitors
    PROVE  Removed(m) \subseteq Names
BY DEF TInv, TypeOK, Removed, Names

LEMMA SkipType ==
    ASSUME TInv, Skip
    PROVE  TInv'
<1>1. "usb" \in Monitors /\ todo["usb"] # <<>> /\ pc["usb"] = "idle"
  BY DEF Skip, Monitors
<1>2. pkg' = pkg /\ pc' = pc /\ todo' = [todo EXCEPT !["usb"] = Rest("usb")]
  BY DEF Skip, diskVars
<1>3. Goto("usb", "idle")
  BY <1>1, <1>2 DEF Goto, TInv, TypeOK, Actors
<1>4. TodoKnown' /\ todo' \in [Monitors -> Seq(Names)]
  BY <1>1, <1>2, <1>3, TodoRest
<1>5. TypeOK'
  BY <1>4 DEF Skip, TInv, TypeOK, Names, diskVars, mountVars, mainVars
<1>6. Prepared'
  BY DEF Skip, TInv, Prepared
<1> QED BY <1>4, <1>5, <1>6 DEF TInv

LEMMA TakeType ==
    ASSUME TInv, NEW m \in Monitors, Take(m)
    PROVE  TInv'
<1>1. m \in Actors /\ m # "soap" /\ "lock" \in Places
  BY DEF Actors, Monitors, Places
<1>2. Goto(m, "lock") /\ todo[m] # <<>> /\ pkg' = pkg /\ todo' = todo
  BY DEF Take, diskVars
<1>3. TodoKnown'
  BY <1>1, <1>2, TodoSame
<1>4. /\ pc' \in [Actors -> Places] /\ pc'[m] = "lock"
      /\ \A b \in Actors \ {m} : pc'[b] = pc[b]
  BY <1>1, <1>2, GotoType
<1>5. TypeOK'
  BY <1>4 DEF Take, TInv, TypeOK, diskVars, mountVars, mainVars
<1>6. Prepared'
  BY <1>4 DEF Take, TInv, Prepared, Applying, Locked, Ended
<1> QED BY <1>3, <1>5, <1>6 DEF TInv

LEMMA AcquireType ==
    ASSUME TInv, NEW m \in Monitors, Acquire(m)
    PROVE  TInv'
<1>1. m \in Actors /\ m # "soap" /\ "select" \in Places /\ pkg' = pkg
      /\ pc[m] = "lock"
  BY DEF Acquire, Actors, Monitors, Places
<1>2. todo[m] # <<>>
  BY <1>1 DEF TInv, TodoKnown, Locked
<1>3. /\ Current(m) \in Names /\ Plain(m) \in Names
      /\ pkg[Plain(m)[1]] \in AllPackages
  BY <1>2, CurrentKnown
<1>4. \A x : /\ dir \ {x} \subseteq Names
             /\ (dir \ {x}) \cup {Plain(m)} \subseteq Names
  BY <1>3 DEF TInv, TypeOK, Names
<1>5. SUFFICES ASSUME /\ pc' \in [Actors -> Places]
                      /\ lock' \in Monitors \cup {"none"}
                      /\ target' \in [Actors -> Nat]
                      /\ result' \in [Actors -> {"none", "ready", "OK", "error"}]
                      /\ dir' \subseteq Names
                      /\ todo' \in [Monitors -> Seq(Names)]
                      => TypeOK'
               PROVE  TInv'
  BY DEF Acquire, TInv, TypeOK, Names, mountVars, mainVars
<1>6. CASE Unsign(m) /\ Package(m).signed = "good"
  <2>1. /\ Goto(m, "select") /\ lock' = m
        /\ target' = target /\ result' = result
        /\ dir' \subseteq Names
        /\ \/ todo' = todo
           \/ todo' = [todo EXCEPT ![m] = Append(todo[m], Plain(m))]
    BY <1>4, <1>6 DEF Unsign, TInv, TypeOK, Names
  <2>2. /\ pc' \in [Actors -> Places] /\ pc'[m] = "select"
        /\ \A b \in Actors \ {m} : pc'[b] = pc[b]
    BY <1>1, <2>1, GotoType
  <2>3. /\ todo[m] \in Seq(Names) /\ Known(todo[m], pkg)
    BY DEF TInv, TypeOK, TodoKnown, Names, Known
  <2>4. /\ Append(todo[m], Plain(m)) \in Seq(Names)
        /\ Known(Append(todo[m], Plain(m)), pkg)
        /\ Append(todo[m], Plain(m)) # <<>>
    BY <1>3, <2>3, AppendKnown
  <2>5. /\ todo' \in [Monitors -> Seq(Names)]
        /\ todo'[m] # <<>> /\ Known(todo'[m], pkg)
        /\ \A b \in Monitors \ {m} : todo'[b] = todo[b]
    BY <1>2, <2>1, <2>3, <2>4 DEF TInv, TypeOK, Names
  <2>6. \A b \in Monitors : Known(todo'[b], pkg')
    BY <1>1, <2>5 DEF TInv, TodoKnown, Known
  <2>7. TodoKnown'
    BY <1>1, <2>2, <2>5, <2>6 DEF TInv, TodoKnown, Known, Actors, Monitors
  <2>8. TypeOK'
    BY <1>5, <2>1, <2>2, <2>5 DEF TInv, TypeOK
  <2>9. Prepared'
    BY <2>1, <2>2 DEF TInv, Prepared, Applying, Locked, Ended
  <2> QED BY <2>7, <2>8, <2>9 DEF TInv
<1>7. CASE Accept(m)
  <2>1. /\ Goto(m, "select") /\ lock' = m
        /\ target' = target /\ result' = result /\ dir' = dir /\ todo' = todo
    BY <1>7 DEF Accept
  <2>2. /\ pc' \in [Actors -> Places] /\ pc'[m] = "select"
        /\ \A b \in Actors \ {m} : pc'[b] = pc[b]
    BY <1>1, <2>1, GotoType
  <2>3. TodoKnown'
    BY <1>1, <1>2, <2>1, TodoSame
  <2>4. TypeOK'
    BY <1>5, <2>1, <2>2 DEF TInv, TypeOK, Names
  <2>5. Prepared'
    BY <2>1, <2>2 DEF TInv, Prepared, Applying, Locked, Ended
  <2> QED BY <2>3, <2>4, <2>5 DEF TInv
<1>8. CASE /\ Leave(m) /\ dir' \subseteq Names
           /\ todo' = [todo EXCEPT ![m] = Rest(m)]
  <2>1. TodoKnown' /\ todo' \in [Monitors -> Seq(Names)]
    BY <1>1, <1>2, <1>8, TodoRest DEF Leave
  <2>2. TypeOK' /\ Prepared'
    BY <1>1, <1>5, <1>8, <2>1, LeaveType
  <2> QED BY <2>1, <2>2 DEF TInv
<1>9. CASE Die(m) /\ dir' = dir /\ todo' = todo
  <2>1. TodoKnown'
    BY <1>1, <1>9, DieTodo
  <2>2. dir' \subseteq Names /\ todo' \in [Monitors -> Seq(Names)]
    BY <1>9 DEF TInv, TypeOK, Names
  <2>3. TypeOK' /\ Prepared'
    BY <1>1, <1>5, <1>9, <2>2, LeaveType
  <2> QED BY <2>1, <2>3 DEF TInv
<1>10. Unsign(m) \/ Accept(m) \/ Ignore(m)
  BY DEF Acquire
<1>11. dir \subseteq Names
  BY DEF TInv, TypeOK, Names
<1>12. CASE Ignore(m)
  BY <1>8, <1>11, <1>12 DEF Ignore
<1>13. CASE Unsign(m) /\ Package(m).signed = "bad"
  BY <1>4, <1>8, <1>11, <1>13 DEF Unsign
<1>14. CASE Unsign(m) /\ Package(m).signed \notin {"good", "bad"}
  BY <1>9, <1>14 DEF Unsign
<1> QED BY <1>6, <1>7, <1>10, <1>12, <1>13, <1>14

\* The ways in which handling a file can end or go on, for the lemmas below.
Handled(m) ==
    Leave(m) /\ dir' = Removed(m) /\ todo' = [todo EXCEPT ![m] = Rest(m)]
Killed(m) == Die(m) /\ UNCHANGED <<dir, todo>>

LEMMA HandledType ==
    ASSUME TInv, NEW m \in Monitors, todo[m] # <<>>, pkg' = pkg,
           Handled(m) \/ Killed(m)
    PROVE  /\ pc' \in [Actors -> Places]
           /\ lock' \in Monitors \cup {"none"}
           /\ target' \in [Actors -> Nat]
           /\ result' \in [Actors -> {"none", "ready", "OK", "error"}]
           /\ dir' \subseteq Names
           /\ todo' \in [Monitors -> Seq(Names)]
           /\ TodoKnown' /\ Prepared'
<1>1. m \in Actors
  BY DEF Actors
<1>2. CASE Handled(m)
  BY <1>1, <1>2, LeaveType, TodoRest, RemovedType DEF Handled, Leave
<1>3. CASE Killed(m)
  <2>1. Die(m) /\ dir' = dir /\ todo' = todo
    BY <1>3 DEF Killed
  <2>2. dir' \subseteq Names /\ todo' \in [Monitors -> Seq(Names)]
    BY <2>1 DEF TInv, TypeOK, Names
  <2> QED BY <1>1, <2>1, <2>2, LeaveType, DieTodo
<1> QED BY <1>2, <1>3

\* A monitor past the lock has a file.
LEMMA LockedTodo ==
    ASSUME TInv, NEW m \in Monitors, pc[m] \in Locked
    PROVE  m \in Actors /\ m # "soap" /\ todo[m] # <<>>
BY DEF TInv, TodoKnown, Actors, Monitors

LEMMA SelectType ==
    ASSUME TInv, NEW m \in Monitors, Select(m)
    PROVE  TInv'
<1>1. m \in Actors /\ m # "soap" /\ todo[m] # <<>>
  BY LockedTodo DEF Select, Locked, Places
<1>2. pkg' = pkg
  BY DEF Select
<1>5. seen' \subseteq EventKinds
  BY DEF Select, Early, EventKinds, TInv, TypeOK
<1>3. CASE Handled(m) \/ Killed(m)
  <2>1. /\ pc' \in [Actors -> Places]
        /\ lock' \in Monitors \cup {"none"}
        /\ target' \in [Actors -> Nat]
        /\ result' \in [Actors -> {"none", "ready", "OK", "error"}]
        /\ dir' \subseteq Names
        /\ todo' \in [Monitors -> Seq(Names)]
        /\ TodoKnown' /\ Prepared'
    BY <1>1, <1>2, <1>3, HandledType
  <2>2. TypeOK'
    BY <1>5, <2>1 DEF Select, TInv, TypeOK, Names, mountVars, mainVars
  <2> QED BY <2>1, <2>2 DEF TInv
<1>4. CASE /\ Goto(m, "prepare")
           /\ target' = [target EXCEPT ![m] = Package(m).ver]
           /\ UNCHANGED <<dir, todo, result, lock>>
  <2>1. "prepare" \in Places /\ "prepare" \in Locked /\ "prepare" \notin Ended
    BY DEF Places, Locked, Ended
  <2>2. /\ pc' \in [Actors -> Places] /\ pc'[m] = "prepare"
        /\ \A b \in Actors \ {m} : pc'[b] = pc[b]
    BY <1>1, <1>4, <2>1, GotoType
  <2>3. TodoKnown'
    BY <1>1, <1>2, <1>4, <2>1, TodoSame
  <2>4. Package(m).ver \in Nat \ {0}
    BY <1>1, CurrentKnown DEF PackageType
  <2>5. TypeOK'
    BY <1>4, <2>2, <2>4, <1>5 DEF Select, TInv, TypeOK, mountVars, mainVars
  <2>6. Prepared'
    BY <1>1, <1>4, <2>1, <2>2, <2>4 DEF TInv, TypeOK, Prepared
  <2> QED BY <2>3, <2>5, <2>6 DEF TInv
<1> QED BY <1>3, <1>4 DEF Select, Handled, Killed

LEMMA PrepareBeginType ==
    ASSUME TInv, NEW m \in Monitors, PrepareBegin(m)
    PROVE  TInv'
<1>1. m \in Actors /\ m # "soap" /\ todo[m] # <<>>
  BY LockedTodo DEF PrepareBegin, Locked, Places
<1>2. Goto(m, "extract") /\ RemountRw(m) /\ pkg' = pkg /\ todo' = todo
  BY DEF PrepareBegin, diskVars
<1>3. "extract" \in Places
  BY DEF Places
<1>4. /\ pc' \in [Actors -> Places] /\ pc'[m] = "extract"
      /\ \A b \in Actors \ {m} : pc'[b] = pc[b]
  BY <1>1, <1>2, <1>3, GotoType
<1>5. TodoKnown'
  BY <1>1, <1>2, TodoSame
<1>6. root' \in {"ro", "rw"} /\ saved' \in [Actors -> {"ro", "rw", "unknown"}]
  BY <1>1, <1>2, MountType
<1>7. TypeOK'
  BY <1>4, <1>6 DEF PrepareBegin, TInv, TypeOK, diskVars, mainVars
<1>8. Prepared'
  BY <1>4 DEF PrepareBegin, TInv, Prepared, Applying, Locked, Places, Ended
<1> QED BY <1>5, <1>7, <1>8 DEF TInv

LEMMA ExtractFailsType ==
    ASSUME TInv, NEW m \in Monitors, ExtractFails(m)
    PROVE  TInv'
<1>1. /\ m \in Actors /\ m # "soap" /\ todo[m] # <<>>
      /\ pc[m] = "extract"
  BY LockedTodo DEF ExtractFails, Locked, Places
<1>2. Handled(m) /\ pkg' = pkg
  BY DEF ExtractFails, Handled
<1>3. /\ pc' \in [Actors -> Places]
      /\ lock' \in Monitors \cup {"none"}
      /\ target' \in [Actors -> Nat]
      /\ result' \in [Actors -> {"none", "ready", "OK", "error"}]
      /\ dir' \subseteq Names
      /\ todo' \in [Monitors -> Seq(Names)]
      /\ TodoKnown' /\ Prepared'
  BY <1>1, <1>2, HandledType
<1>4. root' \in {"ro", "rw"} /\ saved' \in [Actors -> {"ro", "rw", "unknown"}]
  BY <1>1, MountType DEF ExtractFails
<1>5. seen' \subseteq EventKinds
  BY EventType DEF ExtractFails, TInv, TypeOK
<1>6. target[m] \in Nat \ {0}
  BY <1>1 DEF TInv, TypeOK, Prepared, Applying, Locked, Places, Ended
<1>7. repos' \subseteq Nat \ {0}
  BY <1>6 DEF ExtractFails, TInv, TypeOK
<1>8. TypeOK'
  BY <1>3, <1>4, <1>5, <1>7 DEF ExtractFails, TInv, TypeOK, Names, mainVars
<1> QED BY <1>3, <1>8 DEF TInv

LEMMA ExtractType ==
    ASSUME TInv, NEW m \in Monitors, Extract(m)
    PROVE  TInv'
<1>1. /\ m \in Actors /\ m # "soap" /\ todo[m] # <<>>
      /\ pc[m] = "extract"
  BY LockedTodo DEF Extract, Locked, Places
<1>2. pkg' = pkg
  BY DEF Extract
<1>3. root' \in {"ro", "rw"} /\ saved' \in [Actors -> {"ro", "rw", "unknown"}]
  BY <1>1, MountType DEF Extract
<1>4. target[m] \in Nat \ {0}
  BY <1>1 DEF TInv, TypeOK, Prepared, Applying, Locked, Places, Ended
<1>5. repos' \subseteq Nat \ {0} /\ scripts' \subseteq {"pre", "post"}
  BY <1>4 DEF Extract, TInv, TypeOK
<1>6. CASE Handled(m) \/ Killed(m)
  <2>1. /\ pc' \in [Actors -> Places]
        /\ lock' \in Monitors \cup {"none"}
        /\ target' \in [Actors -> Nat]
        /\ result' \in [Actors -> {"none", "ready", "OK", "error"}]
        /\ dir' \subseteq Names
        /\ todo' \in [Monitors -> Seq(Names)]
        /\ TodoKnown' /\ Prepared'
    BY <1>1, <1>2, <1>6, HandledType
  <2>2. TypeOK'
    BY <1>3, <1>5, <2>1 DEF Extract, TInv, TypeOK, Names, mainVars
  <2> QED BY <2>1, <2>2 DEF TInv
<1>7. CASE Goto(m, "enter") /\ UNCHANGED <<dir, todo, target, result, lock>>
  <2>1. "enter" \in Places /\ "enter" \in Locked /\ "enter" \notin Ended
    BY DEF Places, Locked, Ended
  <2>2. /\ pc' \in [Actors -> Places] /\ pc'[m] = "enter"
        /\ \A b \in Actors \ {m} : pc'[b] = pc[b]
    BY <1>1, <1>7, <2>1, GotoType
  <2>3. TodoKnown'
    BY <1>1, <1>2, <1>7, <2>1, TodoSame
  <2>4. TypeOK'
    BY <1>3, <1>5, <1>7, <2>2 DEF Extract, TInv, TypeOK, mainVars
  <2>5. Prepared'
    BY <1>4, <1>7, <2>1, <2>2 DEF TInv, TypeOK, Prepared
  <2> QED BY <2>3, <2>4, <2>5 DEF TInv
<1> QED BY <1>6, <1>7 DEF Extract, Handled, Killed

-----------------------------------------------------------------------------
(* The steps of apply_update and set_finished, which a request shares.     *)

\* A thread that goes on, with a result where it needs one.
LEMMA GoOnType ==
    ASSUME TInv, NEW a \in Actors, a \in Monitors => pc[a] \in Applying,
           NEW place \in Applying, Goto(a, place),
           \/ place \in Ended \/ pc[a] \in Applying \ Ended
           \/ target'[a] # 0,
           pkg' = pkg, todo' = todo,
           target' \in [Actors -> Nat], pc[a] \in Applying => target' = target,
           \A b \in Actors \ {a} : target'[b] = target[b],
           NEW how \in {"none", "ready", "OK", "error"},
           result' = [result EXCEPT ![a] = how],
           place \in Ended => how # "none"
    PROVE  /\ pc' \in [Actors -> Places]
           /\ result' \in [Actors -> {"none", "ready", "OK", "error"}]
           /\ TodoKnown' /\ Prepared'
<1>1. Applying \subseteq Places
  BY DEF Applying, Locked
<1>2. /\ pc' \in [Actors -> Places] /\ pc'[a] = place
      /\ \A b \in Actors \ {a} : pc'[b] = pc[b]
  BY <1>1, GotoType
<1>3. /\ result' \in [Actors -> {"none", "ready", "OK", "error"}] /\ result'[a] = how
      /\ \A b \in Actors \ {a} : result'[b] = result[b]
  BY DEF TInv, TypeOK
<1>4. a \in Monitors => todo[a] # <<>>
  BY LockedTodo DEF Applying
<1>5. TodoKnown'
  BY <1>4, TodoSame
<1>6. place \notin Ended => target'[a] # 0
  BY DEF TInv, Prepared
<1>7. Prepared'
  BY <1>2, <1>3, <1>6 DEF TInv, Prepared
<1> QED BY <1>2, <1>3, <1>5, <1>7

\* The same for a step that leaves targets alone.
LEMMA StepType ==
    ASSUME TInv, NEW a \in Actors, pc[a] \in Applying,
           NEW place \in Applying, Goto(a, place),
           place \in Ended \/ pc[a] \notin Ended,
           pkg' = pkg, todo' = todo, target' = target,
           NEW how \in {"none", "ready", "OK", "error"},
           result' = [result EXCEPT ![a] = how],
           place \in Ended => how # "none"
    PROVE  /\ pc' \in [Actors -> Places]
           /\ result' \in [Actors -> {"none", "ready", "OK", "error"}]
           /\ TodoKnown' /\ Prepared'
<1>1. target' \in [Actors -> Nat]
  BY DEF TInv, TypeOK
<1> QED BY <1>1, GoOnType

LEMMA ResultSame ==
    ASSUME TInv, NEW a \in Actors, result' = result
    PROVE  result[a] \in {"none", "ready", "OK", "error"}
           /\ result' = [result EXCEPT ![a] = result[a]]
BY DEF TInv, TypeOK

LEMMA PlacesApplying ==
    /\ \A x \in {"prepare", "extract", "enter", "cache", "commit", "trunc",
                 "write", "exit", "finish", "open", "put"} : x \in Applying
    /\ \A x \in {"idle", "lock", "select", "done", "dead"} : x \notin Applying
    /\ \A x \in {"exit", "finish", "open", "put"} : x \in Ended
    /\ \A x \in {"prepare", "extract", "enter", "cache", "commit", "trunc", "write"} :
         x \notin Ended
BY DEF Applying, Locked, Places, Ended

LEMMA RequestType ==
    ASSUME TInv, NEW v \in Versions, Request(v)
    PROVE  TInv'
<1>1. v \in Nat /\ v # 0
  BY PackagesType
<1>2. /\ "soap" \in Actors /\ "soap" \notin Monitors
      /\ pc["soap"] = "idle" /\ pc["soap"] \notin Applying
  BY PlacesApplying DEF Request, Actors, Monitors
<1>3. /\ Goto("soap", "enter") /\ pkg' = pkg /\ todo' = todo
      /\ target' = [target EXCEPT !["soap"] = v]
  BY DEF Request, diskVars
<1>4. /\ target' \in [Actors -> Nat] /\ target'["soap"] # 0
      /\ \A b \in Actors \ {"soap"} : target'[b] = target[b]
  BY <1>1, <1>2, <1>3 DEF TInv, TypeOK
<1>5. /\ result["soap"] \in {"none", "ready", "OK", "error"}
      /\ result' = [result EXCEPT !["soap"] = result["soap"]]
  BY <1>2, ResultSame DEF Request
<1>6. /\ pc' \in [Actors -> Places]
      /\ result' \in [Actors -> {"none", "ready", "OK", "error"}]
      /\ TodoKnown' /\ Prepared'
  BY <1>2, <1>3, <1>4, <1>5, PlacesApplying, GoOnType
<1>7. seen' \subseteq EventKinds
  BY EventType DEF Request
<1>8. TypeOK'
  BY <1>4, <1>6, <1>7 DEF Request, TInv, TypeOK, diskVars, mountVars, mainVars
<1> QED BY <1>6, <1>8 DEF TInv

\* What a thread looks up is how the root file system is mounted.
LEMMA LookUpType ==
    ASSUME TInv, NEW a \in Actors, LookUp(a)
    PROVE  TInv'
<1>1. TypeOK'
  BY DEF LookUp, TInv, TypeOK, diskVars, mainVars
<1>2. TodoKnown' /\ Prepared'
  BY DEF LookUp, TInv, TodoKnown, Prepared, diskVars
<1> QED BY <1>1, <1>2 DEF TInv

LEMMA ApplyEnterType ==
    ASSUME TInv, NEW a \in Actors, ApplyEnter(a)
    PROVE  TInv'
<1>1. PICK place \in {"exit", "cache"}, how \in {"none", "ready", "OK", "error"} :
        /\ Goto(a, place) /\ result' = [result EXCEPT ![a] = how]
        /\ place = "exit" => how # "none"
  <2>1. CASE Ends(a, "OK") \/ Ends(a, "error")
    BY <2>1 DEF Ends
  <2>2. CASE Goto(a, "cache") /\ result' = result
    BY <2>2, ResultSame
  <2> QED BY <2>1, <2>2 DEF ApplyEnter
<1>2. pc[a] \in Applying \ Ended /\ pkg' = pkg /\ todo' = todo /\ target' = target
  BY PlacesApplying DEF ApplyEnter, diskVars
<1>3. /\ pc' \in [Actors -> Places]
      /\ result' \in [Actors -> {"none", "ready", "OK", "error"}]
      /\ TodoKnown' /\ Prepared'
  BY <1>1, <1>2, PlacesApplying, StepType
<1>4. root' \in {"ro", "rw"} /\ saved' \in [Actors -> {"ro", "rw", "unknown"}]
  BY MountType DEF ApplyEnter
<1>5. TypeOK'
  BY <1>3, <1>4 DEF ApplyEnter, TInv, TypeOK, diskVars, mainVars
<1> QED BY <1>3, <1>5 DEF TInv

LEMMA UpdateCacheType ==
    ASSUME TInv, NEW a \in Actors, UpdateCache(a)
    PROVE  TInv'
<1>1. PICK place \in {"exit", "commit"}, how \in {"none", "ready", "OK", "error"} :
        /\ Goto(a, place) /\ result' = [result EXCEPT ![a] = how]
        /\ place = "exit" => how # "none"
  <2>1. CASE Ends(a, "error")
    BY <2>1 DEF Ends
  <2>2. CASE Goto(a, "commit") /\ result' = result
    BY <2>2, ResultSame
  <2> QED BY <2>1, <2>2 DEF UpdateCache
<1>2. pc[a] \in Applying \ Ended /\ pkg' = pkg /\ todo' = todo /\ target' = target
  BY PlacesApplying DEF UpdateCache, diskVars
<1>3. /\ pc' \in [Actors -> Places]
      /\ result' \in [Actors -> {"none", "ready", "OK", "error"}]
      /\ TodoKnown' /\ Prepared'
  BY <1>1, <1>2, PlacesApplying, StepType
<1>4. TypeOK'
  BY <1>3 DEF UpdateCache, TInv, TypeOK, diskVars, mountVars, mainVars
<1> QED BY <1>3, <1>4 DEF TInv

LEMMA CommitType ==
    ASSUME TInv, NEW a \in Actors, Commit(a)
    PROVE  TInv'
<1>1. PICK place \in {"exit", "trunc"}, how \in {"none", "ready", "OK", "error"} :
        /\ Goto(a, place) /\ result' = [result EXCEPT ![a] = how]
        /\ place = "exit" => how # "none"
  <2>1. CASE Ends(a, "error")
    BY <2>1 DEF Ends
  <2>2. CASE Goto(a, "trunc") /\ result' = result
    BY <2>2, ResultSame
  <2> QED BY <2>1, <2>2 DEF Commit
<1>2. pc[a] \in Applying \ Ended /\ pkg' = pkg /\ todo' = todo /\ target' = target
  BY PlacesApplying DEF Commit
<1>3. /\ pc' \in [Actors -> Places]
      /\ result' \in [Actors -> {"none", "ready", "OK", "error"}]
      /\ TodoKnown' /\ Prepared'
  BY <1>1, <1>2, PlacesApplying, StepType
<1>4. target[a] \in Nat \ {0}
  BY <1>2 DEF TInv, TypeOK, Prepared
<1>5. installed' \in Nat \ {0}
  BY <1>4 DEF Commit, TInv, TypeOK
<1>6. seen' \subseteq EventKinds
  BY EventType DEF Commit, TInv, TypeOK
<1>7. TypeOK'
  BY <1>3, <1>5, <1>6 DEF Commit, TInv, TypeOK, mountVars, mainVars
<1> QED BY <1>3, <1>7 DEF TInv

LEMMA TruncateType ==
    ASSUME TInv, NEW a \in Actors, Truncate(a)
    PROVE  TInv'
<1>1. /\ result[a] \in {"none", "ready", "OK", "error"}
      /\ result' = [result EXCEPT ![a] = result[a]]
  BY ResultSame DEF Truncate
<1>2. /\ pc[a] \in Applying \ Ended /\ pkg' = pkg /\ todo' = todo /\ target' = target
      /\ Goto(a, "write")
  BY PlacesApplying DEF Truncate
<1>3. /\ pc' \in [Actors -> Places]
      /\ result' \in [Actors -> {"none", "ready", "OK", "error"}]
      /\ TodoKnown' /\ Prepared'
  BY <1>1, <1>2, PlacesApplying, StepType
<1>4. TypeOK'
  BY <1>3 DEF Truncate, TInv, TypeOK, mountVars, mainVars
<1> QED BY <1>3, <1>4 DEF TInv

LEMMA WriteVersionType ==
    ASSUME TInv, NEW a \in Actors, WriteVersion(a)
    PROVE  TInv'
<1>1. PICK how \in {"OK", "error"} :
        Goto(a, "exit") /\ result' = [result EXCEPT ![a] = how]
  BY DEF WriteVersion, Ends
<1>2. pc[a] \in Applying \ Ended /\ pkg' = pkg /\ todo' = todo /\ target' = target
  BY PlacesApplying DEF WriteVersion
<1>3. /\ pc' \in [Actors -> Places]
      /\ result' \in [Actors -> {"none", "ready", "OK", "error"}]
      /\ TodoKnown' /\ Prepared'
  BY <1>1, <1>2, PlacesApplying, StepType
<1>4. version' \in Nat
  BY DEF WriteVersion, TInv, TypeOK
<1>5. TypeOK'
  BY <1>3, <1>4 DEF WriteVersion, TInv, TypeOK, mountVars, mainVars
<1> QED BY <1>3, <1>5 DEF TInv

\* Leaving and entering a block, on the way to the status file.
LEMMA BlockType ==
    ASSUME TInv, NEW a \in Actors, ApplyExit(a) \/ FinishEnter(a)
    PROVE  TInv'
<1>1. /\ result[a] # "none" /\ result[a] \in {"none", "ready", "OK", "error"}
      /\ result' = [result EXCEPT ![a] = result[a]]
  BY ResultSame, PlacesApplying DEF ApplyExit, FinishEnter, TInv, Prepared
<1>2. PICK place \in {"finish", "open"} : Goto(a, place)
  BY DEF ApplyExit, FinishEnter
<1>3. pc[a] \in Applying /\ pkg' = pkg /\ todo' = todo /\ target' = target
  BY PlacesApplying DEF ApplyExit, FinishEnter, diskVars
<1>4. /\ pc' \in [Actors -> Places]
      /\ result' \in [Actors -> {"none", "ready", "OK", "error"}]
      /\ TodoKnown' /\ Prepared'
  BY <1>1, <1>2, <1>3, PlacesApplying, StepType
<1>5. root' \in {"ro", "rw"} /\ saved' \in [Actors -> {"ro", "rw", "unknown"}]
  BY MountType DEF ApplyExit, FinishEnter
<1>6. TypeOK'
  BY <1>4, <1>5 DEF ApplyExit, FinishEnter, TInv, TypeOK, diskVars, mainVars
<1> QED BY <1>4, <1>6 DEF TInv

LEMMA OpenStatusType ==
    ASSUME TInv, NEW a \in Actors, OpenStatus(a)
    PROVE  TInv'
<1>1. pkg' = pkg /\ todo' = todo
  BY DEF OpenStatus, diskVars
<1>2. CASE Die(a) /\ file' = file
  <2>1. TodoKnown'
    BY <1>1, <1>2, DieTodo
  <2>2. /\ pc' \in [Actors -> Places]
        /\ lock' \in Monitors \cup {"none"}
        /\ target' \in [Actors -> Nat]
        /\ result' \in [Actors -> {"none", "ready", "OK", "error"}]
        /\ Prepared'
    BY <1>2, LeaveType
  <2>3. TypeOK'
    BY <1>2, <2>2 DEF OpenStatus, Forget, TInv, TypeOK, diskVars
  <2> QED BY <2>1, <2>2, <2>3 DEF TInv
<1>3. CASE /\ Goto(a, "put") /\ file' = "empty"
           /\ UNCHANGED <<target, result, lock, saved, main>>
  <2>1. pc[a] \in Applying /\ result[a] # "none"
    BY PlacesApplying DEF OpenStatus, TInv, Prepared
  <2>2. /\ result[a] \in {"none", "ready", "OK", "error"}
        /\ result' = [result EXCEPT ![a] = result[a]]
    BY <1>3, ResultSame
  <2>3. /\ pc' \in [Actors -> Places]
        /\ result' \in [Actors -> {"none", "ready", "OK", "error"}]
        /\ TodoKnown' /\ Prepared'
    BY <1>1, <1>3, <2>1, <2>2, PlacesApplying, StepType
  <2>4. TypeOK'
    BY <1>3, <2>3 DEF OpenStatus, TInv, TypeOK, diskVars
  <2> QED BY <2>3, <2>4 DEF TInv
<1> QED BY <1>2, <1>3 DEF OpenStatus

LEMMA PutStatusType ==
    ASSUME TInv, NEW a \in Actors, PutStatus(a)
    PROVE  TInv'
<1>1. pkg' = pkg /\ Leave(a) /\ result[a] # "none" /\ pc[a] = "put"
  BY PlacesApplying DEF PutStatus, TInv, Prepared
<1>2. root' \in {"ro", "rw"} /\ saved' \in [Actors -> {"ro", "rw", "unknown"}]
  BY MountType DEF PutStatus
<1>3. SUFFICES /\ pc' \in [Actors -> Places]
               /\ lock' \in Monitors \cup {"none"}
               /\ target' \in [Actors -> Nat]
               /\ result' \in [Actors -> {"none", "ready", "OK", "error"}]
               /\ dir' \subseteq Names
               /\ todo' \in [Monitors -> Seq(Names)]
               /\ TodoKnown' /\ Prepared'
  BY <1>1, <1>2 DEF PutStatus, TInv, TypeOK, Names, mainVars
<1>4. CASE a \in Monitors
  <2>1. Handled(a)
    BY <1>4 DEF PutStatus, Handled, Monitors
  <2>2. todo[a] # <<>>
    BY <1>1, <1>4, LockedTodo DEF Locked, Places
  <2> QED BY <1>1, <1>4, <2>1, <2>2, HandledType
<1>5. CASE a = "soap"
  <2>1. dir' = dir /\ todo' = todo /\ Goto(a, "idle")
    BY <1>5 DEF PutStatus, Leave
  <2>2. TodoKnown'
    BY <1>1, <1>5, <2>1, TodoSame DEF Monitors
  <2>3. dir' \subseteq Names /\ todo' \in [Monitors -> Seq(Names)]
    BY <2>1 DEF TInv, TypeOK, Names
  <2> QED BY <1>1, <2>2, <2>3, LeaveType
<1> QED BY <1>4, <1>5 DEF Actors

-----------------------------------------------------------------------------
(* Every step.                                                             *)

\* The steps of the main thread.
LEMMA MainType ==
    ASSUME TInv, Serve \/ Sigterm \/ Join
    PROVE  TInv'
<1>1. TypeOK'
  BY DEF Serve, Sigterm, Join, TInv, TypeOK, diskVars, mountVars
<1>2. TodoKnown' /\ Prepared'
  BY DEF Serve, Sigterm, Join, TInv, TodoKnown, Prepared, diskVars
<1> QED BY <1>1, <1>2 DEF TInv

LEMMA SigtermEarlyType ==
    ASSUME TInv, SigtermEarly
    PROVE  TInv'
<1>1. /\ "soap" \in Actors /\ Die("soap") /\ pkg' = pkg /\ todo' = todo
  BY DEF SigtermEarly, Actors, diskVars
<1>2. TodoKnown'
  BY <1>1, DieTodo
<1>3. /\ pc' \in [Actors -> Places]
      /\ lock' \in Monitors \cup {"none"}
      /\ target' \in [Actors -> Nat]
      /\ result' \in [Actors -> {"none", "ready", "OK", "error"}]
      /\ Prepared'
  BY <1>1, LeaveType
<1>4. root' \in {"ro", "rw"} /\ saved' \in [Actors -> {"ro", "rw", "unknown"}]
  <2>1. CASE Restore("soap")
    BY <1>1, <2>1, MountType
  <2> QED BY <2>1 DEF SigtermEarly, Forget, TInv, TypeOK
<1>5. seen' \subseteq EventKinds
  BY DEF SigtermEarly, Early, EventKinds, TInv, TypeOK
<1>6. TypeOK'
  BY <1>3, <1>4, <1>5 DEF SigtermEarly, TInv, TypeOK, diskVars
<1> QED BY <1>2, <1>3, <1>6 DEF TInv

LEMMA EndMonitorType ==
    ASSUME TInv, NEW m \in Monitors, EndMonitor(m)
    PROVE  TInv'
<1>1. m \in Actors /\ m # "soap" /\ "done" \in Places
      /\ "done" \notin Locked \cup {"lock"} \cup Applying
  BY DEF Actors, Monitors, Places, Locked, Applying
<1>2. Goto(m, "done") /\ pkg' = pkg /\ todo' = todo
  BY DEF EndMonitor, diskVars
<1>3. TodoKnown'
  BY <1>1, <1>2, TodoSame
<1>4. /\ pc' \in [Actors -> Places] /\ pc'[m] = "done"
      /\ \A b \in Actors \ {m} : pc'[b] = pc[b]
  BY <1>1, <1>2, GotoType
<1>5. TypeOK'
  BY <1>4 DEF EndMonitor, TInv, TypeOK, diskVars, mountVars, mainVars
<1>6. Prepared'
  BY <1>1, <1>4 DEF EndMonitor, TInv, Prepared, Ended
<1> QED BY <1>3, <1>5, <1>6 DEF TInv

LEMMA ApplyType ==
    ASSUME TInv, NEW a \in Actors, Apply(a)
    PROVE  TInv'
BY LookUpType, ApplyEnterType, UpdateCacheType, CommitType, TruncateType, WriteVersionType,
   BlockType, OpenStatusType, PutStatusType DEF Apply

LEMMA TypeStep == TInv /\ [Next]_vars => TInv'
<1> SUFFICES ASSUME TInv, [Next]_vars PROVE TInv'
  OBVIOUS
<1>1. CASE \E f \in Files : \E p \in Packages[f] : Drop(f, p)
  BY <1>1, DropType
<1>2. CASE \E fs \in (SUBSET Files) \ {{}} : \E ps \in Contents(fs) : PlugIn(ps)
  BY <1>2, PlugInType
<1>3. CASE Crash
  BY <1>3, CrashType
<1>4. CASE Skip
  BY <1>4, SkipType
<1>5. ASSUME NEW m \in Monitors, Handle(m) PROVE TInv'
  <2>1. m \in Actors
    BY DEF Actors
  <2>2. CASE Apply(m)
    BY <2>1, <2>2, ApplyType
  <2>3. CASE Take(m) \/ Acquire(m) \/ Select(m)
    BY <2>3, TakeType, AcquireType, SelectType
  <2>4. CASE PrepareBegin(m) \/ ExtractFails(m) \/ Extract(m)
    BY <2>4, PrepareBeginType, ExtractFailsType, ExtractType
  <2>5. CASE EndMonitor(m)
    BY <2>5, EndMonitorType
  <2> QED BY <1>5, <2>2, <2>3, <2>4, <2>5 DEF Handle
<1>6. CASE \E v \in Versions : Request(v)
  BY <1>6, RequestType
<1>7. CASE Apply("soap")
  BY <1>7, ApplyType DEF Actors
<1>8. CASE Serve \/ Sigterm \/ SigtermEarly \/ Join
  BY <1>8, MainType, SigtermEarlyType
<1>9. CASE UNCHANGED vars
  BY <1>9 DEF TInv, TypeOK, TodoKnown, Prepared, vars, diskVars, mountVars, mainVars
<1> QED BY <1>1, <1>2, <1>3, <1>4, <1>5, <1>6, <1>7, <1>8, <1>9 DEF Next

\* The state keeps its shape; in particular no thread ever writes a status that
\* it does not have.
THEOREM TypeCorrect == Spec => []TypeOK
<1>1. TInv => TypeOK
  BY DEF TInv
<1> QED BY <1>1, TypeInit, TypeStep, PTL DEF Spec

-----------------------------------------------------------------------------
(* update_lock.                                                            *)

\* A step in which one thread moves: it keeps the lock, or leaves it behind.
LEMMA LockMove ==
    ASSUME TInv, LockHeld, NEW a \in Actors, NEW place \in Places, Goto(a, place),
           \/ lock' = lock /\ pc[a] \in Locked
           \/ /\ lock' \in {lock, IF lock = a THEN "none" ELSE lock}
              /\ place \notin Locked
    PROVE  LockHeld'
<1>1. pc'[a] = place /\ \A b \in Actors \ {a} : pc'[b] = pc[b]
  BY GotoType
<1>2. Monitors \subseteq Actors
  BY DEF Actors
<1> QED BY <1>1, <1>2 DEF LockHeld

LEMMA LockLeave ==
    ASSUME TInv, LockHeld, NEW a \in Actors, Leave(a) \/ Die(a)
    PROVE  LockHeld'
<1>1. PICK place \in {"idle", "dead"} : Goto(a, place)
  BY DEF Leave, Die
<1>2. place \in Places /\ place \notin Locked
  BY DEF Places, Locked
<1>3. lock' = IF lock = a THEN "none" ELSE lock
  BY DEF Leave, Die
<1> QED BY <1>1, <1>2, <1>3, LockMove

LEMMA LockAcquire ==
    ASSUME TInv, LockHeld, NEW m \in Monitors, Acquire(m)
    PROVE  LockHeld'
<1>1. m \in Actors /\ Monitors \subseteq Actors /\ "select" \in Places
  BY DEF Actors, Places
<1>2. CASE Leave(m) \/ Die(m)
  BY <1>1, <1>2, LockLeave
<1>3. CASE Goto(m, "select") /\ lock' = m
  <2>1. pc'[m] = "select" /\ \A b \in Actors \ {m} : pc'[b] = pc[b]
    BY <1>1, <1>3, GotoType
  <2>2. \A b \in Monitors : pc[b] \notin Locked
    BY DEF Acquire, LockHeld, Monitors
  <2> QED BY <1>1, <1>3, <2>1, <2>2 DEF LockHeld
<1> QED BY <1>2, <1>3 DEF Acquire, Unsign, Accept, Ignore

\* Past the lock and on the way.
LEMMA LockGoOn ==
    ASSUME TInv, LockHeld, NEW a \in Actors,
           \/ a \in Monitors
              /\ (Select(a) \/ PrepareBegin(a) \/ ExtractFails(a) \/ Extract(a))
           \/ Apply(a)
    PROVE  LockHeld'
<1>0. CASE LookUp(a)
  BY <1>0 DEF LookUp, LockHeld
<1>1. CASE Leave(a) \/ Die(a)
  BY <1>1, LockLeave
<1>2. CASE lock' = lock /\ \E place \in Applying : Goto(a, place)
  <2>1. PICK place \in Applying : Goto(a, place)
    BY <1>2
  <2>2. place \in Places
    BY DEF Applying, Locked
  <2>3. pc[a] \in Locked
    BY DEF Select, PrepareBegin, ExtractFails, Extract, Apply, LookUp, ApplyEnter,
           UpdateCache, Commit, Truncate, WriteVersion, ApplyExit, FinishEnter,
           OpenStatus, PutStatus, Locked, Places
  <2> QED BY <1>2, <2>1, <2>2, <2>3, LockMove
<1>3. CASE Apply(a)
  <2>1. CASE ApplyEnter(a) \/ UpdateCache(a) \/ Commit(a)
    BY <1>2, <2>1, PlacesApplying DEF ApplyEnter, UpdateCache, Commit, Ends
  <2>2. CASE Truncate(a) \/ WriteVersion(a) \/ ApplyExit(a) \/ FinishEnter(a)
    BY <1>2, <2>2, PlacesApplying
    DEF Truncate, WriteVersion, ApplyExit, FinishEnter, Ends
  <2>3. CASE OpenStatus(a) \/ PutStatus(a)
    BY <1>1, <1>2, <2>3, PlacesApplying DEF OpenStatus, PutStatus
  <2> QED BY <1>0, <1>3, <2>1, <2>2, <2>3 DEF Apply
<1>4. CASE a \in Monitors /\ (Select(a) \/ PrepareBegin(a))
  BY <1>1, <1>2, <1>4, PlacesApplying DEF Select, PrepareBegin
<1>5. CASE a \in Monitors /\ (ExtractFails(a) \/ Extract(a))
  BY <1>1, <1>2, <1>5, PlacesApplying DEF ExtractFails, Extract
<1> QED BY <1>3, <1>4, <1>5

LEMMA LockStep == TInv /\ LockHeld /\ [Next]_vars => LockHeld'
<1> SUFFICES ASSUME TInv, LockHeld, [Next]_vars PROVE LockHeld'
  OBVIOUS
<1>1. CASE pc' = pc /\ lock' = lock
  BY <1>1 DEF LockHeld
<1>2. ASSUME NEW m \in Monitors, Handle(m) PROVE LockHeld'
  <2>1. m \in Actors
    BY DEF Actors
  <2>2. CASE Take(m)
    <3>1. "lock" \in Places /\ "lock" \notin Locked
      BY DEF Places, Locked
    <3> QED BY <2>1, <2>2, <3>1, LockMove DEF Take
  <2>3. CASE Acquire(m)
    BY <2>3, LockAcquire
  <2>4. CASE EndMonitor(m)
    <3>1. "done" \in Places /\ "done" \notin Locked
      BY DEF Places, Locked
    <3> QED BY <2>1, <2>4, <3>1, LockMove DEF EndMonitor
  <2> QED BY <1>2, <2>1, <2>2, <2>3, <2>4, LockGoOn DEF Handle
<1>3. CASE \E v \in Versions : Request(v)
  <2>1. pc' = [pc EXCEPT !["soap"] = "enter"] /\ lock' = lock
    BY <1>3 DEF Request, Goto
  <2> QED BY <2>1 DEF TInv, TypeOK, LockHeld, Actors, Monitors
<1>4. CASE Apply("soap")
  BY <1>4, LockGoOn DEF Actors
<1>5. CASE Crash
  <2>1. \A m \in Monitors : pc'[m] = "idle"
    BY <1>5 DEF Crash, Booted, Actors, Monitors
  <2> QED BY <2>1 DEF LockHeld, Locked
<1>6. CASE \/ \E f \in Files : \E p \in Packages[f] : Drop(f, p)
           \/ \E fs \in (SUBSET Files) \ {{}} : \E ps \in Contents(fs) : PlugIn(ps)
           \/ Skip \/ Serve \/ Sigterm \/ Join
  BY <1>1, <1>6 DEF Drop, PlugIn, Skip, Serve, Sigterm, Join
<1>7. CASE SigtermEarly
  BY <1>7, LockLeave DEF SigtermEarly, Actors
<1> QED BY <1>1, <1>2, <1>3, <1>4, <1>5, <1>6, <1>7 DEF Next, vars

-----------------------------------------------------------------------------
(* What is installed was extracted.                                        *)

Kept == TargetKept /\ SnapshotKept

\* A step that moves a thread and disturbs no version.
LEMMA KeptMove ==
    ASSUME TInv, Kept, NEW a \in Actors, NEW place \in Places, Goto(a, place),
           \A b \in Actors \ {a} : target'[b] = target[b],
           place \in {"cache", "commit", "trunc", "write"} \cup
                     (IF a = "soap" THEN {} ELSE {"enter"})
             => target'[a] \in repos \cup {Base},
           repos \subseteq repos', installed' = installed,
           version' \in {version, 0}
    PROVE  Kept'
<1>1. pc'[a] = place /\ \A b \in Actors \ {a} : pc'[b] = pc[b]
  BY GotoType
<1>2. TargetKept'
  BY <1>1 DEF Kept, TargetKept, Actors, Monitors
<1>3. SnapshotKept'
  BY DEF Kept, SnapshotKept
<1> QED BY <1>2, <1>3 DEF Kept

LEMMA KeptLeave ==
    ASSUME TInv, Kept, NEW a \in Actors, Leave(a) \/ Die(a),
           repos \subseteq repos', installed' = installed, version' = version
    PROVE  Kept'
<1>1. PICK place \in {"idle", "dead"} : Goto(a, place)
  BY DEF Leave, Die
<1>2. place \in Places
      /\ place \notin {"commit", "trunc", "write", "enter", "cache"}
  BY DEF Places
<1>3. target' = [target EXCEPT ![a] = 0]
  BY DEF Leave, Die
<1>4. \A b \in Actors \ {a} : target'[b] = target[b]
  BY <1>3 DEF TInv, TypeOK
<1> QED BY <1>1, <1>2, <1>4, KeptMove

LEMMA KeptHandle ==
    ASSUME TInv, Kept, NEW m \in Monitors,
           \/ Take(m) \/ Acquire(m) \/ Select(m) \/ PrepareBegin(m)
           \/ ExtractFails(m) \/ Extract(m) \/ EndMonitor(m)
    PROVE  Kept'
<1>1. m \in Actors /\ m # "soap"
  BY DEF Actors, Monitors
<1>2. /\ repos \subseteq repos' /\ installed' = installed /\ version' = version
  BY DEF Take, Acquire, Select, PrepareBegin, ExtractFails, Extract, EndMonitor,
         diskVars
<1>3. CASE Leave(m) \/ Die(m)
  BY <1>1, <1>2, <1>3, KeptLeave
<1>4. CASE /\ \E place \in Places \ {"commit", "trunc", "write", "enter", "cache"} :
                Goto(m, place)
           /\ \A b \in Actors \ {m} : target'[b] = target[b]
  BY <1>1, <1>2, <1>4, KeptMove
<1>5. CASE Take(m) \/ PrepareBegin(m) \/ EndMonitor(m)
  BY <1>4, <1>5 DEF Take, PrepareBegin, EndMonitor, Places
<1>6. CASE Acquire(m)
  BY <1>3, <1>4, <1>6 DEF Acquire, Unsign, Accept, Ignore, Places
<1>7. CASE Select(m)
  <2>1. CASE Goto(m, "prepare") /\ target' = [target EXCEPT ![m] = Package(m).ver]
    BY <1>4, <2>1 DEF TInv, TypeOK, Places
  <2> QED BY <1>3, <1>7, <2>1 DEF Select
<1>8. CASE ExtractFails(m)
  BY <1>3, <1>8 DEF ExtractFails
<1>9. CASE Extract(m)
  <2>1. CASE Goto(m, "enter") /\ target' = target
    <3>1. target'[m] \in repos'
      BY <1>9, <2>1 DEF Extract
    <3>2. pc'[m] = "enter" /\ \A b \in Actors \ {m} : pc'[b] = pc[b]
      BY <1>1, <2>1, GotoType DEF Places
    <3>3. TargetKept'
      BY <1>1, <1>2, <2>1, <3>1, <3>2 DEF Kept, TargetKept, Actors, Monitors
    <3> QED BY <1>2, <3>3 DEF Kept, SnapshotKept
  <2> QED BY <1>3, <1>9, <2>1 DEF Extract
<1> QED BY <1>5, <1>6, <1>7, <1>8, <1>9

LEMMA KeptApply ==
    ASSUME TInv, Kept, NEW a \in Actors, Apply(a)
    PROVE  Kept'
<1>1. repos' = repos
  BY DEF Apply, LookUp, ApplyEnter, UpdateCache, Commit, Truncate, WriteVersion,
         ApplyExit, FinishEnter, OpenStatus, PutStatus, diskVars
<1>2. CASE /\ installed' = installed /\ version' \in {version, 0}
           /\ target' = target
           /\ \E place \in Places :
                /\ Goto(a, place)
                /\ \/ place \notin {"commit", "trunc", "write", "enter", "cache"}
                   \/ target[a] \in repos \cup {Base}
  BY <1>1, <1>2, KeptMove
<1>7. CASE LookUp(a)
  BY <1>7 DEF LookUp, Kept, TargetKept, SnapshotKept, diskVars
<1>3. CASE pc[a] \in {"cache", "commit", "trunc", "write"}
  <2>1. target[a] \in repos \cup {Base}
    BY <1>3 DEF Kept, TargetKept
  <2>2. CASE UpdateCache(a) \/ Truncate(a)
    BY <1>2, <2>1, <2>2 DEF UpdateCache, Truncate, Ends, Places, diskVars
  <2>3. CASE Commit(a) \/ WriteVersion(a)
    <3>1. /\ target' = target /\ installed' \in {installed, target[a]}
          /\ version' \in {version, target[a]}
          /\ \E place \in Places : Goto(a, place)
      BY <2>3 DEF Commit, WriteVersion, Ends, Places
    <3>2. PICK place \in Places : Goto(a, place)
      BY <3>1
    <3>3. \A b \in Actors \ {a} : pc'[b] = pc[b]
      BY <3>2, GotoType
    <3>4. TargetKept'
      BY <1>1, <2>1, <3>1, <3>3 DEF Kept, TargetKept
    <3>5. SnapshotKept'
      BY <1>1, <2>1, <3>1 DEF Kept, SnapshotKept
    <3> QED BY <3>4, <3>5 DEF Kept
  <2> QED BY <1>3, <2>2, <2>3
      DEF Apply, LookUp, ApplyEnter, ApplyExit, FinishEnter, OpenStatus, PutStatus
<1>4. CASE ApplyEnter(a)
  <2>1. a # "soap" => target[a] \in repos \cup {Base}
    BY <1>4 DEF ApplyEnter, Kept, TargetKept, Actors
  <2>2. CASE Ends(a, "OK") \/ Ends(a, "error")
    BY <1>2, <1>4, <2>2 DEF ApplyEnter, Ends, Places, diskVars
  <2>3. CASE ~Unreadable(a) /\ Goto(a, "cache")
    <3>1. target[a] \in repos \cup {Base}
      BY <2>1, <2>3 DEF Unreadable
    <3> QED BY <1>2, <1>4, <2>3, <3>1 DEF ApplyEnter, Places, diskVars
  <2> QED BY <1>4, <2>2, <2>3 DEF ApplyEnter
<1>5. CASE ApplyExit(a) \/ FinishEnter(a)
  BY <1>2, <1>5 DEF ApplyExit, FinishEnter, Places, diskVars
<1>6. CASE OpenStatus(a) \/ PutStatus(a)
  <2>1. CASE Leave(a) \/ Die(a)
    BY <1>1, <1>6, <2>1, KeptLeave DEF OpenStatus, PutStatus, diskVars
  <2>2. CASE Goto(a, "put") /\ target' = target
    BY <1>2, <1>6, <2>2 DEF OpenStatus, PutStatus, Places, diskVars
  <2> QED BY <1>6, <2>1, <2>2 DEF OpenStatus, PutStatus
<1> QED BY <1>3, <1>4, <1>5, <1>6, <1>7
    DEF Apply, UpdateCache, Commit, Truncate, WriteVersion

LEMMA KeptStep == TInv /\ Kept /\ [Next]_vars => Kept'
<1> SUFFICES ASSUME TInv, Kept, [Next]_vars PROVE Kept'
  OBVIOUS
<1>1. CASE UNCHANGED <<pc, target, repos, installed, version>>
  BY <1>1 DEF Kept, TargetKept, SnapshotKept
<1>2. ASSUME NEW m \in Monitors, Handle(m) PROVE Kept'
  BY <1>2, KeptHandle, KeptApply DEF Handle, Actors
<1>3. CASE \E v \in Versions : Request(v)
  <2>1. PICK v \in Versions : Request(v)
    BY <1>3
  <2>2. /\ Goto("soap", "enter") /\ target' = [target EXCEPT !["soap"] = v]
        /\ repos' = repos /\ installed' = installed /\ version' = version
    BY <2>1 DEF Request, diskVars
  <2>3. "soap" \in Actors /\ "enter" \in Places
    BY DEF Actors, Places
  <2>4. \A b \in Actors \ {"soap"} : target'[b] = target[b]
    BY <2>2 DEF TInv, TypeOK
  <2> QED BY <2>2, <2>3, <2>4, KeptMove
<1>4. CASE Apply("soap")
  BY <1>4, KeptApply DEF Actors
<1>5. CASE Crash
  <2>1. /\ \A a \in Actors : pc'[a] \in {"idle", "finish"}
        /\ repos' = repos /\ installed' = installed /\ version' = version
    BY <1>5 DEF Crash, Booted, diskVars
  <2> QED BY <2>1 DEF Kept, TargetKept, SnapshotKept
<1>6. CASE \/ \E f \in Files : \E p \in Packages[f] : Drop(f, p)
           \/ \E fs \in (SUBSET Files) \ {{}} : \E ps \in Contents(fs) : PlugIn(ps)
           \/ Skip \/ Serve \/ Sigterm \/ Join \/ UNCHANGED vars
  BY <1>1, <1>6 DEF Drop, PlugIn, Skip, Serve, Sigterm, Join, vars, diskVars
<1>7. CASE SigtermEarly
  BY <1>7, KeptLeave DEF SigtermEarly, Actors, diskVars
<1> QED BY <1>2, <1>3, <1>4, <1>5, <1>6, <1>7 DEF Next

\* Whatever is installed on the device, and whatever its version file says, has
\* an extracted package to go back to, or is the version it came with.
THEOREM SnapshotKeptHolds == Spec => []SnapshotKept
<1>1. Init => Kept
  BY DEF Init, Booted, Kept, TargetKept, SnapshotKept, Actors, Monitors
<1>2. Kept => SnapshotKept
  BY DEF Kept
<1> QED BY <1>1, <1>2, TypeInit, TypeStep, KeptStep, PTL DEF Spec

-----------------------------------------------------------------------------
(* What happened, and the main thread.                                     *)

\* No step of a running daemon forgets an event.
LEMMA SeenGrows == [Next]_vars => Crash \/ seen \subseteq seen'
<1> SUFFICES ASSUME [Next]_vars, ~Crash PROVE seen \subseteq seen'
  OBVIOUS
<1>0. ASSUME NEW a, Apply(a) PROVE seen \subseteq seen'
  BY <1>0 DEF Apply, LookUp, ApplyEnter, UpdateCache, Commit, Truncate, WriteVersion,
              ApplyExit, FinishEnter, OpenStatus, PutStatus, Happens
<1>1. ASSUME NEW m \in Monitors, Handle(m) PROVE seen \subseteq seen'
  BY <1>0, <1>1 DEF Handle, Take, Acquire, Select, PrepareBegin,
                    ExtractFails, Extract, EndMonitor, Happens, Early
<1>3. CASE \E v \in Versions : Request(v)
  BY <1>3 DEF Request, Happens
<1>4. CASE \/ \E f \in Files : \E p \in Packages[f] : Drop(f, p)
           \/ \E fs \in (SUBSET Files) \ {{}} : \E ps \in Contents(fs) : PlugIn(ps)
           \/ Skip \/ Serve \/ Sigterm \/ SigtermEarly \/ Join \/ UNCHANGED vars
  BY <1>4 DEF Drop, PlugIn, Skip, Serve, Sigterm, SigtermEarly, Join, Happens, Early,
              vars
<1> QED BY <1>0, <1>1, <1>3, <1>4 DEF Next

\* What a monitor does is none of the main thread's.
LEMMA HandleMain ==
    ASSUME TInv, NEW m \in Monitors, Handle(m)
    PROVE  /\ pc'["soap"] = pc["soap"] /\ result'["soap"] = result["soap"]
           /\ main' = main
<1>1. m \in Actors /\ m # "soap" /\ "soap" \in Actors
  BY DEF Actors, Monitors
<1>2. ASSUME NEW place, Goto(m, place) PROVE pc'["soap"] = pc["soap"]
  BY <1>1, <1>2 DEF TInv, TypeOK, Goto
<1>3. ASSUME NEW how, result' = [result EXCEPT ![m] = how]
      PROVE  result'["soap"] = result["soap"]
  BY <1>1, <1>3 DEF TInv, TypeOK
<1>4. CASE Take(m) \/ Acquire(m) \/ Select(m) \/ PrepareBegin(m) \/ EndMonitor(m)
  BY <1>2, <1>3, <1>4 DEF Take, Acquire, Unsign, Accept, Ignore, Select, PrepareBegin,
                          EndMonitor, Leave, Die, mainVars
<1>5. CASE ExtractFails(m) \/ Extract(m)
  BY <1>2, <1>3, <1>5 DEF ExtractFails, Extract, Leave, Die, mainVars
<1>6. CASE LookUp(m) \/ ApplyEnter(m) \/ UpdateCache(m) \/ Commit(m) \/ Truncate(m)
  BY <1>2, <1>3, <1>6 DEF LookUp, ApplyEnter, UpdateCache, Commit, Truncate, Ends,
                          mainVars
<1>7. CASE WriteVersion(m) \/ ApplyExit(m) \/ FinishEnter(m)
  BY <1>2, <1>3, <1>7 DEF WriteVersion, ApplyExit, FinishEnter, Ends, mainVars
<1>8. CASE OpenStatus(m) \/ PutStatus(m)
  BY <1>1, <1>2, <1>3, <1>8 DEF OpenStatus, PutStatus, Leave, Die, mainVars
<1> QED BY <1>4, <1>5, <1>6, <1>7, <1>8 DEF Handle, Apply

\* Without requests, all the main thread does with the device is to write that it
\* is ready.
LEMMA SoapWrites ==
    ASSUME TInv, MainStarts, "snapshot" \notin seen, Apply("soap") \/ SigtermEarly
    PROVE  /\ repos' = repos /\ installed' = installed /\ version' = version
           /\ file' \in {file, "empty", "ready"}
           /\ \A m \in Monitors : /\ pc'[m] = pc[m] /\ target'[m] = target[m]
                                  /\ result'[m] = result[m]
           /\ \/ /\ pc'["soap"] \in {"finish", "open", "put"} /\ main' = main
                 /\ pc["soap"] # "idle" /\ result'["soap"] = result["soap"]
              \/ pc'["soap"] = "idle"
<1>1. \A m \in Monitors : m \in Actors /\ m # "soap"
  BY DEF Actors, Monitors
<1>2. "soap" \in Actors
  BY DEF Actors
<1>3. ASSUME NEW place, Goto("soap", place)
      PROVE  pc'["soap"] = place /\ \A m \in Monitors : pc'[m] = pc[m]
  BY <1>1, <1>2, <1>3 DEF TInv, TypeOK, Goto
<1>4. CASE Leave("soap") \/ Die("soap")
  <2>1. Goto("soap", "idle")
    BY <1>4 DEF Leave, Die
  <2>2. \A m \in Monitors : target'[m] = target[m] /\ result'[m] = result[m]
    BY <1>1, <1>4 DEF Leave, Die, TInv, TypeOK
  <2>3. /\ repos' = repos /\ installed' = installed /\ version' = version
        /\ file' \in {file, "empty", "ready"}
    <3>1. CASE SigtermEarly
      BY <3>1 DEF SigtermEarly, diskVars
    <3>2. CASE OpenStatus("soap") \/ PutStatus("soap")
      BY <3>2 DEF OpenStatus, PutStatus, diskVars, MainStarts
    <3>3. pc["soap"] \in {"finish", "open", "put", "idle"}
      BY DEF MainStarts
    <3>4. CASE LookUp("soap") \/ FinishEnter("soap")
      BY <3>4 DEF LookUp, FinishEnter, diskVars
    <3> QED BY <3>1, <3>2, <3>3, <3>4
        DEF Apply, ApplyEnter, UpdateCache, Commit, Truncate, WriteVersion, ApplyExit
  <2> QED BY <1>3, <2>1, <2>2, <2>3
<1>5. pc["soap"] \in {"finish", "open", "put", "idle"}
  BY DEF MainStarts
<1>6. CASE LookUp("soap")
  BY <1>5, <1>6 DEF LookUp, diskVars, mainVars
<1>7. CASE FinishEnter("soap")
  BY <1>3, <1>7 DEF FinishEnter, diskVars, mainVars
<1>8. CASE OpenStatus("soap") /\ ~Die("soap")
  BY <1>3, <1>8 DEF OpenStatus, diskVars
<1> QED BY <1>4, <1>5, <1>6, <1>7, <1>8
    DEF Apply, ApplyEnter, UpdateCache, Commit, Truncate, WriteVersion, ApplyExit,
        PutStatus, SigtermEarly, OpenStatus

LEMMA MainStep == TInv /\ MainStarts /\ [Next]_vars => MainStarts'
<1> SUFFICES ASSUME TInv, MainStarts, [Next]_vars, "snapshot" \notin seen'
             PROVE  MainStarts'
  BY DEF MainStarts
<1>1. "snapshot" \notin seen
  BY SeenGrows DEF Crash
<1>2. /\ pc["soap"] \in {"finish", "open", "put", "idle"}
      /\ pc["soap"] # "idle" => main = "starting" /\ result["soap"] = "ready"
  BY <1>1 DEF MainStarts
<1>3. CASE \E m \in Monitors : Handle(m)
  BY <1>2, <1>3, HandleMain DEF MainStarts
<1>4. CASE Apply("soap") \/ SigtermEarly
  BY <1>1, <1>2, <1>4, SoapWrites DEF MainStarts
<1>5. CASE Crash
  BY <1>5 DEF Crash, Booted, Results, Actors, MainStarts
<1>6. CASE \E v \in Versions : Request(v)
  BY <1>6 DEF Request, Happens
<1>7. CASE \/ \E f \in Files : \E p \in Packages[f] : Drop(f, p)
           \/ \E fs \in (SUBSET Files) \ {{}} : \E ps \in Contents(fs) : PlugIn(ps)
           \/ Skip \/ UNCHANGED vars
  BY <1>2, <1>7 DEF Drop, PlugIn, Skip, vars, mainVars, MainStarts
<1>8. CASE Serve \/ Sigterm \/ Join
  BY <1>2, <1>8 DEF Serve, Sigterm, Join, MainStarts
<1> QED BY <1>3, <1>4, <1>5, <1>6, <1>7, <1>8 DEF Next

-----------------------------------------------------------------------------
(* How the root file system is mounted.                                    *)

MInv == MountKept /\ RootRestored

\* While a monitor is past the lock, the other one is at rest.
LEMMA Alone ==
    ASSUME TInv, LockHeld, NEW m \in Monitors, pc[m] \in Locked
    PROVE  \A b \in Monitors \ {m} :
             pc[b] \in {"idle", "lock", "done", "dead"}
<1>1. \A b \in Monitors \ {m} : pc[b] \in Places /\ pc[b] \notin Locked
  BY DEF TInv, TypeOK, LockHeld, Actors
<1> QED BY <1>1 DEF Locked

\* While the main thread stays apart, one thread at most is at blocks.
LEMMA AloneAt ==
    ASSUME TInv, LockHeld, MainStarts, MountKept, Apart,
           NEW a \in Actors, pc[a] \in Applying
    PROVE  \A b \in Actors \ {a} :
             pc[b] \in {"idle", "lock", "select", "done", "dead"}
<1>1. "snapshot" \notin seen
  BY DEF Apart
<1>2. CASE a \in Monitors
  <2>1. main # "starting"
    BY <1>2 DEF MountKept
  <2>2. pc["soap"] = "idle"
    BY <1>1, <2>1 DEF MainStarts
  <2>3. pc[a] \in Locked
    BY DEF Applying
  <2> QED BY <1>2, <2>2, <2>3, Alone DEF Actors
<1>3. CASE a = "soap"
  <2>1. main = "starting"
    BY <1>1, <1>3, PlacesApplying DEF MainStarts
  <2>2. \A m \in Monitors : pc[m] \in Places /\ pc[m] \notin Applying
    BY <2>1 DEF MountKept, TInv, TypeOK, Actors
  <2> QED BY <1>3, <2>2 DEF Applying, Locked, Actors
<1> QED BY <1>2, <1>3 DEF Actors

LEMMA PlacesInside ==
    /\ \A x \in {"extract", "cache", "commit", "trunc", "write", "exit", "open", "put"} :
         x \in Inside /\ x \in Places /\ x \in Applying /\ x \notin Outside
    /\ \A x \in Outside : x \notin Inside /\ x \in Places
    /\ \A x \in Inside : x \notin Outside /\ x \in Places /\ x \in Applying
    /\ \A x \in Places : x \in Inside \/ x \in Outside
    /\ \A x \in {"prepare", "enter", "finish"} : x \in Outside /\ x \in Applying
    /\ \A x \in {"idle", "lock", "select", "done", "dead"} : x \in Outside
BY DEF Inside, Outside, Places, Applying, Locked

\* What one thread does at blocks, while the others are at none.
LEMMA MountAlone ==
    ASSUME TInv, LockHeld, MainStarts, MInv, Apart, main' = main,
           NEW a \in Actors, pc[a] \in Applying,
           NEW place \in Places, Goto(a, place),
           \A b \in Actors \ {a} : saved'[b] = saved[b],
           saved'[a] \in {"unknown", Orig},
           place \in Inside => saved'[a] = Orig /\ root' = "rw",
           place \in Outside => root' = Orig
    PROVE  MInv'
<1>1. pc'[a] = place /\ \A b \in Actors \ {a} : pc'[b] = pc[b]
  BY GotoType
<1>2. \A b \in Actors \ {a} :
        pc[b] \in {"idle", "lock", "select", "done", "dead"}
  BY AloneAt DEF MInv
<1>3. \A b \in Actors \ {a} : pc'[b] \notin Inside /\ pc'[b] \notin Applying
  BY <1>1, <1>2, PlacesInside, PlacesApplying
<1>4. main' = "starting" => \A m \in Monitors : pc'[m] \notin Applying
  <2>1. CASE a \in Monitors
    BY <2>1 DEF MInv, MountKept
  <2>2. CASE a \notin Monitors
    BY <2>2, <1>3 DEF Actors
  <2> QED BY <2>1, <2>2
<1>5. \A b \in Actors : /\ saved'[b] \in {"unknown", Orig}
                        /\ pc'[b] \in Inside => saved'[b] = Orig /\ root' = "rw"
  BY <1>1, <1>3 DEF MInv, MountKept
<1>6. MountKept'
  BY <1>4, <1>5 DEF MountKept
<1>7. RootRestored'
  BY <1>1, PlacesInside DEF RootRestored
<1> QED BY <1>6, <1>7 DEF MInv

\* Entering a block: nobody else is inside of one.
LEMMA MountEnter ==
    ASSUME TInv, LockHeld, MainStarts, MInv, Apart, main' = main, NEW a \in Actors,
           pc[a] \in {"prepare", "enter", "finish"},
           NEW place \in Inside, Goto(a, place), RemountRw(a)
    PROVE  MInv'
<1>1. pc[a] \in Applying /\ pc[a] \in Outside /\ place \in Places /\ place \notin Outside
  BY PlacesInside
<1>2. \A b \in Actors : pc[b] \in Outside
  BY <1>1, AloneAt, PlacesInside DEF MInv
<1>3. root = Orig
  BY <1>2 DEF MInv, RootRestored
<1>4. saved' = saved /\ saved[a] = Orig /\ \A b \in Actors : saved[b] \in {"unknown", Orig}
  BY DEF RemountRw, MInv, MountKept
<1>5. root' = "rw"
  BY <1>3, <1>4, OrigAssumption DEF RemountRw
<1> QED BY <1>1, <1>4, <1>5, MountAlone

\* Leaving it: nobody else keeps a file open.
LEMMA MountExit ==
    ASSUME TInv, LockHeld, MainStarts, MInv, Apart, main' = main, NEW a \in Actors,
           pc[a] \in Inside, NEW place \in Outside, Goto(a, place), Restore(a)
    PROVE  MInv'
<1>1. pc[a] \in Applying /\ place \in Places /\ place \notin Inside
  BY PlacesInside
<1>2. \A b \in Actors \ {a} :
        pc[b] \in {"idle", "lock", "select", "done", "dead"}
  BY <1>1, AloneAt DEF MInv
<1>3. saved[a] = Orig /\ root = "rw"
  BY DEF MInv, MountKept
<1>4. root' = Orig
  <2>1. /\ {pc[b] : b \in Actors \ {a}} \cap Holding = {}
        /\ {pc[b] : b \in Actors \ {a}} \cap Writing = {}
    BY <1>2 DEF Holding, Writing
  <2>2. root' \in IF saved[a] = "rw" THEN {root} ELSE {"ro"}
    BY <2>1 DEF Restore
  <2> QED BY <1>3, <2>2, OrigAssumption
<1>5. saved'[a] = "unknown" /\ \A b \in Actors \ {a} : saved'[b] = saved[b]
  BY DEF Restore, Forget, TInv, TypeOK
<1> QED BY <1>1, <1>4, <1>5, MountAlone

\* Moving on within a block or outside of every block.
LEMMA MountMove ==
    ASSUME TInv, MInv, Apart, main' = main, NEW a \in Actors,
           NEW place \in Places, Goto(a, place),
           place \in Inside <=> pc[a] \in Inside,
           place \in Applying => pc[a] \in Applying \/ main # "starting",
           root' = root, saved' = saved
    PROVE  MInv'
<1>1. pc'[a] = place /\ \A b \in Actors \ {a} : pc'[b] = pc[b]
  BY GotoType
<1>2. \A b \in Actors : pc'[b] \in Inside <=> pc[b] \in Inside
  BY <1>1
<1>3. \A b \in Actors : pc'[b] \in Outside => pc[b] \in Outside
  BY <1>1, <1>2, PlacesInside DEF TInv, TypeOK
<1>4. main' = "starting" => \A m \in Monitors : pc'[m] \notin Applying
  BY <1>1 DEF MInv, MountKept, Actors
<1>5. MountKept'
  BY <1>2, <1>4 DEF MInv, MountKept
<1>6. RootRestored'
  BY <1>3 DEF MInv, RootRestored
<1> QED BY <1>5, <1>6 DEF MInv

\* Looking, while nobody is inside of a block.
LEMMA MountLook ==
    ASSUME TInv, LockHeld, MainStarts, MInv, Apart, NEW a \in Actors, LookUp(a)
    PROVE  MInv'
<1>1. pc[a] \in {"prepare", "enter", "finish"} /\ pc[a] \in Outside /\ pc[a] \in Applying
  BY PlacesInside DEF LookUp
<1>2. \A b \in Actors : pc[b] \in Outside
  BY <1>1, AloneAt, PlacesInside DEF MInv
<1>3. root = Orig
  BY <1>2 DEF MInv, RootRestored
<1>4. \A b \in Actors : saved'[b] \in {"unknown", Orig}
  BY <1>3 DEF LookUp, MInv, MountKept, TInv, TypeOK
<1>5. pc' = pc /\ root' = root /\ main' = main
  BY DEF LookUp, mainVars
<1>6. MountKept'
  BY <1>2, <1>4, <1>5, PlacesInside DEF MInv, MountKept
<1>7. RootRestored'
  BY <1>3, <1>5 DEF RootRestored
<1> QED BY <1>6, <1>7 DEF MInv

LEMMA MountApply ==
    ASSUME TInv, LockHeld, MainStarts, MInv, Apart, NEW a \in Actors, Apply(a)
    PROVE  MInv'
<1>1. main' = main
  <2>1. CASE OpenStatus(a)
    <3>1. root = "rw"
      BY <2>1, PlacesInside DEF OpenStatus, MInv, MountKept
    <3> QED BY <2>1, <3>1 DEF OpenStatus
  <2> QED BY <2>1 DEF Apply, LookUp, ApplyEnter, UpdateCache, Commit, Truncate,
                      WriteVersion, ApplyExit, FinishEnter, PutStatus, mainVars
<1>2. CASE ApplyEnter(a)
  <2>1. PICK place \in {"exit", "cache"} : Goto(a, place)
    BY <1>2 DEF ApplyEnter, Ends
  <2> QED BY <1>1, <1>2, <2>1, PlacesInside, MountEnter DEF ApplyEnter
<1>3. CASE UpdateCache(a) \/ Commit(a) \/ Truncate(a) \/ WriteVersion(a)
  <2>1. PICK place \in {"exit", "commit", "trunc", "write"} : Goto(a, place)
    BY <1>3 DEF UpdateCache, Commit, Truncate, WriteVersion, Ends
  <2>2. /\ pc[a] \in Inside /\ pc[a] \in Applying
        /\ place \in Inside /\ place \in Places
    BY <1>3, PlacesInside DEF UpdateCache, Commit, Truncate, WriteVersion
  <2>3. root' = root /\ saved' = saved
    BY <1>3 DEF UpdateCache, Commit, Truncate, WriteVersion, mountVars
  <2> QED BY <1>1, <2>1, <2>2, <2>3, MountMove
<1>4. CASE ApplyExit(a)
  <2>1. pc[a] \in Inside /\ "finish" \in Outside
    BY <1>4, PlacesInside DEF ApplyExit
  <2> QED BY <1>1, <1>4, <2>1, MountExit DEF ApplyExit
<1>5. CASE FinishEnter(a)
  BY <1>1, <1>5, PlacesInside, MountEnter DEF FinishEnter
<1>6. CASE OpenStatus(a)
  <2>1. pc[a] \in Inside /\ pc[a] \in Applying
    BY <1>6, PlacesInside DEF OpenStatus
  <2>2. root = "rw"
    BY <2>1 DEF MInv, MountKept
  <2>3. Goto(a, "put") /\ root' = root /\ saved' = saved
    BY <1>6, <2>2 DEF OpenStatus
  <2> QED BY <1>1, <2>1, <2>3, PlacesInside, MountMove
<1>7. CASE PutStatus(a)
  <2>1. pc[a] \in Inside /\ "idle" \in Outside
    BY <1>7, PlacesInside DEF PutStatus
  <2> QED BY <1>1, <1>7, <2>1, MountExit DEF PutStatus, Leave
<1>8. CASE LookUp(a)
  BY <1>8, MountLook
<1> QED BY <1>2, <1>3, <1>4, <1>5, <1>6, <1>7, <1>8 DEF Apply

LEMMA MountHandle ==
    ASSUME TInv, LockHeld, MainStarts, MInv, Apart, Apart',
           NEW m \in Monitors, Handle(m)
    PROVE  MInv'
<1>0. m \in Actors /\ main' = main
  BY HandleMain DEF Actors
<1>1. CASE Take(m) \/ EndMonitor(m) \/ Acquire(m) \/ Select(m)
  <2>1. PICK place \in {"lock", "done", "idle", "dead", "select", "prepare"} :
          Goto(m, place) /\ (place = "prepare" => Select(m) /\ Early)
    BY <1>1 DEF Take, EndMonitor, Acquire, Unsign, Accept, Ignore, Select, Leave, Die
  <2>2. pc[m] \in {"idle", "lock", "select"}
    BY <1>1 DEF Take, EndMonitor, Acquire, Select
  <2>3. root' = root /\ saved' = saved
    BY <1>1 DEF Take, EndMonitor, Acquire, Select, mountVars
  <2>4. place = "prepare" => main # "starting"
    BY <2>1 DEF Early, Apart
  <2>5. place \in Outside /\ pc[m] \in Outside /\ (place # "prepare" => place \notin Applying)
    BY <2>2, PlacesInside, PlacesApplying
  <2> QED BY <1>0, <2>1, <2>3, <2>4, <2>5, PlacesInside, MountMove
<1>2. CASE PrepareBegin(m)
  BY <1>0, <1>2, PlacesInside, MountEnter DEF PrepareBegin
<1>3. CASE ExtractFails(m) \/ Extract(m)
  <2>1. PICK place \in {"enter", "idle", "dead"} : Goto(m, place)
    BY <1>3 DEF ExtractFails, Extract, Leave, Die
  <2>2. pc[m] \in Inside /\ place \in Outside
    BY <1>3, PlacesInside DEF ExtractFails, Extract
  <2> QED BY <1>0, <1>3, <2>1, <2>2, MountExit DEF ExtractFails, Extract
<1> QED BY <1>0, <1>1, <1>2, <1>3, MountApply DEF Handle

LEMMA MountStep ==
    TInv /\ LockHeld /\ MainStarts /\ MInv /\ [Next]_vars => MInv'
<1> SUFFICES ASSUME TInv, LockHeld, MainStarts, MInv, [Next]_vars, Apart' PROVE MInv'
  BY DEF MInv, MountKept, RootRestored
<1>1. CASE Crash
  <2>1. /\ root' = Orig /\ main' = "starting"
        /\ \A a \in Actors : saved'[a] = "unknown" /\ pc'[a] \in Outside
        /\ \A m \in Monitors : pc'[m] = "idle"
    BY <1>1, PlacesInside DEF Crash, Booted, Actors, Monitors
  <2> QED BY <2>1, PlacesInside, PlacesApplying DEF MInv, MountKept, RootRestored
<1>2. Crash \/ Apart
  BY SeenGrows DEF Apart
<1>3. CASE Apart /\ UNCHANGED <<pc, root, saved>> /\ (main' = "starting" => main = "starting")
  BY <1>3 DEF MInv, MountKept, RootRestored
<1>4. CASE Apart /\ \E m \in Monitors : Handle(m)
  BY <1>4, MountHandle
<1>5. CASE (\E v \in Versions : Request(v)) \/ SigtermEarly
  <2>1. CASE SigtermEarly
    BY <2>1 DEF SigtermEarly, Early, Apart
  <2> QED BY <1>5, <2>1 DEF Request, Happens, Apart
<1>6. CASE Apart /\ Apply("soap")
  BY <1>6, MountApply DEF Actors
<1>7. CASE \/ \E f \in Files : \E p \in Packages[f] : Drop(f, p)
           \/ \E fs \in (SUBSET Files) \ {{}} : \E ps \in Contents(fs) : PlugIn(ps)
           \/ Skip \/ Serve \/ Sigterm \/ Join \/ UNCHANGED vars
  <2>1. UNCHANGED <<pc, root, saved>> /\ (main' = "starting" => main = "starting")
    BY <1>7 DEF Drop, PlugIn, Skip, Serve, Sigterm, Join, vars, mountVars, mainVars
  <2> QED BY <1>1, <1>2, <1>3, <2>1
<1> QED BY <1>1, <1>2, <1>4, <1>5, <1>6, <1>7 DEF Next

LEMMA MountInit == Init => LockHeld /\ MainStarts /\ MInv
<1> SUFFICES ASSUME Init PROVE LockHeld /\ MainStarts /\ MInv
  OBVIOUS
<1>1. /\ root = Orig /\ \A a \in Actors : pc[a] \in Outside /\ saved[a] = "unknown"
      /\ \A m \in Monitors : pc[m] = "idle"
      /\ pc["soap"] = "finish" /\ result["soap"] = "ready" /\ main = "starting"
  BY PlacesInside DEF Init, Booted, Results, Actors, Monitors
<1>2. "idle" \notin Locked /\ "idle" \notin Applying
  BY DEF Locked, Applying
<1>3. MInv
  BY <1>1, <1>2, PlacesInside DEF MInv, MountKept, RootRestored
<1> QED BY <1>1, <1>2, <1>3 DEF LockHeld, MainStarts

\* As long as the main thread enters its blocks next to no monitor, the root file
\* system is mounted as it was at boot whenever no thread is in one.
THEOREM RootRestoredHolds == Spec => []RootRestored
<1>1. MInv => RootRestored
  BY DEF MInv
<1> QED BY <1>1, TypeInit, TypeStep, MountInit, LockStep, MainStep, MountStep, PTL
    DEF Spec

-----------------------------------------------------------------------------
(* Versions.                                                               *)

Undisturbed(s) == ~DowngradeAllowed /\ s \cap {"crash", "half", "snapshot"} = {}
Preparing == {"prepare", "extract", "enter", "cache", "commit", "trunc", "write"}

\* A step of a monitor that leaves versions alone.
LEMMA VersionMove ==
    ASSUME TInv, VersionKept, seen \subseteq seen', NEW m \in Monitors,
           NEW place \in Places, Goto(m, place),
           installed' = installed, version' = version,
           pc[m] \notin {"trunc", "write"} \/ version >= installed,
           \A b \in Actors \ {m} : target'[b] = target[b],
           Undisturbed(seen) /\ place \in Preparing => target'[m] >= installed
    PROVE  VersionKept'
<1>1. Monitors \subseteq Actors /\ m \in Actors
  BY DEF Actors
<1>2. pc'[m] = place /\ \A b \in Actors \ {m} : pc'[b] = pc[b]
  BY <1>1, GotoType
<1>3. SUFFICES ASSUME Undisturbed(seen)
               PROVE  /\ \/ version >= installed
                         \/ \E b \in Monitors : pc'[b] \in {"trunc", "write"}
                      /\ \A b \in Monitors : pc'[b] \in Preparing => target'[b] >= installed
  BY DEF VersionKept, Undisturbed, Preparing
<1>4. /\ \/ version >= installed
         \/ \E b \in Monitors : pc[b] \in {"trunc", "write"}
      /\ \A b \in Monitors : pc[b] \in Preparing => target[b] >= installed
  BY <1>3 DEF VersionKept, Undisturbed, Preparing
<1> QED BY <1>1, <1>2, <1>3, <1>4

LEMMA VersionLeave ==
    ASSUME TInv, VersionKept, seen \subseteq seen', NEW m \in Monitors,
           Leave(m) \/ Die(m), pc[m] \notin {"trunc", "write"},
           installed' = installed, version' = version
    PROVE  VersionKept'
<1>1. m \in Actors
  BY DEF Actors
<1>2. PICK place \in {"idle", "dead"} : Goto(m, place)
  BY DEF Leave, Die
<1>3. target' = [target EXCEPT ![m] = 0]
  BY DEF Leave, Die
<1>4. \A b \in Actors \ {m} : target'[b] = target[b]
  BY <1>3 DEF TInv, TypeOK
<1>5. place \in Places /\ place \notin Preparing
  BY DEF Places, Preparing
<1> QED BY <1>2, <1>4, <1>5, VersionMove

LEMMA VersionHandle ==
    ASSUME TInv, LockHeld, VersionKept, seen \subseteq seen', NEW m \in Monitors,
           \/ Take(m) \/ Acquire(m) \/ Select(m) \/ PrepareBegin(m)
           \/ ExtractFails(m) \/ Extract(m) \/ EndMonitor(m)
    PROVE  VersionKept'
<1>1. /\ installed' = installed /\ version' = version
      /\ pc[m] \notin {"trunc", "write"}
  BY DEF Take, Acquire, Select, PrepareBegin, ExtractFails, Extract, EndMonitor,
         diskVars
<1>2. m \in Actors
  BY DEF Actors
<1>3. CASE Leave(m) \/ Die(m)
  BY <1>1, <1>3, VersionLeave
<1>4. CASE target' = target /\ \E place \in Places : /\ Goto(m, place)
                                                     /\ place \notin Preparing
  BY <1>1, <1>4, VersionMove
<1>5. CASE Take(m) \/ EndMonitor(m)
  BY <1>4, <1>5 DEF Take, EndMonitor, Preparing, Places
<1>6. CASE Acquire(m)
  BY <1>3, <1>4, <1>6 DEF Acquire, Unsign, Accept, Ignore, Preparing, Places
<1>7. CASE PrepareBegin(m) \/ (Extract(m) /\ ~(Leave(m) \/ Die(m)))
  <2>1. target' = target /\ pc[m] \in Preparing
        /\ \E place \in Places : Goto(m, place)
    BY <1>7 DEF PrepareBegin, Extract, Preparing, Places
  <2>2. Undisturbed(seen) => target[m] >= installed
    BY <2>1 DEF VersionKept, Undisturbed, Preparing
  <2> QED BY <1>1, <2>1, <2>2, VersionMove
<1>8. CASE Select(m) /\ ~(Leave(m) \/ Die(m))
  <2>1. /\ Goto(m, "prepare") /\ ~Refused(Package(m))
        /\ target' = [target EXCEPT ![m] = Package(m).ver]
    BY <1>8 DEF Select
  <2>2. pc[m] = "select" /\ pc[m] \in Locked /\ todo[m] # <<>>
    BY <1>8, LockedTodo DEF Select, Locked, Places
  <2>3. Package(m).ver \in Nat
    BY <2>2, CurrentKnown DEF PackageType
  <2>4. /\ target'[m] = Package(m).ver
        /\ \A b \in Actors \ {m} : target'[b] = target[b]
    BY <1>2, <2>1 DEF TInv, TypeOK
  <2>5. ASSUME Undisturbed(seen) PROVE target'[m] >= installed
    <3>1. \A b \in Monitors : pc[b] \notin {"trunc", "write"}
      BY <2>2, Alone
    <3>2. version >= installed
      BY <2>5, <3>1 DEF VersionKept, Undisturbed
    <3>3. version \in Nat /\ installed \in Nat \ {0}
      BY DEF TInv, TypeOK
    <3>4. version # 0
      BY <3>2, <3>3
    <3>5. ~(Package(m).ver < version)
      BY <2>1, <2>5, <3>4 DEF Refused, Downgrade, Undisturbed
    <3> QED BY <2>3, <2>4, <3>2, <3>3, <3>5
  <2> QED BY <1>1, <2>1, <2>4, <2>5, VersionMove DEF Places
<1> QED BY <1>3, <1>5, <1>6, <1>7, <1>8 DEF ExtractFails

LEMMA VersionApply ==
    ASSUME TInv, LockHeld, VersionKept, seen \subseteq seen', NEW m \in Monitors,
           Apply(m), Undisturbed(seen')
    PROVE  VersionKept' /\ installed' >= installed
<1>1. m \in Actors /\ m # "soap" /\ Monitors \subseteq Actors
  BY DEF Actors, Monitors
<1>2. installed \in Nat /\ version \in Nat /\ \A b \in Actors : target[b] \in Nat
  BY DEF TInv, TypeOK
<1>3. Undisturbed(seen)
  BY DEF Undisturbed
<1>4. pc[m] \in Locked
  BY DEF Apply, LookUp, ApplyEnter, UpdateCache, Commit, Truncate, WriteVersion,
         ApplyExit, FinishEnter, OpenStatus, PutStatus, Locked, Places
<1>5. \A b \in Monitors \ {m} : pc[b] \notin Preparing
  BY <1>4, Alone DEF Preparing
<1>6. pc[m] \in Preparing => target[m] >= installed
  BY <1>3 DEF VersionKept, Undisturbed, Preparing
<1>7. pc[m] \notin {"trunc", "write"} => version >= installed
  BY <1>3, <1>5 DEF VersionKept, Undisturbed, Preparing
<1>8. ASSUME NEW place \in Places, Goto(m, place)
      PROVE  pc'[m] = place /\ \A b \in Actors \ {m} : pc'[b] = pc[b]
  BY <1>1, <1>8, GotoType
<1>9. CASE /\ pc[m] \notin {"trunc", "write"}
           /\ installed' = installed /\ version' = version /\ target' = target
           /\ \E place \in Places :
                Goto(m, place) /\ (place \in Preparing => pc[m] \in Preparing)
  BY <1>2, <1>6, <1>9, VersionMove
<1>16. CASE LookUp(m)
  BY <1>2, <1>16 DEF LookUp, VersionKept, diskVars
<1>10. CASE ApplyEnter(m) \/ UpdateCache(m)
  BY <1>9, <1>10 DEF ApplyEnter, UpdateCache, Ends, Preparing, Places, diskVars
<1>11. CASE ApplyExit(m) \/ FinishEnter(m)
  BY <1>9, <1>11 DEF ApplyExit, FinishEnter, Preparing, Places, diskVars
<1>12. CASE OpenStatus(m) \/ PutStatus(m)
  <2>1. installed' = installed /\ version' = version
        /\ pc[m] \notin {"trunc", "write"}
    BY <1>12 DEF OpenStatus, PutStatus, diskVars
  <2>2. CASE Leave(m) \/ Die(m)
    BY <1>2, <2>1, <2>2, VersionLeave
  <2>3. CASE Goto(m, "put") /\ target' = target
    BY <1>9, <2>1, <2>3 DEF Preparing, Places
  <2> QED BY <1>12, <2>2, <2>3 DEF OpenStatus, PutStatus
<1>13. CASE Commit(m)
  <2>1. pc[m] = "commit" /\ target' = target /\ version' = version
        /\ "half" \notin seen'
    BY <1>13 DEF Commit, Undisturbed
  <2>2. CASE installed' = installed
    BY <1>9, <1>13, <2>1, <2>2 DEF Commit, Ends, Preparing, Places
  <2>3. CASE installed' = target[m] /\ Goto(m, "trunc")
    <3>1. pc'[m] = "trunc" /\ \A b \in Actors \ {m} : pc'[b] = pc[b]
      BY <1>8, <2>3 DEF Places
    <3>2. target[m] >= installed
      BY <1>6, <2>1 DEF Preparing
    <3>3. \A b \in Monitors : pc'[b] \in Preparing => target'[b] >= installed'
      BY <1>1, <1>2, <1>5, <2>1, <2>3, <3>1
    <3>4. VersionKept'
      BY <3>1, <3>3 DEF VersionKept, Preparing
    <3> QED BY <2>3, <3>2, <3>4
  <2>4. installed' = installed \/ (installed' = target[m] /\ Goto(m, "trunc"))
    BY <1>13, <2>1 DEF Commit, Happens
  <2> QED BY <2>2, <2>3, <2>4
<1>14. CASE Truncate(m)
  <2>1. /\ pc[m] = "trunc" /\ target' = target /\ installed' = installed
        /\ Goto(m, "write")
    BY <1>14 DEF Truncate
  <2>2. pc'[m] = "write" /\ \A b \in Actors \ {m} : pc'[b] = pc[b]
    BY <1>8, <2>1 DEF Places
  <2>3. \A b \in Monitors : pc'[b] \in Preparing => target'[b] >= installed'
    BY <1>1, <1>5, <1>6, <2>1, <2>2 DEF Preparing
  <2>4. VersionKept'
    BY <2>2, <2>3 DEF VersionKept, Preparing
  <2> QED BY <1>2, <2>1, <2>4
<1>15. CASE WriteVersion(m)
  <2>1. /\ pc[m] = "write" /\ target' = target /\ installed' = installed
        /\ version' = target[m] /\ Goto(m, "exit")
    BY <1>15 DEF WriteVersion, Ends
  <2>2. pc'[m] = "exit" /\ \A b \in Actors \ {m} : pc'[b] = pc[b]
    BY <1>8, <2>1 DEF Places
  <2>3. \A b \in Monitors : pc'[b] \notin Preparing
    BY <1>1, <1>5, <2>2 DEF Preparing
  <2>4. version' >= installed'
    BY <1>6, <2>1 DEF Preparing
  <2>5. VersionKept'
    BY <2>3, <2>4 DEF VersionKept, Preparing
  <2> QED BY <1>2, <2>1, <2>5
<1> QED BY <1>10, <1>11, <1>12, <1>13, <1>14, <1>15, <1>16 DEF Apply

LEMMA VersionStep ==
    TInv /\ LockHeld /\ MainStarts /\ VersionKept /\ [Next]_vars
      => VersionKept' /\ (Undisturbed(seen') => installed' >= installed)
<1> SUFFICES ASSUME TInv, LockHeld, MainStarts, VersionKept, [Next]_vars
             PROVE  VersionKept' /\ (Undisturbed(seen') => installed' >= installed)
  OBVIOUS
<1>2. SUFFICES ASSUME Undisturbed(seen')
               PROVE  VersionKept' /\ installed' >= installed
  BY DEF VersionKept, Undisturbed
<1>1. seen \subseteq seen' /\ installed \in Nat
  BY <1>2, SeenGrows DEF Crash, Undisturbed, TInv, TypeOK
<1>3. "snapshot" \notin seen
  BY <1>1, <1>2 DEF Undisturbed
<1>4. CASE UNCHANGED <<pc, target, installed, version>>
  BY <1>1, <1>4 DEF VersionKept
<1>5. ASSUME NEW m \in Monitors, Handle(m)
      PROVE  VersionKept' /\ installed' >= installed
  <2>1. CASE Apply(m)
    BY <1>1, <1>2, <2>1, VersionApply
  <2>2. CASE \/ Take(m) \/ Acquire(m) \/ Select(m) \/ PrepareBegin(m)
             \/ ExtractFails(m) \/ Extract(m) \/ EndMonitor(m)
    <3>1. installed' = installed
      BY <2>2 DEF Take, Acquire, Select, PrepareBegin, ExtractFails, Extract,
                  EndMonitor, diskVars
    <3> QED BY <1>1, <2>2, <3>1, VersionHandle
  <2> QED BY <1>5, <2>1, <2>2 DEF Handle
<1>6. CASE Crash \/ \E v \in Versions : Request(v)
  BY <1>2, <1>6 DEF Crash, Request, Happens, Undisturbed
<1>7. CASE Apply("soap") \/ SigtermEarly
  <2>1. /\ installed' = installed /\ version' = version
        /\ \A m \in Monitors : pc'[m] = pc[m] /\ target'[m] = target[m]
    BY <1>3, <1>7, SoapWrites
  <2> QED BY <1>1, <2>1 DEF VersionKept
<1>8. CASE \/ \E f \in Files : \E p \in Packages[f] : Drop(f, p)
           \/ \E fs \in (SUBSET Files) \ {{}} : \E ps \in Contents(fs) : PlugIn(ps)
           \/ Skip \/ Serve \/ Sigterm \/ Join \/ UNCHANGED vars
  BY <1>4, <1>8 DEF Drop, PlugIn, Skip, Serve, Sigterm, Join, vars, diskVars
<1> QED BY <1>5, <1>6, <1>7, <1>8 DEF Next

LEMMA VersionInit == Init => VersionKept
<1> SUFFICES ASSUME Init PROVE VersionKept
  OBVIOUS
<1>1. \A m \in Monitors : pc[m] = "idle"
  BY DEF Init, Booted, Actors, Monitors
<1>2. version >= installed
  BY BaseAssumption DEF Init
<1> QED BY <1>1, <1>2 DEF VersionKept

\* Whichever monitor gets which package first, and whatever else arrives while
\* it is handled: an undisturbed device never gets an older version.
THEOREM NoDowngradeHolds == Spec => NoDowngrade
<1>1. TInv /\ LockHeld /\ MainStarts /\ VersionKept /\ [Next]_vars
        => [installed' < installed =>
              DowngradeAllowed \/ seen' \cap {"crash", "half", "snapshot"} # {}]_vars
  <2> SUFFICES ASSUME TInv, LockHeld, MainStarts, VersionKept, [Next]_vars, TInv'
               PROVE  installed' < installed =>
                        DowngradeAllowed \/ seen' \cap {"crash", "half", "snapshot"} # {}
    BY TypeStep
  <2>1. Undisturbed(seen') => installed' >= installed
    BY VersionStep
  <2>2. installed \in Nat /\ installed' \in Nat
    BY DEF TInv, TypeOK
  <2> QED BY <2>1, <2>2, AllowedAssumption DEF Undisturbed
<1> QED BY <1>1, TypeInit, TypeStep, MountInit, LockStep, MainStep,
           VersionInit, VersionStep, PTL DEF Spec, NoDowngrade

-----------------------------------------------------------------------------
(* The status file.                                                        *)

Updating == {"commit", "trunc", "write", "exit", "finish", "open"}

\* A step that leaves the status file alone.
LEMMA StatusMove ==
    ASSUME TInv, StatusKept, seen \subseteq seen', file' = file,
           NEW m \in Monitors, NEW place \in Places, Goto(m, place),
           pc[m] \in Updating => place \in Updating,
           pc[m] # "put"
    PROVE  StatusKept'
<1>1. m \in Actors /\ Monitors \subseteq Actors
  BY DEF Actors
<1>2. pc'[m] = place /\ \A b \in Actors \ {m} : pc'[b] = pc[b]
  BY <1>1, GotoType
<1>3. /\ \A b \in Monitors : pc[b] \in Updating => pc'[b] \in Updating
      /\ \A b \in Actors : pc[b] = "put" => pc'[b] = "put"
  BY <1>1, <1>2
<1> QED BY <1>3 DEF StatusKept, Updating, Apart

\* A step that writes it.
LEMMA StatusWrite ==
    ASSUME TInv, NEW m \in Monitors, NEW place \in Places, Goto(m, place),
           file' = "in_progress" => place \in Updating,
           file' = "empty" => place = "put"
    PROVE  StatusKept'
<1>1. m \in Actors
  BY DEF Actors
<1>2. pc'[m] = place
  BY <1>1, GotoType
<1> QED BY <1>1, <1>2 DEF StatusKept, Updating

LEMMA StatusApply ==
    ASSUME TInv, MInv, StatusKept, seen \subseteq seen', Apart,
           NEW m \in Monitors, Apply(m)
    PROVE  StatusKept'
<1>1. m \in Actors
  BY DEF Actors
<1>8. CASE LookUp(m)
  BY <1>8 DEF LookUp, StatusKept
<1>2. CASE ApplyEnter(m)
  BY <1>2, StatusMove DEF ApplyEnter, Ends, Updating, Places
<1>3. CASE UpdateCache(m)
  <2>1. CASE file' = file
    BY <1>3, <2>1, StatusMove DEF UpdateCache, Ends, Updating, Places
  <2>2. CASE file' = "in_progress"
    BY <1>3, <2>2, StatusWrite DEF UpdateCache, Ends, Updating, Places
  <2> QED BY <1>3, <2>1, <2>2 DEF UpdateCache
<1>4. CASE Commit(m) \/ Truncate(m) \/ WriteVersion(m)
  BY <1>4, StatusMove DEF Commit, Truncate, WriteVersion, Ends, Updating, Places
<1>5. CASE ApplyExit(m) \/ FinishEnter(m)
  BY <1>5, StatusMove DEF ApplyExit, FinishEnter, Updating, Places
<1>6. CASE OpenStatus(m)
  <2>1. pc[m] \in Inside
    BY <1>6, PlacesInside DEF OpenStatus
  <2>2. root = "rw"
    BY <1>1, <2>1 DEF MInv, MountKept
  <2>3. Goto(m, "put") /\ file' = "empty"
    BY <1>6, <2>2 DEF OpenStatus
  <2> QED BY <2>3, StatusWrite DEF Places
<1>7. CASE PutStatus(m)
  <2>1. file' \in {"none", "ready", "OK", "error"}
    BY <1>1, <1>7 DEF PutStatus, TInv, TypeOK
  <2>2. Goto(m, "idle")
    BY <1>7 DEF PutStatus, Leave
  <2> QED BY <2>1, <2>2, StatusWrite DEF Places
<1> QED BY <1>2, <1>3, <1>4, <1>5, <1>6, <1>7, <1>8 DEF Apply

\* The main thread starts.
LEMMA StatusStart ==
    ASSUME TInv, MainStarts, MInv, StatusKept, seen' = seen, Apart, Apply("soap")
    PROVE  StatusKept'
<1>1. /\ "soap" \in Actors /\ "soap" \notin Monitors /\ Monitors \subseteq Actors
      /\ "snapshot" \notin seen
  BY DEF Actors, Monitors, Apart
<1>2. \A m \in Monitors : pc'[m] = pc[m]
  BY <1>1, SoapWrites
<1>3. pc["soap"] \in {"finish", "open", "put", "idle"}
  BY <1>1 DEF MainStarts
<1>4. CASE file' = file /\ pc["soap"] # "put"
  BY <1>1, <1>2, <1>4 DEF StatusKept, Actors
<1>5. CASE LookUp("soap") \/ FinishEnter("soap")
  BY <1>4, <1>5 DEF LookUp, FinishEnter
<1>6. CASE OpenStatus("soap")
  <2>1. root = "rw"
    BY <1>1, <1>6, PlacesInside DEF OpenStatus, MInv, MountKept
  <2>2. Goto("soap", "put") /\ file' = "empty"
    BY <1>6, <2>1 DEF OpenStatus
  <2>3. pc'["soap"] = "put"
    BY <1>1, <2>2, GotoType DEF Places
  <2> QED BY <1>1, <2>2, <2>3 DEF StatusKept
<1>7. CASE PutStatus("soap")
  <2>1. file' \in {"none", "ready", "OK", "error"}
    BY <1>1, <1>7 DEF PutStatus, TInv, TypeOK
  <2> QED BY <2>1 DEF StatusKept
<1> QED BY <1>3, <1>5, <1>6, <1>7
    DEF Apply, ApplyEnter, UpdateCache, Commit, Truncate, WriteVersion, ApplyExit

LEMMA StatusStep ==
    TInv /\ MainStarts /\ MInv /\ StatusKept /\ [Next]_vars => StatusKept'
<1> SUFFICES ASSUME TInv, MainStarts, MInv, StatusKept, [Next]_vars, Apart'
             PROVE  StatusKept'
  BY DEF StatusKept
<1>8. CASE Crash
  BY <1>8 DEF Crash, StatusKept
<1>0. SUFFICES ASSUME ~Crash PROVE StatusKept'
  BY <1>8
<1>1. seen \subseteq seen'
  BY <1>0, SeenGrows
<1>3. Apart
  BY <1>1 DEF Apart
<1>4. CASE UNCHANGED <<pc, file>>
  BY <1>1, <1>3, <1>4 DEF StatusKept
<1>5. ASSUME NEW m \in Monitors, Handle(m) PROVE StatusKept'
  <2>1. CASE Take(m) \/ EndMonitor(m) \/ PrepareBegin(m)
    BY <1>1, <2>1, StatusMove DEF Take, EndMonitor, PrepareBegin, Updating, Places
  <2>2. CASE Acquire(m) \/ Select(m)
    BY <1>1, <2>2, StatusMove
    DEF Acquire, Unsign, Accept, Ignore, Select, Leave, Die, Updating, Places
  <2>3. CASE ExtractFails(m) \/ Extract(m)
    BY <1>1, <2>3, StatusMove DEF ExtractFails, Extract, Leave, Die, Updating, Places
  <2> QED BY <1>1, <1>3, <1>5, <2>1, <2>2, <2>3, StatusApply DEF Handle
<1>6. CASE (\E v \in Versions : Request(v)) \/ SigtermEarly
  <2>1. CASE SigtermEarly
    BY <2>1 DEF SigtermEarly, Early, Apart
  <2> QED BY <1>6, <2>1 DEF Request, Happens, Apart
<1>7. CASE Apply("soap")
  <2>1. seen' = seen
    BY <1>3, <1>7, PlacesApplying DEF Apply, LookUp, ApplyEnter, UpdateCache, Commit,
       Truncate, WriteVersion, ApplyExit, FinishEnter, OpenStatus, PutStatus,
       MainStarts, Apart
  <2> QED BY <1>3, <1>7, <2>1, StatusStart
<1>9. CASE \/ \E f \in Files : \E p \in Packages[f] : Drop(f, p)
           \/ \E fs \in (SUBSET Files) \ {{}} : \E ps \in Contents(fs) : PlugIn(ps)
           \/ Skip \/ Serve \/ Sigterm \/ Join \/ UNCHANGED vars
  BY <1>4, <1>9 DEF Drop, PlugIn, Skip, Serve, Sigterm, Join, vars
<1> QED BY <1>0, <1>5, <1>6, <1>7, <1>9 DEF Next

LEMMA StatusEnds == StatusKept => ProgressEnds
<1> SUFFICES ASSUME StatusKept, AtRest, Apart
             PROVE  file \notin {"in_progress", "empty"}
  BY DEF ProgressEnds
<1>1. /\ \A a \in Actors : pc[a] \in {"idle", "lock", "done", "dead"}
      /\ Monitors \subseteq Actors
  BY DEF AtRest, Actors
<1> QED BY <1>1 DEF StatusKept

\* As long as the main thread writes its own status next to no monitor, an update
\* whose progress was reported is reported as finished before its monitor rests.
THEOREM ProgressEndsHolds == Spec => []ProgressEnds
<1>1. Init => StatusKept
  BY DEF Init, StatusKept
<1> QED BY <1>1, TypeInit, TypeStep, MountInit, LockStep, MainStep, MountStep,
           StatusStep, StatusEnds, PTL DEF Spec

-----------------------------------------------------------------------------
(* What OK in it means.                                                    *)

Quiet(s) == s \cap {"missing", "snapshot"} = {}
Installing == {"commit", "trunc", "write"}
Judged == {"exit", "finish", "open", "put"}

\* A step that neither installs nor reports anything.
LEMMA OkMove ==
    ASSUME TInv, OkKept, seen \subseteq seen', NEW m \in Monitors,
           NEW place \in Places \ (Installing \cup Judged), Goto(m, place),
           file' = file, installed' = installed, version' = version,
           \A b \in Actors \ {m} : target'[b] = target[b] /\ result'[b] = result[b]
    PROVE  OkKept'
<1>1. m \in Actors /\ Monitors \subseteq Actors
  BY DEF Actors
<1>2. pc'[m] = place /\ \A b \in Actors \ {m} : pc'[b] = pc[b]
  BY <1>1, GotoType
<1> QED BY <1>1, <1>2 DEF OkKept, Installing, Judged

\* A step past the lock, where only the monitor that takes it counts.
LEMMA OkAlone ==
    ASSUME TInv, LockHeld, NEW m \in Monitors, pc[m] \in Locked,
           NEW place \in Places, Goto(m, place),
           Quiet(seen') =>
             /\ file' = "OK" => installed' = version' /\ place \notin Installing
             /\ place \in {"trunc", "write"} => installed' = target'[m]
             /\ place \in Judged /\ result'[m] = "OK" => installed' = version'
    PROVE  OkKept'
<1>1. m \in Actors /\ Monitors \subseteq Actors
  BY DEF Actors
<1>2. pc'[m] = place /\ \A b \in Actors \ {m} : pc'[b] = pc[b]
  BY <1>1, GotoType
<1>3. \A b \in Monitors \ {m} : pc'[b] \in {"idle", "lock", "done", "dead"}
  BY <1>1, <1>2, Alone
<1> QED BY <1>2, <1>3 DEF OkKept, Quiet, Installing, Judged

LEMMA OkLeave ==
    ASSUME TInv, OkKept, seen \subseteq seen', NEW m \in Monitors, Leave(m) \/ Die(m),
           file' = file, installed' = installed, version' = version
    PROVE  OkKept'
<1>1. m \in Actors
  BY DEF Actors
<1>2. PICK place \in {"idle", "dead"} : Goto(m, place)
  BY DEF Leave, Die
<1>3. target' = [target EXCEPT ![m] = 0] /\ result' = [result EXCEPT ![m] = "none"]
  BY DEF Leave, Die
<1>4. \A b \in Actors \ {m} : target'[b] = target[b] /\ result'[b] = result[b]
  BY <1>3 DEF TInv, TypeOK
<1>5. place \in Places \ (Installing \cup Judged)
  BY DEF Places, Installing, Judged
<1> QED BY <1>2, <1>4, <1>5, OkMove

LEMMA OkHandle ==
    ASSUME TInv, OkKept, seen \subseteq seen', NEW m \in Monitors,
           \/ Take(m) \/ Acquire(m) \/ Select(m) \/ PrepareBegin(m)
           \/ ExtractFails(m) \/ Extract(m) \/ EndMonitor(m)
    PROVE  OkKept'
<1>1. installed' = installed /\ version' = version /\ file' = file
  BY DEF Take, Acquire, Select, PrepareBegin, ExtractFails, Extract, EndMonitor,
         diskVars
<1>2. CASE Leave(m) \/ Die(m)
  BY <1>1, <1>2, OkLeave
<1>3. CASE /\ \E place \in Places \ (Installing \cup Judged) : Goto(m, place)
           /\ \A b \in Actors \ {m} : target'[b] = target[b]
           /\ result' = result
  BY <1>1, <1>3, OkMove
<1>4. CASE Take(m) \/ EndMonitor(m) \/ PrepareBegin(m)
  BY <1>3, <1>4 DEF Take, EndMonitor, PrepareBegin, Places, Installing, Judged
<1>5. CASE Acquire(m)
  BY <1>2, <1>3, <1>5
  DEF Acquire, Unsign, Accept, Ignore, Places, Installing, Judged
<1>6. CASE Select(m)
  <2>1. CASE Goto(m, "prepare") /\ result' = result
             /\ target' = [target EXCEPT ![m] = Package(m).ver]
    BY <1>3, <2>1 DEF TInv, TypeOK, Places, Installing, Judged
  <2> QED BY <1>2, <1>6, <2>1 DEF Select
<1>7. CASE ExtractFails(m) \/ Extract(m)
  BY <1>2, <1>3, <1>7 DEF ExtractFails, Extract, Places, Installing, Judged
<1> QED BY <1>4, <1>5, <1>6, <1>7

LEMMA OkApply ==
    ASSUME TInv, LockHeld, OkKept, seen \subseteq seen', NEW m \in Monitors, Apply(m)
    PROVE  OkKept'
<1>1. m \in Actors /\ m # "soap"
  BY DEF Actors, Monitors
<1>2. pc[m] \in Locked
  BY DEF Apply, LookUp, ApplyEnter, UpdateCache, Commit, Truncate, WriteVersion,
         ApplyExit, FinishEnter, OpenStatus, PutStatus, Locked, Places
<1>3. Quiet(seen') => Quiet(seen)
  BY DEF Quiet
<1>4. Quiet(seen) =>
        /\ file = "OK" => installed = version
        /\ pc[m] \in Installing => file # "OK"
        /\ pc[m] \in {"trunc", "write"} => installed = target[m]
        /\ pc[m] \in Judged /\ result[m] = "OK" => installed = version
  BY DEF OkKept, Quiet, Installing, Judged
<1>5. ASSUME NEW how, Ends(m, how)
      PROVE  Goto(m, "exit") /\ result'[m] = how
  BY <1>1, <1>5 DEF Ends, TInv, TypeOK
<1>6. "exit" \in Judged \ Installing
  BY DEF Judged, Installing
<1>14. CASE LookUp(m)
  BY <1>14 DEF LookUp, OkKept, diskVars
<1>7. CASE ApplyEnter(m) \/ UpdateCache(m)
  <2>1. /\ installed' = installed /\ version' = version
        /\ file' \in {file, "in_progress"}
    BY <1>7 DEF ApplyEnter, UpdateCache, diskVars
  <2>2. CASE Ends(m, "error")
    BY <1>2, <1>3, <1>4, <1>5, <1>6, <2>1, <2>2, OkAlone DEF Places
  <2>3. CASE ApplyEnter(m) /\ Goto(m, "cache")
    BY <1>2, <1>3, <1>4, <2>1, <2>3, OkAlone DEF Places, Installing, Judged
  <2>4. CASE Goto(m, "commit") /\ file' = "in_progress"
    BY <1>2, <2>4, OkAlone DEF Places, Installing, Judged
  <2> QED BY <1>1, <1>7, <2>2, <2>3, <2>4 DEF ApplyEnter, UpdateCache, Unreadable
<1>8. CASE Commit(m)
  <2>1. pc[m] \in Installing /\ file' = file /\ target' = target
    BY <1>8 DEF Commit, Installing
  <2>2. CASE Ends(m, "error")
    BY <1>2, <1>3, <1>4, <1>5, <2>1, <2>2, OkAlone DEF Places
  <2>3. CASE Goto(m, "trunc") /\ installed' = target[m]
    BY <1>2, <1>3, <1>4, <2>1, <2>3, OkAlone DEF Places, Judged
  <2>4. CASE Happens("missing")
    <3>1. ~Quiet(seen')
      BY <2>4 DEF Happens, Quiet
    <3> QED BY <3>1 DEF OkKept, Quiet
  <2> QED BY <1>8, <2>2, <2>3, <2>4 DEF Commit
<1>9. CASE Truncate(m)
  <2>1. /\ pc[m] = "trunc" /\ file' = file /\ target' = target
        /\ installed' = installed /\ Goto(m, "write")
    BY <1>9 DEF Truncate
  <2> QED BY <1>2, <1>3, <1>4, <2>1, OkAlone DEF Places, Installing, Judged
<1>10. CASE WriteVersion(m)
  <2>1. /\ pc[m] = "write" /\ file' = file /\ version' = target[m]
        /\ installed' = installed /\ Goto(m, "exit")
    BY <1>10 DEF WriteVersion, Ends
  <2> QED BY <1>2, <1>3, <1>4, <1>6, <2>1, OkAlone DEF Places, Installing
<1>11. CASE ApplyExit(m) \/ FinishEnter(m)
  <2>1. /\ pc[m] \in Judged /\ file' = file /\ installed' = installed
        /\ version' = version /\ result' = result
        /\ \E place \in Judged : Goto(m, place)
    BY <1>11 DEF ApplyExit, FinishEnter, Judged, diskVars
  <2>2. Judged \subseteq Places \ Installing /\ "trunc" \notin Judged /\ "write" \notin Judged
    BY DEF Judged, Places, Installing
  <2> QED BY <1>2, <1>3, <1>4, <2>1, <2>2, OkAlone
<1>12. CASE OpenStatus(m)
  <2>1. installed' = installed /\ version' = version
    BY <1>12 DEF OpenStatus, diskVars
  <2>2. CASE Die(m) /\ file' = file
    BY <2>1, <2>2, OkLeave
  <2>3. CASE Goto(m, "put") /\ file' = "empty" /\ result' = result
    <3>1. pc[m] \in Judged
      BY <1>12 DEF OpenStatus, Judged
    <3> QED BY <1>2, <1>3, <1>4, <2>1, <2>3, <3>1, OkAlone DEF Places
  <2> QED BY <1>12, <2>2, <2>3 DEF OpenStatus
<1>13. CASE PutStatus(m)
  <2>1. /\ pc[m] \in Judged /\ file' = result[m] /\ Goto(m, "idle")
        /\ installed' = installed /\ version' = version
    BY <1>13 DEF PutStatus, Leave, Judged
  <2> QED BY <1>2, <1>3, <1>4, <2>1, OkAlone DEF Places, Installing, Judged
<1> QED BY <1>7, <1>8, <1>9, <1>10, <1>11, <1>12, <1>13, <1>14 DEF Apply

LEMMA OkStep == TInv /\ LockHeld /\ MainStarts /\ OkKept /\ [Next]_vars => OkKept'
<1> SUFFICES ASSUME TInv, LockHeld, MainStarts, OkKept, [Next]_vars PROVE OkKept'
  OBVIOUS
<1>2. SUFFICES ASSUME Quiet(seen') PROVE OkKept'
  BY DEF OkKept, Quiet
<1>8. CASE Crash
  <2>1. file' = "ready" /\ \A m \in Monitors : pc'[m] = "idle"
    BY <1>8 DEF Crash, Booted, Actors, Monitors
  <2> QED BY <2>1 DEF OkKept
<1>0. SUFFICES ASSUME ~Crash PROVE OkKept'
  BY <1>8
<1>1. seen \subseteq seen'
  BY <1>0, SeenGrows
<1>3. Quiet(seen) /\ "snapshot" \notin seen
  BY <1>1, <1>2 DEF Quiet
<1>4. CASE UNCHANGED <<pc, file, target, result, installed, version>>
  BY <1>1, <1>4 DEF OkKept
<1>5. CASE \E m \in Monitors : Handle(m)
  BY <1>1, <1>5, OkHandle, OkApply DEF Handle
<1>6. CASE \E v \in Versions : Request(v)
  BY <1>2, <1>6 DEF Request, Happens, Quiet
<1>7. CASE Apply("soap") \/ SigtermEarly
  <2>1. /\ installed' = installed /\ version' = version
        /\ file' \in {file, "empty", "ready"}
        /\ \A m \in Monitors : /\ pc'[m] = pc[m] /\ target'[m] = target[m]
                               /\ result'[m] = result[m]
    BY <1>3, <1>7, SoapWrites
  <2> QED BY <1>3, <2>1 DEF OkKept, Quiet
<1>9. CASE \/ \E f \in Files : \E p \in Packages[f] : Drop(f, p)
           \/ \E fs \in (SUBSET Files) \ {{}} : \E ps \in Contents(fs) : PlugIn(ps)
           \/ Skip \/ Serve \/ Sigterm \/ Join \/ UNCHANGED vars
  BY <1>4, <1>9 DEF Drop, PlugIn, Skip, Serve, Sigterm, Join, vars, diskVars
<1> QED BY <1>0, <1>5, <1>6, <1>7, <1>9 DEF Next

LEMMA OkInit == Init => OkKept
<1> SUFFICES ASSUME Init PROVE OkKept
  OBVIOUS
<1>1. file = "ready" /\ \A m \in Monitors : pc[m] = "idle"
  BY DEF Init, Booted, Actors, Monitors
<1> QED BY <1>1 DEF OkKept

LEMMA OkMeans == OkKept => OkIsInstalled
BY DEF OkKept, OkIsInstalled

\* As long as no package is missing and only the monitors update the device, a
\* status file that says OK is right about the version file, whatever failed
\* before, and while the next update is on its way.
THEOREM OkIsInstalledHolds == Spec => []OkIsInstalled
BY TypeInit, TypeStep, MountInit, LockStep, MainStep, OkInit, OkStep, OkMeans, PTL
DEF Spec

-----------------------------------------------------------------------------
\* All of this together: the invariant of Updated, in which each part rests on
\* the ones before it, is kept by every step.
THEOREM InvariantHolds == Spec => []IInv
<1>1. Init => Kept /\ StatusKept
  BY DEF Init, Booted, Kept, TargetKept, SnapshotKept, Actors, Monitors, StatusKept
<1>2. TInv /\ LockHeld /\ Kept /\ MainStarts /\ MInv /\ VersionKept /\ StatusKept /\ OkKept => IInv
  BY StatusEnds, OkMeans DEF IInv, TInv, Kept, MInv
<1> QED BY <1>1, <1>2, TypeInit, TypeStep, MountInit, LockStep, KeptStep, MainStep,
           MountStep, VersionInit, VersionStep, StatusStep, OkInit, OkStep, PTL DEF Spec
=============================================================================
