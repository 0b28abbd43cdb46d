--------------------------- MODULE ServiceProofs ---------------------------
(***************************************************************************)
(* Proofs about Service, for any ports, addresses, installed copies and    *)
(* number of command lines: the types, that a running service answers, and *)
(* for behaviors nobody interferes with that the firewall rule and the     *)
(* published port follow Restart, that what runs is what is registered,    *)
(* and that an install that reports success has started the service.       *)
(* Then about Tray, the icon beside that service: its types, and that what *)
(* it saw down a balloon has told of, but for what there was none for, or  *)
(* no icon to carry it.                                                    *)
(***************************************************************************)
EXTENDS Tray, FiniteSetTheorems, TLAPS

-----------------------------------------------------------------------------

(***************************************************************************)
(* The parts of the inductive invariant.                                   *)
(***************************************************************************)
MenuVerbs == {"restart", "stop", "start"}

Installing == {"install", "open", "stop", "stopwait", "update", "create", "grant",
               "startit", "verify"}

\* Each place belongs to some verbs, and has what it reads.
Places ==
  \A s \in Scripts :
    LET j == script[s]
    IN  /\ j.at = "done" <=> j.verb = "none"
        /\ j.at \in Installing => j.verb = "install"
        /\ j.at \in {"netstop", "stopping", "netstart"} => j.verb \in MenuVerbs
        /\ j.at = "firewall" => j.verb = "restart"
        /\ j.at \in {"rule", "publish"} => j.verb \in {"install", "restart"}
        /\ j.at \in {"control", "delete", "withdraw", "unpublish"} => j.verb = "uninstall"
        /\ j.verb = "install" \/ j.at \in {"rule", "publish"} => j.addr \in Address
        /\ j.at # "done" => j.code = None

\* A process that has a request in hand has not ended.
SavingRuns == saving # None => state \in {"running", "stopping"}

\* In an orderly behavior: one command line at a time, nothing uninstalled,
\* nothing started by the service manager of its own accord.
Alone ==
  /\ \A s, t \in Busy : s = t
  /\ \A s \in Scripts : script[s].verb # "uninstall"
  /\ entry # "leaving" /\ ~recover
  /\ entry = "none" => state = "stopped"

\* In an orderly behavior: a process that an install has left standing is on its
\* way up or running, or on its way down.
OldKept ==
  /\ old = "refused" => state \in {"starting", "running", "stopping"}
  /\ old = "late" => state = "stopping"

\* Where an install is once the old process is out of its way: it has ended,
\* has refused the stop, or is late.
Past == \/ state = "stopped"
        \/ old = "refused" /\ state \in {"starting", "running"}
        \/ old = "late"

\* In an orderly behavior: what a command line has brought about at each place.
Progress ==
  /\ state = "stopping" =>
       old = "late" \/ \E s \in Scripts : script[s].at \in {"stopping", "stopwait"}
  /\ \A s \in Scripts :
       LET j == script[s]
       IN  /\ j.at \in {"stopping", "stopwait"} =>
                state \in {"stopped", "stopping"} /\ old # "late"
           /\ j.verb = "install" /\ j.at \in {"update", "create", "grant", "rule",
                                              "publish", "startit"}
              => Past
           /\ j.verb = "install" /\ j.at \in {"grant", "rule", "publish", "startit"}
              => entry = "present"
           /\ j.at = "verify" => state \in {"stopped", "stopping"}

\* In an orderly behavior: what comes up is what is registered.
RanRegistered == state \in {"starting", "running"} /\ old # "refused" => ran = exe

Outside(a) == rule = RuleFor(a) /\ info = a.port

\* Where the service is restarted with Restart: the rule and the port on the
\* way from one address to the next.
RestartPlaces ==
  \A s \in Scripts :
    LET j == script[s]
    IN  /\ j.verb \in {"none", "install", "restart"}
        /\ j.at \notin {"stop", "stopwait", "update", "verify"}
        /\ j.verb = "install" => state = "stopped"
        /\ j.at = "install" =>
             stored = Unset /\ entry = "none" /\ j.addr = AddressOf([Unset EXCEPT !.port = j.port])
        /\ j.at = "open" => entry = "none"
        /\ j.at = "netstop" => state = "running"
        /\ j.at \in {"firewall", "rule", "publish", "netstart", "startit"}
           => state = "stopped"
        /\ j.at \in {"open", "create", "grant", "rule", "publish"}
           => j.addr = AddressOf(stored)
        /\ j.at = "publish" => rule = RuleFor(j.addr)
        /\ j.at \in {"netstart", "startit"} => Outside(AddressOf(stored))

RestartAgrees ==
  /\ state = "starting" =>
       Outside(AddressOf(stored)) /\ listen \in {None, AddressOf(stored)}
  /\ state = "running" => Agree

OrderlyInv == Alone /\ OldKept /\ Progress /\ RanRegistered

RestartInv == RestartPlaces /\ RestartAgrees

-----------------------------------------------------------------------------

(***************************************************************************)
(* What the helpers give.                                                  *)
(***************************************************************************)
\* An address to listen on, whatever is stored, and never None.
LEMMA AddressTyped ==
  ASSUME NEW a \in [port : Ports \cup {None}, bind : Binds \cup {None}]
  PROVE  AddressOf(a) \in Address /\ AddressOf(a) # None
BY ServiceAssumption DEF AddressOf, Address

\* The port the rule is for is a port, or there is no rule.
LEMMA RuleTyped ==
  ASSUME NEW a \in Address
  PROVE  RuleFor(a) \in Ports \cup {None} /\ a.port \in Ports
BY DEF RuleFor, Address

\* Where a command line can be.
PlaceNames ==
  Installing \cup {"netstop", "stopping", "netstart", "firewall", "rule", "publish",
                   "control", "delete", "withdraw", "unpublish"}

\* A command line goes to another place and keeps what it has.
LEMMA GoToIs ==
  ASSUME script \in [Scripts -> Script], NEW s \in Scripts,
         NEW place \in PlaceNames, GoTo(s, place)
  PROVE  /\ script' \in [Scripts -> Script]
         /\ \A t \in Scripts : t # s => script'[t] = script[t]
         /\ script'[s].at = place
         /\ script'[s].verb = script[s].verb /\ script'[s].addr = script[s].addr
         /\ script'[s].port = script[s].port /\ script'[s].exe = script[s].exe
         /\ script'[s].code = script[s].code
BY DEF GoTo, Script, PlaceNames, Installing

\* A command line that ends leaves nothing but its exit code.
LEMMA FinishIs ==
  ASSUME script \in [Scripts -> Script], NEW s \in Scripts,
         NEW c \in {0, 1, 11, None}, Finish(s, c)
  PROVE  /\ script' \in [Scripts -> Script]
         /\ \A t \in Scripts : t # s => script'[t] = script[t]
         /\ script'[s].at = "done" /\ script'[s].verb = "none" /\ script'[s].code = c
BY DEF Finish, NoScript, Script

\* One that begins is the one asked for.
LEMMA BeginIs ==
  ASSUME script \in [Scripts -> Script], NEW s \in Scripts, NEW j \in Script, Begin(s, j)
  PROVE  /\ script' \in [Scripts -> Script]
         /\ \A t \in Scripts : t # s => script'[t] = script[t]
         /\ script'[s] = j
BY DEF Begin

-----------------------------------------------------------------------------

(***************************************************************************)
(* The types, and what every behavior keeps.                               *)
(***************************************************************************)
Plain == TypeOK /\ Places /\ RunningAnswers /\ SavingRuns

\* The service starts out unset, stopped and unregistered.
LEMMA InitPlain == Init => Plain
<1> SUFFICES ASSUME Init PROVE Plain
  OBVIOUS
<1>1. NoScript \in Script
  BY DEF NoScript, Script
<1>2. TypeOK
  BY <1>1, ServiceAssumption DEF Init, TypeOK, Unset
<1>3. \A s \in Scripts : script[s] = NoScript
  BY DEF Init
<1>4. Places
  BY <1>3, ServiceAssumption DEF Places, NoScript, Installing, MenuVerbs
<1> QED
  BY <1>2, <1>4 DEF Init, Plain, RunningAnswers, SavingRuns

\* What the process and the service manager do keeps it, with no command line.
LEMMA PlainProcess ==
  ASSUME Plain, Process \/ Crash \/ Elsewhere \/ Gone \/ SavePort
  PROVE  Plain'
<1>1. UNCHANGED script
  BY DEF Process, Listen, Report, StartFails, CloseListeners, Stopped, Recover, SaveBind,
         Crash, Elsewhere, Gone, SavePort
<1>2. Places'
  BY <1>1 DEF Plain, Places
<1>3. AddressOf(stored) \in Address /\ AddressOf(stored) # None
  BY AddressTyped DEF Plain, TypeOK
<1> USE DEF Plain, TypeOK, RunningAnswers, SavingRuns, settingVars, procVars, outVars, Launch
<1>4. CASE Listen
  BY <1>2, <1>3, <1>4 DEF Listen
<1>5. CASE Report
  BY <1>2, <1>3, <1>5 DEF Report
<1>6. CASE StartFails
  BY <1>2, <1>3, <1>6 DEF StartFails
<1>7. CASE CloseListeners
  BY <1>2, <1>3, <1>7 DEF CloseListeners
<1>8. CASE Stopped
  BY <1>2, <1>3, <1>8 DEF Stopped
<1>9. CASE Recover
  BY <1>2, <1>3, <1>9 DEF Recover
<1>10. CASE SaveBind
  BY <1>2, <1>3, <1>10 DEF SaveBind
<1>11. CASE Crash
  BY <1>2, <1>3, <1>11 DEF Crash
<1>12. CASE Elsewhere
  BY <1>2, <1>3, <1>12 DEF Elsewhere
<1>13. CASE Gone
  BY <1>2, <1>3, <1>13 DEF Gone
<1>14. CASE SavePort
  BY <1>2, <1>14, ServiceAssumption DEF SavePort
<1> QED
  BY <1>4, <1>5, <1>6, <1>7, <1>8, <1>9, <1>10, <1>11, <1>12, <1>13, <1>14 DEF Process

\* A reboot leaves the settings, the rule, the port and the registration.
LEMMA PlainReboot == ASSUME Plain, Reboot PROVE Plain'
<1>1. \A s \in Scripts : script'[s] = NoScript
  BY DEF Reboot
<1>2. script' \in [Scripts -> Script]
  BY DEF Reboot, Script, NoScript
<1>3. Places'
  BY <1>1, ServiceAssumption DEF Places, NoScript, Installing, MenuVerbs
<1>4. /\ state' = "stopped" /\ ran' = None /\ listen' = None /\ saving' = None
      /\ old' = "stopped" /\ recover' \in BOOLEAN /\ UNCHANGED <<stored, outVars, mode>>
  BY DEF Reboot
<1>5. entry' \in {"none", "present", "leaving"} /\ exe' \in Exes \cup {None}
  BY DEF Reboot, Plain, TypeOK
<1> QED
  BY <1>2, <1>3, <1>4, <1>5 DEF Plain, TypeOK, RunningAnswers, SavingRuns, outVars

\* What a command line begins with: its verb, its first place, and what that
\* place will read.
Starts(s, j) ==
  /\ Begin(s, j) /\ j.at # "done" /\ j.verb # "none" /\ j.code = None
  /\ \/ /\ j.verb = "install" /\ j.at = "install"
        /\ j.addr = AddressOf([Unset EXCEPT !.port = j.port]) /\ j.addr \in Address
     \/ j.verb = "uninstall" /\ j.at = "control"
     \/ j.verb \in MenuVerbs /\ j.at = IF j.verb = "start" THEN "netstart" ELSE "netstop"

\* Every command line begins so.
LEMMA Begins ==
  ASSUME NEW s \in Scripts,
         \/ Install(s) \/ Uninstall(s)
         \/ \E verb \in MenuVerbs : Menu(s, verb)
  PROVE  \E j \in Script : Starts(s, j)
<1>1. CASE Install(s)
  <2>1. PICK p \in Ports \cup {None}, e \in Exes :
          Begin(s, [NoScript EXCEPT !.verb = "install", !.at = "install", !.port = p,
                      !.exe = e, !.addr = AddressOf([Unset EXCEPT !.port = p])])
    BY <1>1 DEF Install
  <2> DEFINE a == AddressOf([Unset EXCEPT !.port = p])
             j == [NoScript EXCEPT !.verb = "install", !.at = "install", !.port = p,
                     !.exe = e, !.addr = a]
  <2>2. a \in Address
    <3>1. [Unset EXCEPT !.port = p] \in [port : Ports \cup {None}, bind : Binds \cup {None}]
      BY DEF Unset
    <3> QED BY <3>1, AddressTyped
  <2> HIDE DEF a
  <2>3. /\ j \in Script /\ j.verb = "install" /\ j.at = "install" /\ j.addr = a
        /\ j.code = None /\ j.port = p
    BY <2>2 DEF NoScript, Script, Verbs
  <2>4. Begin(s, j)
    BY <2>1 DEF a
  <2> QED BY <2>2, <2>3, <2>4 DEF a, Starts
<1>2. CASE Uninstall(s)
  <2> DEFINE j == [NoScript EXCEPT !.verb = "uninstall", !.at = "control"]
  <2>1. j \in Script /\ j.verb = "uninstall" /\ j.at = "control" /\ j.code = None
    BY DEF NoScript, Script, Verbs
  <2> QED BY <1>2, <2>1 DEF Uninstall, Starts
<1>3. CASE \E verb \in MenuVerbs : Menu(s, verb)
  <2>1. PICK verb \in MenuVerbs : Menu(s, verb)
    BY <1>3
  <2> DEFINE place == IF verb = "start" THEN "netstart" ELSE "netstop"
             j == [NoScript EXCEPT !.verb = verb, !.at = place]
  <2>2. place \in {"netstart", "netstop"} /\ verb \in Verbs \ {"none"}
    BY DEF MenuVerbs, Verbs
  <2>3. Begin(s, j)
    BY <2>1 DEF Menu
  <2> HIDE DEF place
  <2>4. j \in Script /\ j.verb = verb /\ j.at = place /\ j.code = None
    BY <2>2 DEF NoScript, Script
  <2> QED BY <2>2, <2>3, <2>4 DEF place, Starts
<1> QED BY <1>1, <1>2, <1>3

\* Beginning it changes nothing but its own record.
LEMMA PlainBegin ==
  ASSUME Plain, NEW s \in Scripts, NEW j \in Script, Starts(s, j)
  PROVE  Plain'
<1>1. Begin(s, j)
  BY DEF Starts
<1>2. /\ script' \in [Scripts -> Script] /\ script'[s] = j
      /\ \A t \in Scripts : t # s => script'[t] = script[t]
  BY <1>1, BeginIs DEF Plain, TypeOK
<1>3. Places'
  BY <1>2 DEF Starts, Plain, Places, Installing, MenuVerbs
<1>4. UNCHANGED <<settingVars, entry, exe, procVars, outVars, mode>>
  BY <1>1 DEF Begin
<1> QED
  BY <1>2, <1>3, <1>4 DEF Plain, TypeOK, RunningAnswers, SavingRuns, settingVars, procVars,
                          outVars

\* Each step of a command line leaves it at a place it can be at, with what
\* that place reads, and changes the rest as its types demand.
LEMMA PlainCommand ==
  ASSUME Plain, NEW s \in Scripts, Command(s)
  PROVE  Plain'
<1> DEFINE Else == /\ script' \in [Scripts -> Script]
                   /\ \A t \in Scripts : t # s => script'[t] = script[t]
           Went(place) == /\ Else
                          /\ script'[s].at = place
                          /\ script'[s].verb = script[s].verb
                          /\ script'[s].addr = script[s].addr
                          /\ script'[s].code = script[s].code
           Ended == /\ Else
                    /\ script'[s].at = "done" /\ script'[s].verb = "none"
<1>1. \A place \in PlaceNames : GoTo(s, place) => Went(place)
  BY GoToIs DEF Plain, TypeOK
<1>2. \A c \in {0, 1, 11, None} : Finish(s, c) => Ended
  BY FinishIs DEF Plain, TypeOK
<1>3. AddressOf(stored) \in Address
  BY AddressTyped DEF Plain, TypeOK
<1>4. \A a \in Address : RuleFor(a) \in Ports \cup {None} /\ a.port \in Ports
  BY RuleTyped
<1>5. script[s] \in Script
  BY DEF Plain, TypeOK
<1> USE DEF Plain, TypeOK, Places, RunningAnswers, SavingRuns, settingVars, procVars, outVars,
            PlaceNames, Installing, MenuVerbs, Script
<1>6. CASE NetStop(s)
  BY <1>1, <1>2, <1>4, <1>5, <1>6 DEF NetStop, AfterStop
<1>7. CASE NetStopped(s)
  BY <1>1, <1>2, <1>4, <1>5, <1>7 DEF NetStopped, AfterStop
<1>8. CASE NetStart(s)
  BY <1>1, <1>2, <1>4, <1>5, <1>8 DEF NetStart, Launch
<1>9. CASE ReadSettings(s)
  <2>1. CASE GoTo(s, "netstart")
    BY <1>1, <1>5, <1>9, <2>1 DEF ReadSettings
  <2>2. CASE script' = [script EXCEPT ![s].addr = AddressOf(stored), ![s].at = "rule"]
    <3>1. /\ script' \in [Scripts -> Script]
          /\ \A t \in Scripts : t # s => script'[t] = script[t]
          /\ script'[s].at = "rule" /\ script'[s].addr = AddressOf(stored)
          /\ script'[s].verb = script[s].verb /\ script'[s].code = script[s].code
      BY <1>3, <1>5, <2>2
    <3> QED BY <1>3, <1>5, <1>9, <3>1 DEF ReadSettings
  <2> QED BY <1>9, <2>1, <2>2 DEF ReadSettings
<1>10. CASE PointRule(s)
  BY <1>1, <1>2, <1>4, <1>5, <1>10 DEF PointRule
<1>11. CASE Publish(s)
  BY <1>1, <1>2, <1>4, <1>5, <1>11 DEF Publish
<1>12. CASE InstallPort(s)
  BY <1>1, <1>2, <1>4, <1>5, <1>12 DEF InstallPort
<1>13. CASE OpenService(s)
  BY <1>1, <1>2, <1>4, <1>5, <1>13 DEF OpenService
<1>14. CASE StopOld(s)
  BY <1>1, <1>2, <1>4, <1>5, <1>14 DEF StopOld
<1>15. CASE OldStopped(s)
  BY <1>1, <1>2, <1>4, <1>5, <1>15 DEF OldStopped
<1>16. CASE Update(s)
  BY <1>1, <1>2, <1>4, <1>5, <1>16 DEF Update
<1>17. CASE Create(s)
  <2>1. script' \in [Scripts -> Script] /\ Places'
    BY <1>1, <1>2, <1>5, <1>17 DEF Create
  <2>2. /\ entry' \in {"none", "present", "leaving"} /\ exe' \in Exes \cup {None}
        /\ recover' \in BOOLEAN
    BY <1>5, <1>17 DEF Create
  <2> QED BY <1>17, <2>1, <2>2 DEF Create
<1>18. CASE Grant(s)
  BY <1>1, <1>2, <1>4, <1>5, <1>18 DEF Grant
<1>19. CASE StartService(s)
  BY <1>1, <1>2, <1>4, <1>5, <1>19 DEF StartService, Launch
<1>20. CASE Verify(s)
  BY <1>1, <1>2, <1>4, <1>5, <1>20 DEF Verify
<1>21. CASE ControlStop(s)
  BY <1>1, <1>2, <1>4, <1>5, <1>21 DEF ControlStop
<1>22. CASE Delete(s)
  BY <1>1, <1>2, <1>4, <1>5, <1>22 DEF Delete
<1>23. CASE Withdraw(s)
  BY <1>1, <1>2, <1>4, <1>5, <1>23 DEF Withdraw
<1>24. CASE Unpublish(s)
  BY <1>1, <1>2, <1>4, <1>5, <1>24 DEF Unpublish
<1> QED
  BY <1>6, <1>7, <1>8, <1>9, <1>10, <1>11, <1>12, <1>13, <1>14, <1>15, <1>16, <1>17, <1>18, <1>19, <1>20, <1>21, <1>22, <1>23, <1>24 DEF Command

\* Every step keeps the types and what every behavior keeps.
LEMMA PlainNext == Plain /\ [Next]_serviceVars => Plain'
<1> SUFFICES ASSUME Plain, [Next]_serviceVars PROVE Plain'
  OBVIOUS
<1>1. CASE UNCHANGED serviceVars
  BY <1>1 DEF serviceVars, Plain, TypeOK, Places, RunningAnswers, SavingRuns
<1>2. CASE Process \/ Crash \/ Elsewhere \/ Gone \/ SavePort
  BY <1>2, PlainProcess
<1>3. CASE Reboot
  BY <1>3, PlainReboot
<1>4. ASSUME NEW s \in Scripts, Commands(s) PROVE Plain'
  BY <1>4, Begins, PlainBegin, PlainCommand DEF Commands, MenuVerbs
<1> QED
  BY <1>1, <1>2, <1>3, <1>4 DEF Next, Interference

(***************************************************************************)
(* The types of the settings, the service, the process and the command     *)
(* lines, in every behavior (service_windows.go, app.go).                  *)
(***************************************************************************)
THEOREM ServiceTypes == Spec => []TypeOK
<1>1. Init => Plain
  BY InitPlain
<1>2. Plain /\ [Next]_serviceVars => Plain'
  BY PlainNext
<1>3. Plain => TypeOK
  BY DEF Plain
<1> QED
  BY <1>1, <1>2, <1>3, PTL DEF Spec

(***************************************************************************)
(* A service that says it is running has a console to open, and one that   *)
(* is stopped holds no address, whoever stops, starts, kills or reinstalls *)
(* it, and however many command lines are at it (app.go 32-36).            *)
(***************************************************************************)
THEOREM RunningServiceAnswers == Spec => []RunningAnswers
<1>1. Init => Plain
  BY InitPlain
<1>2. Plain /\ [Next]_serviceVars => Plain'
  BY PlainNext
<1>3. Plain => RunningAnswers
  BY DEF Plain
<1> QED
  BY <1>1, <1>2, <1>3, PTL DEF Spec

-----------------------------------------------------------------------------

(***************************************************************************)
(* Orderly behaviors.                                                      *)
(***************************************************************************)
\* Orderly behaviors start out with nothing at work.
LEMMA InitOrderly == Init => OrderlyInv
BY DEF Init, OrderlyInv, Alone, OldKept, Past, Progress, RanRegistered, Busy, NoScript

\* What the process does by itself keeps it; the service manager does nothing.
LEMMA OrderlyProcess ==
  ASSUME Plain, calm, OrderlyInv, Process \/ Interference \/ SavePort
  PROVE  OrderlyInv'
<1> USE DEF OrderlyInv, Alone, OldKept, Past, Progress, RanRegistered, Busy, procVars
<1>1. CASE Listen
  BY <1>1 DEF Listen
<1>2. CASE Report
  BY <1>2 DEF Report
<1>3. CASE StartFails
  BY <1>3 DEF StartFails
<1>4. CASE CloseListeners
  BY <1>4 DEF CloseListeners
<1>5. CASE Stopped
  BY <1>5 DEF Stopped
<1>6. CASE Recover
  BY <1>6 DEF Recover
<1>7. CASE SaveBind
  BY <1>7 DEF SaveBind
<1>8. CASE SavePort
  BY <1>8 DEF SavePort
<1>9. ~Interference
  BY DEF Interference, Crash, Reboot, Elsewhere, Gone
<1> QED
  BY <1>1, <1>2, <1>3, <1>4, <1>5, <1>6, <1>7, <1>8, <1>9 DEF Process

\* A command line begins only when there is no other, and what is on its way
\* down then is what an install did not wait for.
LEMMA OrderlyBegin ==
  ASSUME Plain, calm, OrderlyInv, NEW s \in Scripts, NEW j \in Script, Starts(s, j)
  PROVE  OrderlyInv'
<1>1. /\ Begin(s, j) /\ Orderly(j.verb)
      /\ \/ j.verb = "install" /\ j.at = "install"
         \/ j.verb \in MenuVerbs /\ j.at \in {"netstop", "netstart"}
  BY DEF Starts, Begin, Orderly, MenuVerbs
<1>2. \A t \in Scripts : script'[t] = IF t = s THEN j ELSE script[t]
  BY <1>1 DEF Begin, Plain, TypeOK
<1>3. \A t \in Scripts : script[t].at = "done" /\ script[t].verb = "none"
  BY <1>1 DEF Orderly, Busy, Plain, Places
<1>4. state = "stopping" => old = "late"
  BY <1>3 DEF OrderlyInv, Progress
<1>5. UNCHANGED <<entry, exe, state, recover, ran, old>>
  BY <1>1 DEF Begin, procVars
<1>6. Alone'
  BY <1>1, <1>2, <1>3, <1>5 DEF OrderlyInv, Alone, Busy, MenuVerbs
<1>7. Progress'
  BY <1>1, <1>2, <1>3, <1>4, <1>5 DEF Progress, MenuVerbs
<1> QED
  BY <1>5, <1>6, <1>7 DEF OrderlyInv, OldKept, RanRegistered

\* Each step of the only command line there is.
LEMMA OrderlyCommand ==
  ASSUME Plain, calm, OrderlyInv, NEW s \in Scripts, Command(s)
  PROVE  OrderlyInv'
<1> DEFINE Went(place) == /\ script'[s].at = place
                          /\ script'[s].verb = script[s].verb
           Ended == script'[s].at = "done" /\ script'[s].verb = "none"
<1>1. \A place \in PlaceNames : GoTo(s, place) => Went(place)
  BY GoToIs DEF Plain, TypeOK
<1>2. \A c \in {0, 1, 11, None} : Finish(s, c) => Ended
  BY FinishIs DEF Plain, TypeOK
<1>3. script[s].at # "done" /\ \A t \in Scripts : t # s => script'[t] = script[t]
  BY DEF Plain, TypeOK, GoTo, Finish, Command, AfterStop, NetStop, NetStopped, NetStart,
         ReadSettings, PointRule, Publish, InstallPort, OpenService, StopOld, OldStopped,
         Update, Create, Grant, StartService, Verify, ControlStop, Delete, Withdraw, Unpublish
<1>4. \A t \in Scripts : t # s => /\ script[t].at = "done" /\ script[t].verb = "none"
                                  /\ script'[t].at = "done" /\ script'[t].verb = "none"
  BY <1>3 DEF OrderlyInv, Alone, Busy, Plain, Places
<1> DEFINE v == script[s].verb
           p == script[s].at
           w == script'[s].verb
           q == script'[s].at
\* Stated for the only command line, which is all there is to show.
<1>5. ASSUME w \in {v, "none"}, w # "uninstall", entry' # "leaving", ~recover',
             entry' = "none" => state' = "stopped",
             state' = "stopping" => old' = "late" \/ q \in {"stopping", "stopwait"},
             q \in {"stopping", "stopwait"} => state' \in {"stopped", "stopping"} /\ old' # "late",
             w = "install" /\ q \in {"update", "create", "grant", "rule", "publish", "startit"}
               => Past',
             w = "install" /\ q \in {"grant", "rule", "publish", "startit"}
               => entry' = "present",
             q = "verify" => state' \in {"stopped", "stopping"},
             OldKept', RanRegistered'
      PROVE  OrderlyInv'
  <2>1. Alone'
    BY <1>4, <1>5 DEF Alone, Busy
  <2>2. Progress'
    BY <1>4, <1>5 DEF Progress
  <2> QED BY <1>5, <2>1, <2>2 DEF OrderlyInv
<1>6. state = "stopping" => old = "late" \/ p \in {"stopping", "stopwait"}
  BY <1>4 DEF OrderlyInv, Progress
<1> USE DEF Plain, TypeOK, Places, OrderlyInv, Alone, OldKept, Past, Progress, RanRegistered,
            PlaceNames, Installing, MenuVerbs, procVars
<1>7. CASE NetStop(s)
  BY <1>1, <1>2, <1>5, <1>6, <1>7 DEF NetStop, AfterStop
<1>8. CASE NetStopped(s)
  BY <1>1, <1>2, <1>5, <1>6, <1>8 DEF NetStopped, AfterStop
<1>9. CASE NetStart(s)
  BY <1>1, <1>2, <1>5, <1>6, <1>9 DEF NetStart, Launch
<1>10. CASE ReadSettings(s)
  <2>1. script' = [script EXCEPT ![s].addr = AddressOf(stored), ![s].at = "rule"]
        => Went("rule")
    <3>1. script[s] \in Script
      OBVIOUS
    <3> QED BY <3>1 DEF Script
  <2>2. GoTo(s, "netstart") => Went("netstart")
    BY <1>1
  <2>3. Went("rule") \/ Went("netstart")
    BY <1>10, <2>1, <2>2 DEF ReadSettings
  <2> QED BY <1>5, <1>6, <1>10, <2>3 DEF ReadSettings
<1>11. CASE PointRule(s)
  BY <1>1, <1>2, <1>5, <1>6, <1>11 DEF PointRule
<1>12. CASE Publish(s)
  BY <1>1, <1>2, <1>5, <1>6, <1>12 DEF Publish
<1>13. CASE InstallPort(s)
  BY <1>1, <1>2, <1>5, <1>6, <1>13 DEF InstallPort
<1>14. CASE OpenService(s)
  BY <1>1, <1>2, <1>5, <1>6, <1>14 DEF OpenService
<1>15. CASE StopOld(s)
  BY <1>1, <1>2, <1>5, <1>6, <1>15 DEF StopOld
<1>16. CASE OldStopped(s)
  BY <1>1, <1>2, <1>5, <1>6, <1>16 DEF OldStopped
<1>17. CASE Update(s)
  BY <1>1, <1>2, <1>5, <1>6, <1>17 DEF Update
<1>18. CASE Create(s)
  BY <1>1, <1>2, <1>5, <1>6, <1>18 DEF Create
<1>19. CASE Grant(s)
  BY <1>1, <1>2, <1>5, <1>6, <1>19 DEF Grant
<1>20. CASE StartService(s)
  BY <1>1, <1>2, <1>5, <1>6, <1>20 DEF StartService, Launch
<1>21. CASE Verify(s)
  BY <1>1, <1>2, <1>5, <1>6, <1>21 DEF Verify
<1>22. ~ControlStop(s)
  BY DEF ControlStop
<1>23. ~Delete(s)
  BY DEF Delete
<1>24. ~Withdraw(s)
  BY DEF Withdraw
<1>25. ~Unpublish(s)
  BY DEF Unpublish
<1> QED
  BY <1>7, <1>8, <1>9, <1>10, <1>11, <1>12, <1>13, <1>14, <1>15, <1>16, <1>17, <1>18, <1>19, <1>20, <1>21, <1>22, <1>23, <1>24, <1>25 DEF Command

\* No step of an orderly behavior loses what it keeps.
LEMMA OrderlyNext ==
  ASSUME Plain, calm => OrderlyInv, [Next]_serviceVars
  PROVE  (calm => OrderlyInv)' /\ mode' = mode
<1>1. mode' = mode
  BY DEF Next, Process, Listen, Report, StartFails, CloseListeners, Stopped, Recover,
         SaveBind, Interference, Crash, Reboot, Elsewhere, Gone, SavePort, Commands,
         Install, Uninstall, Menu, Begin, Command, NetStop, NetStopped, NetStart,
         ReadSettings, PointRule, Publish, InstallPort, OpenService, StopOld, OldStopped,
         Update, Create, Grant, StartService, Verify, ControlStop, Delete, Withdraw,
         Unpublish, serviceVars
<1>2. SUFFICES ASSUME calm, OrderlyInv PROVE OrderlyInv'
  BY <1>1 DEF calm
<1>3. CASE UNCHANGED serviceVars
  BY <1>2, <1>3 DEF serviceVars, OrderlyInv, Alone, OldKept, Past, Progress, RanRegistered, Busy
<1>4. CASE Process \/ Interference \/ SavePort
  BY <1>2, <1>4, OrderlyProcess
<1>5. ASSUME NEW s \in Scripts, Commands(s) PROVE OrderlyInv'
  BY <1>2, <1>5, Begins, OrderlyBegin, OrderlyCommand DEF Commands, MenuVerbs
<1> QED
  BY <1>3, <1>4, <1>5 DEF Next

\* What an orderly behavior is in, at each step.
Orderlies == Plain /\ (calm => OrderlyInv)

\* Orderly or not, every state is one of these.
LEMMA OrderliesAlways == Spec => []Orderlies
<1>1. Init => Orderlies
  BY InitPlain, InitOrderly DEF Orderlies
<1>2. Orderlies /\ [Next]_serviceVars => Orderlies'
  BY PlainNext, OrderlyNext DEF Orderlies
<1> QED
  BY <1>1, <1>2, PTL DEF Spec

(***************************************************************************)
(* In an orderly behavior a process that runs is the program that is       *)
(* registered, once no command line is at work: an install over a running  *)
(* program changes the registration when that has stopped, or is on its    *)
(* way down for good.  The one that gets past it is an install that finds  *)
(* the service on its way up (service_windows.go 561-564, 641-650).        *)
(***************************************************************************)
THEOREM RunningIsRegistered == Spec => []RunsRegistered
<1>1. Orderlies => RunsRegistered
  BY DEF Orderlies, OrderlyInv, RanRegistered, RunsRegistered
<1> QED
  BY <1>1, OrderliesAlways, PTL

(***************************************************************************)
(* In an orderly behavior an install that reports success leaves the       *)
(* service on its way up or running, if the old process was not still on   *)
(* its way down: the start is asked for once that has stopped, and waiting *)
(* for the new one is never needed (service_windows.go 391-404).           *)
(***************************************************************************)
THEOREM InstallStartsIt == Spec => InstallStarts
<1>1. Orderlies /\ [Next]_serviceVars
      => [\A s \in Scripts :
            calm /\ old # "late" /\ script[s].verb = "install" /\ script'[s].code = 0
            => state' \in {"starting", "running"}]_serviceVars
  <2> SUFFICES ASSUME Orderlies, Next, NEW s \in Scripts, calm, old # "late",
                      script[s].verb = "install", script'[s].code = 0
               PROVE  state' \in {"starting", "running"}
    OBVIOUS
  <2>1. Plain /\ OrderlyInv
    BY DEF Orderlies
  <2>2. script[s].at # "done" /\ script[s].code = None /\ None # 0 /\ None # 1 /\ None # 11
    BY <2>1, ServiceAssumption DEF Plain, Places
  <2>3. CASE Process \/ Interference \/ SavePort
    <3>1. script' = script
      BY <2>1, <2>3
         DEF OrderlyInv, Alone, Process, Listen, Report, StartFails, CloseListeners, Stopped,
             Recover, SaveBind, Interference, Crash, Reboot, Elsewhere, Gone, SavePort
    <3> QED BY <2>2, <3>1
  <2>4. ASSUME NEW t \in Scripts, Commands(t) PROVE state' \in {"starting", "running"}
    <3>1. ~(\/ Install(t) \/ Uninstall(t) \/ \E verb \in MenuVerbs : Menu(t, verb))
      BY <2>2 DEF Install, Uninstall, Menu, Begin, Orderly, Busy
    <3>2. Command(t)
      BY <2>4, <3>1 DEF Commands, MenuVerbs
    <3>3. \A place \in PlaceNames : GoTo(t, place) => script'[s].code = script[s].code
      BY <2>1, GoToIs DEF Plain, TypeOK
    <3>4. \A c \in {0, 1, 11, None} :
            Finish(t, c) => script'[s].code = IF s = t THEN c ELSE script[s].code
      BY <2>1, FinishIs DEF Plain, TypeOK
    <3>5. script[t].at = "firewall" => script'[s].code = script[s].code
      <4> SUFFICES ASSUME script[t].at = "firewall"
                   PROVE  script'[s].code = script[s].code
        OBVIOUS
      <4>1. s # t
        BY <2>1 DEF Plain, Places
      <4> QED
        BY <2>1, <2>2, <4>1 DEF OrderlyInv, Alone, Busy
    <3>6. s = t /\ StartService(s) /\ Finish(s, 0)
      BY <2>1, <2>2, <3>2, <3>3, <3>4, <3>5
         DEF Command, NetStop, NetStopped, NetStart, AfterStop, ReadSettings, PointRule,
             Publish, InstallPort, OpenService, StopOld, OldStopped, Update, Create, Grant,
             StartService, Verify, ControlStop, Delete, Withdraw, Unpublish, PlaceNames,
             Installing, OrderlyInv, Alone, Busy, Progress, Plain, Places
    <3> QED
      BY <2>1, <2>2, <3>6 DEF StartService, Launch, OrderlyInv, OldKept, Past, Progress, Plain, TypeOK
  <2> QED BY <2>3, <2>4 DEF Next
<1> QED
  BY <1>1, OrderliesAlways, PTL DEF Spec, InstallStarts

-----------------------------------------------------------------------------

(***************************************************************************)
(* Restart.                                                                *)
(***************************************************************************)
\* Behaviors with Restart start out with nothing to agree on.
LEMMA InitRestart == Init => RestartInv
BY DEF Init, RestartInv, RestartPlaces, RestartAgrees, NoScript

\* What the process does by itself: an address is stored while the service
\* runs, and read while it starts.
LEMMA RestartProcess ==
  ASSUME Plain, OrderlyInv, RestartInv, calm, Process \/ Interference \/ SavePort
  PROVE  RestartInv'
<1>1. ~Interference
  BY DEF Interference, Crash, Reboot, Elsewhere, Gone, OrderlyInv, Alone
<1>2. UNCHANGED <<entry, script, outVars>>
  BY <1>1 DEF Process, Listen, Report, StartFails, CloseListeners, Stopped, Recover, SaveBind,
              SavePort, OrderlyInv, Alone
<1>3. AddressOf(stored) # None
  BY AddressTyped DEF Plain, TypeOK
<1> USE DEF Plain, TypeOK, SavingRuns, OrderlyInv, Alone, RestartInv, RestartAgrees, Agree,
            Outside, settingVars, outVars, procVars
<1>4. ASSUME state' = state \/ state \in {"starting", "stopping"}, stored' = stored
      PROVE  RestartPlaces'
  BY <1>2, <1>4 DEF RestartPlaces
<1>5. ASSUME state \in {"running", "stopping"}, state' = state PROVE RestartPlaces'
  <2>1. \A s \in Scripts :
          script[s].at \notin {"install", "open", "create", "grant", "rule", "publish",
                              "firewall", "netstart", "startit"}
    BY <1>5 DEF RestartPlaces, Places, Installing
  <2> QED BY <1>2, <1>5, <2>1 DEF RestartPlaces
<1>6. CASE Listen
  BY <1>2, <1>3, <1>4, <1>6 DEF Listen
<1>7. CASE Report
  BY <1>2, <1>3, <1>4, <1>7 DEF Report
<1>8. CASE StartFails
  BY <1>2, <1>3, <1>4, <1>8 DEF StartFails
<1>9. CASE CloseListeners
  BY <1>2, <1>3, <1>4, <1>9 DEF CloseListeners
<1>10. CASE Stopped
  BY <1>2, <1>3, <1>4, <1>10 DEF Stopped
<1>11. CASE Recover
  BY <1>2, <1>3, <1>4, <1>11 DEF Recover
<1>12. CASE SaveBind
  <2>1. RestartPlaces'
    BY <1>2, <1>5, <1>12 DEF SaveBind
  <2> QED BY <1>2, <1>12, <2>1 DEF SaveBind
<1>13. CASE SavePort
  <2>1. RestartPlaces'
    BY <1>2, <1>5, <1>13 DEF SavePort
  <2> QED BY <1>2, <1>13, <2>1 DEF SavePort
<1> QED
  BY <1>1, <1>6, <1>7, <1>8, <1>9, <1>10, <1>11, <1>12, <1>13 DEF Process

\* Where there is nothing but Restart, a command line is that, or the first
\* install.
LEMMA RestartBegin ==
  ASSUME Plain, OrderlyInv, RestartInv, mode = "restart",
         NEW s \in Scripts, NEW j \in Script, Starts(s, j)
  PROVE  RestartInv'
<1>1. /\ Begin(s, j)
      /\ \/ /\ j.verb = "install" /\ j.at = "install" /\ entry = "none" /\ stored = Unset
            /\ j.addr = AddressOf([Unset EXCEPT !.port = j.port])
         \/ j.verb = "restart" /\ j.at = "netstop" /\ state = "running"
  BY DEF Starts, Begin, Orderly, MenuVerbs, calm
<1>2. \A t \in Scripts : script'[t] = IF t = s THEN j ELSE script[t]
  BY <1>1 DEF Begin, Plain, TypeOK
<1>3. UNCHANGED <<stored, entry, state, listen, rule, info>>
  BY <1>1 DEF Begin, settingVars, procVars, outVars
<1>4. RestartPlaces'
  BY <1>1, <1>2, <1>3 DEF RestartInv, RestartPlaces, OrderlyInv, Alone, Outside
<1> QED
  BY <1>3, <1>4 DEF RestartInv, RestartAgrees, Agree, Outside

\* Each step of Restart, and of the first install.
LEMMA RestartCommand ==
  ASSUME Plain, OrderlyInv, RestartInv, calm, NEW s \in Scripts, Command(s)
  PROVE  RestartInv'
<1> DEFINE Went(place) == /\ script'[s].at = place
                          /\ script'[s].verb = script[s].verb
                          /\ script'[s].addr = script[s].addr
                          /\ script'[s].port = script[s].port
           Ended == script'[s].at = "done" /\ script'[s].verb = "none"
<1>1. \A place \in PlaceNames : GoTo(s, place) => Went(place)
  BY GoToIs DEF Plain, TypeOK
<1>2. \A c \in {0, 1, 11, None} : Finish(s, c) => Ended
  BY FinishIs DEF Plain, TypeOK
<1>3. script[s].at # "done" /\ \A t \in Scripts : t # s => script'[t] = script[t]
  BY DEF Plain, TypeOK, GoTo, Finish, Command, AfterStop, NetStop, NetStopped, NetStart,
         ReadSettings, PointRule, Publish, InstallPort, OpenService, StopOld, OldStopped,
         Update, Create, Grant, StartService, Verify, ControlStop, Delete, Withdraw, Unpublish
<1>4. \A t \in Scripts : t # s => script'[t].at = "done" /\ script'[t].verb = "none"
  BY <1>3 DEF OrderlyInv, Alone, Busy, Plain, Places
<1> DEFINE i == script[s]
           j == script'[s]
\* Stated for the only command line, which is all there is to show.
<1>5. ASSUME j.verb \in {"none", "install", "restart"},
             j.at \notin {"install", "netstop", "stop", "stopwait", "update", "verify"},
             j.verb = "install" => state' = "stopped",
             j.at = "open" => entry' = "none",
             j.at \in {"firewall", "rule", "publish", "netstart", "startit"}
               => state' = "stopped",
             j.at \in {"open", "create", "grant", "rule", "publish"}
               => j.addr = AddressOf(stored'),
             j.at = "publish" => rule' = RuleFor(j.addr),
             j.at \in {"netstart", "startit"} => Outside(AddressOf(stored))'
      PROVE  RestartPlaces'
  BY <1>4, <1>5 DEF RestartPlaces
<1>6. /\ i.verb \in {"install", "restart"} /\ i.at \notin {"stop", "stopwait", "update", "verify"}
      /\ i.at \in Installing => i.verb = "install"
      /\ i.at \in {"netstop", "stopping", "netstart", "firewall"} => i.verb = "restart"
  BY <1>3 DEF Plain, Places, RestartInv, RestartPlaces, MenuVerbs
<1>7. /\ i.verb = "install" => state = "stopped"
      /\ i.at = "install" =>
           stored = Unset /\ entry = "none" /\ i.addr = AddressOf([Unset EXCEPT !.port = i.port])
      /\ i.at = "open" => entry = "none"
      /\ i.at = "netstop" => state = "running"
      /\ i.at \in {"firewall", "rule", "publish", "netstart", "startit"} => state = "stopped"
      /\ i.at \in {"open", "create", "grant", "rule", "publish"} => i.addr = AddressOf(stored)
      /\ i.at = "publish" => rule = RuleFor(i.addr)
      /\ i.at \in {"netstart", "startit"} => Outside(AddressOf(stored))
  BY DEF RestartInv, RestartPlaces
<1>8. RestartAgrees /\ (state = "stopped" => listen = None)
  BY DEF RestartInv, Plain, RunningAnswers
<1>9. i \in Script
  BY DEF Plain, TypeOK
<1>10. /\ i.verb # "uninstall"
       /\ i.at = "startit" => entry = "present"
       /\ i.at \in {"control", "delete", "withdraw", "unpublish"} => i.verb = "uninstall"
  BY <1>6 DEF OrderlyInv, Alone, Progress, Installing, Plain, Places
<1> USE DEF RestartInv, RestartAgrees, Agree, Outside, PlaceNames, Installing, settingVars,
            procVars, outVars
<1>11. CASE NetStop(s)
  BY <1>1, <1>2, <1>5, <1>6, <1>7, <1>8, <1>11 DEF NetStop, AfterStop
<1>12. CASE NetStopped(s)
  BY <1>1, <1>2, <1>5, <1>6, <1>7, <1>8, <1>12 DEF NetStopped, AfterStop
<1>13. CASE NetStart(s)
  BY <1>1, <1>2, <1>5, <1>6, <1>7, <1>8, <1>13 DEF NetStart, Launch
<1>14. CASE ReadSettings(s)
  <2>1. script' = [script EXCEPT ![s].addr = AddressOf(stored), ![s].at = "rule"]
    BY <1>14 DEF ReadSettings
  <2>2. j.at = "rule" /\ j.verb = "restart" /\ j.addr = AddressOf(stored)
    BY <1>6, <1>9, <1>14, <2>1 DEF ReadSettings, Script, Plain, TypeOK
  <2> QED BY <1>5, <1>6, <1>7, <1>8, <1>14, <2>2 DEF ReadSettings
<1>15. CASE PointRule(s)
  BY <1>1, <1>2, <1>5, <1>6, <1>7, <1>8, <1>15 DEF PointRule
<1>16. CASE Publish(s)
  BY <1>1, <1>2, <1>5, <1>6, <1>7, <1>8, <1>16 DEF Publish
<1>17. CASE InstallPort(s)
  <2>1. /\ stored' = [Unset EXCEPT !.port = IF i.port = None THEN @ ELSE i.port]
        /\ GoTo(s, "open") /\ i.at = "install" /\ state = "stopped"
        /\ UNCHANGED <<entry, state>>
    BY <1>6, <1>7, <1>17 DEF InstallPort
  <2>2. AddressOf(stored') = AddressOf([Unset EXCEPT !.port = i.port])
    BY <2>1 DEF AddressOf, Unset
  <2>3. Went("open")
    BY <1>1, <2>1
  <2>4. RestartPlaces'
    BY <1>5, <1>6, <1>7, <2>1, <2>2, <2>3
  <2> QED BY <2>1, <2>4
<1>18. CASE OpenService(s)
  BY <1>1, <1>2, <1>5, <1>6, <1>7, <1>8, <1>18 DEF OpenService
<1>19. ~StopOld(s)
  BY <1>6 DEF StopOld
<1>20. ~OldStopped(s)
  BY <1>6 DEF OldStopped
<1>21. ~Update(s)
  BY <1>6 DEF Update
<1>22. CASE Create(s)
  BY <1>1, <1>2, <1>5, <1>6, <1>7, <1>8, <1>22 DEF Create
<1>23. CASE Grant(s)
  BY <1>1, <1>2, <1>5, <1>6, <1>7, <1>8, <1>23 DEF Grant
<1>24. CASE StartService(s)
  BY <1>1, <1>2, <1>5, <1>6, <1>7, <1>8, <1>10, <1>24 DEF StartService, Launch
<1>25. ~Verify(s)
  BY <1>6 DEF Verify
<1>26. ~ControlStop(s)
  BY <1>10 DEF ControlStop
<1>27. ~Delete(s)
  BY <1>10 DEF Delete
<1>28. ~Withdraw(s)
  BY <1>10 DEF Withdraw
<1>29. ~Unpublish(s)
  BY <1>10 DEF Unpublish
<1> QED
  BY <1>11, <1>12, <1>13, <1>14, <1>15, <1>16, <1>17, <1>18, <1>19, <1>20,
     <1>21, <1>22, <1>23, <1>24, <1>25, <1>26, <1>27, <1>28, <1>29 DEF Command

\* No step loses it.
LEMMA RestartNext ==
  ASSUME Orderlies, mode = "restart" => RestartInv, [Next]_serviceVars
  PROVE  (mode = "restart" => RestartInv)'
<1>1. mode' = mode
  BY OrderlyNext DEF Orderlies
<1>2. SUFFICES ASSUME mode = "restart", RestartInv PROVE RestartInv'
  BY <1>1
<1>3. Plain /\ OrderlyInv /\ calm
  BY <1>2 DEF Orderlies, calm
<1>4. CASE UNCHANGED serviceVars
  BY <1>2, <1>4 DEF serviceVars, RestartInv, RestartPlaces, RestartAgrees, Outside, Agree
<1>5. CASE Process \/ Interference \/ SavePort
  BY <1>2, <1>3, <1>5, RestartProcess
<1>6. ASSUME NEW s \in Scripts, Commands(s) PROVE RestartInv'
  BY <1>2, <1>3, <1>6, Begins, RestartBegin, RestartCommand DEF Commands, MenuVerbs
<1> QED
  BY <1>4, <1>5, <1>6 DEF Next

(***************************************************************************)
(* Where the service is restarted with Restart, once the stored address is *)
(* the one listened on and no command line is at work, the firewall rule   *)
(* and the published port are that address's: the addresses of any number  *)
(* of saves and restarts, in any order (service_windows.go 464-466).  It   *)
(* does not extend to a program installed over itself.                     *)
(***************************************************************************)
THEOREM RuleFollowsRestart == Spec => []RuleFollows
<1>1. Init => (mode = "restart" => RestartInv)
  BY InitRestart
<1>2. Orderlies /\ (mode = "restart" => RestartInv) /\ [Next]_serviceVars
      => (mode = "restart" => RestartInv)'
  BY RestartNext
<1>3. (mode = "restart" => RestartInv) => RuleFollows
  BY DEF RestartInv, RestartAgrees, RuleFollows, Settled
<1> QED
  BY <1>1, <1>2, <1>3, OrderliesAlways, PTL DEF Spec

-----------------------------------------------------------------------------

(***************************************************************************)
(* The tray beside the service: what it asks, and what it makes known.     *)
(***************************************************************************)
WatchPlaces == {"poll", "find", "again", "publish", "build", "tell"}

Watches == [at : WatchPlaces, st : Health, left : [1..4 -> Ports \cup {None}], data : Faces]

TrayTypes ==
  /\ down \subseteq Targets /\ seen \subseteq Targets /\ told \subseteq Targets
  /\ unsaid \subseteq Targets /\ crossed \in BOOLEAN
  /\ shell \in BOOLEAN /\ posted \in BOOLEAN /\ on \in BOOLEAN
  /\ retry \in BOOLEAN /\ leaving \in BOOLEAN
  /\ icon \in Faces \cup {None} /\ face \in Faces
  /\ remembered \in Ports \cup {None} /\ url \in Ports \cup {None} /\ (on => url \in Ports)
  /\ status \in Health /\ prev \in Health \cup {None}
  /\ watch \in Watches
  /\ ui \in [at : {"idle", "build", "tell"}, data : Faces]

TrayInv == Plain /\ TrayTypes

\* An answer is a count of the targets that are down, and nothing else is one.
LEMMA FetchIs ==
  ASSUME Plain, down \subseteq Targets, NEW p
  PROVE  /\ FetchHealth(p) \in Health
         /\ FetchHealth(p).reachable => FetchHealth(p).down = Cardinality(down)
<1>1. /\ Cardinality(down) \in Nat /\ Cardinality(Targets) \in Nat
      /\ Cardinality(down) <= Cardinality(Targets)
  BY TrayAssumption, FS_Subset, FS_CardinalityType, Zenon
<1>2. AddressOf(stored).port \in Ports
  BY AddressTyped DEF Plain, TypeOK, Address
<1>3. Silent \in Health /\ ~Silent.reachable
  BY <1>1 DEF Silent, Health
<1> QED BY <1>1, <1>2, <1>3 DEF FetchHealth, Health

\* A tray that starts has nothing it was told, whatever is there.
LEMMA BlankIs ==
  /\ Silent \in Health /\ ~Silent.reachable
  /\ Waiting \in Watches
  /\ Waiting.at = "poll" /\ Waiting.st = Silent
  /\ Resting \in [at : {"idle", "build", "tell"}, data : Faces]
<1>1. Cardinality(Targets) \in Nat
  BY TrayAssumption, FS_CardinalityType
<1>2. Silent \in Health /\ ~Silent.reachable
  BY <1>1 DEF Silent, Health
<1> QED BY <1>2 DEF Waiting, Resting, NoPorts, Faces, Watches, WatchPlaces

\* A face is one of the four.
LEMMA FaceIs == \A h : Face(h) \in Faces
BY DEF Face, Faces

\* The tray begins beside a service that runs as the service's own steps
\* leave it.
LEMMA TrayBegins == TrayInit => TrayInv
<1> SUFFICES ASSUME TrayInit PROVE TrayInv
  OBVIOUS
<1>1. NoScript \in Script
  BY DEF NoScript, Script
<1>2. PICK p \in Ports, e \in Exes :
        /\ stored = [Unset EXCEPT !.port = p] /\ saving = None /\ entry = "present" /\ exe = e
        /\ state = "running" /\ recover = FALSE /\ ran = e
        /\ listen = AddressOf(stored) /\ rule = RuleFor(listen) /\ info = p
  BY DEF TrayInit
<1>3. stored \in [port : Ports \cup {None}, bind : Binds \cup {None}]
  BY <1>2 DEF Unset
<1>4. listen \in Address /\ listen # None
  BY <1>2, <1>3, AddressTyped
<1>5. rule \in Ports \cup {None}
  BY <1>2, <1>4, RuleTyped
<1>6. script = [s \in Scripts |-> NoScript] /\ old = "stopped" /\ mode \in Modes
  BY DEF TrayInit
<1>7. TypeOK
  BY <1>1, <1>2, <1>3, <1>4, <1>5, <1>6 DEF TypeOK
<1>8. Places
  BY <1>6, ServiceAssumption DEF Places, NoScript, Installing, MenuVerbs
<1>9. Plain
  BY <1>2, <1>4, <1>7, <1>8 DEF Plain, RunningAnswers, SavingRuns
<1>10. TrayTypes
  BY BlankIs DEF TrayInit, TrayTypes, Faces
<1> QED BY <1>9, <1>10 DEF TrayInv

\* Whatever the tray and its menu do, the service keeps to what it does.
LEMMA PlainBeside ==
  ASSUME Plain, [TrayNext]_vars
  PROVE  Plain'
<1>1. CASE UNCHANGED serviceVars
  BY <1>1 DEF serviceVars, Plain, TypeOK, Places, RunningAnswers, SavingRuns
<1>2. CASE ServiceStep
  <2>1. CASE Process
    BY <2>1, PlainProcess
  <2>2. CASE MovePort
    BY <2>2, PlainProcess DEF MovePort
  <2>3. ASSUME NEW s \in Scripts, Command(s) PROVE Plain'
    BY <2>3, PlainCommand
  <2> QED BY <1>2, <2>1, <2>2, <2>3 DEF ServiceStep
<1>3. ASSUME NEW s \in Scripts, NEW verb \in MenuVerbs, Menu(s, verb) PROVE Plain'
  BY <1>3, Begins, PlainBegin
<1>4. ASSUME NEW s \in Scripts, MenuItem(s) \/ OpenConsole(s) \/ QuitAll(s) PROVE Plain'
  <2>1. CASE MenuItem(s)
    BY <1>3, <2>1 DEF MenuItem, MenuVerbs
  <2>2. CASE OpenConsole(s)
    BY <1>3, <2>2 DEF OpenConsole, MenuVerbs
  <2>3. CASE QuitAll(s)
    BY <1>1, <1>3, <2>3 DEF QuitAll, MenuVerbs
  <2> QED BY <1>4, <2>1, <2>2, <2>3
<1>5. CASE WatchStep \/ UiStep
  <2>1. UNCHANGED serviceVars
    BY <1>5 DEF WatchStep, UiStep, Poll, Try, Settle, Announce, WatchBuilds, WatchTells, RetryAdd,
                TaskbarCreated, UiBuilds, UiTells
  <2> QED BY <1>1, <2>1
<1>6. CASE TrayStart \/ Exit \/ SetLang \/ Quits \/ GoesDown \/ ShellStarts \/ ShellEnds
  <2>1. UNCHANGED serviceVars
    BY <1>6 DEF TrayStart, Exit, SetLang, Quits, Ends, GoesDown, ShellStarts, ShellEnds
  <2> QED BY <1>1, <2>1
<1>7. CASE UNCHANGED vars
  <2>1. UNCHANGED serviceVars
    BY <1>7 DEF vars
  <2> QED BY <1>1, <2>1
<1> QED BY <1>2, <1>4, <1>5, <1>6, <1>7 DEF TrayNext

\* Polling and looking for the console.
LEMMA TypedPoll ==
  ASSUME TrayInv, Poll \/ Try \/ Settle
  PROVE  TrayTypes'
<1>1. \A p : FetchHealth(p) \in Health
  BY FetchIs DEF history, TrayInv, TrayTypes
<1>2. CASE Poll
  <2>1. Candidates(status.configured) \in [1..4 -> Ports \cup {None}]
    <3>1. status.configured \in Ports \cup {None} /\ remembered \in Ports \cup {None}
          /\ info \in Ports \cup {None} /\ DefaultPort \in Ports
      BY ServiceAssumption DEF history, TrayInv, TrayTypes, Plain, TypeOK, Health
    <3> QED BY <3>1 DEF Candidates
  <2>2. Without(Candidates(status.configured), url) \in [1..4 -> Ports \cup {None}]
    BY <2>1 DEF Without
  <2>3. watch' \in Watches /\ seen' \subseteq Targets
    <3>1. \/ /\ watch' = [watch EXCEPT !.at = "publish", !.st = FetchHealth(url)]
             /\ seen' = down
          \/ /\ watch' = [watch EXCEPT !.at = "find", !.left = Without(Candidates(status.configured), url)]
             /\ seen' = seen
      BY <1>2 DEF Poll, Look
    <3>2. {"publish", "find"} \subseteq WatchPlaces
      BY DEF WatchPlaces
    <3>3. watch \in Watches /\ down \subseteq Targets /\ seen \subseteq Targets
      BY DEF history, TrayInv, TrayTypes
    <3>4. [watch EXCEPT !.at = "publish", !.st = FetchHealth(url)] \in Watches
      BY <1>1, <3>2, <3>3 DEF Watches
    <3>5. [watch EXCEPT !.at = "find", !.left = Without(Candidates(status.configured), url)] \in Watches
      BY <2>2, <3>2, <3>3 DEF Watches
    <3> QED BY <3>1, <3>3, <3>4, <3>5
  <2> QED BY <1>2, <2>3 DEF Poll, history, TrayInv, TrayTypes
<1>3. CASE Try
  <2>1. PICK k \in 1..4 : watch.left[k] # None
                          /\ IF FetchHealth(watch.left[k]).reachable
                             THEN /\ url' = watch.left[k] /\ remembered' = watch.left[k]
                                  /\ watch' = [watch EXCEPT !.at = "again", !.left = NoPorts]
                             ELSE /\ watch' = [watch EXCEPT !.left = Without(@, watch.left[k])]
                                  /\ UNCHANGED <<url, remembered>>
    BY <1>3 DEF Try
  <2>2. watch.left[k] \in Ports /\ watch.left \in [1..4 -> Ports \cup {None}]
    BY <2>1 DEF history, TrayInv, TrayTypes, Watches
  <2>3. NoPorts \in [1..4 -> Ports \cup {None}]
        /\ Without(watch.left, watch.left[k]) \in [1..4 -> Ports \cup {None}]
    BY <2>2 DEF NoPorts, Without
  <2>4. /\ watch' \in Watches
        /\ remembered' \in Ports \cup {None} /\ (url' \in Ports \/ url' = url)
    <3>1. "again" \in WatchPlaces /\ watch \in Watches /\ remembered \in Ports \cup {None}
      BY DEF history, TrayInv, TrayTypes, WatchPlaces
    <3>2. [watch EXCEPT !.at = "again", !.left = NoPorts] \in Watches
      BY <2>3, <3>1 DEF Watches
    <3>3. [watch EXCEPT !.left = Without(@, watch.left[k])] \in Watches
      BY <2>3, <3>1 DEF Watches
    <3> QED BY <2>1, <2>2, <3>1, <3>2, <3>3
  <2> QED BY <1>3, <2>4 DEF Try, history, TrayInv, TrayTypes
<1>4. CASE Settle
  <2>1. watch' \in Watches /\ seen' \subseteq Targets
    <3>1. \/ watch' = [watch EXCEPT !.at = "publish", !.st = Silent] /\ seen' = {}
          \/ watch' = [watch EXCEPT !.at = "publish", !.st = FetchHealth(url)] /\ seen' = down
      BY <1>4 DEF Settle, Look
    <3>2. /\ "publish" \in WatchPlaces /\ watch \in Watches
          /\ down \subseteq Targets /\ seen \subseteq Targets
      BY DEF history, TrayInv, TrayTypes, WatchPlaces
    <3>3. \A h \in Health : [watch EXCEPT !.at = "publish", !.st = h] \in Watches
      BY <3>2 DEF Watches
    <3>4. Silent \in Health /\ FetchHealth(url) \in Health
      BY <1>1, BlankIs
    <3> QED BY <3>1, <3>2, <3>3, <3>4
  <2> QED BY <1>4, <2>1 DEF Settle, history, TrayInv, TrayTypes
<1> QED BY <1>2, <1>3, <1>4

\* What is told and what the icon shows.
LEMMA TypedTell ==
  ASSUME TrayInv, Announce \/ WatchBuilds \/ WatchTells \/ RetryAdd \/ UiStep \/ SetLang
  PROVE  TrayTypes'
<1>1. CASE Announce
  <2>1. watch.st \in Health /\ Told(watch.st) \subseteq Targets /\ Unsaid(watch.st) \subseteq Targets
    BY DEF TrayInv, TrayTypes, Told, Unsaid, Watches
  <2>2. watch' \in Watches
    <3>1. {"poll", "build"} \subseteq WatchPlaces /\ watch \in Watches
      BY DEF WatchPlaces, history, TrayInv, TrayTypes
    <3>2. \/ watch' = [watch EXCEPT !.at = "poll", !.st = Silent]
          \/ watch' = [watch EXCEPT !.at = "build", !.st = Silent]
      BY <1>1 DEF Announce
    <3>3. \A a \in WatchPlaces : [watch EXCEPT !.at = a, !.st = Silent] \in Watches
      BY <3>1, BlankIs DEF Watches
    <3> QED BY <3>1, <3>2, <3>3
  <2>3. icon' \in Faces \cup {None}
    BY <1>1 DEF Announce, history, TrayInv, TrayTypes
  <2> QED BY <1>1, <2>1, <2>2, <2>3, FaceIs DEF Announce, history, TrayInv, TrayTypes
<1>2. \A d \in Faces : Modified(d) \in Faces \cup {None}
  BY DEF Modified, history, TrayInv, TrayTypes
<1>3. CASE WatchBuilds \/ WatchTells \/ RetryAdd
  <2>1. CASE WatchBuilds
    <3>1. watch' \in Watches
      <4>1. "tell" \in WatchPlaces /\ watch \in Watches /\ face \in Faces
        BY DEF WatchPlaces, history, TrayInv, TrayTypes
      <4>2. [watch EXCEPT !.at = "tell", !.data = face] \in Watches
        BY <4>1 DEF Watches
      <4> QED BY <2>1, <4>2 DEF WatchBuilds
    <3> QED BY <2>1, <3>1 DEF WatchBuilds, history, TrayInv, TrayTypes
  <2>2. CASE WatchTells
    <3>1. watch.data \in Faces
      BY DEF history, TrayInv, TrayTypes, Watches
    <3> QED BY <1>2, <2>2, <3>1, BlankIs DEF WatchTells, history, TrayInv, TrayTypes
  <2>3. CASE RetryAdd
    BY <2>3 DEF RetryAdd, history, TrayInv, TrayTypes
  <2> QED BY <1>3, <2>1, <2>2, <2>3
<1>4. CASE UiStep \/ SetLang
  <2>1. CASE TaskbarCreated
    BY <2>1 DEF TaskbarCreated, history, TrayInv, TrayTypes
  <2>2. CASE UiBuilds
    BY <2>2 DEF UiBuilds, history, TrayInv, TrayTypes
  <2>3. CASE UiTells
    BY <1>2, <2>3, BlankIs DEF UiTells, history, TrayInv, TrayTypes
  <2>4. CASE SetLang
    BY <2>4, FaceIs DEF SetLang, history, TrayInv, TrayTypes
  <2> QED BY <1>4, <2>1, <2>2, <2>3, <2>4 DEF UiStep
<1> QED BY <1>1, <1>3, <1>4

\* The tray comes and goes, and the world around it changes.
LEMMA TypedRest ==
  ASSUME TrayInv,
         \/ ServiceStep \/ TrayStart \/ Exit \/ Quits \/ GoesDown \/ ShellStarts \/ ShellEnds
         \/ \E s \in Scripts : MenuItem(s) \/ OpenConsole(s) \/ QuitAll(s)
         \/ UNCHANGED vars
  PROVE  TrayTypes'
<1>1. CASE TrayStart
  <2>1. url' \in Ports
    BY <1>1, ServiceAssumption DEF TrayStart, FirstOf, history, TrayInv, TrayTypes, Plain, TypeOK
  <2>2. icon' \in Faces \cup {None} /\ face' \in Faces /\ retry' \in BOOLEAN
    BY <1>1 DEF TrayStart, Faces, history, TrayInv, TrayTypes
  <2> QED BY <1>1, <2>1, <2>2, BlankIs DEF TrayStart, history, TrayInv, TrayTypes
<1>2. CASE Exit \/ Quits
  <2>1. Ends
    BY <1>2 DEF Exit, Quits
  <2> QED BY <2>1, BlankIs DEF Ends, Faces, history, TrayInv, TrayTypes
<1>3. CASE GoesDown \/ ShellStarts \/ ShellEnds
  <2>1. CASE GoesDown
    BY <2>1 DEF GoesDown, trayVars, history, TrayInv, TrayTypes
  <2>2. CASE ShellStarts
    BY <2>2 DEF ShellStarts, trayVars, history, TrayInv, TrayTypes
  <2>3. CASE ShellEnds
    BY <2>3 DEF ShellEnds, history, TrayInv, TrayTypes
  <2> QED BY <1>3, <2>1, <2>2, <2>3
<1>4. CASE ServiceStep \/ UNCHANGED vars
  BY <1>4 DEF ServiceStep, vars, trayVars, history, TrayInv, TrayTypes
<1>5. ASSUME NEW s \in Scripts, MenuItem(s) \/ OpenConsole(s) \/ QuitAll(s) PROVE TrayTypes'
  <2>1. CASE MenuItem(s) \/ OpenConsole(s)
    <3>1. UNCHANGED <<down, shell, posted, trayVars>>
      BY <2>1 DEF MenuItem, OpenConsole
    <3> QED BY <3>1 DEF trayVars, history, TrayInv, TrayTypes
  <2>2. CASE QuitAll(s)
    BY <2>2 DEF QuitAll, history, TrayInv, TrayTypes
  <2> QED BY <1>5, <2>1, <2>2
<1> QED BY <1>1, <1>2, <1>3, <1>4, <1>5

\* Every step keeps the types.
LEMMA TrayKeeps == TrayInv /\ [TrayNext]_vars => TrayInv'
<1> SUFFICES ASSUME TrayInv, [TrayNext]_vars PROVE TrayInv'
  OBVIOUS
<1>1. Plain'
  BY PlainBeside DEF TrayInv
<1>2. TrayTypes'
  BY TypedPoll, TypedTell, TypedRest DEF TrayNext, WatchStep
<1> QED BY <1>1, <1>2 DEF TrayInv

(***************************************************************************)
(* What the tray keeps has its types, beside a service that keeps its own: *)
(* a tray that polls always has a port to ask (tray_windows.go 704-733).   *)
(***************************************************************************)
THEOREM TrayTyped == TraySpec => []TrayTypeOK
<1>1. TrayInv => TrayTypeOK
  BY DEF TrayInv, TrayTypes, Plain, TrayTypeOK, Watches, WatchPlaces
<1> QED BY <1>1, TrayBegins, TrayKeeps, PTL DEF TraySpec

-----------------------------------------------------------------------------

(***************************************************************************)
(* The tray gets counts, so that of two targets one can hide behind the    *)
(* other.                                                                  *)
(***************************************************************************)
OneTarget == Cardinality(Targets) <= 1

\* A count belongs to what was seen with it, up to the next poll; and a target
\* that the last answer counted has been told of, or could not be.
TellsInv ==
  /\ prev # None => prev = status
  /\ watch.at = "publish" /\ watch.st.reachable => watch.st.down = Cardinality(seen)
  /\ prev # None /\ prev.reachable =>
       /\ watch.at \in {"poll", "build", "tell"} => prev.down = Cardinality(seen)
       /\ prev.down > 0 => Targets \subseteq told \cup unsaid

\* Of one target, nothing or all is seen.
LEMMA SeenAll ==
  ASSUME OneTarget, NEW S, S \subseteq Targets
  PROVE  /\ Cardinality(S) \in Nat
         /\ Cardinality(S) > 0 => S = Targets
         /\ Cardinality(S) = 0 => S = {}
<1>1. IsFiniteSet(S) /\ Cardinality(S) <= Cardinality(Targets)
      /\ (Cardinality(S) = Cardinality(Targets) => S = Targets)
  BY TrayAssumption, FS_Subset, Zenon
<1>2. Cardinality(S) \in Nat /\ Cardinality(Targets) \in Nat
  BY <1>1, TrayAssumption, FS_CardinalityType
<1>3. Cardinality(S) = 0 => S = {}
  BY <1>1, FS_EmptySet
<1> QED BY <1>1, <1>2, <1>3 DEF OneTarget

\* A poll's count is of what it saw.
LEMMA TellsPoll ==
  ASSUME TrayInv, TellsInv, Poll \/ Try \/ Settle
  PROVE  TellsInv'
<1>1. FetchHealth(url).reachable => FetchHealth(url).down = Cardinality(down)
  BY FetchIs DEF TrayInv, TrayTypes
<1>2. UNCHANGED <<prev, status, told, unsaid>>
  BY DEF Poll, Try, Settle, history
<1>3. /\ watch'.at \in {"publish", "find", "again"}
      /\ watch'.at = "publish" /\ watch'.st.reachable => watch'.st.down = Cardinality(seen')
  <2>0. watch \in Watches
    BY DEF TrayInv, TrayTypes
  <2>1. CASE Poll
    <3>1. \/ /\ watch' = [watch EXCEPT !.at = "publish", !.st = FetchHealth(url)]
             /\ seen' = down
          \/ watch' = [watch EXCEPT !.at = "find", !.left = Without(Candidates(status.configured), url)]
      BY <2>1 DEF Poll, Look
    <3>2. CASE watch' = [watch EXCEPT !.at = "find", !.left = Without(Candidates(status.configured), url)]
      <4>1. watch'.at = "find"
        BY <2>0, <3>2 DEF Watches
      <4> QED BY <4>1
    <3>3. CASE watch' = [watch EXCEPT !.at = "publish", !.st = FetchHealth(url)] /\ seen' = down
      <4>1. watch'.at = "publish" /\ watch'.st = FetchHealth(url)
        BY <2>0, <3>3 DEF Watches
      <4> QED BY <1>1, <3>3, <4>1
    <3> QED BY <3>1, <3>2, <3>3
  <2>2. CASE Try
    <3>1. \E p : \/ watch' = [watch EXCEPT !.at = "again", !.left = NoPorts]
                 \/ watch' = [watch EXCEPT !.left = Without(@, p)]
      BY <2>2 DEF Try
    <3>2. watch.at = "find"
      BY <2>2 DEF Try
    <3> QED BY <2>0, <3>1, <3>2 DEF Watches
  <2>3. CASE Settle
    <3>1. \/ watch' = [watch EXCEPT !.at = "publish", !.st = Silent]
          \/ watch' = [watch EXCEPT !.at = "publish", !.st = FetchHealth(url)] /\ seen' = down
      BY <2>3 DEF Settle, Look
    <3> QED BY <1>1, <2>0, <3>1, BlankIs DEF Watches
  <2> QED BY <2>1, <2>2, <2>3
<1> QED BY <1>2, <1>3 DEF TellsInv

\* What is announced is told of where there is an icon, and noted where there
\* is none.
LEMMA TellsAnnounce ==
  ASSUME TrayInv, TellsInv, OneTarget, Announce
  PROVE  TellsInv'
<1> DEFINE h == watch.st
<1>1. h \in Health /\ watch \in Watches /\ watch.at = "publish" /\ seen \subseteq Targets
  BY DEF Announce, TrayInv, TrayTypes, Watches
<1>2. status' = h /\ prev' = h /\ told' = Told(h) /\ unsaid' = Unsaid(h) /\ seen' = seen
  BY DEF Announce
<1>3. watch'.at \in {"poll", "build"}
  <2>1. \/ watch' = [watch EXCEPT !.at = "poll", !.st = Silent]
        \/ watch' = [watch EXCEPT !.at = "build", !.st = Silent]
    BY DEF Announce
  <2> QED BY <1>1, <2>1 DEF Watches
<1>4. h.reachable => h.down = Cardinality(seen) /\ h.down \in Nat
  BY <1>1, SeenAll DEF TellsInv
<1>5. ASSUME h.reachable, h.down > 0 PROVE Targets \subseteq Told(h) \cup Unsaid(h)
  <2>1. seen = Targets
    BY <1>1, <1>4, <1>5, SeenAll
  <2>2. CASE prev = None \/ Counts(h)
    <3> HIDE DEF h
    <3>1. Told(h) = seen \/ (Told(h) = told \cap seen /\ Unsaid(h) = seen \ told)
      BY <1>5, <2>2 DEF Told, Unsaid, Counts
    <3> QED BY <2>1, <3>1
  <2>3. CASE prev # None /\ ~Counts(h)
    <3>1. prev.reachable /\ ~(h.down > prev.down)
      <4>1. prev \in Health
        BY <2>3 DEF TrayInv, TrayTypes
      <4> QED BY <1>5, <2>3, <4>1 DEF Counts, Balloon, Health
    <3>2. prev.down > 0
      <4>1. prev.down \in Nat
        BY <2>3 DEF TrayInv, TrayTypes, Health
      <4> QED BY <1>4, <1>5, <3>1, <4>1
    <3>3. Targets \subseteq told \cup unsaid
      BY <2>3, <3>1, <3>2 DEF TellsInv
    <3> HIDE DEF h
    <3>4. Told(h) = told \cap seen /\ Unsaid(h) = unsaid \cap seen
      BY <1>5, <2>3 DEF Told, Unsaid
    <3> QED BY <2>1, <3>3, <3>4
  <2> QED BY <2>2, <2>3
<1> HIDE DEF h
<1> QED BY <1>2, <1>3, <1>4, <1>5 DEF TellsInv

\* Nothing else tells or counts.
LEMMA TellsRest ==
  ASSUME TrayInv, TellsInv, [TrayNext]_vars, ~(Poll \/ Try \/ Settle \/ Announce)
  PROVE  TellsInv'
<1>0. watch \in Watches
  BY DEF TrayInv, TrayTypes
<1>1. CASE UNCHANGED <<prev, status, told, unsaid, seen, watch>>
  BY <1>1 DEF TellsInv
<1>2. CASE WatchBuilds
  <2>1. watch'.at = "tell" /\ watch.at = "build"
    BY <1>0, <1>2 DEF WatchBuilds, Watches
  <2> QED BY <1>2, <2>1 DEF WatchBuilds, TellsInv
<1>3. CASE WatchTells
  BY <1>3, BlankIs DEF WatchTells, TellsInv
<1>4. CASE TrayStart \/ Exit \/ Quits
  <2>1. prev' = None /\ watch' = Waiting
    BY <1>4 DEF TrayStart, Exit, Quits, Ends
  <2> QED BY <2>1, BlankIs DEF TellsInv
<1>5. CASE RetryAdd \/ UiStep \/ SetLang
  BY <1>1, <1>5 DEF RetryAdd, UiStep, TaskbarCreated, UiBuilds, UiTells, SetLang, history
<1>6. CASE ServiceStep \/ GoesDown \/ ShellStarts \/ ShellEnds \/ UNCHANGED vars
  BY <1>1, <1>6 DEF ServiceStep, GoesDown, ShellStarts, ShellEnds, vars, trayVars, history
<1>7. ASSUME NEW s \in Scripts, MenuItem(s) \/ OpenConsole(s) \/ QuitAll(s) PROVE TellsInv'
  BY <1>1, <1>7 DEF MenuItem, OpenConsole, QuitAll, trayVars, history
<1> QED
  BY <1>2, <1>3, <1>4, <1>5, <1>6, <1>7 DEF TrayNext, WatchStep

(***************************************************************************)
(* The icon.  It shows the face that was set last, as long as the polling  *)
(* goroutine was the later of two that were in the shell's call at once.   *)
(***************************************************************************)
\* While one goroutine is on its way to the shell, what it has for it is the
\* face; and the face is that of what the last poll saw.
IconInv ==
  /\ prev = None => ~status.reachable /\ face \in {"starting", "silent"}
  /\ prev # None => face = Face(status)
  /\ watch.at \in {"build", "tell"} => prev # None
  /\ watch.at = "tell" => watch.data = face
  /\ ~crossed /\ ui.at = "tell" => ui.data = face \/ watch.at = "build"
  /\ ~crossed /\ icon # None /\ watch.at \notin {"build", "tell"}
       => icon = face \/ face = "silent" \/ prev = None

\* A tray that is not there shows nothing.
LEMMA IconBegins == TrayInit => IconInv
BY BlankIs DEF TrayInit, IconInv, Waiting, Resting

\* The polling goroutine sets the icon to what it saw.
LEMMA IconWatch ==
  ASSUME TrayInv, IconInv, WatchStep
  PROVE  IconInv'
<1>0. watch \in Watches /\ face \in Faces
  BY DEF TrayInv, TrayTypes
<1>1. CASE Poll \/ Try \/ Settle
  <2>1. /\ UNCHANGED <<prev, status, face, icon, ui, crossed>>
        /\ watch.at \in {"poll", "find", "again"}
    BY <1>1 DEF Poll, Try, Settle, history
  <2>2. watch'.at \in {"publish", "find", "again"}
    <3>1. \E a \in {"publish", "find", "again"} : \E x :
            \/ watch' = [watch EXCEPT !.at = a, !.st = x]
            \/ watch' = [watch EXCEPT !.at = a, !.left = x]
            \/ watch' = [watch EXCEPT !.left = x] /\ watch.at = a
      BY <1>1 DEF Poll, Try, Settle, Look
    <3> QED BY <1>0, <3>1 DEF Watches
  <2> QED BY <2>1, <2>2 DEF IconInv
<1>2. CASE Announce
  <2>1. /\ watch.at = "publish" /\ UNCHANGED <<ui, crossed>>
        /\ status' = watch.st /\ prev' = watch.st /\ face' = Face(watch.st)
        /\ icon' = face \/ icon' = icon
    BY <1>2 DEF Announce
  <2>2. watch'.at = IF face' = face THEN "poll" ELSE "build"
    BY <1>0, <1>2 DEF Announce, Unchanged, Watches
  <2>3. prev' # None
    <3>1. watch.st \in Health
      BY <1>0 DEF Watches
    <3> QED BY <2>1, <3>1, NoneAssumption
  <2>4. face' \in {"silent", "up", "down"}
    BY <2>1 DEF Face
  <2> QED BY <2>1, <2>2, <2>3, <2>4 DEF IconInv
<1>3. CASE WatchBuilds
  <2>1. watch'.at = "tell" /\ watch'.data = face
    BY <1>0, <1>3 DEF WatchBuilds, Watches
  <2>2. UNCHANGED <<prev, status, face, icon, ui>> /\ watch.at = "build"
    BY <1>3 DEF WatchBuilds
  <2>3. crossed' = (crossed \/ ui.at = "tell")
    BY <1>3 DEF WatchBuilds
  <2>4. ~crossed' => ui.at # "tell"
    BY <2>3
  <2> QED BY <2>1, <2>2, <2>4 DEF IconInv
<1>4. CASE WatchTells
  <2>1. UNCHANGED <<prev, status, face, ui>> /\ watch.at = "tell" /\ watch' = Waiting
        /\ icon' = Modified(watch.data)
    BY <1>4 DEF WatchTells
  <2>2. watch.data = face /\ prev # None
    BY <2>1 DEF IconInv
  <2>3. icon' \in {None, face}
    BY <2>1, <2>2 DEF Modified
  <2>4. ~crossed' => ~(crossed /\ ui.at = "tell")
    BY <1>4 DEF WatchTells
  <2>5. ~crossed' /\ ui.at = "tell" => ui.data = face
    BY <2>1, <2>4 DEF IconInv
  <2> QED BY <2>1, <2>2, <2>3, <2>5, BlankIs DEF IconInv
<1>5. CASE RetryAdd
  <2>1. UNCHANGED <<prev, status, face, ui, watch, crossed>> /\ icon' \in {icon, face}
    BY <1>5 DEF RetryAdd, history
  <2> QED BY <2>1 DEF IconInv
<1> QED BY <1>1, <1>2, <1>3, <1>4, <1>5 DEF WatchStep

\* So does the message thread, if the polling goroutine has nothing newer.
LEMMA IconUi ==
  ASSUME TrayInv, TellsInv, IconInv, UiStep \/ SetLang
  PROVE  IconInv'
<1>1. CASE TaskbarCreated
  <2>1. UNCHANGED <<prev, status, face, ui, watch, crossed>> /\ icon' \in {icon, face}
    BY <1>1 DEF TaskbarCreated, history
  <2> QED BY <2>1 DEF IconInv
<1>2. CASE UiBuilds
  <2>1. /\ UNCHANGED <<prev, status, face, icon, watch>>
        /\ ui'.at = "tell" /\ ui'.data = face
    BY <1>2 DEF UiBuilds
  <2>2. ~crossed' => ~crossed
    BY <1>2 DEF UiBuilds
  <2> QED BY <2>1, <2>2 DEF IconInv
<1>3. CASE UiTells
  <2>1. /\ UNCHANGED <<prev, status, face, watch, crossed>> /\ ui.at = "tell"
        /\ ui'.at = "idle" /\ icon' = Modified(ui.data)
    BY <1>3 DEF UiTells, Resting, history
  <2>2. icon' \in {None, face, ui.data}
    BY <2>1 DEF Modified
  <2>3. ~crossed /\ watch.at \notin {"build", "tell"} => ui.data = face
    BY <2>1 DEF IconInv
  <2> QED BY <2>1, <2>2, <2>3 DEF IconInv
<1>4. CASE SetLang
  <2>1. /\ UNCHANGED <<prev, status, icon, watch, crossed>> /\ face' = Face(status)
        /\ ui'.at = "build"
    <3>1. ui \in [at : {"idle", "build", "tell"}, data : Faces]
      BY DEF TrayInv, TrayTypes
    <3> QED BY <1>4, <3>1 DEF SetLang, history
  <2>2. prev = None => face' = "silent"
    BY <2>1 DEF IconInv, Face
  <2>3. prev # None => face' = face
    BY <2>1 DEF IconInv
  <2> QED BY <2>1, <2>2, <2>3 DEF IconInv
<1> QED BY <1>1, <1>2, <1>3, <1>4 DEF UiStep

\* Nothing else sets it, but that it is gone with the shell or the tray.
LEMMA IconRest ==
  ASSUME TrayInv, IconInv, [TrayNext]_vars, ~(WatchStep \/ UiStep \/ SetLang)
  PROVE  IconInv'
<1>1. CASE UNCHANGED <<prev, status, face, icon, watch, ui, crossed>>
  BY <1>1 DEF IconInv
<1>2. CASE ShellEnds
  BY <1>2 DEF ShellEnds, history, IconInv
<1>3. CASE TrayStart \/ Exit \/ Quits
  <2>1. /\ prev' = None /\ status' = Silent /\ face' = "starting"
        /\ watch' = Waiting /\ ui' = Resting
    BY <1>3 DEF TrayStart, Exit, Quits, Ends
  <2> QED BY <2>1, BlankIs DEF IconInv, Waiting, Resting
<1>4. CASE ServiceStep \/ GoesDown \/ ShellStarts \/ UNCHANGED vars
  BY <1>1, <1>4 DEF ServiceStep, GoesDown, ShellStarts, vars, trayVars, history
<1>5. ASSUME NEW s \in Scripts, MenuItem(s) \/ OpenConsole(s) \/ QuitAll(s) PROVE IconInv'
  BY <1>1, <1>5 DEF MenuItem, OpenConsole, QuitAll, trayVars, history
<1> QED BY <1>2, <1>3, <1>4, <1>5 DEF TrayNext

(***************************************************************************)
(* Once a poll is over, a target it saw down has been told of by a balloon *)
(* while there was an icon to carry it, or was down at the first poll or   *)
(* while there was none, and then an icon that is there shows it, whatever *)
(* happened to the console, the shell and the tray since (tray_windows.go  *)
(* 358-367, 671-697).                                                      *)
(***************************************************************************)
THEOREM DownIsMadeKnown == OneTarget /\ TraySpec => []DownIsTold
<1> SUFFICES ASSUME OneTarget PROVE TraySpec => []DownIsTold
  OBVIOUS
<1> DEFINE Inv == TrayInv /\ TellsInv /\ IconInv
<1>1. TrayInit => Inv
  <2>1. TrayInit => TellsInv
    BY BlankIs DEF TrayInit, TellsInv
  <2> QED BY <2>1, TrayBegins, IconBegins
<1>2. Inv /\ [TrayNext]_vars => Inv'
  BY TrayKeeps, TellsPoll, TellsAnnounce, TellsRest, IconWatch, IconUi, IconRest
<1>3. Inv => DownIsTold
  <2> SUFFICES ASSUME Inv, on, prev # None, status.reachable, watch.at = "poll"
               PROVE  /\ seen \subseteq told \cup unsaid
                      /\ icon # None /\ ~crossed /\ seen # {} => icon = "down"
    BY DEF DownIsTold
  <2>1. seen \subseteq Targets /\ prev = status /\ prev.down = Cardinality(seen)
        /\ (prev.down > 0 => Targets \subseteq told \cup unsaid)
    BY DEF TellsInv, TrayInv, TrayTypes
  <2>2. Cardinality(seen) \in Nat /\ (Cardinality(seen) = 0 => seen = {})
    BY <2>1, SeenAll
  <2>3. seen # {} => prev.down > 0
    BY <2>1, <2>2
  <2>4. seen # {} => face = "down"
    BY <2>1, <2>3 DEF IconInv, Face
  <2> QED BY <2>1, <2>3, <2>4 DEF IconInv
<1> QED BY <1>1, <1>2, <1>3, PTL DEF TraySpec

=============================================================================
