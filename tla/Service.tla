------------------------------ MODULE Service ------------------------------
(***************************************************************************)
(* The installed Windows service and what has to agree with it: the        *)
(* address stored in the settings, the address the running process listens *)
(* on, the firewall rule and the port published for other programs         *)
(* (settings.go, web.go, app.go, service_windows.go, firewall_windows.go). *)
(*                                                                         *)
(* Elevated command lines - install, uninstall, and what the tray's menu   *)
(* starts - run beside the service one command at a time; the service      *)
(* manager itself is modelled from how the code uses it.  A declined       *)
(* consent prompt is a command line that never begins.                     *)
(***************************************************************************)
EXTENDS Naturals, FiniteSets

CONSTANTS
  Ports,        \* console ports
  DefaultPort,  \* 8518
  Binds,        \* bind addresses this machine can listen on
  Loopback,     \* 127.0.0.1
  Exes,         \* installed copies of the program
  Scripts,      \* elevated command lines in flight
  Modes,        \* the kinds of behaviors there are, of those below
  None

ASSUME ServiceAssumption ==
  /\ DefaultPort \in Ports /\ None \notin Ports
  /\ Loopback \in Binds /\ None \notin Binds
  /\ None \notin Exes
  /\ None \notin [port : Ports, bind : Binds] /\ None \notin {0, 1, 11}
  /\ Modes \subseteq {"restart", "upgrade", "menu", "rough"}

VARIABLES
  stored,   \* settings console_port and console_bind, None where never set
  saving,   \* the bind address a settings request has still to store, or None
  entry,    \* the service's registration
  state,    \* what the service manager says of the process
  recover,  \* the service manager will start the service by itself
  exe,      \* the program the registration names
  ran,      \* the program the process was started from
  listen,   \* the address the process listens on, or None
  rule,     \* the port the firewall rule admits, or None
  info,     \* the port published in the registry, or None
  script,   \* the elevated command lines
  old,      \* history: what became of the process an install had to stop
  mode      \* the kind of this behavior

settingVars == <<stored, saving>>
procVars == <<state, recover, ran, listen, old>>
outVars == <<rule, info>>
serviceVars == <<stored, saving, entry, state, recover, exe, ran, listen, rule,
                 info, script, old, mode>>

Address == [port : Ports, bind : Binds]

Verbs == {"install", "uninstall", "restart", "stop", "start"}

Script == [verb : Verbs \cup {"none"},
           at   : {"done", "netstop", "stopping", "firewall", "rule", "publish",
                   "netstart", "install", "open", "stop", "stopwait", "update",
                   "create", "grant", "startit", "verify", "control", "delete",
                   "withdraw", "unpublish"},
           port : Ports \cup {None},
           exe  : Exes \cup {None},
           addr : Address \cup {None},
           code : {0, 1, 11, None}]

NoScript == [verb |-> "none", at |-> "done", port |-> None, exe |-> None,
             addr |-> None, code |-> None]

Unset == [port |-> None, bind |-> None]

\* One command line at a time, nothing fails, nobody else interferes; what is
\* slow is slow.
calm == mode # "rough"

Busy == {s \in Scripts : script[s].at # "done"}

-----------------------------------------------------------------------------

Init ==
  /\ stored = Unset /\ saving = None
  /\ entry = "none" /\ exe = None
  /\ state = "stopped" /\ recover = FALSE /\ ran = None /\ listen = None
  /\ rule = None /\ info = None
  /\ script = [s \in Scripts |-> NoScript] /\ old = "stopped"
  /\ mode \in Modes

-----------------------------------------------------------------------------

(***************************************************************************)
(* Settings.  A service has no flags on its command line, so the stored    *)
(* address decides, and the default where nothing is stored.               *)
(***************************************************************************)
\* Mutant: a port that was never set has no default.
AddressUnset(s) ==
  [port |-> s.port, bind |-> IF s.bind = None THEN Loopback ELSE s.bind]

AddressOf(s) ==
  [port |-> IF s.port = None THEN DefaultPort ELSE s.port,
   bind |-> IF s.bind = None THEN Loopback ELSE s.bind]

(***************************************************************************)
(* POST /api/settings/port: the port is stored, then the bind address; a   *)
(* request leaves out what it does not change.                             *)
(***************************************************************************)
SavePort ==
  /\ state = "running" /\ listen # None /\ saving = None
  /\ \E p \in Ports \cup {None}, b \in Binds \cup {None} :
       /\ <<p, b>> # <<None, None>>
       /\ stored' = [stored EXCEPT !.port = IF p = None THEN @ ELSE p]
       /\ saving' = b
  /\ UNCHANGED <<entry, exe, procVars, outVars, script, mode>>

SaveBind ==
  /\ saving # None
  /\ \/ stored' = [stored EXCEPT !.bind = saving]
     \/ ~calm /\ UNCHANGED stored
  /\ saving' = None
  /\ UNCHANGED <<entry, exe, procVars, outVars, script, mode>>

-----------------------------------------------------------------------------

(***************************************************************************)
(* The process.  Execute reports Running only once startApp has bound the  *)
(* listeners; whatever fails before that ends the process.                 *)
(***************************************************************************)
Launch == state' = "starting" /\ ran' = exe /\ UNCHANGED listen

\* Mutant: the listeners are opened by the serving goroutine, later.
ReportAtOnce ==
  /\ state = "starting"
  /\ state' = "running"
  /\ UNCHANGED <<settingVars, entry, exe, recover, ran, listen, old, outVars, script, mode>>

Listen ==
  /\ state = "starting" /\ listen = None
  /\ listen' = AddressOf(stored)
  /\ UNCHANGED <<settingVars, entry, exe, state, recover, ran, old, outVars, script, mode>>

Report ==
  /\ state = "starting" /\ listen # None
  /\ state' = "running"
  /\ UNCHANGED <<settingVars, entry, exe, recover, ran, listen, old, outVars, script, mode>>

StartFails ==
  /\ ~calm
  /\ state = "starting" /\ listen = None
  /\ state' = "stopped" /\ ran' = None /\ old' = "stopped"
  /\ UNCHANGED <<settingVars, entry, exe, recover, listen, outVars, script, mode>>

(***************************************************************************)
(* A stop is accepted by a running service only.  shutdown closes the      *)
(* listeners first, lets requests finish, and ends with the process.       *)
(***************************************************************************)
CloseListeners ==
  /\ state = "stopping" /\ listen # None
  /\ listen' = None
  /\ UNCHANGED <<settingVars, entry, exe, state, recover, ran, old, outVars, script, mode>>

Stopped ==
  /\ state = "stopping" /\ listen = None /\ saving = None
  /\ state' = "stopped" /\ ran' = None /\ old' = "stopped"
  /\ UNCHANGED <<settingVars, entry, exe, recover, listen, outVars, script, mode>>

(***************************************************************************)
(* A crash is answered by the recovery action, a reboot by the automatic   *)
(* start.  Command lines do not survive a reboot.                          *)
(***************************************************************************)
Crash ==
  /\ ~calm
  /\ state # "stopped"
  /\ state' = "stopped" /\ ran' = None /\ listen' = None /\ saving' = None
  /\ old' = "stopped"
  /\ recover' \in BOOLEAN
  /\ UNCHANGED <<stored, entry, exe, outVars, script, mode>>

Reboot ==
  /\ ~calm
  /\ state' = "stopped" /\ ran' = None /\ listen' = None /\ saving' = None
  /\ old' = "stopped"
  /\ recover' = (entry = "present")
  /\ IF entry = "leaving"
     THEN entry' = "none" /\ exe' = None
     ELSE UNCHANGED <<entry, exe>>
  /\ script' = [s \in Scripts |-> NoScript]
  /\ UNCHANGED <<stored, outVars, mode>>

Recover ==
  /\ recover
  /\ recover' = FALSE
  /\ IF state = "stopped" /\ entry = "present"
     THEN Launch
     ELSE UNCHANGED <<state, ran, listen>>
  /\ UNCHANGED <<settingVars, entry, exe, old, outVars, script, mode>>

\* Somebody stops or starts it from services.msc.
Elsewhere ==
  /\ ~calm
  /\ \/ state = "running" /\ state' = "stopping" /\ UNCHANGED <<ran, listen>>
     \/ state = "stopped" /\ entry = "present" /\ Launch
  /\ UNCHANGED <<settingVars, entry, exe, recover, old, outVars, script, mode>>

-----------------------------------------------------------------------------

(***************************************************************************)
(* Command lines.                                                          *)
(***************************************************************************)
GoTo(s, place) == script' = [script EXCEPT ![s].at = place]

Finish(s, c) == script' = [script EXCEPT ![s] = [NoScript EXCEPT !.code = c]]

(***************************************************************************)
(* What an orderly behavior consists of: a first install and Restart of a  *)
(* running service; installs at any time, over a service that is on its    *)
(* way up or down, too; or what the menu offers.                           *)
(***************************************************************************)
Orderly(verb) ==
  /\ Busy = {}
  /\ \/ verb = "restart" /\ state = "running"
     \/ verb = "install" /\ entry = "none" /\ stored = Unset
     \/ verb = "install" /\ mode = "upgrade"
     \/ verb = "stop" /\ mode = "menu" /\ state = "running"
     \/ verb = "start" /\ mode = "menu" /\ state = "stopped"

Begin(s, j) ==
  /\ script[s].at = "done"
  /\ calm => Orderly(j.verb)
  /\ script' = [script EXCEPT ![s] = j]
  /\ UNCHANGED <<settingVars, entry, exe, procVars, outVars, mode>>

(***************************************************************************)
(* What the tray starts: net stop & firewall & net start, or one of them.  *)
(* net stop waits for the service to stop, and may give up.                *)
(***************************************************************************)
Menu(s, verb) ==
  Begin(s, [NoScript EXCEPT !.verb = verb,
              !.at = IF verb = "start" THEN "netstart" ELSE "netstop"])

AfterStop(s) ==
  IF script[s].verb = "restart" THEN GoTo(s, "firewall") ELSE Finish(s, None)

NetStop(s) ==
  /\ script[s].at = "netstop"
  /\ \/ state = "running" /\ state' = "stopping" /\ GoTo(s, "stopping")
     \/ state # "running" /\ AfterStop(s) /\ UNCHANGED state
  /\ UNCHANGED <<settingVars, entry, exe, recover, ran, listen, old, outVars, mode>>

NetStopped(s) ==
  /\ script[s].at = "stopping"
  /\ state = "stopped" \/ ~calm
  /\ AfterStop(s)
  /\ UNCHANGED <<settingVars, entry, exe, procVars, outVars, mode>>

NetStart(s) ==
  /\ script[s].at = "netstart"
  /\ IF state = "stopped" /\ entry = "present"
     THEN Launch
     ELSE UNCHANGED <<state, ran, listen>>
  /\ Finish(s, None)
  /\ UNCHANGED <<settingVars, entry, exe, recover, old, outVars, mode>>

(***************************************************************************)
(* The firewall verb reads the settings, points the rule at them and       *)
(* publishes the port.  Install does the last two with its own address.    *)
(***************************************************************************)
ReadSettings(s) ==
  /\ script[s].at = "firewall"
  /\ \/ script' = [script EXCEPT ![s].addr = AddressOf(stored), ![s].at = "rule"]
     \/ ~calm /\ GoTo(s, "netstart")
  /\ UNCHANGED <<settingVars, entry, exe, procVars, outVars, mode>>

RuleFor(a) == IF a.bind = Loopback THEN None ELSE a.port

\* applyFirewallRule deletes the rule first; adding it may fail.
PointRule(s) ==
  /\ script[s].at = "rule"
  /\ rule' \in {RuleFor(script[s].addr)} \cup (IF calm THEN {} ELSE {None})
  /\ GoTo(s, "publish")
  /\ UNCHANGED <<settingVars, entry, exe, procVars, info, mode>>

\* Mutant: only an install publishes.
PublishOnce(s) ==
  /\ script[s].at = "publish"
  /\ info' = IF script[s].verb = "install" THEN script[s].addr.port ELSE info
  /\ GoTo(s, IF script[s].verb = "install" THEN "startit" ELSE "netstart")
  /\ UNCHANGED <<settingVars, entry, exe, procVars, rule, mode>>

Publish(s) ==
  /\ script[s].at = "publish"
  /\ info' \in {script[s].addr.port} \cup (IF calm THEN {} ELSE {info})
  /\ GoTo(s, IF script[s].verb = "install" THEN "startit" ELSE "netstart")
  /\ UNCHANGED <<settingVars, entry, exe, procVars, rule, mode>>

-----------------------------------------------------------------------------

(***************************************************************************)
(* Install.  A port that was asked for is stored; the address for the rule *)
(* comes from the command line and the defaults.                           *)
(***************************************************************************)
Install(s) ==
  \E p \in Ports \cup {None}, e \in Exes :
    Begin(s, [NoScript EXCEPT !.verb = "install", !.at = "install", !.port = p,
                !.exe = e, !.addr = AddressOf([Unset EXCEPT !.port = p])])

InstallPort(s) ==
  /\ script[s].at = "install"
  /\ \/ /\ stored' = [stored EXCEPT !.port = IF script[s].port = None THEN @
                                                          ELSE script[s].port]
        /\ GoTo(s, "open")
     \/ ~calm /\ UNCHANGED stored /\ Finish(s, 1)
  /\ UNCHANGED <<saving, entry, exe, procVars, outVars, mode>>

OpenService(s) ==
  /\ script[s].at = "open"
  /\ GoTo(s, IF entry = "none" THEN "create" ELSE "stop")
  /\ UNCHANGED <<settingVars, entry, exe, procVars, outVars, mode>>

(***************************************************************************)
(* stopAndWait: a service that refuses the stop, because it is on its way  *)
(* up or down, is not waited for, and one that does not stop in time is    *)
(* updated all the same.                                                   *)
(***************************************************************************)
\* Mutant: the registration is updated under the running service.
StopOldSkipped(s) ==
  /\ script[s].at = "stop"
  /\ GoTo(s, "update")
  /\ UNCHANGED <<settingVars, entry, exe, procVars, outVars, mode>>

StopOld(s) ==
  /\ script[s].at = "stop"
  /\ \/ state = "running" /\ state' = "stopping" /\ GoTo(s, "stopwait") /\ UNCHANGED old
     \/ /\ state # "running" /\ GoTo(s, "update") /\ UNCHANGED state
        /\ old' = IF state = "starting" THEN "refused"
                  ELSE IF state = "stopping" THEN "late" ELSE old
  /\ UNCHANGED <<settingVars, entry, exe, recover, ran, listen, outVars, mode>>

\* Mutant: the stop request was accepted, so go on.
OldStoppedAtOnce(s) ==
  /\ script[s].at = "stopwait"
  /\ GoTo(s, "update")
  /\ UNCHANGED <<settingVars, entry, exe, procVars, outVars, mode>>

OldStopped(s) ==
  /\ script[s].at = "stopwait"
  /\ \/ state = "stopped" /\ UNCHANGED old
     \/ state # "stopped" /\ mode \in {"upgrade", "rough"} /\ old' = "late"
  /\ GoTo(s, "update")
  /\ UNCHANGED <<settingVars, entry, exe, state, recover, ran, listen, outVars, mode>>

Update(s) ==
  /\ script[s].at = "update"
  /\ \/ entry = "present" /\ exe' = script[s].exe /\ GoTo(s, "grant")
     \/ entry = "leaving" /\ GoTo(s, "create") /\ UNCHANGED exe
     \/ (entry = "none" \/ ~calm) /\ Finish(s, 1) /\ UNCHANGED exe
  /\ UNCHANGED <<settingVars, entry, procVars, outVars, mode>>

(***************************************************************************)
(* createWaitingOutDeletion tries again while the old registration is on   *)
(* its way out, until a deadline.                                          *)
(***************************************************************************)
Create(s) ==
  /\ script[s].at = "create"
  /\ \/ /\ entry = "none"
        /\ entry' = "present" /\ exe' = script[s].exe /\ recover' = FALSE
        /\ GoTo(s, "grant")
     \/ (entry # "none" \/ ~calm) /\ Finish(s, 1) /\ UNCHANGED <<entry, exe, recover>>
  /\ UNCHANGED <<settingVars, state, ran, listen, old, outVars, mode>>

\* Without write access to the data directory the service is left as it is.
Grant(s) ==
  /\ script[s].at = "grant"
  /\ \/ GoTo(s, "rule")
     \/ ~calm /\ Finish(s, 11)
  /\ UNCHANGED <<settingVars, entry, exe, procVars, outVars, mode>>

(***************************************************************************)
(* A start is refused while the service is not stopped; that it is running *)
(* already is no failure.  While the service manager is busy stopping it,  *)
(* either answer is possible.                                              *)
(***************************************************************************)
StartService(s) ==
  /\ script[s].at = "startit"
  /\ \/ state = "stopped" /\ entry = "present" /\ Launch /\ Finish(s, 0)
     \/ /\ state # "stopped"
        /\ Finish(s, 0) \/ (state = "stopping" /\ GoTo(s, "verify"))
        /\ UNCHANGED <<state, ran, listen>>
     \/ /\ state = "stopped" /\ (entry # "present" \/ ~calm)
        /\ GoTo(s, "verify")
        /\ UNCHANGED <<state, ran, listen>>
  /\ UNCHANGED <<settingVars, entry, exe, recover, old, outVars, mode>>

\* waitRunning: the outcome within 20 seconds decides.
Verify(s) ==
  /\ script[s].at = "verify"
  /\ \/ state = "running" /\ Finish(s, 0)
     \/ Finish(s, 11)
  /\ UNCHANGED <<settingVars, entry, exe, procVars, outVars, mode>>

-----------------------------------------------------------------------------

(***************************************************************************)
(* Uninstall: stop without waiting, delete, take back rule and port.  The  *)
(* settings stay.                                                          *)
(***************************************************************************)
Uninstall(s) ==
  /\ entry = "present"
  /\ Begin(s, [NoScript EXCEPT !.verb = "uninstall", !.at = "control"])

ControlStop(s) ==
  /\ script[s].at = "control"
  /\ state' = IF state = "running" THEN "stopping" ELSE state
  /\ GoTo(s, "delete")
  /\ UNCHANGED <<settingVars, entry, exe, recover, ran, listen, old, outVars, mode>>

Delete(s) ==
  /\ script[s].at = "delete"
  /\ \/ entry = "present" /\ entry' = "leaving" /\ GoTo(s, "withdraw")
     \/ Finish(s, 1) /\ UNCHANGED entry
  /\ UNCHANGED <<settingVars, exe, procVars, outVars, mode>>

Withdraw(s) ==
  /\ script[s].at = "withdraw"
  /\ rule' \in {None, rule}
  /\ GoTo(s, "unpublish")
  /\ UNCHANGED <<settingVars, entry, exe, procVars, info, mode>>

Unpublish(s) ==
  /\ script[s].at = "unpublish"
  /\ info' = None
  /\ Finish(s, 0)
  /\ UNCHANGED <<settingVars, entry, exe, procVars, rule, mode>>

(***************************************************************************)
(* A deleted registration goes when the process has ended and the last     *)
(* handle is closed.                                                       *)
(***************************************************************************)
Holds(s) == script[s].at \in {"stop", "stopwait", "update", "grant", "rule", "publish",
                              "startit", "verify", "control", "delete", "withdraw",
                              "unpublish"}
            /\ script[s].verb \in {"install", "uninstall"}

Gone ==
  /\ entry = "leaving" /\ state = "stopped"
  /\ \A s \in Scripts : ~Holds(s)
  /\ entry' = "none" /\ exe' = None
  /\ UNCHANGED <<settingVars, procVars, outVars, script, mode>>

-----------------------------------------------------------------------------

Process ==
  Listen \/ Report \/ StartFails \/ CloseListeners \/ Stopped \/ Recover \/ SaveBind

Interference == Crash \/ Reboot \/ Elsewhere \/ Gone

Command(s) ==
  \/ NetStop(s) \/ NetStopped(s) \/ NetStart(s)
  \/ ReadSettings(s) \/ PointRule(s) \/ Publish(s)
  \/ InstallPort(s) \/ OpenService(s) \/ StopOld(s) \/ OldStopped(s) \/ Update(s)
  \/ Create(s) \/ Grant(s) \/ StartService(s) \/ Verify(s)
  \/ ControlStop(s) \/ Delete(s) \/ Withdraw(s) \/ Unpublish(s)

Commands(s) ==
  \/ Install(s) \/ Uninstall(s)
  \/ \E verb \in {"restart", "stop", "start"} : entry = "present" /\ Menu(s, verb)
  \/ Command(s)

Next == Process \/ Interference \/ SavePort \/ \E s \in Scripts : Commands(s)

Spec == Init /\ [][Next]_serviceVars

-----------------------------------------------------------------------------

TypeOK ==
  /\ stored \in [port : Ports \cup {None}, bind : Binds \cup {None}]
  /\ saving \in Binds \cup {None}
  /\ entry \in {"none", "present", "leaving"}
  /\ state \in {"stopped", "starting", "running", "stopping"}
  /\ recover \in BOOLEAN
  /\ {exe, ran} \subseteq Exes \cup {None}
  /\ listen \in Address \cup {None}
  /\ {rule, info} \subseteq Ports \cup {None}
  /\ script \in [Scripts -> Script]
  /\ old \in {"stopped", "refused", "late"}
  /\ mode \in Modes

(***************************************************************************)
(* A service that says it is running has a console to open, and one that   *)
(* is stopped holds no address (app.go 32-36), whoever stops, starts,      *)
(* kills or reinstalls it.                                                 *)
(***************************************************************************)
RunningAnswers ==
  /\ state = "running" => listen # None
  /\ state = "stopped" => listen = None

(***************************************************************************)
(* Where the service is restarted with Restart, once the stored address is *)
(* the one listened on and no command line is at work, the firewall rule   *)
(* and the published port are that address's (service_windows.go 464-466). *)
(***************************************************************************)
Settled ==
  /\ Busy = {} /\ saving = None
  /\ state = "running" /\ listen = AddressOf(stored)

Agree == rule = RuleFor(listen) /\ info = listen.port

RuleFollows == mode = "restart" /\ Settled => Agree

\* The same where the program is also installed over itself.
UpgradeAgrees == mode = "upgrade" /\ Settled => Agree

(***************************************************************************)
(* In an orderly behavior a process that runs is the program that is       *)
(* registered, once no command line is at work (service_windows.go         *)
(* 561-564), however late the old one stops; unless an install found the   *)
(* service on its way up: then its stop was refused, its update and its    *)
(* start both succeeded, and the old program is what runs, against what    *)
(* 645-648 expect.                                                         *)
(***************************************************************************)
RunsRegistered == calm /\ Busy = {} /\ state = "running" /\ old # "refused" => ran = exe

(***************************************************************************)
(* In an orderly behavior an install that reports success leaves the       *)
(* service on its way up or running; unless the old process was still on   *)
(* its way down when the install went on.                                  *)
(***************************************************************************)
InstallStarts ==
  [][\A s \in Scripts :
       calm /\ old # "late" /\ script[s].verb = "install" /\ script'[s].code = 0
       => state' \in {"starting", "running"}]_serviceVars

=============================================================================
